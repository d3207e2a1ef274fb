------------------------------ MODULE MCStore ------------------------------
(* Small instances of Store: constant values only.                          *)
EXTENDS Store, TLC

\* Connections, agents and secrets are interchangeable.
Symmetric == Permutations(Secret) \cup Permutations(Conn) \cup Permutations(Agent)
=============================================================================
