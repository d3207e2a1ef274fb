------------------------------ MODULE MCGloss ------------------------------
(* Small instances of Gloss: constant values only.                          *)
EXTENDS Gloss

\* Two terms with the same skeleton, as "gateway router" and "great relay".
SameBase == [t \in Term |-> "gr"]
=============================================================================
