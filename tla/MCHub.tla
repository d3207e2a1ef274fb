------------------------------- MODULE MCHub -------------------------------
(* Small instances of Hub: constant values only.                           *)
EXTENDS Hub, TLC

CONSTANTS c1, c2, c3, a1, a2, k1

DM(from, to, n) == [from |-> from, to |-> to, chan |-> None, id |-> n]
Post(from, chan, n) == [from |-> from, to |-> None, chan |-> chan, id |-> n]

\* c1 belongs to a1, c2 and c3 to a2.
TwoOfA2 == [c \in Conn |-> IF c = c1 THEN a1 ELSE a2]

TwoDMs == {DM(a1, a2, 1), DM(a1, a2, 2)}
PostAndDM == {Post(a1, k1, 1), DM(a1, a2, 1)}
=============================================================================
