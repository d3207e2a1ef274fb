-------------------------- MODULE MCSendIDCache --------------------------
(* A small instance of SendIDCache: names for its values only.             *)
EXTENDS SendIDCache

CONSTANTS p1, p2, l1, l2, i1, i2, i3
=============================================================================
