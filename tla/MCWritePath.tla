---------------------------- MODULE MCWritePath ----------------------------
(* Small instances of WritePath: constant values only.                     *)
EXTENDS WritePath, TLC

CONSTANTS s1, s2, s3

Symmetry == Permutations({s1, s2, s3})
=============================================================================
