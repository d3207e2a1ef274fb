--------------------------- MODULE MCNonceCache ---------------------------
(* A small instance of NonceCache, in units of 30 seconds: tsWindow is 10  *)
(* units, replayKeep 12 and nonceSweepEvery 2, as in the code.             *)
EXTENDS NonceCache

CONSTANTS p1, p2, n1, n2

H(p, n, t) == [pub |-> p, nonce |-> n, ts |-> t]

\* Two keys; a nonce used again in a later hello; timestamps on both sides of
\* the sweeps, one of them so late that the hub may see it first ten units early
\* and again when its nonce has expired.
Hellos == {H(p1, n1, 1), H(p1, n2, 12), H(p1, n1, 13), H(p2, n2, 4)}
=============================================================================
