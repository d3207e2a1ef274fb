---------------------------- MODULE SendWindow ----------------------------
(***************************************************************************)
(* What the hub promises of its send-id dedupe (auth.go): per sender, the  *)
(* ids of the last Cap accepted sends are remembered, no more and no       *)
(* fewer, and an older id is free again.                                   *)
(***************************************************************************)
EXTENDS Integers, Sequences

CONSTANTS Sender, Id, Cap

VARIABLE window   \* [Sender -> Seq(Id)]  accepted ids, oldest first

Init == window = [p \in Sender |-> << >>]

Remembers(p, i) == \E n \in DOMAIN window[p] : window[p][n] = i

\* Accepting an id makes the oldest one of a full window give way.
Accept(p, i) ==
    LET w == Append(window[p], i) IN
    window' = [window EXCEPT ![p] = IF Len(w) > Cap THEN Tail(w) ELSE w]

Next == \E p \in Sender, i \in Id : Accept(p, i)

Spec == Init /\ [][Next]_window
=============================================================================
