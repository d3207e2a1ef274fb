---------------------------- MODULE SendIDCache ----------------------------
(***************************************************************************)
(* sendIDCache (src/hub/auth.go): per sender, a ring of the ids of accepted*)
(* sends that grows by appending up to sendIDCap and is then overwritten   *)
(* in place at a wrapping index.                                           *)
(*                                                                         *)
(* handleSend calls seen and add as two separate regions of the cache's    *)
(* mutex with the whole routing between them, so several read loops of one *)
(* agent (a connection and the one that evicted it) may be between them.   *)
(***************************************************************************)
EXTENDS Integers, Sequences

CONSTANTS
    Sender,   \* public keys
    Loop,     \* read loops that may be in handleSend
    Id,       \* dedupe keys, to|channel|id
    Cap,      \* sendIDCap
    None      \* a read loop that is not in handleSend

ASSUME SendIDConstants == Cap \in Nat \ {0} /\ None \notin Sender \X Id

VARIABLES
    ids,      \* [Sender -> Seq(Id)]       sendIDCache.ids
    next,     \* [Sender -> Nat]           sendIDCache.next
    job,      \* [Loop -> Sender \X Id]    seen said no; add is still to come
    overtaken \* [Loop -> BOOLEAN]         history: since its seen said no, another
              \* loop has latched the same id for the same sender

vars == <<ids, next, job, overtaken>>

Init ==
    /\ ids = [p \in Sender |-> << >>]
    /\ next = [p \in Sender |-> 0]
    /\ job = [l \in Loop |-> None]
    /\ overtaken = [l \in Loop |-> FALSE]

\* A mutation: the search starts at the overwrite index.
HoldsFromNext(p, i) == \E n \in DOMAIN ids[p] : n > next[p] /\ ids[p][n] = i

\* Go's index n is TLA+'s n + 1.
Holds(p, i) == \E n \in DOMAIN ids[p] : ids[p][n] = i

\* seen answered no: the frame goes on to be routed.
Seen(l, p, i) ==
    /\ job[l] = None
    /\ ~Holds(p, i)
    /\ job' = [job EXCEPT ![l] = <<p, i>>]
    /\ overtaken' = [overtaken EXCEPT ![l] = FALSE]
    /\ UNCHANGED <<ids, next>>

\* The frame was refused: its id does not latch.
Refused(l) ==
    /\ job[l] # None
    /\ job' = [job EXCEPT ![l] = None]
    /\ UNCHANGED <<ids, next, overtaken>>

\* A mutation: the index never moves.
WrapNever(n) == n
Wrap(n) == (n + 1) % Cap

Grows(p) == Len(ids[p]) < Cap

\* add.
Add(l) ==
    LET p == job[l][1]
        i == job[l][2]
    IN
    /\ job[l] # None
    /\ IF Grows(p)
       THEN /\ ids' = [ids EXCEPT ![p] = Append(@, i)]
            /\ UNCHANGED next
       ELSE /\ ids' = [ids EXCEPT ![p][next[p] + 1] = i]
            /\ next' = [next EXCEPT ![p] = Wrap(@)]
    /\ job' = [job EXCEPT ![l] = None]
    /\ overtaken' = [m \in Loop |-> m # l /\ (overtaken[m] \/ job[m] = job[l])]

Next ==
    \E l \in Loop :
        \/ \E p \in Sender, i \in Id : Seen(l, p, i)
        \/ Refused(l) \/ Add(l)

Spec == Init /\ [][Next]_vars

-----------------------------------------------------------------------------

TypeOK ==
    /\ ids \in [Sender -> Seq(Id)]
    /\ next \in [Sender -> 0 .. Cap - 1]
    /\ job \in [Loop -> (Sender \X Id) \cup {None}]
    /\ overtaken \in [Loop -> BOOLEAN]

\* The ring read from the oldest entry on.
Unrolled ==
    [p \in Sender |->
        LET n == Len(ids[p]) IN
        [k \in 1 .. n |-> ids[p][((next[p] + k - 1) % n) + 1]]]

Window == INSTANCE SendWindow WITH window <- Unrolled

\* The ring remembers exactly the last Cap accepted ids of each sender: at
\* the wrap-around it forgets the oldest one and no other.
RingIsWindow == Window!Spec

InWindow(p, i) == \E n \in DOMAIN ids[p] : ids[p][n] = i

\* protocol.md: "a duplicate accepted id within the hub's bounded per-sender dedupe
\* window is rejected".  What the code keeps of it while several read loops of one
\* agent run between seen and add: the id a loop is about to latch is in the window
\* already only if another loop latched it after this one had looked.  A retry that
\* begins after the first send was accepted is always refused.
OnlyOvertakenRepeat ==
    \A l \in Loop : job[l] # None /\ InWindow(job[l][1], job[l][2]) => overtaken[l]
=============================================================================
