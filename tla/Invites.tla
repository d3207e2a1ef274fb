------------------------------ MODULE Invites ------------------------------
(***************************************************************************)
(* Invites by name (inviteByName, armInvite, deliverPendingInvites of      *)
(* mcp-bridge/src/client.ts; dap_invite and deliverPending of dsh-plugin/  *)
(* src/index.ts, the same engine) and the config file they are kept in     *)
(* (config.ts of both adapters).  A name that is not online is armed: kept *)
(* in memory and in config.json until a pass finds exactly one agent of    *)
(* the name online and sends it the channel's keys.                        *)
(*                                                                         *)
(* The processes of one machine share the file.  An action is one turn of  *)
(* a process' event loop; a write of the file takes effect in a step of    *)
(* its own, so that other processes may read and write in between.         *)
(***************************************************************************)
EXTENDS Integers, Sequences, SequencesExt

CONSTANTS
    Proc,   \* adapter processes of the machine
    Me,     \* the one the liveness property is about
    Entry,  \* pending invites, a name and a channel each
    Slot,   \* delivery passes at once; the code allows one
    None

\* No write under way is told from a write by None.
ASSUME NoneIsNoWrite == None \notin [list : Seq(Entry), stale : BOOLEAN]

VARIABLES
    file,        \* config.json: its invites; a file cut short reads as none
    writing,     \* [Proc -> None, or a write under way: [list, stale], the invites it will
                 \* leave and whether another process has written since it read]
    state,       \* [Proc -> "off", "on" or "up" (connected)]
    pending,     \* [Proc -> pendingInvites]
    delivering,  \* [Proc -> the flag]
    pass,        \* [Proc -> [Slot -> [st, i, entry, seen]]]: "idle", "ask" for the roster,
                 \* "dm" with the invite under way
    owed,        \* history: [Proc -> entries armed or loaded, with no DM sent since]
    promised     \* history: entries armed by some process, with no DM sent since, and not
                 \* lost to another process' list, a crash or a reader amid a write

memory == <<pending, delivering, pass, owed>>
vars == <<file, writing, state, memory, promised>>

Idle == [st |-> "idle", i |-> 0, entry |-> None, seen |-> {}]
Asks == [Idle EXCEPT !.st = "ask"]

Init ==
    /\ file = <<>>
    /\ writing = [p \in Proc |-> None]
    /\ state = [p \in Proc |-> "on"]
    /\ pending = [p \in Proc |-> <<>>]
    /\ delivering = [p \in Proc |-> FALSE]
    /\ pass = [p \in Proc |-> [k \in Slot |-> Idle]]
    /\ owed = [p \in Proc |-> {}]
    /\ promised = {}

----------------------------------------------------------------------------
(* The file. *)

Runs(p) == state[p] # "off" /\ writing[p] = None

\* What readDapConfig returns: amid another process' write the file is empty.
Readable(p) == {file} \cup {<<>> : q \in {r \in Proc \ {p} : writing[r] # None}}

\* persistDapConfig, which writes the whole file; a list of invites given to it
\* replaces the one read.
Persist(p, list) == writing' = [writing EXCEPT ![p] = [list |-> list, stale |-> FALSE]]

\* A mutation: a merge that starts from the update alone.
DropsInvites(list) == <<>>
Merged(list) == list

\* persistDapConfig for another field, an enrolled or purged secret or what
\* dap_connect was given: the invites are written back as read.
PersistOther(p) ==
    /\ Runs(p)
    /\ \E list \in Readable(p) :
         /\ Persist(p, Merged(list))
         /\ promised' = IF list = file THEN promised ELSE {}
    /\ UNCHANGED <<file, state, memory>>

\* The write of p is over; what the others read before it is stale.
EndsWrite(p) ==
    writing' = [q \in Proc |-> IF q = p \/ writing[q] = None THEN None
                               ELSE [writing[q] EXCEPT !.stale = writing[p] # None \/ @]]

\* writeFileSync ends.
Written(p) ==
    /\ writing[p] # None
    /\ file' = writing[p].list
    /\ EndsWrite(p)
    /\ promised' = IF writing[p].stale THEN promised \cap ToSet(file')
                   ELSE promised \cap (ToSet(file') \cup owed[p])
    /\ UNCHANGED <<state, memory>>

\* The process ends.  A write under way has happened, has not, or has emptied
\* the file.
Crash(p) ==
    /\ state[p] # "off"
    /\ state' = [state EXCEPT ![p] = "off"]
    /\ IF writing[p] = None
         THEN UNCHANGED <<file, promised>>
         ELSE /\ file' \in {file, writing[p].list, <<>>}
              /\ promised' = promised \cap ToSet(file')
    /\ EndsWrite(p)
    /\ pending' = [pending EXCEPT ![p] = <<>>]
    /\ delivering' = [delivering EXCEPT ![p] = FALSE]
    /\ pass' = [pass EXCEPT ![p] = [k \in Slot |-> Idle]]
    /\ owed' = [owed EXCEPT ![p] = {}]

\* The constructor, or apply: readDapConfig.
Start(p) ==
    /\ state[p] = "off"
    /\ state' = [state EXCEPT ![p] = "on"]
    /\ \E list \in Readable(p) :
         /\ pending' = [pending EXCEPT ![p] = list]
         /\ owed' = [owed EXCEPT ![p] = ToSet(list)]
    /\ UNCHANGED <<file, writing, delivering, pass, promised>>

----------------------------------------------------------------------------
(* Delivery. *)

\* A mutation: passes may overlap.
NeverBusy(p) == FALSE
Busy(p) == delivering[p]

\* pollPendingInvites / pollPending, by the timer, at each welcome and after an
\* arm: a pass begins with a presence query.
Polls(p, list) ==
    IF list = <<>> \/ Busy(p) \/ state'[p] # "up"
      THEN UNCHANGED <<delivering, pass>>
      ELSE LET k == CHOOSE k \in Slot : pass[p][k] = Idle
           IN  /\ \E j \in Slot : pass[p][j] = Idle
               /\ pass' = [pass EXCEPT ![p][k] = Asks]
               /\ delivering' = [delivering EXCEPT ![p] = TRUE]

Poll(p) ==
    /\ Runs(p) /\ state[p] = "up"
    /\ UNCHANGED state
    /\ Polls(p, pending[p])
    /\ UNCHANGED <<file, writing, pending, owed, promised>>

Welcome(p) ==
    /\ Runs(p) /\ state[p] = "on"
    /\ state' = [state EXCEPT ![p] = "up"]
    /\ Polls(p, pending[p])
    /\ UNCHANGED <<file, writing, pending, owed, promised>>

Drop(p) ==
    /\ Runs(p) /\ state[p] = "up"
    /\ state' = [state EXCEPT ![p] = "on"]
    /\ UNCHANGED <<file, writing, memory, promised>>

\* A mutation: the flag is cleared at the end of the loop only.
LeavesFlag(p) == delivering[p]
Released(p) == FALSE

\* The loop goes on below index i, or the pass ends.
LoopOn(p, k, list, i, seen) ==
    LET below == {j \in 1..(i - 1) : list[j] \in seen}
        j == CHOOSE n \in below : \A m \in below : m <= n
    IN  /\ pass' = [pass EXCEPT ![p][k] =
                      IF below = {} THEN Idle
                      ELSE [st |-> "dm", i |-> j, entry |-> list[j],
                            seen |-> seen \cap ToSet(SubSeq(list, 1, j - 1))]]
        /\ delivering' = IF below = {} THEN [delivering EXCEPT ![p] = FALSE] ELSE delivering

\* The presence answer: entries whose name has exactly one other agent online
\* are invited, from the last one down.
Snapshot(p, k, online) ==
    /\ Runs(p) /\ pass[p][k] = Asks /\ state[p] = "up"
    /\ LoopOn(p, k, pending[p], Len(pending[p]) + 1, online)
    /\ UNCHANGED <<file, writing, state, pending, owed, promised>>

\* presence() rejects: finally, and the failure is surfaced.
NoSnapshot(p, k) ==
    /\ Runs(p) /\ pass[p][k] = Asks
    /\ pass' = [pass EXCEPT ![p][k] = Idle]
    /\ delivering' = [delivering EXCEPT ![p] = Released(p)]
    /\ UNCHANGED <<file, writing, state, pending, owed, promised>>

Inviting(p, k) == pass[p][k].st = "dm"

\* invite() resolves, the DM is sent: splice, persist, next entry.
Invited(p, k) ==
    /\ Runs(p) /\ state[p] = "up" /\ Inviting(p, k)
    /\ LET at == pass[p][k]
           left == RemoveAt(pending[p], at.i)
       IN  /\ pending' = [pending EXCEPT ![p] = left]
           /\ Persist(p, left)
           /\ owed' = [owed EXCEPT ![p] = @ \ {at.entry}]
           /\ promised' = promised \ {at.entry}
           /\ LoopOn(p, k, left, at.i, at.seen)
    /\ UNCHANGED <<file, state>>

\* invite() rejects: the entry stays for the next pass.
NotInvited(p, k) ==
    /\ Runs(p) /\ Inviting(p, k)
    /\ LoopOn(p, k, pending[p], pass[p][k].i, pass[p][k].seen)
    /\ UNCHANGED <<file, writing, state, pending, owed, promised>>

\* armInvite, after a presence answer without the name, which may have come
\* online since.
Arm(p, e) ==
    /\ Runs(p) /\ state[p] = "up" /\ e \notin ToSet(pending[p])
    /\ UNCHANGED state
    /\ LET list == Append(pending[p], e)
       IN  /\ pending' = [pending EXCEPT ![p] = list]
           /\ Persist(p, list)
           /\ Polls(p, list)
    /\ owed' = [owed EXCEPT ![p] = @ \cup {e}]
    /\ promised' = promised \cup {e}
    /\ UNCHANGED file

\* dap_invite for an entry that is there: neither added nor written again.
ArmAgain(p, e) ==
    /\ Runs(p) /\ state[p] = "up" /\ e \in ToSet(pending[p])
    /\ UNCHANGED state
    /\ Polls(p, pending[p])
    /\ UNCHANGED <<file, writing, pending, owed, promised>>

Next ==
    \/ \E p \in Proc :
         \/ PersistOther(p) \/ Written(p) \/ Crash(p) \/ Start(p)
         \/ Poll(p) \/ Welcome(p) \/ Drop(p)
         \/ \E k \in Slot : NoSnapshot(p, k) \/ Invited(p, k) \/ NotInvited(p, k)
         \/ \E k \in Slot, online \in SUBSET Entry : Snapshot(p, k, online)
         \/ \E e \in Entry : Arm(p, e) \/ ArmAgain(p, e)

Spec == Init /\ [][Next]_vars

\* Process Me keeps taking turns and its timers fire; its queries, the ones that
\* show a given name online among them, and its DMs that are tried again and
\* again on a connection succeed at last.  The other processes may stop anywhere.
FairSpec ==
    /\ Spec
    /\ WF_vars(Written(Me)) /\ SF_vars(Poll(Me))
    /\ \A e \in Entry :
         /\ SF_vars(\E k \in Slot, online \in SUBSET Entry : e \in online /\ Snapshot(Me, k, online))
         /\ SF_vars(\E k \in Slot : Inviting(Me, k) /\ pass[Me][k].entry = e /\ Invited(Me, k))

----------------------------------------------------------------------------
(* Properties. *)

TypeOK ==
    /\ file \in Seq(Entry)
    /\ writing \in [Proc -> [list : Seq(Entry), stale : BOOLEAN] \cup {None}]
    /\ state \in [Proc -> {"off", "on", "up"}]
    /\ pending \in [Proc -> Seq(Entry)] /\ delivering \in [Proc -> BOOLEAN]
    /\ {promised} \cup {owed[p] : p \in Proc} \subseteq SUBSET Entry

\* An entry leaves a process' list exactly when its own DM has been sent, though
\* the splice uses an index taken before an await and entries are armed meanwhile.
DeliveredIsRemoved == \A p \in Proc : ToSet(pending[p]) = owed[p] /\ IsInjective(pending[p])

\* "entries survive restarts" (index.ts): an armed invite with no DM sent is in
\* the file or about to be, unless another process' list, or a crash or a reader
\* amid a write, took it out.
ArmedIsDurable ==
    \A e \in promised :
        e \in ToSet(file) \/ \E p \in Proc : writing[p] # None /\ e \in ToSet(writing[p].list)

\* An invite whose name keeps being seen online is delivered, whatever failed
\* before: no failure leaves the flag set, and no entry starves behind another.
EventuallyInvited ==
    \A e \in Entry : <>[](state[Me] = "up") => []<>(e \notin owed[Me])
=============================================================================
