------------------------------ MODULE Presence ------------------------------
(***************************************************************************)
(* Presence queries between an adapter and the hub: hub/presence.go, and   *)
(* the waiters, the echo latch and the warm-up of both adapters' client.ts.*)
(* A current hub answers a query with its id as replyTo; a broadcast about *)
(* one agent carries none, and neither does the answer of a hub from       *)
(* before the echo, which an adapter cannot tell from a broadcast.         *)
(*                                                                         *)
(* An action is one turn of the adapter's event loop or one step of the    *)
(* hub.  The two directions of a connection are queues; a drop empties     *)
(* them.  External: hubs without the echo, and when agents come and go.    *)
(***************************************************************************)
EXTENDS Integers, Sequences, FiniteSets

CONSTANTS
    Adapters,  \* a subset of {"bridge", "plugin"}
    User,      \* callers of presence(): the tools and the invite pass
    MaxId,     \* queries of a behaviour, but for the warm-up's further attempts
    MaxDown    \* frames on their way to the adapter

ASSUME KnownAdapters == Adapters \subseteq {"bridge", "plugin"}
ASSUME BoundsAreNumbers == MaxId \in Nat /\ MaxDown \in Nat

VARIABLES
    adapter,  \* which of the two clients this is
    hub,      \* "echo" or "legacy"
    up,       \* connected: welcomed, on an open socket
    echoSeen, \* the latch; never reset
    ask,      \* [User -> [st, id, early]]: the caller's last query, how it ended, and
              \* whether it was asked before the latch was armed
    warm,     \* parked waiters of the warm-up, with their attempt
    next,     \* the next query id (randomUUID)
    queries,  \* ids on their way to the hub
    frames    \* presence frames on their way to the adapter

queryVars == <<adapter, hub, up, echoSeen, ask, warm, next, queries, frames>>

NoReply == 0

QueryInit ==
    /\ adapter \in Adapters /\ hub \in {"echo", "legacy"}
    /\ up = FALSE /\ echoSeen = FALSE
    /\ ask = [u \in User |-> [st |-> "idle", id |-> NoReply, early |-> FALSE]]
    /\ warm = {} /\ next = 1 /\ queries = <<>> /\ frames = <<>>

\* "lost": parked, with its query or its answer lost with a connection.
Parked(u) == ask[u].st \in {"parked", "lost"}
WithHub(u) == ask[u].st = "parked"

Ends(u, how) == [ask[u] EXCEPT !.st = how, !.id = NoReply]

Lose == [u \in User |-> IF WithHub(u) THEN [ask[u] EXCEPT !.st = "lost"] ELSE ask[u]]

\* Sends the next k ids.
Sends(k) ==
    /\ queries' = queries \o [i \in 1..k |-> next + i - 1]
    /\ next' = next + k

----------------------------------------------------------------------------
(* The adapter. *)

\* onWelcome: the warm-up asks unless the latch is armed.
OnWelcome ==
    /\ ~up /\ (echoSeen \/ next <= MaxId)
    /\ up' = TRUE
    /\ IF echoSeen
         THEN UNCHANGED <<warm, next, queries>>
         ELSE Sends(1) /\ warm' = warm \cup {[id |-> next, try |-> 0]}
    /\ UNCHANGED <<adapter, hub, echoSeen, ask, frames>>

\* presence().
Ask(u) ==
    /\ up /\ ~Parked(u) /\ next <= MaxId
    /\ Sends(1)
    /\ ask' = [ask EXCEPT ![u] = [st |-> "parked", id |-> next, early |-> ~echoSeen]]
    /\ UNCHANGED <<adapter, hub, up, echoSeen, warm, frames>>

\* The warm-up waiters that go on to another attempt.  The bridge's loop over its
\* Map also visits the waiters it parks meanwhile: one frame uses up all three.
\* The plugin loops over a copy, and each waiter asks once more.
Tries(ws) ==
    IF adapter = "bridge"
      THEN /\ Sends(2 * Cardinality(ws))
           /\ warm' = warm \ ws
      ELSE LET again == {w \in ws : w.try < 2}
               Place(w) == Cardinality({v \in again : v.id < w.id})
           IN  /\ Sends(Cardinality(again))
               /\ warm' = (warm \ ws) \cup
                    {[id |-> next + Place(w), try |-> w.try + 1] : w \in again}

\* A mutation: the latch is armed only when a waiter matches.
ArmsOnMatch(f) ==
    echoSeen \/ f.re \in {ask[u].id : u \in {v \in User : Parked(v)}} \cup {w.id : w \in warm}
Arms(f) == TRUE

\* replyTo present: it arms the latch, and completes the query with that id.
Echo(f) ==
    /\ f.re # NoReply
    /\ echoSeen' = Arms(f)
    /\ ask' = [u \in User |-> IF Parked(u) /\ ask[u].id = f.re
                                THEN Ends(u, "own") ELSE ask[u]]
    /\ warm' = {w \in warm : w.id # f.re}
    /\ UNCHANGED <<next, queries>>

\* Mutations: an armed latch does not keep broadcasts away; every id-less frame
\* is taken for a broadcast.
TakesAll == FALSE
TakesNone == TRUE
IsBroadcast == echoSeen

\* replyTo absent: a broadcast once the latch is armed; before that it completes
\* every query.
IdLess(f) ==
    /\ f.re = NoReply
    /\ IF IsBroadcast
         THEN UNCHANGED <<ask, warm, next, queries>>
         ELSE /\ ask' = [u \in User |-> IF Parked(u)
                           THEN Ends(u, IF f.full THEN "any" ELSE "partial")
                           ELSE ask[u]]
              /\ Tries(warm)
    /\ UNCHANGED echoSeen

\* onPresence / resolvePresence.
Receive ==
    /\ up /\ frames # <<>>
    /\ Echo(Head(frames)) \/ IdLess(Head(frames))
    /\ frames' = Tail(frames)
    /\ UNCHANGED <<adapter, hub, up>>

TimesOut(u) ==
    /\ Parked(u)
    /\ ask' = [ask EXCEPT ![u] = Ends(u, "failed")]
    /\ UNCHANGED <<adapter, hub, up, echoSeen, warm, next, queries, frames>>

\* Only the plugin's warm-up has a timer; its loop then looks at the connection.
WarmUpTimesOut ==
    /\ adapter = "plugin"
    /\ \E w \in warm : IF up /\ ~echoSeen THEN Tries({w})
                       ELSE warm' = warm \ {w} /\ UNCHANGED <<next, queries>>
    /\ UNCHANGED <<adapter, hub, up, echoSeen, ask, frames>>

\* The connection is lost; the waiters stay.  The hub may come back upgraded.
OnDisconnect(h) ==
    /\ up /\ h \in {hub, "echo"}
    /\ hub' = h /\ up' = FALSE
    /\ queries' = <<>> /\ frames' = <<>>
    /\ ask' = Lose
    /\ UNCHANGED <<adapter, echoSeen, warm, next>>

\* retarget to any hub; the bridge fails its waiters, the plugin leaves them to
\* their timers.
Retarget(h) ==
    /\ hub' = h /\ up' = FALSE
    /\ queries' = <<>> /\ frames' = <<>>
    /\ IF adapter = "bridge"
         THEN /\ ask' = [u \in User |-> IF Parked(u) THEN Ends(u, "failed") ELSE ask[u]]
              /\ warm' = {}
         ELSE ask' = Lose /\ UNCHANGED warm
    /\ UNCHANGED <<adapter, echoSeen, next>>

----------------------------------------------------------------------------
(* The hub. *)

\* handlePresenceQuery: the whole roster, with the query's id.
Answer ==
    /\ up /\ queries # <<>>
    /\ frames' = Append(frames, [re |-> IF hub = "echo" THEN Head(queries) ELSE NoReply, full |-> TRUE])
    /\ queries' = Tail(queries)
    /\ UNCHANGED <<adapter, hub, up, echoSeen, ask, warm, next>>

\* sendPresence: one agent joined, came or left, the adapter's own join included.
Broadcast ==
    /\ up /\ Len(frames) < MaxDown
    /\ frames' = Append(frames, [re |-> NoReply, full |-> FALSE])
    /\ UNCHANGED <<adapter, hub, up, echoSeen, ask, warm, next, queries>>

QueryNext ==
    \/ OnWelcome \/ Receive \/ WarmUpTimesOut \/ Answer \/ Broadcast
    \/ \E u \in User : Ask(u) \/ TimesOut(u)
    \/ \E h \in {"echo", "legacy"} : OnDisconnect(h) \/ Retarget(h)

QuerySpec == QueryInit /\ [][QueryNext]_queryVars

\* The hub serves its queries and the adapter its frames.  No fairness for the
\* timers: what ends a query here is an answer.
QueryFairSpec == QuerySpec /\ WF_queryVars(Answer) /\ WF_queryVars(Receive)

----------------------------------------------------------------------------
(* Properties. *)

QueryTypeOK ==
    /\ adapter \in Adapters /\ hub \in {"echo", "legacy"} /\ {up, echoSeen} \subseteq BOOLEAN
    /\ ask \in [User -> [st : {"idle", "parked", "lost", "own", "any", "partial", "failed"},
                         id : Nat, early : BOOLEAN]]
    /\ warm \subseteq [id : Nat, try : 0..2]
    /\ next \in Nat
    /\ queries \in Seq(Nat) /\ frames \in Seq([re : Nat, full : BOOLEAN])

\* "a concurrent broadcast can never satisfy the query with a partial roster"
\* (presence), for every query asked once the latch is armed, across reconnects
\* and changes of hub; a query asked before that may be answered by anything.
PartialIsEarly == \A u \in User : ask[u].st \in {"any", "partial"} => ask[u].early

\* On a connection to a hub that echoes the latch is armed, even when broadcasts
\* complete all attempts of the warm-up before the first answer is there.
WarmUpArms == (up /\ hub = "echo") ~> (echoSeen \/ ~up \/ hub = "legacy")

\* A query on a connection that lasts is answered; unless the latch was armed by
\* one hub and the connection now leads to a hub without the echo, whose answers
\* all look like broadcasts.
QueriesAreAnswered ==
    \A u \in User : (WithHub(u) /\ up) ~> (~WithHub(u) \/ (hub = "legacy" /\ echoSeen))
=============================================================================
