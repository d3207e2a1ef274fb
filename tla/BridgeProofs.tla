---------------------------- MODULE BridgeProofs ----------------------------
(***************************************************************************)
(* Proofs about the bridge: its session, for any number of calls in flight *)
(* and any backoff, and its glossary, for any terms and any messages.      *)
(***************************************************************************)
EXTENDS BridgeSession, Gloss, TLAPS

\* What OneLoop and OpenIsWatched leave open: between two dials no interval
\* runs, so that the next dial finds none to leave behind.
Unwatched == sock = "none" => watch = "off"

Safe == OneLoop /\ OpenIsWatched /\ OnlyJoinsOutlive

BridgeInv == TypeOK /\ Safe /\ Unwatched

\* The first dial, of a bridge without calls.
LEMMA InitBridgeInv == Init => BridgeInv
<1> SUFFICES ASSUME Init PROVE BridgeInv
  OBVIOUS
<1>1. TypeOK
  <2>1. delay \in Initial..Longest
    BY BackoffIsOrdered DEF Init
  <2>2. {stopped, crashed, welcomed, retry, awaiting, terminated, poller,
         enrolling, reEnrolled, joined, hubUp} \subseteq BOOLEAN
    BY DEF Init
  <2>3. QED
    BY <2>1, <2>2 DEF Init, TypeOK, Source, Parked, Joins
<1>2. Safe /\ Unwatched
  BY DEF Init, Safe, Unwatched, OneLoop, OpenIsWatched, OnlyJoinsOutlive
<1>3. QED
  BY <1>1, <1>2 DEF BridgeInv

\* Doubling the delay stays within the configured range.
LEMMA DelayInRange ==
    ASSUME NEW d \in Initial..Longest
    PROVE  NextDelay(d) \in Initial..Longest
BY BackoffIsOrdered DEF NextDelay

\* Where a call goes when it begins, and after an answer.
LEMMA BeginsParked == Begins \subseteq Parked \cup {"orphan", "done", "failed"}
BY DEF Begins, Join, DM, Invite, Parked, Joins

LEMMA FollowsParked ==
    ASSUME NEW phase
    PROVE  Follows(phase) \subseteq {"done", "whois", "join", "inviteJoin"}
BY DEF Follows, Invite, Join, DM

\* Types.
LEMMA StepTypeOK == TypeOK /\ [Next]_vars => TypeOK'
<1> SUFFICES ASSUME TypeOK, [Next]_vars PROVE TypeOK'
  OBVIOUS
<1> USE DEF TypeOK, Parked, Joins, session, watchdog, auth, calls, StopWatch
<1>1. CASE Opens
  BY <1>1 DEF Opens, FreshVerdict
<1>2. CASE Refused401
  BY <1>2 DEF Refused401
<1>3. CASE DialFails \/ HelloRefused \/ Drops \/ GoesHalf
  BY <1>3 DEF DialFails, HelloRefused, Drops, GoesHalf
<1>4. CASE Welcome
  <2>1. delay' \in Initial..Longest
    BY <1>4, BackoffIsOrdered DEF Welcome
  <2>2. QED
    BY <1>4, <2>1 DEF Welcome
<1>5. CASE Enrolled
  BY <1>5 DEF Enrolled
<1>6. CASE CloseEvent
  <2>1. delay' \in Initial..Longest
    BY <1>6, DelayInRange DEF CloseEvent
  <2>2. call' \in [Call -> Parked \cup {"idle", "orphan", "done", "failed"}]
    BY <1>6 DEF CloseEvent, FailWaiters
  <2>3. crashed' \in BOOLEAN /\ retry' \in BOOLEAN
    BY <1>6 DEF CloseEvent, FailWaiters, Last
  <2>4. QED
    BY <1>6, <2>1, <2>2, <2>3 DEF CloseEvent
<1>7. CASE RetryFires
  BY <1>7 DEF RetryFires, Connect, Source, Outlived
<1>8. ASSUME NEW b \in {"good", "stale", "renamed"}, Retarget(b) PROVE TypeOK'
  <2>1. delay' \in Initial..Longest
    BY <1>8, BackoffIsOrdered DEF Retarget
  <2>2. call' \in [Call -> Parked \cup {"idle", "orphan", "done", "failed"}] /\ crashed' \in BOOLEAN
    BY <1>8 DEF Retarget, FailWaiters
  <2>3. {retry', awaiting', welcomed', joined', enrolling'} \subseteq BOOLEAN
    BY <1>8 DEF Retarget, NoTimer, WatchEnds, Connect
  <2>4. secret' \in {"none", "good", "stale", "renamed"} /\ dial' \in {"config", "master"}
    BY <1>8 DEF Retarget, Connect, Source
  <2>5. QED
    BY <1>8, <2>1, <2>2, <2>3, <2>4 DEF Retarget, WatchEnds, Connect
<1>9. CASE Stop
  BY <1>9 DEF Stop
<1>10. CASE Ping \/ Pong
  BY <1>10 DEF Ping, Pong
<1>11. CASE Deadline
  BY <1>11 DEF Deadline, Killed
<1>12. ASSUME NEW c \in Call, Begin(c) PROVE TypeOK'
  <2>1. call' \in [Call -> Parked \cup {"idle", "orphan", "done", "failed"}]
    BY <1>12, BeginsParked DEF Begin
  <2>2. old' \subseteq Call /\ moved' \subseteq old'
    BY <1>12 DEF Begin
  <2>3. QED
    BY <1>12, <2>1, <2>2 DEF Begin
<1>13. ASSUME NEW c \in Call, Answer(c) \/ TimesOut(c) PROVE TypeOK'
  <2>1. call' \in [Call -> Parked \cup {"idle", "orphan", "done", "failed"}]
    BY <1>13, FollowsParked DEF Answer, TimesOut
  <2>2. crashed' \in BOOLEAN
    BY <1>13 DEF Answer, TimesOut
  <2>3. QED
    BY <1>13, <2>1, <2>2 DEF Answer, TimesOut
<1>14. CASE Joined \/ JoinDenied
  <2>1. call' \in [Call -> Parked \cup {"idle", "orphan", "done", "failed"}]
    BY <1>14 DEF Joined, JoinDenied, DM
  <2>2. moved' \subseteq old /\ joined' \in BOOLEAN
    BY <1>14 DEF Joined, JoinDenied
  <2>3. QED
    BY <1>14, <2>1, <2>2 DEF Joined, JoinDenied
<1>15. CASE HubFlips \/ HubForgets \/ UNCHANGED vars
  BY <1>15 DEF HubFlips, HubForgets, vars
<1>16. QED
  BY <1>1, <1>2, <1>3, <1>4, <1>5, <1>6, <1>7, <1>8, <1>9, <1>10, <1>11, <1>12, <1>13, <1>14, <1>15 DEF Next

\* The socket, the pending dial and the watchdog.
LEMMA StepLoop == BridgeInv /\ [Next]_vars => OneLoop' /\ OpenIsWatched' /\ Unwatched'
<1> SUFFICES ASSUME BridgeInv, [Next]_vars PROVE OneLoop' /\ OpenIsWatched' /\ Unwatched'
  OBVIOUS
<1> USE DEF BridgeInv, Safe, TypeOK, OneLoop, OpenIsWatched, Unwatched, session, watchdog, StopWatch
<1>1. CASE Opens
  BY <1>1 DEF Opens, FreshVerdict
<1>2. CASE Refused401 \/ DialFails \/ HelloRefused \/ Drops \/ GoesHalf
  BY <1>2 DEF Refused401, DialFails, HelloRefused, Drops, GoesHalf
<1>3. CASE Welcome \/ Enrolled
  BY <1>3 DEF Welcome, Enrolled
<1>4. CASE CloseEvent
  BY <1>4 DEF CloseEvent, Last
<1>5. CASE RetryFires
  BY <1>5 DEF RetryFires, Connect, Outlived
<1>6. ASSUME NEW b \in {"good", "stale", "renamed"}, Retarget(b)
      PROVE  OneLoop' /\ OpenIsWatched' /\ Unwatched'
  BY <1>6 DEF Retarget, NoTimer, WatchEnds, Connect
<1>7. CASE Stop
  BY <1>7 DEF Stop
<1>8. CASE Ping \/ Pong
  BY <1>8 DEF Ping, Pong
<1>9. CASE Deadline
  BY <1>9 DEF Deadline, Killed
<1>10. ASSUME NEW c \in Call, Begin(c) \/ Answer(c) \/ TimesOut(c)
       PROVE  OneLoop' /\ OpenIsWatched' /\ Unwatched'
  BY <1>10 DEF Begin, Answer, TimesOut
<1>11. CASE Joined \/ JoinDenied
  BY <1>11 DEF Joined, JoinDenied
<1>12. CASE HubFlips \/ HubForgets \/ UNCHANGED vars
  BY <1>12 DEF HubFlips, HubForgets, vars
<1>13. QED
  BY <1>1, <1>2, <1>3, <1>4, <1>5, <1>6, <1>7, <1>8, <1>9, <1>10, <1>11, <1>12 DEF Next

\* Calls in flight: only a retarget adds to the old ones, a call that begins anew
\* is not old any more, and an old one leaves its join with the hub in use.
LEMMA StepCalls == BridgeInv /\ [Next]_vars => OnlyJoinsOutlive'
<1> SUFFICES ASSUME BridgeInv, [Next]_vars PROVE OnlyJoinsOutlive'
  OBVIOUS
<1> USE DEF BridgeInv, Safe, TypeOK, OnlyJoinsOutlive, Parked, Joins
<1>1. CASE UNCHANGED calls
  BY <1>1 DEF calls
<1>2. CASE Welcome
  BY <1>2 DEF Welcome
<1>3. CASE CloseEvent
  BY <1>3 DEF CloseEvent, FailWaiters
<1>4. ASSUME NEW b \in {"good", "stale", "renamed"}, Retarget(b) PROVE OnlyJoinsOutlive'
  BY <1>4 DEF Retarget, FailWaiters
<1>5. ASSUME NEW c \in Call, Begin(c) PROVE OnlyJoinsOutlive'
  BY <1>5 DEF Begin
\* An old call is answered only in the lookup that a join on this hub led to.
<1>6. ASSUME NEW c \in Call, Answer(c) \/ TimesOut(c) PROVE OnlyJoinsOutlive'
  <2>1. CASE TimesOut(c)
    BY <2>1 DEF TimesOut
  <2>2. CASE Answer(c)
    <3>1. c \in old => call[c] \in {"whois", "orphan"}
      BY <2>2 DEF Answer
    <3>2. c \in old => call'[c] = "done"
      BY <2>2, <3>1 DEF Answer, Follows
    <3>3. \A d \in old : d # c => call'[d] = call[d]
      BY <2>2 DEF Answer
    <3>4. QED
      BY <2>2, <3>2, <3>3 DEF Answer
  <2>3. QED
    BY <1>6, <2>1, <2>2
<1>7. CASE Joined \/ JoinDenied
  <2>1. CASE JoinDenied
    BY <2>1 DEF JoinDenied
  <2>2. CASE Joined
    <3>1. PICK phase \in [Call -> DM] :
            call' = [c \in Call |-> CASE call[c] = "join" -> "done"
                                      [] call[c] = "inviteJoin" -> phase[c]
                                      [] OTHER -> call[c]]
      BY <2>2 DEF Joined
    <3>2. ASSUME NEW c \in old', call'[c] \in Parked
          PROVE  call'[c] \in Joins \/ (call'[c] = "whois" /\ c \in moved')
      <4>1. c \in old /\ c \in Call
        BY <2>2, <3>2 DEF Joined
      <4>2. CASE call[c] = "inviteJoin"
        <5>1. call'[c] \in DM /\ c \in moved'
          BY <2>2, <3>1, <4>1, <4>2 DEF Joined
        <5>2. QED
          BY <3>2, <5>1 DEF DM
      <4>3. CASE call[c] # "inviteJoin"
        <5>1. call'[c] = call[c] /\ moved \subseteq moved'
          BY <2>2, <3>1, <3>2, <4>1, <4>3 DEF Joined
        <5>2. QED
          BY <3>2, <4>1, <5>1
      <4>4. QED
        BY <4>2, <4>3
    <3>3. QED
      BY <3>2
  <2>3. QED
    BY <1>7, <2>1, <2>2
<1>8. CASE Opens \/ Refused401 \/ DialFails \/ HelloRefused \/ Enrolled \/ Drops \/ GoesHalf \/ RetryFires
  BY <1>8, <1>1 DEF Opens, Refused401, DialFails, HelloRefused, Enrolled, Drops, GoesHalf, RetryFires
<1>9. CASE Stop \/ Ping \/ Pong \/ Deadline \/ HubFlips \/ HubForgets \/ UNCHANGED vars
  BY <1>9, <1>1 DEF Stop, Ping, Pong, Deadline, HubFlips, HubForgets, vars
<1>10. QED
  BY <1>2, <1>3, <1>4, <1>5, <1>6, <1>7, <1>8, <1>9 DEF Next

\* The whole invariant of the session.
LEMMA BridgeInvariant == Spec => []BridgeInv
<1>1. BridgeInv /\ [Next]_vars => BridgeInv'
  BY StepTypeOK, StepLoop, StepCalls DEF BridgeInv, Safe
<1>2. QED
  BY InitBridgeInv, <1>1, PTL DEF Spec

\* connect, onDisconnect, retarget and stop: the bridge has a socket or a
\* pending dial, never both and never neither, and after stop neither.
THEOREM LoopIsOne == Spec => []OneLoop
<1>1. BridgeInv => OneLoop
  BY DEF BridgeInv, Safe
<1>2. QED
  BY <1>1, BridgeInvariant, PTL

\* KeepAlive: the open socket in use is watched with a fresh verdict, and no
\* interval is left behind on an earlier socket.
THEOREM WatchFollowsSocket == Spec => []OpenIsWatched
<1>1. BridgeInv => OpenIsWatched
  BY DEF BridgeInv, Safe
<1>2. QED
  BY <1>1, BridgeInvariant, PTL

\* failWaiters: of the calls made before a dap_connect only joins still wait after
\* it, and the invites that the hub in use has let join, for any number of calls
\* in flight.
THEOREM RetargetEndsWaits == Spec => []OnlyJoinsOutlive
<1>1. BridgeInv => OnlyJoinsOutlive
  BY DEF BridgeInv, Safe
<1>2. QED
  BY <1>1, BridgeInvariant, PTL

-----------------------------------------------------------------------------
(* The glossary. *)

\* Somewhere t is written b: in a reverse map, in an entry, or in a frame.
InReverse(t, b) == \E a \in Agent : reverse[a][b] = t
InEntry(t, b) == \E a \in Agent : entry[a][t].state # "none" /\ entry[a][t].abbrev = b
InFrame(t, b) ==
    \E a \in Agent : \E i \in DOMAIN wire[a] :
        wire[a][i].act # "drop" /\ wire[a][i].term = t /\ wire[a][i].abbrev = b
Means(t, b) == InReverse(t, b) \/ InEntry(t, b) \/ InFrame(t, b)

\* No two terms share an abbreviation and no term has two, anywhere.
OneMeaning ==
    \A t, u \in Term, b, c \in Abbrev : Means(t, b) /\ Means(u, c) => (t = u <=> b = c)

\* The proposer has every abbreviation in use among its reserved ones.
Known == \A p \in Proposer, t \in Term, b \in Abbrev : Means(t, b) => b \in reserved[p]

\* What the proposer may still propose means nothing yet.
Untouched ==
    \A p \in Proposer, t \in Term, b \in Abbrev :
        entry[p][t].state = "none" /\ t \notin dropped[p] => ~Means(t, b)

\* An active entry is found from its abbreviation.
Found ==
    \A a \in Agent, t \in Term :
        entry[a][t].state = "active" => reverse[a][entry[a][t].abbrev] = t

\* Proposals come from a proposer.
OneWay ==
    \A a \in Agent : \A i \in DOMAIN wire[a] :
        wire[a][i].act = "propose" => Peer(a) \in Proposer

\* The agent holds the term, proposed or active, or has dropped it for good.
Holds(a, t) == entry[a][t].state # "none" \/ t \in dropped[a]

\* What the proposer has, or is about to get, an answer to is held by the peer.
AckFor(p, t) == \E i \in DOMAIN wire[p] : wire[p][i].act = "ack" /\ wire[p][i].term = t
Answered ==
    \A p \in Proposer, t \in Term :
        entry[p][t].state = "active" \/ AckFor(p, t) => Holds(Peer(p), t)

\* Without a proposer nothing means anything.
Silent == Proposer = {} => \A t \in Term, b \in Abbrev : ~Means(t, b)

GlossInv ==
    /\ GlossTypeOK /\ OneMeaning /\ Known /\ Untouched /\ Silent
    /\ Found /\ OneWay /\ Answered /\ NeverMisread

\* At most one of the two brings up terms; when both do, proposals can cross and
\* a token be misread (run GlossCrossing).
OneProposer == \A p, q \in Proposer : p = q

-----------------------------------------------------------------------------
\* There are two agents.
LEMMA TwoAgents ==
    ASSUME NEW a \in Agent
    PROVE  /\ Peer(a) \in Agent /\ Peer(a) # a /\ Peer(Peer(a)) = a
           /\ \A c \in Agent : c = a \/ c = Peer(a)
<1>1. PICK x, y \in Agent : x # y /\ Agent = {x, y}
  BY GlossConstants
<1>2. \A c \in Agent : \E d \in Agent : d # c
  BY <1>1
<1>3. \A c \in Agent : Peer(c) \in Agent /\ Peer(c) # c
  BY <1>2 DEF Peer
<1>4. QED
  BY <1>1, <1>3

\* A queue that f may have joined.
With(q, f) == {q} \cup {Into(q, n, f) : n \in 1..(Len(q) + 1)}

\* It holds frames, and nothing that is new but f.
LEMMA Inserted ==
    ASSUME NEW q \in Seq(Frame), NEW f \in Frame, NEW w \in With(q, f)
    PROVE  /\ w \in Seq(Frame)
           /\ \A i \in DOMAIN w : (\E j \in DOMAIN q : w[i] = q[j]) \/ w[i] = f
<1>1. CASE w = q
  BY <1>1
<1>2. ASSUME NEW n \in 1..(Len(q) + 1), w = Into(q, n, f)
      PROVE  /\ w \in Seq(Frame)
             /\ \A i \in DOMAIN w : (\E j \in DOMAIN q : w[i] = q[j]) \/ w[i] = f
  <2>1. Len(q) \in Nat /\ DOMAIN w = 1..(Len(q) + 1) /\ DOMAIN q = 1..Len(q)
    BY <1>2 DEF Into
  <2>2. ASSUME NEW i \in 1..(Len(q) + 1)
        PROVE  (\E j \in DOMAIN q : w[i] = q[j]) \/ w[i] = f
    <3>1. CASE i < n
      <4>1. w[i] = q[i] /\ i \in DOMAIN q
        BY <1>2, <2>1, <3>1 DEF Into
      <4>2. QED
        BY <4>1
    <3>2. CASE i = n
      BY <1>2, <3>2 DEF Into
    <3>3. CASE i > n
      <4>1. w[i] = q[i - 1] /\ i - 1 \in DOMAIN q
        BY <1>2, <2>1, <3>3 DEF Into
      <4>2. QED
        BY <4>1
    <3>4. QED
      BY <2>1, <3>1, <3>2, <3>3
  <2>3. \A i \in 1..(Len(q) + 1) : w[i] \in Frame
    BY <2>1, <2>2
  <2>4. w = [i \in 1..(Len(q) + 1) |-> w[i]]
    BY <1>2 DEF Into
  <2>5. w \in [1..(Len(q) + 1) -> Frame]
    BY <2>3, <2>4
  <2>6. w \in Seq(Frame)
    BY <2>1, <2>5
  <2>7. QED
    BY <2>1, <2>2, <2>6
<1>3. QED
  BY <1>1, <1>2 DEF With

\* A queue without its first frame.
LEMMA Taken ==
    ASSUME NEW w \in Seq(Frame), w # <<>>
    PROVE  /\ Tail(w) \in Seq(Frame)
           /\ 1 \in DOMAIN w /\ Head(w) = w[1] /\ Head(w) \in Frame
           /\ \A i \in DOMAIN Tail(w) : i + 1 \in DOMAIN w /\ Tail(w)[i] = w[i + 1]
           /\ \A i \in DOMAIN w : i # 1 => i - 1 \in DOMAIN Tail(w) /\ Tail(w)[i - 1] = w[i]
           /\ \A i \in DOMAIN w : i \in Nat \ {0}
OBVIOUS

\* The frames by kind.
LEMMA FrameKinds ==
    ASSUME NEW f \in Frame
    PROVE  /\ f.act \in {"propose", "ack", "msg", "drop"}
           /\ f.act # "drop" => f.term \in Term
           /\ f.act # "msg" => f.abbrev \in Abbrev
           /\ f.act = "msg" => f.abbrev \in Abbrev \cup {None}
BY DEF Frame

\* Either half of sayTo that ends with the message.
Speaks(a, t) ==
    /\ UNCHANGED <<entry, reverse, dropped, reserved, wrong>>
    /\ Body(a, t) /\ called' \in 0..MaxCalls /\ saying' \in [Agent -> Term \cup {None}]

\* The steps, with what is known of the first frame of a queue.
LEMMA StepKinds ==
    ASSUME GlossTypeOK, [GlossNext]_glossVars
    PROVE  \/ UNCHANGED glossVars
           \/ \E a \in Agent, t \in Term : Propose(a, t) \/ Speaks(a, t)
           \/ \E a \in Agent, b \in Abbrev : Drop(a, b)
           \/ \E a \in Agent : /\ wire[a] # <<>>
                               /\ \/ \E t \in Term, b \in Abbrev :
                                       Head(wire[a]) = Gloss("propose", t, b) /\ Proposed(a, t, b)
                                  \/ \E t \in Term, b \in Abbrev :
                                       Head(wire[a]) = Gloss("ack", t, b) /\ Acked(a, t, b)
                                  \/ \E t \in Term, b \in Abbrev \cup {None} :
                                       Head(wire[a]) = Gloss("msg", t, b) /\ Heard(a, t, b)
                                  \/ \E b \in Abbrev :
                                       Head(wire[a]) = Gloss("drop", None, b) /\ Dropped(a, b)
<1>1. ASSUME NEW a \in Agent, NEW t \in Term, Say(a, t) PROVE Speaks(a, t)
  BY <1>1, GlossConstants DEF Say, Speaks, GlossTypeOK
<1>2. ASSUME NEW a \in Agent, SayRest(a) PROVE \E t \in Term : Speaks(a, t)
  <2>1. saying[a] \in Term
    BY <1>2 DEF SayRest, GlossTypeOK
  <2>2. Speaks(a, saying[a])
    BY <1>2 DEF SayRest, Speaks, GlossTypeOK
  <2>3. QED
    BY <2>1, <2>2
<1>3. ASSUME NEW a \in Agent, Receive(a)
      PROVE  /\ wire[a] # <<>>
             /\ \/ \E t \in Term, b \in Abbrev :
                     Head(wire[a]) = Gloss("propose", t, b) /\ Proposed(a, t, b)
                \/ \E t \in Term, b \in Abbrev :
                     Head(wire[a]) = Gloss("ack", t, b) /\ Acked(a, t, b)
                \/ \E t \in Term, b \in Abbrev \cup {None} :
                     Head(wire[a]) = Gloss("msg", t, b) /\ Heard(a, t, b)
                \/ \E b \in Abbrev :
                     Head(wire[a]) = Gloss("drop", None, b) /\ Dropped(a, b)
  <2>1. wire[a] # <<>> /\ wire[a] \in Seq(Frame)
    BY <1>3 DEF Receive, GlossTypeOK
  <2> DEFINE f == Head(wire[a])
  <2>2. f \in Frame
    BY <2>1, Taken
  <2>3. f = Gloss(f.act, f.term, f.abbrev) /\ (f.act = "drop" => f.term = None)
    BY <2>2 DEF Frame, Gloss
  <2>4. /\ f.act # "drop" => f.term \in Term
        /\ f.act # "msg" => f.abbrev \in Abbrev
        /\ f.act = "msg" => f.abbrev \in Abbrev \cup {None}
    BY <2>2, FrameKinds
  <2>5. \/ f.act = "propose" /\ Proposed(a, f.term, f.abbrev)
        \/ f.act = "ack" /\ Acked(a, f.term, f.abbrev)
        \/ f.act = "msg" /\ Heard(a, f.term, f.abbrev)
        \/ f.act = "drop" /\ Dropped(a, f.abbrev)
    BY <1>3 DEF Receive
  <2> HIDE DEF f
  <2>6. CASE f.act = "propose" /\ Proposed(a, f.term, f.abbrev)
    BY <2>1, <2>3, <2>4, <2>6, Zenon DEF f
  <2>7. CASE f.act = "ack" /\ Acked(a, f.term, f.abbrev)
    BY <2>1, <2>3, <2>4, <2>7, Zenon DEF f
  <2>8. CASE f.act = "msg" /\ Heard(a, f.term, f.abbrev)
    BY <2>1, <2>3, <2>4, <2>8, Zenon DEF f
  <2>9. CASE f.act = "drop" /\ Dropped(a, f.abbrev)
    BY <2>1, <2>3, <2>4, <2>9, Zenon DEF f
  <2>10. QED
    BY <2>5, <2>6, <2>7, <2>8, <2>9
<1>4. QED
  BY <1>1, <1>2, <1>3 DEF GlossNext

\* What the queues are after a step of a that takes its first frame or none, and
\* sends f or nothing.
LEMMA Queues ==
    ASSUME GlossTypeOK, NEW a \in Agent, NEW f \in Frame,
           \/ wire' \in Sent(a, f, wire)
           \/ wire[a] # <<>> /\ (wire' = Rest(a) \/ wire' \in Sent(a, f, Rest(a)))
    PROVE  /\ wire' \in [Agent -> Seq(Frame)]
           /\ wire'[a] \in {wire[a], Tail(wire[a])} /\ (wire'[a] # wire[a] => wire[a] # <<>>)
           /\ wire'[Peer(a)] \in With(wire[Peer(a)], f)
           /\ wire' = Rest(a) => wire'[Peer(a)] = wire[Peer(a)]
<1>1. Peer(a) \in Agent /\ Peer(a) # a
  BY TwoAgents
<1>2. wire \in [Agent -> Seq(Frame)]
  BY DEF GlossTypeOK
<1>3. wire[a] # <<>> => Rest(a) \in [Agent -> Seq(Frame)]
  BY <1>2, Taken DEF Rest
<1>4. With(wire[Peer(a)], f) \subseteq Seq(Frame) /\ wire[Peer(a)] \in With(wire[Peer(a)], f)
  <2>1. wire[Peer(a)] \in Seq(Frame)
    BY <1>1, <1>2
  <2>2. QED
    BY <2>1, Inserted DEF With
<1>5. wire[a] # <<>> => Rest(a)[a] = Tail(wire[a]) /\ Rest(a)[Peer(a)] = wire[Peer(a)]
  BY <1>1, <1>2 DEF Rest
<1>6. CASE wire' \in Sent(a, f, wire)
  <2>1. \/ wire' = wire
        \/ \E q \in With(wire[Peer(a)], f) : wire' = [wire EXCEPT ![Peer(a)] = q]
    BY <1>6 DEF Sent, With
  <2>2. wire' = Rest(a) => wire'[Peer(a)] = wire[Peer(a)]
    BY <1>1, <1>2 DEF Rest
  <2>3. QED
    BY <1>1, <1>2, <1>4, <2>1, <2>2
<1>7. CASE wire[a] # <<>> /\ wire' = Rest(a)
  BY <1>1, <1>3, <1>4, <1>5, <1>7
<1>8. CASE wire[a] # <<>> /\ wire' \in Sent(a, f, Rest(a))
  <2>1. \/ wire' = Rest(a)
        \/ \E q \in With(wire[Peer(a)], f) : wire' = [Rest(a) EXCEPT ![Peer(a)] = q]
    BY <1>5, <1>8 DEF Sent, With
  <2>2. wire' = Rest(a) => wire'[Peer(a)] = wire[Peer(a)]
    BY <1>5, <1>8
  <2> HIDE DEF Rest
  <2>3. QED
    BY <1>1, <1>3, <1>4, <1>5, <1>8, <2>1, <2>2
<1>9. QED
  BY <1>6, <1>7, <1>8

\* They stay queues of frames.
LEMMA QueueTypes ==
    ASSUME GlossTypeOK, NEW a \in Agent
    PROVE  /\ \A f \in Frame : wire' \in Sent(a, f, wire) => wire' \in [Agent -> Seq(Frame)]
           /\ wire[a] # <<>> /\ wire' = Rest(a) => wire' \in [Agent -> Seq(Frame)]
           /\ \A f \in Frame :
                wire[a] # <<>> /\ wire' \in Sent(a, f, Rest(a)) => wire' \in [Agent -> Seq(Frame)]
<1>1. ASSUME wire[a] # <<>>, wire' = Rest(a) PROVE wire' \in [Agent -> Seq(Frame)]
  <2>1. Head(wire[a]) \in Frame
    BY <1>1, Taken DEF GlossTypeOK
  <2>2. QED
    BY <1>1, <2>1, Queues
<1>2. QED
  BY <1>1, Queues

\* A frame of a step of a is new only if it is the one a sent, to its peer.
Brings(a, F) ==
    \A c \in Agent : \A i \in DOMAIN wire'[c] :
        \/ \E j \in DOMAIN wire[c] : wire'[c][i] = wire[c][j]
        \/ c = Peer(a) /\ wire'[c][i] \in F

\* What the ways to change the queues bring.
LEMMA NewFrames ==
    ASSUME GlossTypeOK, NEW a \in Agent
    PROVE  /\ \A f \in Frame : wire' \in Sent(a, f, wire) => Brings(a, {f})
           /\ wire[a] # <<>> /\ wire' = Rest(a) => Brings(a, {})
           /\ \A f \in Frame : wire[a] # <<>> /\ wire' \in Sent(a, f, Rest(a)) => Brings(a, {f})
<1>1. /\ wire[a] \in Seq(Frame) /\ wire[Peer(a)] \in Seq(Frame)
      /\ \A c \in Agent : c = a \/ c = Peer(a)
  BY TwoAgents DEF GlossTypeOK
<1>2. ASSUME wire'[a] = Tail(wire[a]), wire[a] # <<>>
      PROVE  \A i \in DOMAIN wire'[a] : \E j \in DOMAIN wire[a] : wire'[a][i] = wire[a][j]
  BY <1>1, <1>2, Taken
<1>3. \A f \in Frame : wire'[Peer(a)] \in With(wire[Peer(a)], f) =>
        \A i \in DOMAIN wire'[Peer(a)] :
          \/ \E j \in DOMAIN wire[Peer(a)] : wire'[Peer(a)][i] = wire[Peer(a)][j]
          \/ wire'[Peer(a)][i] \in {f}
  BY <1>1, Inserted
<1>4. ASSUME NEW f \in Frame,
             \/ wire' \in Sent(a, f, wire)
             \/ wire[a] # <<>> /\ (wire' = Rest(a) \/ wire' \in Sent(a, f, Rest(a)))
      PROVE  Brings(a, {f}) /\ (wire' = Rest(a) => Brings(a, {}))
  <2>1. /\ wire'[a] \in {wire[a], Tail(wire[a])} /\ (wire'[a] # wire[a] => wire[a] # <<>>)
        /\ wire'[Peer(a)] \in With(wire[Peer(a)], f)
        /\ wire' = Rest(a) => wire'[Peer(a)] = wire[Peer(a)]
    BY <1>4, Queues
  <2>2. \A i \in DOMAIN wire'[a] : \E j \in DOMAIN wire[a] : wire'[a][i] = wire[a][j]
    <3>1. CASE wire'[a] = wire[a]
      BY <3>1, Zenon
    <3>2. CASE wire'[a] # wire[a]
      BY <1>2, <2>1, <3>2
    <3>3. QED
      BY <3>1, <3>2
  <2>3. \A i \in DOMAIN wire'[Peer(a)] :
          \/ \E j \in DOMAIN wire[Peer(a)] : wire'[Peer(a)][i] = wire[Peer(a)][j]
          \/ wire'[Peer(a)][i] \in {f}
    BY <1>3, <2>1
  <2>4. wire' = Rest(a) =>
          \A i \in DOMAIN wire'[Peer(a)] :
            \E j \in DOMAIN wire[Peer(a)] : wire'[Peer(a)][i] = wire[Peer(a)][j]
    BY <2>1, Zenon
  <2>5. Brings(a, {f})
    BY <1>1, <2>2, <2>3, Zenon DEF Brings
  <2>6. wire' = Rest(a) => Brings(a, {})
    BY <1>1, <2>2, <2>4, Zenon DEF Brings
  <2>7. QED
    BY <2>5, <2>6
<1>5. ASSUME wire[a] # <<>>, wire' = Rest(a) PROVE Brings(a, {})
  <2>1. Head(wire[a]) \in Frame
    BY <1>1, <1>5, Taken
  <2>2. QED
    BY <1>4, <1>5, <2>1
<1>6. QED
  BY <1>4, <1>5

\* The frames that the actions send.
LEMMA SentFrames ==
    ASSUME GlossTypeOK
    PROVE  /\ \A a \in Agent, t \in Term : Gloss("msg", t, Compact(a, t)) \in Frame
           /\ \A t \in Term, b \in Abbrev : Gloss("propose", t, b) \in Frame
           /\ \A t \in Term, b \in Abbrev : Gloss("ack", t, b) \in Frame
           /\ \A b \in Abbrev : Gloss("drop", None, b) \in Frame
<1>1. \A a \in Agent, t \in Term : Compact(a, t) \in Abbrev \cup {None}
  BY DEF Compact, GlossTypeOK, NoEntry
<1>2. QED
  BY <1>1 DEF Frame, Gloss

\* The suffixes that Gen offers make abbreviations.
LEMMA GenOffers ==
    ASSUME NEW a \in Agent, NEW t \in Term, NEW n \in Gen(a, t)
    PROVE  <<Base[t], n>> \in Abbrev /\ <<Base[t], n>> \notin reserved[a]
BY DEF Gen, Abbrev

\* What a peer settles on.
Settled(a, t, b) == IF entry[a][t].state = "active" THEN entry[a][t].abbrev ELSE b

\* It is an abbreviation.
LEMMA Settles ==
    ASSUME GlossTypeOK, NEW a \in Agent, NEW t \in Term, NEW b \in Abbrev
    PROVE  Settled(a, t, b) \in Abbrev
BY DEF Settled, GlossTypeOK, NoEntry

\* Types.
LEMMA StepGlossTypeOK ==
    ASSUME GlossTypeOK, [GlossNext]_glossVars
    PROVE  GlossTypeOK'
<1> DEFINE Entries == {NoEntry} \cup [state : {"proposed", "active"}, abbrev : Abbrev]
           Tables == /\ entry' \in [Agent -> [Term -> Entries]]
                     /\ reverse' \in [Agent -> [Abbrev -> Term \cup {None}]]
                     /\ dropped' \in [Agent -> SUBSET Term]
                     /\ reserved' \in [Agent -> SUBSET Abbrev]
<1>1. ASSUME NEW a \in Agent, NEW t \in Term, NEW b \in Abbrev, Activate(a, t, b)
      PROVE  /\ entry' \in [Agent -> [Term -> Entries]]
             /\ reverse' \in [Agent -> [Abbrev -> Term \cup {None}]]
             /\ reserved' \in [Agent -> SUBSET Abbrev]
  BY <1>1 DEF Activate, GlossTypeOK, Entry
<1>2. ASSUME NEW a \in Agent, NEW b \in Abbrev, Deactivate(a, b) PROVE Tables
  <2>1. CASE reverse[a][b] = None
    BY <1>2, <2>1 DEF Deactivate, GlossTypeOK
  <2>2. CASE reverse[a][b] # None
    <3>1. reverse[a][b] \in Term
      BY <2>2 DEF GlossTypeOK
    <3> DEFINE u == reverse[a][b]
    <3>2. /\ entry' = [entry EXCEPT ![a][u] = NoEntry]
          /\ reverse' = [reverse EXCEPT ![a][b] = None]
          /\ dropped' = [dropped EXCEPT ![a] = @ \cup {u}]
          /\ UNCHANGED reserved
      BY <1>2, <2>2 DEF Deactivate
    <3> HIDE DEF u
    <3>3. u \in Term
      BY <3>1 DEF u
    <3>4. QED
      BY <3>2, <3>3 DEF GlossTypeOK
  <2>3. QED
    BY <2>1, <2>2
<1>3. ASSUME NEW a \in Agent, NEW t \in Term, Propose(a, t) PROVE GlossTypeOK'
  <2>1. PICK n \in Gen(a, t) :
          /\ reserved' = [reserved EXCEPT ![a] = @ \cup {<<Base[t], n>>}]
          /\ entry' = [entry EXCEPT ![a][t] = Entry("proposed", <<Base[t], n>>)]
          /\ wire' \in Sent(a, Gloss("propose", t, <<Base[t], n>>), wire)
    BY <1>3 DEF Propose, Awaiting, Sent
  <2>2. <<Base[t], n>> \in Abbrev
    BY GenOffers
  <2>3. entry' \in [Agent -> [Term -> Entries]] /\ reserved' \in [Agent -> SUBSET Abbrev]
    BY <2>1, <2>2 DEF GlossTypeOK, Entry
  <2>4. wire' \in [Agent -> Seq(Frame)]
    BY <2>1, <2>2, SentFrames, QueueTypes
  <2>5. /\ saying' \in [Agent -> Term \cup {None}] /\ called' \in 0..MaxCalls
        /\ UNCHANGED <<reverse, dropped, wrong>>
    BY <1>3, GlossConstants DEF Propose, GlossTypeOK
  <2>6. QED
    BY <2>3, <2>4, <2>5 DEF GlossTypeOK
<1>4. ASSUME NEW a \in Agent, NEW t \in Term, Speaks(a, t) PROVE GlossTypeOK'
  <2>1. wire' \in [Agent -> Seq(Frame)]
    BY <1>4, SentFrames, QueueTypes DEF Speaks, Body
  <2>2. QED
    BY <1>4, <2>1 DEF Speaks, GlossTypeOK
<1>5. ASSUME NEW a \in Agent, NEW b \in Abbrev, Drop(a, b) PROVE GlossTypeOK'
  <2>1. wire' \in [Agent -> Seq(Frame)]
    BY <1>5, SentFrames, QueueTypes DEF Drop
  <2>2. Tables
    BY <1>2, <1>5 DEF Drop
  <2>3. QED
    BY <1>5, <2>1, <2>2, GlossConstants DEF Drop, GlossTypeOK
<1>6. ASSUME NEW a \in Agent, wire[a] # <<>>, NEW t \in Term, NEW b \in Abbrev, Proposed(a, t, b)
      PROVE GlossTypeOK'
  <2>1. wire' \in [Agent -> Seq(Frame)]
    BY <1>6, Settles, SentFrames, QueueTypes DEF Proposed, Settled
  <2>2. /\ entry' \in [Agent -> [Term -> Entries]]
        /\ reverse' \in [Agent -> [Abbrev -> Term \cup {None}]]
        /\ reserved' \in [Agent -> SUBSET Abbrev]
    BY <1>1, <1>6 DEF Proposed, GlossTypeOK
  <2>3. QED
    BY <1>6, <2>1, <2>2 DEF Proposed, GlossTypeOK
<1>7. ASSUME NEW a \in Agent, wire[a] # <<>>, NEW t \in Term, NEW b \in Abbrev, Acked(a, t, b)
      PROVE GlossTypeOK'
  <2>1. wire' \in [Agent -> Seq(Frame)]
    BY <1>7, QueueTypes DEF Acked
  <2>2. /\ entry' \in [Agent -> [Term -> Entries]]
        /\ reverse' \in [Agent -> [Abbrev -> Term \cup {None}]]
        /\ reserved' \in [Agent -> SUBSET Abbrev]
    BY <1>1, <1>7 DEF Acked, GlossTypeOK
  <2>3. QED
    BY <1>7, <2>1, <2>2 DEF Acked, GlossTypeOK
<1>8. ASSUME NEW a \in Agent, wire[a] # <<>>, NEW t \in Term, NEW b, Heard(a, t, b)
      PROVE GlossTypeOK'
  <2>1. wire' \in [Agent -> Seq(Frame)]
    BY <1>8, QueueTypes DEF Heard
  <2>2. QED
    BY <1>8, <2>1 DEF Heard, GlossTypeOK
<1>9. ASSUME NEW a \in Agent, wire[a] # <<>>, NEW b \in Abbrev, Dropped(a, b)
      PROVE GlossTypeOK'
  <2>1. wire' \in [Agent -> Seq(Frame)]
    BY <1>9, QueueTypes DEF Dropped
  <2>2. Tables
    BY <1>2, <1>9 DEF Dropped
  <2>3. QED
    BY <1>9, <2>1, <2>2 DEF Dropped, GlossTypeOK
<1>10. CASE UNCHANGED glossVars
  BY <1>10 DEF glossVars, GlossTypeOK
<1>11. QED
  BY <1>3, <1>4, <1>5, <1>6, <1>7, <1>8, <1>9, <1>10, StepKinds

\* An entry becomes active under b.
LEMMA ActivatedTables ==
    ASSUME GlossTypeOK, NEW a \in Agent, NEW t \in Term, NEW b \in Abbrev, Activate(a, t, b)
    PROVE  /\ entry'[a][t] = Entry("active", b)
           /\ \A c \in Agent, u \in Term : c # a \/ u # t => entry'[c][u] = entry[c][u]
           /\ reverse'[a][b] = t
           /\ \A c \in Agent, d \in Abbrev : c # a \/ d # b => reverse'[c][d] = reverse[c][d]
           /\ \A c \in Agent : reserved[c] \subseteq reserved'[c]
BY DEF Activate, GlossTypeOK

\* An abbreviation that is known here is given up.
GivesUp(a, u, b) ==
    /\ reverse[a][b] = u
    /\ entry'[a][u] = NoEntry
    /\ \A c \in Agent, v \in Term : c # a \/ v # u => entry'[c][v] = entry[c][v]
    /\ reverse'[a][b] = None
    /\ \A c \in Agent, d \in Abbrev : c # a \/ d # b => reverse'[c][d] = reverse[c][d]
    /\ u \in dropped'[a] /\ \A c \in Agent : dropped[c] \subseteq dropped'[c]
    /\ reserved' = reserved

\* deactivate passes over the abbreviation or gives it up.
LEMMA DeactivatedTables ==
    ASSUME GlossTypeOK, NEW a \in Agent, NEW b \in Abbrev, Deactivate(a, b)
    PROVE  \/ reverse[a][b] = None /\ UNCHANGED <<entry, reverse, dropped, reserved>>
           \/ \E u \in Term : GivesUp(a, u, b)
<1>1. CASE reverse[a][b] = None
  BY <1>1 DEF Deactivate
<1>2. CASE reverse[a][b] # None
  <2> DEFINE u == reverse[a][b]
  <2>1. u \in Term
    BY <1>2 DEF GlossTypeOK
  <2>2. /\ entry' = [entry EXCEPT ![a][u] = NoEntry]
        /\ reverse' = [reverse EXCEPT ![a][b] = None]
        /\ dropped' = [dropped EXCEPT ![a] = @ \cup {u}]
        /\ UNCHANGED reserved
    BY <1>2 DEF Deactivate
  <2>3. u = reverse[a][b]
    OBVIOUS
  <2> HIDE DEF u
  <2>4. GivesUp(a, u, b)
    BY <2>1, <2>2, <2>3 DEF GlossTypeOK, GivesUp
  <2>5. QED
    BY <2>1, <2>4
<1>3. QED
  BY <1>1, <1>2

\* Where meanings are found.
LEMMA Meanings ==
    ASSUME GlossTypeOK, NEW a \in Agent, NEW t \in Term
    PROVE  /\ \A b \in Abbrev : reverse[a][b] = t => Means(t, b)
           /\ entry[a][t].state # "none" =>
                entry[a][t].abbrev \in Abbrev /\ Means(t, entry[a][t].abbrev)
           /\ \A b \in Abbrev : \A i \in DOMAIN wire[a] :
                wire[a][i].act # "drop" /\ wire[a][i].term = t /\ wire[a][i].abbrev = b => Means(t, b)
<1>1. entry[a][t].state # "none" => entry[a][t].abbrev \in Abbrev
  BY DEF GlossTypeOK, NoEntry
<1>2. \A b \in Abbrev : \A i \in DOMAIN wire[a] :
        wire[a][i].act # "drop" /\ wire[a][i].term = t /\ wire[a][i].abbrev = b => InFrame(t, b)
  BY Zenon DEF InFrame
<1>3. QED
  BY <1>1, <1>2, Zenon DEF Means, InReverse, InEntry

\* The first frame's meaning.
LEMMA HeadMeans ==
    ASSUME GlossTypeOK, NEW a \in Agent, wire[a] # <<>>, NEW act \in {"propose", "ack", "msg"},
           NEW t \in Term, NEW b \in Abbrev, Head(wire[a]) = Gloss(act, t, b)
    PROVE  Means(t, b)
<1>1. 1 \in DOMAIN wire[a] /\ wire[a][1] = Gloss(act, t, b)
  BY Taken DEF GlossTypeOK
<1>2. wire[a][1].act # "drop" /\ wire[a][1].term = t /\ wire[a][1].abbrev = b
  BY <1>1 DEF Gloss
<1>3. QED
  BY <1>1, <1>2, Meanings

\* A meaning found in a frame is an old one, or that of a new frame.
LEMMA FrameMeanings ==
    ASSUME NEW a \in Agent, NEW F, Brings(a, F), NEW t \in Term, NEW b \in Abbrev, InFrame(t, b)'
    PROVE  InFrame(t, b) \/ \E f \in F : f.act # "drop" /\ f.term = t /\ f.abbrev = b
<1>1. PICK c \in Agent : \E i \in DOMAIN wire'[c] :
        wire'[c][i].act # "drop" /\ wire'[c][i].term = t /\ wire'[c][i].abbrev = b
  BY DEF InFrame
<1>2. PICK i \in DOMAIN wire'[c] :
        wire'[c][i].act # "drop" /\ wire'[c][i].term = t /\ wire'[c][i].abbrev = b
  BY <1>1
<1>3. CASE \E j \in DOMAIN wire[c] : wire'[c][i] = wire[c][j]
  BY <1>2, <1>3, Zenon DEF InFrame
<1>4. CASE wire'[c][i] \in F
  BY <1>2, <1>4
<1>5. QED
  BY <1>2, <1>3, <1>4 DEF Brings

\* No entry and no reverse map means anything new.
NoNewTables(t, b) ==
    (InReverse(t, b)' => InReverse(t, b)) /\ (InEntry(t, b)' => InEntry(t, b))

\* deactivate is such a step.
LEMMA DeactivatedMeanings ==
    ASSUME GlossTypeOK, NEW a \in Agent, NEW b \in Abbrev, Deactivate(a, b),
           NEW t \in Term, NEW d \in Abbrev
    PROVE  NoNewTables(t, d)
<1>1. CASE UNCHANGED <<entry, reverse, dropped, reserved>>
  BY <1>1 DEF NoNewTables, InReverse, InEntry
<1>2. ASSUME NEW u \in Term, GivesUp(a, u, b) PROVE NoNewTables(t, d)
  <2>1. \A c \in Agent : reverse'[c][d] = t => reverse[c][d] = t
    BY <1>2, NoneIsNothing DEF GivesUp
  <2>2. \A c \in Agent : entry'[c][t].state # "none" => entry'[c][t] = entry[c][t]
    BY <1>2 DEF GivesUp, NoEntry
  <2>3. QED
    BY <2>1, <2>2, Zenon DEF NoNewTables, InReverse, InEntry
<1>3. QED
  BY <1>1, <1>2, DeactivatedTables

\* Activating what already means something makes nothing new.
LEMMA ActivatedMeanings ==
    ASSUME GlossTypeOK, NEW a \in Agent, NEW t \in Term, NEW b \in Abbrev,
           Activate(a, t, b), Means(t, b), NEW u \in Term, NEW d \in Abbrev,
           InReverse(u, d)' \/ InEntry(u, d)'
    PROVE  Means(u, d)
<1>1. ASSUME NEW c \in Agent, reverse'[c][d] = u PROVE Means(u, d)
  <2>1. CASE c = a /\ d = b
    BY <1>1, <2>1, ActivatedTables
  <2>2. CASE ~(c = a /\ d = b)
    <3>1. reverse[c][d] = u
      BY <1>1, <2>2, ActivatedTables
    <3>2. QED
      BY <3>1, Meanings
  <2>3. QED
    BY <2>1, <2>2
<1>2. ASSUME NEW c \in Agent, entry'[c][u].state # "none", entry'[c][u].abbrev = d PROVE Means(u, d)
  <2>1. CASE c = a /\ u = t
    <3>1. entry'[c][u] = Entry("active", b)
      BY <2>1, ActivatedTables
    <3>2. QED
      BY <1>2, <2>1, <3>1 DEF Entry
  <2>2. CASE ~(c = a /\ u = t)
    <3>1. entry'[c][u] = entry[c][u]
      BY <2>2, ActivatedTables
    <3>2. QED
      BY <1>2, <3>1, Meanings
  <2>3. QED
    BY <2>1, <2>2
<1>3. QED
  BY <1>1, <1>2 DEF InReverse, InEntry

\* Only a proposal gives a term or an abbreviation a meaning.
LEMMA NoNewMeaning ==
    ASSUME GlossTypeOK, [GlossNext]_glossVars,
           ~(\E a \in Agent, v \in Term : Propose(a, v)),
           NEW t \in Term, NEW d \in Abbrev, Means(t, d)'
    PROVE  Means(t, d)
<1> USE DEF Means
<1>1. CASE UNCHANGED glossVars
  BY <1>1 DEF glossVars, InReverse, InEntry, InFrame
<1>2. ASSUME NEW a \in Agent, NEW v \in Term, Speaks(a, v) PROVE Means(t, d)
  <2>1. NoNewTables(t, d)
    BY <1>2 DEF Speaks, NoNewTables, InReverse, InEntry
  <2>2. ASSUME InFrame(t, d)' PROVE Means(t, d)
    <3> DEFINE f == Gloss("msg", v, Compact(a, v))
    <3>1. Brings(a, {f})
      BY <1>2, SentFrames, NewFrames DEF Speaks, Body
    <3>2. InFrame(t, d) \/ (f.term = t /\ f.abbrev = d)
      <4> HIDE DEF f
      <4>1. QED
        BY <2>2, <3>1, FrameMeanings
    <3>3. ASSUME f.term = t, f.abbrev = d PROVE Means(t, d)
      <4>1. v = t /\ Compact(a, v) = d
        BY <3>3 DEF Gloss
      <4>2. entry[a][t].state = "active" /\ entry[a][t].abbrev = d
        BY <4>1, NoneIsNothing DEF Compact
      <4>3. QED
        BY <4>2, Meanings
    <3>4. QED
      BY <3>2, <3>3
  <2>3. QED
    BY <2>1, <2>2 DEF NoNewTables
<1>3. ASSUME NEW a \in Agent, NEW b \in Abbrev, Drop(a, b) PROVE Means(t, d)
  <2>1. NoNewTables(t, d)
    BY <1>3, DeactivatedMeanings DEF Drop
  <2>2. Brings(a, {Gloss("drop", None, b)})
    BY <1>3, SentFrames, NewFrames DEF Drop
  <2>3. InFrame(t, d)' => InFrame(t, d)
    <3>1. Gloss("drop", None, b).act = "drop"
      BY DEF Gloss
    <3>2. QED
      BY <2>2, <3>1, FrameMeanings
  <2>4. QED
    BY <2>1, <2>3 DEF NoNewTables
<1>4. ASSUME NEW a \in Agent, wire[a] # <<>>, NEW v \in Term, NEW b \in Abbrev,
             Head(wire[a]) = Gloss("propose", v, b), Proposed(a, v, b)
      PROVE  Means(t, d)
  <2>1. Means(v, b)
    BY <1>4, HeadMeans
  <2>2. Means(v, Settled(a, v, b))
    BY <2>1, Meanings DEF Settled
  <2>3. InReverse(t, d)' \/ InEntry(t, d)' => Means(t, d)
    <3>1. CASE entry[a][v].state = "active"
      BY <1>4, <3>1 DEF Proposed, InReverse, InEntry
    <3>2. CASE entry[a][v].state # "active"
      <4>1. Activate(a, v, b)
        BY <1>4, <3>2 DEF Proposed
      <4>2. QED
        BY <2>1, <4>1, ActivatedMeanings
    <3>3. QED
      BY <3>1, <3>2
  <2>4. ASSUME InFrame(t, d)' PROVE Means(t, d)
    <3> DEFINE f == Gloss("ack", v, Settled(a, v, b))
    <3>1. Brings(a, {f})
      BY <1>4, Settles, SentFrames, NewFrames DEF Proposed, Settled
    <3>2. InFrame(t, d) \/ (f.term = t /\ f.abbrev = d)
      <4> HIDE DEF f
      <4>1. QED
        BY <2>4, <3>1, FrameMeanings
    <3>3. f.term = v /\ f.abbrev = Settled(a, v, b)
      BY DEF Gloss
    <3> HIDE DEF f
    <3>4. QED
      BY <2>2, <3>2, <3>3
  <2>5. QED
    BY <2>3, <2>4
<1>5. ASSUME NEW a \in Agent, wire[a] # <<>>, NEW v \in Term, NEW b \in Abbrev,
             Head(wire[a]) = Gloss("ack", v, b), Acked(a, v, b)
      PROVE  Means(t, d)
  <2>1. Means(v, b)
    BY <1>5, HeadMeans
  <2>2. InReverse(t, d)' \/ InEntry(t, d)' => Means(t, d)
    <3>1. CASE entry[a][v].state # "proposed"
      BY <1>5, <3>1 DEF Acked, InReverse, InEntry
    <3>2. CASE entry[a][v].state = "proposed"
      <4>1. Activate(a, v, b)
        BY <1>5, <3>2 DEF Acked
      <4>2. QED
        BY <2>1, <4>1, ActivatedMeanings
    <3>3. QED
      BY <3>1, <3>2
  <2>3. InFrame(t, d)' => InFrame(t, d)
    <3>1. Brings(a, {})
      BY <1>5, NewFrames DEF Acked
    <3>2. QED
      BY <3>1, FrameMeanings
  <2>4. QED
    BY <2>2, <2>3
<1>6. ASSUME NEW a \in Agent, wire[a] # <<>>, NEW v \in Term, NEW b, Heard(a, v, b)
      PROVE  Means(t, d)
  <2>1. NoNewTables(t, d)
    BY <1>6 DEF Heard, NoNewTables, InReverse, InEntry
  <2>2. Brings(a, {})
    BY <1>6, NewFrames DEF Heard
  <2>3. InFrame(t, d)' => InFrame(t, d)
    BY <2>2, FrameMeanings
  <2>4. QED
    BY <2>1, <2>3 DEF NoNewTables
<1>7. ASSUME NEW a \in Agent, wire[a] # <<>>, NEW b \in Abbrev, Dropped(a, b)
      PROVE  Means(t, d)
  <2>1. NoNewTables(t, d)
    BY <1>7, DeactivatedMeanings DEF Dropped
  <2>2. Brings(a, {})
    BY <1>7, NewFrames DEF Dropped
  <2>3. InFrame(t, d)' => InFrame(t, d)
    BY <2>2, FrameMeanings
  <2>4. QED
    BY <2>1, <2>3 DEF NoNewTables
<1>8. QED
  BY <1>1, <1>2, <1>3, <1>4, <1>5, <1>6, <1>7, StepKinds

\* A proposal gives one abbreviation, not in use, to one term without a meaning.
LEMMA ProposalMeans ==
    ASSUME GlossTypeOK, NEW a \in Agent, NEW t \in Term, Propose(a, t)
    PROVE  \E b \in Abbrev :
             /\ b \notin reserved[a] /\ reserved' = [reserved EXCEPT ![a] = @ \cup {b}]
             /\ entry' = [entry EXCEPT ![a][t] = Entry("proposed", b)]
             /\ wire' \in Sent(a, Gloss("propose", t, b), wire) /\ Gloss("propose", t, b) \in Frame
             /\ \A u \in Term, d \in Abbrev : Means(u, d)' => Means(u, d) \/ (u = t /\ d = b)
<1>1. PICK n \in Gen(a, t) :
        /\ reserved' = [reserved EXCEPT ![a] = @ \cup {<<Base[t], n>>}]
        /\ entry' = [entry EXCEPT ![a][t] = Entry("proposed", <<Base[t], n>>)]
        /\ wire' \in Sent(a, Gloss("propose", t, <<Base[t], n>>), wire)
  BY DEF Propose, Awaiting, Sent
<1> DEFINE b == <<Base[t], n>>
           f == Gloss("propose", t, b)
<1>2. b \in Abbrev /\ b \notin reserved[a]
  BY GenOffers
<1>3. f \in Frame /\ f.term = t /\ f.abbrev = b
  BY <1>2, SentFrames DEF Gloss
<1>4. /\ entry' = [entry EXCEPT ![a][t] = Entry("proposed", b)]
      /\ reserved' = [reserved EXCEPT ![a] = @ \cup {b}] /\ wire' \in Sent(a, f, wire)
  BY <1>1
<1> HIDE DEF b
<1>5. ASSUME NEW u \in Term, NEW d \in Abbrev, Means(u, d)', ~(u = t /\ d = b)
      PROVE  Means(u, d)
  <2>1. InReverse(u, d)' => InReverse(u, d)
    BY DEF Propose, InReverse
  <2>2. InEntry(u, d)' => InEntry(u, d)
    <3>1. ASSUME NEW c \in Agent, entry'[c][u].state # "none", entry'[c][u].abbrev = d
          PROVE  entry'[c][u] = entry[c][u]
      BY <1>4, <1>5, <3>1 DEF GlossTypeOK, Entry
    <3>2. QED
      BY <3>1, Zenon DEF InEntry
  <2>3. InFrame(u, d)' => InFrame(u, d)
    <3>1. Brings(a, {f})
      BY <1>3, <1>4, NewFrames
    <3> HIDE DEF f
    <3>2. QED
      BY <1>3, <1>5, <3>1, FrameMeanings
  <2>4. QED
    BY <1>5, <2>1, <2>2, <2>3 DEF Means
<1>6. \A u \in Term, d \in Abbrev : Means(u, d)' => Means(u, d) \/ (u = t /\ d = b)
  BY <1>5
<1>7. QED
  BY <1>2, <1>3, <1>4, <1>6

\* What a step does to an agent's memory of what it reserved and dropped.
LEMMA Remembered ==
    ASSUME GlossTypeOK, [GlossNext]_glossVars, NEW p \in Agent
    PROVE  /\ reserved[p] \subseteq reserved'[p] /\ dropped[p] \subseteq dropped'[p]
           /\ \A t \in Term :
                entry[p][t].state # "none" /\ entry'[p][t].state = "none" => t \in dropped'[p]
<1> DEFINE Kept == /\ reserved[p] \subseteq reserved'[p] /\ dropped[p] \subseteq dropped'[p]
                   /\ \A t \in Term :
                        entry[p][t].state # "none" /\ entry'[p][t].state = "none" => t \in dropped'[p]
<1>1. ASSUME NEW a \in Agent, NEW b \in Abbrev, Deactivate(a, b) PROVE Kept
  <2>1. CASE UNCHANGED <<entry, reverse, dropped, reserved>>
    BY <2>1
  <2>2. ASSUME NEW u \in Term, GivesUp(a, u, b) PROVE Kept
    BY <2>2 DEF GivesUp
  <2>3. QED
    BY <1>1, <2>1, <2>2, DeactivatedTables
<1>2. ASSUME NEW a \in Agent, NEW t \in Term, NEW b \in Abbrev, Activate(a, t, b), UNCHANGED dropped
      PROVE  Kept
  <2>1. /\ entry'[a][t] = Entry("active", b) /\ reserved[p] \subseteq reserved'[p]
        /\ \A u \in Term : p # a \/ u # t => entry'[p][u] = entry[p][u]
    BY <1>2, ActivatedTables
  <2>2. entry'[a][t].state = "active"
    BY <2>1 DEF Entry
  <2>3. QED
    BY <1>2, <2>1, <2>2
<1>3. ASSUME NEW a \in Agent, NEW t \in Term, Propose(a, t) PROVE Kept
  <2>1. PICK b \in Abbrev : /\ reserved' = [reserved EXCEPT ![a] = @ \cup {b}]
                            /\ entry' = [entry EXCEPT ![a][t] = Entry("proposed", b)]
    BY <1>3, ProposalMeans
  <2>2. QED
    BY <1>3, <2>1 DEF Propose, GlossTypeOK, Entry
<1>4. ASSUME UNCHANGED <<entry, dropped, reserved>> PROVE Kept
  BY <1>4
<1> HIDE DEF Kept
<1>5. Kept
  BY <1>1, <1>2, <1>3, <1>4, StepKinds
     DEF Speaks, Drop, Proposed, Acked, Heard, Dropped, glossVars
<1>6. QED
  BY <1>5 DEF Kept

\* Terms and abbreviations keep their meanings, and the proposer knows them all.
LEMMA StepMeanings ==
    ASSUME OneProposer, GlossTypeOK, OneMeaning, Known, Untouched, [GlossNext]_glossVars
    PROVE  OneMeaning' /\ Known' /\ Untouched'
<1>1. CASE ~(\E a \in Agent, v \in Term : Propose(a, v))
  <2>1. \A t \in Term, d \in Abbrev : Means(t, d)' => Means(t, d)
    BY <1>1, NoNewMeaning
  <2>2. OneMeaning'
    BY <2>1, Zenon DEF OneMeaning
  <2>3. Known'
    BY <2>1, Remembered, GlossConstants DEF Known
  <2>4. Untouched'
    <3>1. ASSUME NEW p \in Proposer, NEW t \in Term, NEW b \in Abbrev,
                 entry'[p][t].state = "none", t \notin dropped'[p]
          PROVE  ~Means(t, b)'
      <4>1. t \notin dropped[p] /\ entry[p][t].state = "none"
        BY <3>1, Remembered, GlossConstants
      <4>2. QED
        BY <2>1, <4>1 DEF Untouched
    <3>2. QED
      BY <3>1, Zenon DEF Untouched
  <2>5. QED
    BY <2>2, <2>3, <2>4
<1>2. ASSUME NEW a \in Agent, NEW t \in Term, Propose(a, t)
      PROVE  OneMeaning' /\ Known' /\ Untouched'
  <2>1. PICK b \in Abbrev :
          /\ b \notin reserved[a] /\ reserved' = [reserved EXCEPT ![a] = @ \cup {b}]
          /\ entry' = [entry EXCEPT ![a][t] = Entry("proposed", b)]
          /\ \A u \in Term, d \in Abbrev : Means(u, d)' => Means(u, d) \/ (u = t /\ d = b)
    BY <1>2, ProposalMeans
  <2>2. a \in Proposer /\ entry[a][t].state = "none" /\ t \notin dropped[a]
        /\ UNCHANGED dropped
    BY <1>2 DEF Propose
  <2>3. \A d \in Abbrev : ~Means(t, d)
    BY <2>2 DEF Untouched
  <2>4. \A u \in Term : ~Means(u, b)
    BY <2>1, <2>2 DEF Known
  <2>5. OneMeaning'
    <3>1. ASSUME NEW u \in Term, NEW v \in Term, NEW c \in Abbrev, NEW d \in Abbrev,
                 Means(u, c)', Means(v, d)'
          PROVE  u = v <=> c = d
      <4>1. Means(u, c) \/ (u = t /\ c = b)
        BY <2>1, <3>1
      <4>2. Means(v, d) \/ (v = t /\ d = b)
        BY <2>1, <3>1
      <4>3. QED
        BY <2>3, <2>4, <4>1, <4>2 DEF OneMeaning
    <3>2. QED
      BY <3>1, Zenon DEF OneMeaning
  <2>6. \A p \in Proposer : p = a
    BY <2>2 DEF OneProposer
  <2>7. Known'
    <3>1. b \in reserved'[a] /\ reserved[a] \subseteq reserved'[a]
      BY <2>1 DEF GlossTypeOK
    <3>2. QED
      BY <2>1, <2>2, <2>6, <3>1 DEF Known
  <2>8. Untouched'
    <3>1. \A u \in Term : entry'[a][u].state = "none" => u # t /\ entry[a][u].state = "none"
      BY <2>1 DEF GlossTypeOK, Entry
    <3>2. ASSUME NEW u \in Term, NEW d \in Abbrev, entry'[a][u].state = "none", u \notin dropped'[a]
          PROVE  ~Means(u, d)'
      <4>1. u # t /\ ~Means(u, d)
        BY <2>2, <3>1, <3>2 DEF Untouched
      <4>2. QED
        BY <2>1, <4>1
    <3>3. QED
      BY <2>6, <3>2, Zenon DEF Untouched
  <2>9. QED
    BY <2>5, <2>7, <2>8
<1>3. QED
  BY <1>1, <1>2

\* Two abbreviations of one term, or two terms of one abbreviation.
LEMMA SameMeaning ==
    ASSUME OneMeaning, NEW t \in Term, NEW b \in Abbrev, Means(t, b)
    PROVE  /\ \A c \in Abbrev : Means(t, c) => b = c
           /\ \A u \in Term : Means(u, b) => t = u
BY DEF OneMeaning

\* A message is read as what was said.
LEMMA StepNeverMisread ==
    ASSUME GlossTypeOK, OneMeaning, NeverMisread, [GlossNext]_glossVars
    PROVE  NeverMisread'
<1>1. ASSUME NEW a \in Agent, wire[a] # <<>>, NEW t \in Term, NEW b \in Abbrev \cup {None},
             Head(wire[a]) = Gloss("msg", t, b), Heard(a, t, b)
      PROVE  NeverMisread'
  <2>1. CASE b = None
    BY <1>1, <2>1 DEF Heard, NeverMisread
  <2>2. CASE b \in Abbrev
    <3>1. Means(t, b)
      BY <1>1, <2>2, HeadMeans
    <3>2. ASSUME reverse[a][b] # None PROVE reverse[a][b] = t
      <4>1. reverse[a][b] \in Term
        BY <2>2, <3>2 DEF GlossTypeOK
      <4>2. Means(reverse[a][b], b)
        BY <2>2, <4>1, Meanings
      <4>3. QED
        BY <2>2, <3>1, <4>1, <4>2, SameMeaning
    <3>3. QED
      BY <1>1, <3>2 DEF Heard, NeverMisread, Expand
  <2>3. QED
    BY <2>1, <2>2
<1>2. CASE wrong' = wrong
  BY <1>2 DEF NeverMisread
<1>3. QED
  BY <1>1, <1>2, StepKinds DEF Propose, Speaks, Drop, Proposed, Acked, Dropped, glossVars

\* Entries and the reverse map change together.
LEMMA StepFound ==
    ASSUME GlossTypeOK, OneMeaning, Found, [GlossNext]_glossVars
    PROVE  Found'
<1>1. ASSUME NEW a \in Agent, NEW b \in Abbrev, Deactivate(a, b) PROVE Found'
  <2>1. CASE UNCHANGED <<entry, reverse, dropped, reserved>>
    BY <2>1 DEF Found
  <2>2. ASSUME NEW u \in Term, GivesUp(a, u, b) PROVE Found'
    <3>1. ASSUME NEW c \in Agent, NEW t \in Term, entry'[c][t].state = "active"
          PROVE  reverse'[c][entry'[c][t].abbrev] = t
      <4>1. entry'[c][t] = entry[c][t] /\ ~(c = a /\ t = u)
        BY <2>2, <3>1 DEF GivesUp, NoEntry
      <4>2. reverse[c][entry[c][t].abbrev] = t /\ entry[c][t].abbrev \in Abbrev
        BY <3>1, <4>1, Meanings DEF Found
      <4>3. c = a => entry[c][t].abbrev # b
        BY <2>2, <4>1, <4>2 DEF GivesUp
      <4>4. QED
        BY <2>2, <4>1, <4>2, <4>3 DEF GivesUp
    <3>2. QED
      BY <3>1, Zenon DEF Found
  <2>3. QED
    BY <1>1, <2>1, <2>2, DeactivatedTables
<1>2. ASSUME NEW a \in Agent, NEW u \in Term, NEW b \in Abbrev, Activate(a, u, b), Means(u, b)
      PROVE  Found'
  <2>1. ASSUME NEW c \in Agent, NEW t \in Term, entry'[c][t].state = "active"
        PROVE  reverse'[c][entry'[c][t].abbrev] = t
    <3>1. CASE c = a /\ t = u
      <4>1. entry'[a][u] = Entry("active", b) /\ reverse'[a][b] = u
        BY <1>2, ActivatedTables
      <4>2. entry'[a][u].abbrev = b
        BY <4>1 DEF Entry
      <4>3. QED
        BY <3>1, <4>1, <4>2
    <3>2. CASE ~(c = a /\ t = u)
      <4>1. entry'[c][t] = entry[c][t]
        BY <1>2, <3>2, ActivatedTables
      <4>2. /\ reverse[c][entry[c][t].abbrev] = t /\ entry[c][t].abbrev \in Abbrev
            /\ Means(t, entry[c][t].abbrev)
        BY <2>1, <4>1, Meanings DEF Found
      <4>3. c = a => entry[c][t].abbrev # b
        BY <1>2, <3>2, <4>2, SameMeaning
      <4>4. QED
        BY <1>2, <4>1, <4>2, <4>3, ActivatedTables
    <3>3. QED
      BY <3>1, <3>2
  <2>2. QED
    BY <2>1, Zenon DEF Found
<1>3. ASSUME NEW a \in Agent, NEW u \in Term, Propose(a, u) PROVE Found'
  <2>1. PICK b \in Abbrev : entry' = [entry EXCEPT ![a][u] = Entry("proposed", b)]
    BY <1>3, ProposalMeans
  <2>2. \A c \in Agent, t \in Term : entry'[c][t].state = "active" => entry'[c][t] = entry[c][t]
    BY <2>1 DEF GlossTypeOK, Entry
  <2>3. QED
    BY <1>3, <2>2 DEF Found, Propose
<1>4. CASE UNCHANGED <<entry, reverse>>
  BY <1>4 DEF Found
<1>5. ASSUME NEW a \in Agent, wire[a] # <<>>, NEW t \in Term, NEW b \in Abbrev,
             \/ Head(wire[a]) = Gloss("propose", t, b) /\ Proposed(a, t, b)
             \/ Head(wire[a]) = Gloss("ack", t, b) /\ Acked(a, t, b)
      PROVE  Found'
  <2>1. Means(t, b)
    BY <1>5, HeadMeans
  <2>2. Activate(a, t, b) \/ UNCHANGED <<entry, reverse>>
    BY <1>5 DEF Proposed, Acked
  <2>3. QED
    BY <1>2, <1>4, <2>1, <2>2
<1>6. QED
  BY <1>1, <1>3, <1>4, <1>5, StepKinds DEF Speaks, Drop, Heard, Dropped, glossVars

\* Proposals are sent by proposers only.
LEMMA StepOneWay ==
    ASSUME GlossTypeOK, OneWay, [GlossNext]_glossVars
    PROVE  OneWay'
<1>1. ASSUME NEW a \in Agent, NEW F, Brings(a, F),
             \A f \in F : f.act = "propose" => a \in Proposer
      PROVE  OneWay'
  <2>1. ASSUME NEW c \in Agent, NEW i \in DOMAIN wire'[c], wire'[c][i].act = "propose"
        PROVE  Peer(c) \in Proposer
    <3>1. CASE \E j \in DOMAIN wire[c] : wire'[c][i] = wire[c][j]
      BY <2>1, <3>1 DEF OneWay
    <3>2. CASE c = Peer(a) /\ wire'[c][i] \in F
      BY <1>1, <2>1, <3>2, TwoAgents
    <3>3. QED
      BY <1>1, <3>1, <3>2 DEF Brings
  <2>2. QED
    BY <2>1, Zenon DEF OneWay
<1>2. ASSUME NEW a \in Agent, NEW t \in Term, Propose(a, t) PROVE OneWay'
  <2>1. PICK b \in Abbrev :
          wire' \in Sent(a, Gloss("propose", t, b), wire) /\ Gloss("propose", t, b) \in Frame
    BY <1>2, ProposalMeans
  <2>2. Brings(a, {Gloss("propose", t, b)})
    BY <2>1, NewFrames
  <2>3. QED
    BY <1>1, <1>2, <2>2 DEF Propose
<1>3. ASSUME NEW a \in Agent, NEW t \in Term, Speaks(a, t) PROVE OneWay'
  <2>1. Brings(a, {Gloss("msg", t, Compact(a, t))})
    BY <1>3, SentFrames, NewFrames DEF Speaks, Body
  <2>2. QED
    BY <1>1, <2>1 DEF Gloss
<1>4. ASSUME NEW a \in Agent, NEW b \in Abbrev, Drop(a, b) PROVE OneWay'
  <2>1. Brings(a, {Gloss("drop", None, b)})
    BY <1>4, SentFrames, NewFrames DEF Drop
  <2>2. QED
    BY <1>1, <2>1 DEF Gloss
<1>5. ASSUME NEW a \in Agent, wire[a] # <<>>, NEW t \in Term, NEW b \in Abbrev, Proposed(a, t, b)
      PROVE  OneWay'
  <2>1. Brings(a, {Gloss("ack", t, Settled(a, t, b))})
    BY <1>5, Settles, SentFrames, NewFrames DEF Proposed, Settled
  <2>2. QED
    BY <1>1, <2>1 DEF Gloss
<1>6. ASSUME NEW a \in Agent, wire[a] # <<>>, wire' = Rest(a) PROVE OneWay'
  <2>1. Brings(a, {})
    BY <1>6, NewFrames
  <2>2. QED
    BY <1>1, <2>1
<1>7. CASE UNCHANGED glossVars
  BY <1>7 DEF OneWay, glossVars
<1>8. QED
  BY <1>2, <1>3, <1>4, <1>5, <1>6, <1>7, StepKinds DEF Acked, Heard, Dropped

\* The proposer is never asked.
LEMMA NeverAsked ==
    ASSUME OneProposer, GlossTypeOK, OneWay, NEW p \in Proposer, NEW t, NEW b, wire[p] # <<>>
    PROVE  Head(wire[p]) # Gloss("propose", t, b)
<1> SUFFICES ASSUME Head(wire[p]) = Gloss("propose", t, b) PROVE FALSE
  OBVIOUS
<1>1. p \in Agent
  BY GlossConstants
<1>2. 1 \in DOMAIN wire[p] /\ wire[p][1] = Gloss("propose", t, b)
  BY <1>1, Taken DEF GlossTypeOK
<1>3. Peer(p) \in Proposer
  BY <1>1, <1>2 DEF OneWay, Gloss
<1>4. QED
  BY <1>1, <1>3, TwoAgents DEF OneProposer

\* A term held or dropped stays so.
LEMMA StaysHeld ==
    ASSUME GlossTypeOK, [GlossNext]_glossVars, NEW a \in Agent, NEW t \in Term, Holds(a, t)
    PROVE  Holds(a, t)'
BY Remembered DEF Holds

\* A step that makes no entry of the proposer's active but t's, for which there
\* was an ack, and brings it no ack but of a term that its peer holds.
LEMMA KeepsAnswered ==
    ASSUME GlossTypeOK, Answered, [GlossNext]_glossVars, NEW p \in Proposer, NEW t \in Term,
           entry'[p][t].state = "active" => entry[p][t].state = "active" \/ AckFor(p, t),
           NEW a \in Agent, NEW F, Brings(a, F),
           a = Peer(p) => \A f \in F : f.act = "ack" /\ f.term = t => Holds(a, t)',
           entry'[p][t].state = "active" \/ AckFor(p, t)'
    PROVE  Holds(Peer(p), t)'
<1>1. p \in Agent /\ Peer(p) \in Agent
  BY GlossConstants, TwoAgents
<1>2. CASE entry[p][t].state = "active" \/ AckFor(p, t)
  BY <1>1, <1>2, StaysHeld DEF Answered
<1>3. CASE ~(entry[p][t].state = "active" \/ AckFor(p, t))
  <2>1. PICK i \in DOMAIN wire'[p] : wire'[p][i].act = "ack" /\ wire'[p][i].term = t
    BY <1>3 DEF AckFor
  <2>2. ~(\E j \in DOMAIN wire[p] : wire'[p][i] = wire[p][j])
    BY <1>3, <2>1 DEF AckFor
  <2>3. p = Peer(a) /\ wire'[p][i] \in F
    BY <1>1, <2>2 DEF Brings
  <2>4. a = Peer(p)
    BY <2>3, TwoAgents
  <2>5. QED
    BY <2>1, <2>3, <2>4
<1>4. QED
  BY <1>2, <1>3

\* An agent's entry for t is active after deactivate only if it was before.
LEMMA DeactivatedActive ==
    ASSUME GlossTypeOK, NEW a \in Agent, NEW b \in Abbrev, Deactivate(a, b),
           NEW p \in Agent, NEW t \in Term, entry'[p][t].state = "active"
    PROVE  entry[p][t].state = "active"
<1>1. CASE UNCHANGED <<entry, reverse, dropped, reserved>>
  BY <1>1
<1>2. ASSUME NEW u \in Term, GivesUp(a, u, b) PROVE entry[p][t].state = "active"
  BY <1>2 DEF GivesUp, NoEntry
<1>3. QED
  BY <1>1, <1>2, DeactivatedTables

\* Answered, under every step.
LEMMA StepAnswered ==
    ASSUME OneProposer, GlossTypeOK, OneWay, Answered, [GlossNext]_glossVars
    PROVE  Answered'
<1> SUFFICES ASSUME NEW p \in Proposer, NEW t \in Term,
                    entry'[p][t].state = "active" \/ AckFor(p, t)'
             PROVE  Holds(Peer(p), t)'
  BY DEF Answered
<1> DEFINE Live == entry'[p][t].state = "active" => entry[p][t].state = "active" \/ AckFor(p, t)
<1>1. p \in Agent
  BY GlossConstants
<1>2. ASSUME NEW a \in Agent, NEW u \in Term, Propose(a, u) PROVE Holds(Peer(p), t)'
  <2>1. PICK b \in Abbrev :
          /\ entry' = [entry EXCEPT ![a][u] = Entry("proposed", b)]
          /\ wire' \in Sent(a, Gloss("propose", u, b), wire) /\ Gloss("propose", u, b) \in Frame
    BY <1>2, ProposalMeans
  <2>2. Brings(a, {Gloss("propose", u, b)})
    BY <2>1, NewFrames
  <2>3. Live
    BY <1>1, <2>1 DEF GlossTypeOK, Entry
  <2>4. QED
    BY <2>2, <2>3, KeepsAnswered DEF Gloss
<1>3. ASSUME NEW a \in Agent, NEW u \in Term, Speaks(a, u) PROVE Holds(Peer(p), t)'
  <2>1. Brings(a, {Gloss("msg", u, Compact(a, u))})
    BY <1>3, SentFrames, NewFrames DEF Speaks, Body
  <2>2. Live
    BY <1>3 DEF Speaks
  <2>3. QED
    BY <2>1, <2>2, KeepsAnswered DEF Gloss
<1>4. ASSUME NEW a \in Agent, NEW b \in Abbrev, Drop(a, b) PROVE Holds(Peer(p), t)'
  <2>1. Brings(a, {Gloss("drop", None, b)})
    BY <1>4, SentFrames, NewFrames DEF Drop
  <2>2. Live
    BY <1>1, <1>4, DeactivatedActive DEF Drop
  <2>3. QED
    BY <2>1, <2>2, KeepsAnswered DEF Gloss
\* The peer answers a proposal: it holds the term from then on.
<1>5. ASSUME NEW a \in Agent, wire[a] # <<>>, NEW u \in Term, NEW b \in Abbrev,
             Head(wire[a]) = Gloss("propose", u, b), Proposed(a, u, b)
      PROVE  Holds(Peer(p), t)'
  <2> DEFINE f == Gloss("ack", u, Settled(a, u, b))
  <2>1. Brings(a, {f})
    BY <1>5, Settles, SentFrames, NewFrames DEF Proposed, Settled
  <2>2. f.term = u
    BY DEF Gloss
  <2>3. entry'[a][u].state = "active"
    <3>1. CASE entry[a][u].state = "active"
      BY <1>5, <3>1 DEF Proposed
    <3>2. CASE entry[a][u].state # "active"
      <4>1. entry'[a][u] = Entry("active", b)
        BY <1>5, <3>2, ActivatedTables DEF Proposed
      <4>2. QED
        BY <4>1 DEF Entry
    <3>3. QED
      BY <3>1, <3>2
  <2>4. Holds(a, u)'
    BY <2>3 DEF Holds
  <2>5. a # p
    BY <1>5, NeverAsked
  <2>6. Live
    BY <1>1, <1>5, <2>5, ActivatedTables DEF Proposed
  <2> HIDE DEF f
  <2>7. QED
    BY <2>1, <2>2, <2>4, <2>6, KeepsAnswered
\* The proposer takes an ack in.
<1>6. ASSUME NEW a \in Agent, wire[a] # <<>>, NEW u \in Term, NEW b \in Abbrev,
             Head(wire[a]) = Gloss("ack", u, b), Acked(a, u, b)
      PROVE  Holds(Peer(p), t)'
  <2>1. Brings(a, {})
    BY <1>6, NewFrames DEF Acked
  <2>2. AckFor(a, u)
    <3>1. 1 \in DOMAIN wire[a] /\ wire[a][1] = Gloss("ack", u, b)
      BY <1>6, Taken DEF GlossTypeOK
    <3>2. QED
      BY <3>1 DEF AckFor, Gloss
  <2>3. Live
    <3>1. CASE a = p /\ u = t
      BY <2>2, <3>1
    <3>2. CASE ~(a = p /\ u = t)
      BY <1>1, <1>6, <3>2, ActivatedTables DEF Acked
    <3>3. QED
      BY <3>1, <3>2
  <2>4. QED
    BY <2>1, <2>3, KeepsAnswered
<1>7. ASSUME NEW a \in Agent, wire[a] # <<>>, NEW u \in Term, NEW b, Heard(a, u, b)
      PROVE  Holds(Peer(p), t)'
  <2>1. Brings(a, {})
    BY <1>7, NewFrames DEF Heard
  <2>2. Live
    BY <1>7 DEF Heard
  <2>3. QED
    BY <2>1, <2>2, KeepsAnswered
<1>8. ASSUME NEW a \in Agent, wire[a] # <<>>, NEW b \in Abbrev, Dropped(a, b)
      PROVE  Holds(Peer(p), t)'
  <2>1. Brings(a, {})
    BY <1>8, NewFrames DEF Dropped
  <2>2. Live
    BY <1>1, <1>8, DeactivatedActive DEF Dropped
  <2>3. QED
    BY <2>1, <2>2, KeepsAnswered
<1>9. CASE UNCHANGED glossVars
  BY <1>9 DEF glossVars, Answered, AckFor, Holds
<1>10. QED
  BY <1>2, <1>3, <1>4, <1>5, <1>6, <1>7, <1>8, <1>9, StepKinds

\* Without a proposer there is no proposal.
LEMMA StepSilent ==
    ASSUME GlossTypeOK, Silent, [GlossNext]_glossVars
    PROVE  Silent'
<1>1. Proposer = {} => ~(\E a \in Agent, v \in Term : Propose(a, v))
  BY DEF Propose
<1>2. QED
  BY <1>1, NoNewMeaning DEF Silent

\* Nothing has been proposed.
LEMMA InitGlossInv == GlossInit => GlossInv
<1> SUFFICES ASSUME GlossInit PROVE GlossInv
  OBVIOUS
<1>1. GlossTypeOK
  <2>1. <<>> \in Seq(Frame)
    OBVIOUS
  <2>2. QED
    <3>1. wire \in [Agent -> Seq(Frame)] /\ wrong \in BOOLEAN
      BY <2>1 DEF GlossInit
    <3>2. called \in 0..MaxCalls
      BY GlossConstants DEF GlossInit
    <3>3. entry \in [Agent -> [Term -> {NoEntry} \cup [state : {"proposed", "active"}, abbrev : Abbrev]]]
      BY DEF GlossInit
    <3>4. QED
      BY <3>1, <3>2, <3>3 DEF GlossInit, GlossTypeOK
<1>2. /\ \A a \in Agent : wire[a] = <<>>
      /\ \A a \in Agent, t \in Term : entry[a][t] = NoEntry
      /\ \A a \in Agent, b \in Abbrev : reverse[a][b] = None
  BY DEF GlossInit
<1>3. \A a \in Agent : DOMAIN wire[a] = {}
  <2>1. Len(<<>>) = 0 /\ DOMAIN <<>> = 1..Len(<<>>)
    OBVIOUS
  <2>2. DOMAIN <<>> = {}
    BY <2>1
  <2>3. QED
    BY <1>2, <2>2, Zenon
<1>4. \A t \in Term, b \in Abbrev : ~Means(t, b)
  <2>1. \A t \in Term, b \in Abbrev : ~InReverse(t, b)
    BY <1>2, NoneIsNothing DEF InReverse
  <2>2. \A t \in Term, b \in Abbrev : ~InEntry(t, b)
    BY <1>2 DEF InEntry, NoEntry
  <2>3. \A t \in Term, b \in Abbrev : ~InFrame(t, b)
    BY <1>3 DEF InFrame
  <2>4. QED
    BY <2>1, <2>2, <2>3 DEF Means
<1>5. OneMeaning /\ Known /\ Untouched /\ Silent
  BY <1>4 DEF OneMeaning, Known, Untouched, Silent
<1>6. \A a \in Agent, t \in Term : entry[a][t].state = "none"
  BY <1>2 DEF NoEntry
<1>7. Found /\ OneWay
  BY <1>3, <1>6 DEF Found, OneWay
<1>8. Answered
  BY <1>3, <1>6, GlossConstants DEF Answered, AckFor
<1>9. NeverMisread
  BY DEF GlossInit, NeverMisread
<1>10. QED
  BY <1>1, <1>5, <1>7, <1>8, <1>9 DEF GlossInv

\* One step, all parts.
LEMMA StepGlossInv == OneProposer /\ GlossInv /\ [GlossNext]_glossVars => GlossInv'
<1> SUFFICES ASSUME OneProposer, GlossInv, [GlossNext]_glossVars PROVE GlossInv'
  OBVIOUS
<1>1. GlossTypeOK' /\ OneMeaning' /\ Known' /\ Untouched'
  BY StepGlossTypeOK, StepMeanings DEF GlossInv
<1>2. Found' /\ OneWay' /\ NeverMisread' /\ Silent'
  BY StepFound, StepOneWay, StepNeverMisread, StepSilent DEF GlossInv
<1>3. Answered'
  BY StepAnswered DEF GlossInv
<1>4. QED
  BY <1>1, <1>2, <1>3 DEF GlossInv

\* With at most one proposer, GlossInv is invariant.
LEMMA GlossInvariant == ASSUME OneProposer PROVE GlossSpec => []GlossInv
<1>1. GlossInv /\ [GlossNext]_glossVars => GlossInv'
  BY StepGlossInv
<1>2. QED
  BY <1>1, InitGlossInv, PTL DEF GlossSpec

\* A token expands to the term its sender meant (gloss.ts, compact and expand),
\* in every conversation in which one side proposes.
THEOREM TokensReadAsMeant ==
    ASSUME OneProposer PROVE GlossSpec => []NeverMisread
<1>1. GlossInv => NeverMisread
  BY DEF GlossInv
<1>2. QED
  BY <1>1, GlossInvariant, PTL

\* An active entry is held by the other side too, under the same abbreviation, or
\* was dropped there (gloss.ts, handleGloss): with any frame lost or any send
\* failing, or overtaken, and any number of terms, if one side proposes.
THEOREM ActiveEntriesAreHeld ==
    ASSUME OneProposer PROVE GlossSpec => []ActiveIsHeld
<1>1. GlossInv => ActiveIsHeld
  <2> SUFFICES ASSUME GlossInv, NEW a \in Agent, NEW t \in Term, entry[a][t].state = "active"
               PROVE  \/ entry[Peer(a)][t].abbrev = entry[a][t].abbrev
                      \/ t \in dropped[Peer(a)]
    BY DEF ActiveIsHeld
  <2> DEFINE q == Peer(a)
             b == entry[a][t].abbrev
  <2>0. GlossTypeOK /\ OneMeaning
    BY DEF GlossInv
  <2>1. q \in Agent /\ Peer(q) = a /\ \A c \in Agent : c = a \/ c = q
    BY TwoAgents
  <2>2. b \in Abbrev /\ Means(t, b)
    BY <2>0, Meanings
  <2> HIDE DEF q, b
  <2>3. PICK p \in Proposer : TRUE
    BY <2>2 DEF GlossInv, Silent
  <2>4. Holds(q, t)
    <3>1. CASE p = a
      BY <3>1 DEF GlossInv, Answered, q
    <3>2. CASE p = q
      BY <2>2, <3>2 DEF GlossInv, Untouched, Holds
    <3>3. QED
      BY <2>1, <3>1, <3>2, GlossConstants
  <2>5. ASSUME entry[q][t].state # "none" PROVE entry[q][t].abbrev = b
    <3>1. entry[q][t].abbrev \in Abbrev /\ Means(t, entry[q][t].abbrev)
      BY <2>0, <2>1, <2>5, Meanings
    <3>2. QED
      BY <2>0, <2>2, <3>1, SameMeaning
  <2>6. QED
    BY <2>4, <2>5 DEF Holds, q, b
<1>2. QED
  BY <1>1, GlossInvariant, PTL
=============================================================================
