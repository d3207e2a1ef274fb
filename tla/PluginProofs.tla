---------------------------- MODULE PluginProofs ----------------------------
(***************************************************************************)
(* Proofs about the plugin's session, for any number of sockets alive at   *)
(* once, any number of lookups and any backoff.                            *)
(***************************************************************************)
EXTENDS PluginSession, TLAPS

\* What holds between the events of a socket: one that dials, hangs or has
\* closed is neither welcomed nor watched, a welcome counts for the socket that
\* delivered it, and a deadline runs only with the interval.
Quiet ==
    /\ Current \in {"connecting", "hung", "closed"} => ~welcomed /\ watch = None
    /\ welcomed /\ ws # None => ws \in greeted
    /\ awaiting => watch # None

Safe == NoPhantomReconnect /\ ConnectedIsWelcomed /\ OpenIsWatched /\ WhoisEndsWithSocket

PluginInv == TypeOK /\ Safe /\ Quiet

\* Retiring a socket changes the one in use and leaves it neither dialling nor open.
LEMMA RetiredType ==
    ASSUME TypeOK
    PROVE  /\ Retired \in [Socket -> {"free", "connecting", "hung", "open", "half", "closing", "down", "closed"}]
           /\ \A s \in Socket : IF s = ws THEN Retired[s] \in {"free", "closing", "down"}
                                          ELSE Retired[s] = sock[s]
BY DEF TypeOK, Retired, Closing

\* The first dial.
LEMMA InitPluginInv == Init => PluginInv
<1> SUFFICES ASSUME Init PROVE PluginInv
  OBVIOUS
<1> USE NoneIsNoSocket, BackoffIsOrdered
<1>1. TypeOK
  <2>1. sock \in [Socket -> {"free", "connecting", "hung", "open", "half", "closing", "down", "closed"}]
    BY DEF Init
  <2>2. delay \in Initial..Longest
    BY DEF Init
  <2>3. secret \in {"none", "good", "stale", "renamed"} /\ dial \in {"config", "master"}
    BY DEF Init, Source
  <2>4. {welcomed, stopped, retry, awaiting, killed, enroll, latch, crashed, hubUp} \subseteq BOOLEAN
    BY DEF Init
  <2>5. /\ ws \in Socket /\ watch = None /\ greeted = {} /\ owed = {}
        /\ call \in [Call -> {"idle"}] /\ sentOn \in [Call -> {None}]
    BY DEF Init
  <2>6. QED
    BY <2>1, <2>2, <2>3, <2>4, <2>5 DEF TypeOK
<1>2. Safe /\ Quiet
  BY DEF Init, Safe, Quiet, Current, Connected, IsOpen, NoPhantomReconnect, ConnectedIsWelcomed,
         OpenIsWatched, WhoisEndsWithSocket
<1>3. QED
  BY <1>1, <1>2 DEF PluginInv

\* Types.
LEMMA StepTypeOK == PluginInv /\ [Next]_vars => TypeOK'
<1> SUFFICES ASSUME TypeOK, Quiet, [Next]_vars PROVE TypeOK'
  BY DEF PluginInv
<1> USE NoneIsNoSocket, BackoffIsOrdered DEF TypeOK, Becomes, link, timers, dog, auth, calls
<1>1. ASSUME NEW s \in Socket, Opens(s) PROVE TypeOK'
  BY <1>1 DEF Opens, FreshVerdict
<1>2. ASSUME NEW s \in Socket, Refused401(s) PROVE TypeOK'
  BY <1>2 DEF Refused401, Purges
<1>3. ASSUME NEW s \in Socket, RefusedOther(s) \/ GoesDown(s) \/ Drops(s) \/ GoesHalf(s) PROVE TypeOK'
  BY <1>3 DEF RefusedOther, GoesDown, Drops, GoesHalf
<1>4. ASSUME NEW s \in Socket, Welcome(s) PROVE TypeOK'
  <2>1. welcomed' \in BOOLEAN
    BY <1>4, Zenon DEF Welcome
  <2>2. delay' = delay \/ delay' = Initial
    BY <1>4 DEF Welcome
  <2>3. QED
    BY <1>4, <2>1, <2>2 DEF Welcome
<1>5. ASSUME NEW s \in Socket, Enrolled(s) PROVE TypeOK'
  BY <1>5 DEF Enrolled
<1>6. ASSUME NEW s \in Socket, CloseEvent(s) PROVE TypeOK'
  <2>1. delay' \in Initial..Longest
    BY <1>6 DEF CloseEvent, NextDelay
  <2>2. sock' \in [Socket -> {"free", "connecting", "hung", "open", "half", "closing", "down", "closed"}]
    BY <1>6 DEF CloseEvent
  <2>3. call' \in [Call -> {"idle", "whois", "orphan", "done", "failed"}] /\ crashed' \in BOOLEAN
    BY <1>6 DEF CloseEvent, FailWhoisWaiters
  <2>4. watch' \in Socket \cup {None} /\ {awaiting', welcomed', retry'} \subseteq BOOLEAN
    BY <1>6 DEF CloseEvent, StopWatch
  <2>5. QED
    BY <1>6, <2>1, <2>2, <2>3, <2>4 DEF CloseEvent
<1>7. ASSUME NEW s \in Socket, Pong(s) PROVE TypeOK'
  BY <1>7 DEF Pong
<1>8. ASSUME NEW s \in Socket, AgentInfo(s) \/ UnknownAgent(s) PROVE TypeOK'
  BY <1>8 DEF AgentInfo, UnknownAgent
<1>9. ASSUME NEW fate \in {"good", "stale", "renamed"}, Retarget(fate) PROVE TypeOK'
  <2>1. sock' \in [Socket -> {"free", "connecting", "hung", "open", "half", "closing", "down", "closed"}]
    BY <1>9, RetiredType DEF Retarget, Connect
  <2>2. secret' \in {"none", "good", "stale", "renamed"} /\ dial' \in {"config", "master"}
    BY <1>9 DEF Retarget, Connect, Source
  <2>3. call' \in [Call -> {"idle", "whois", "orphan", "done", "failed"}] /\ crashed' \in BOOLEAN
    BY <1>9 DEF Retarget, FailWhoisWaiters
  <2>4. ws' \in Socket /\ watch' = None /\ {awaiting', welcomed', retry', enroll'} \subseteq BOOLEAN
    BY <1>9 DEF Retarget, StopWatch, Connect, NoWelcome
  <2>5. QED
    BY <1>9, <2>1, <2>2, <2>3, <2>4 DEF Retarget, Connect
<1>10. ASSUME NEW c \in Call, Begin(c) \/ TimesOut(c) PROVE TypeOK'
  BY <1>10 DEF Begin, TimesOut, IsOpen, Current
<1>11. CASE RetryFires
  BY <1>11 DEF RetryFires, Connect, Source
<1>12. CASE Stop
  BY <1>12 DEF Stop, Retired, Closing, StopWatch, FailWhoisWaiters
<1>13. CASE Ping \/ Deadline
  BY <1>13 DEF Ping, Deadline, StopWatch, Quiet
<1>14. CASE HubFlips \/ HubForgets \/ UNCHANGED vars
  BY <1>14 DEF HubFlips, HubForgets, vars
<1>15. QED
  BY <1>1, <1>2, <1>3, <1>4, <1>5, <1>6, <1>7, <1>8, <1>9, <1>10, <1>11, <1>12, <1>13, <1>14 DEF Next

\* The socket in use and the others, through every event.
LEMMA StepSafe == PluginInv /\ [Next]_vars => Safe' /\ Quiet'
<1> SUFFICES ASSUME PluginInv, [Next]_vars PROVE Safe' /\ Quiet'
  OBVIOUS
<1> USE NoneIsNoSocket DEF PluginInv, Safe, Quiet, NoPhantomReconnect, ConnectedIsWelcomed, OpenIsWatched,
        WhoisEndsWithSocket, Current, IsOpen, Connected, InUse, TypeOK, Becomes, link, timers, dog, auth, calls
<1>1. ASSUME NEW s \in Socket, Opens(s) PROVE Safe' /\ Quiet'
  BY <1>1 DEF Opens, FreshVerdict
<1>2. ASSUME NEW s \in Socket, Refused401(s) PROVE Safe' /\ Quiet'
  BY <1>2 DEF Refused401
<1>3. ASSUME NEW s \in Socket, RefusedOther(s) PROVE Safe' /\ Quiet'
  BY <1>3 DEF RefusedOther
<1>4. ASSUME NEW s \in Socket, GoesDown(s) \/ Drops(s) \/ GoesHalf(s) PROVE Safe' /\ Quiet'
  BY <1>4 DEF GoesDown, Drops, GoesHalf
<1>5. ASSUME NEW s \in Socket, Welcome(s) PROVE Safe' /\ Quiet'
  BY <1>5 DEF Welcome
<1>6. ASSUME NEW s \in Socket, CloseEvent(s) PROVE Safe' /\ Quiet'
  <2>1. CASE ws = s
    <3>1. /\ sock' = [sock EXCEPT ![s] = "closed"] /\ ws' = ws /\ stopped' = stopped
          /\ watch' = None /\ ~awaiting' /\ ~welcomed' /\ retry' = ~stopped
      BY <1>6, <2>1 DEF CloseEvent, StopWatch
    <3>2. \A c \in Call : call'[c] # "whois"
      BY <1>6, <2>1 DEF CloseEvent, FailWhoisWaiters
    <3>3. QED
      BY <2>1, <3>1, <3>2
  <2>2. CASE ws # s
    BY <1>6, <2>2 DEF CloseEvent
  <2>3. QED
    BY <2>1, <2>2
<1>7. ASSUME NEW s \in Socket, Enrolled(s) \/ Pong(s) PROVE Safe' /\ Quiet'
  BY <1>7 DEF Enrolled, Pong
<1>8. ASSUME NEW s \in Socket, AgentInfo(s) \/ UnknownAgent(s) PROVE Safe' /\ Quiet'
  BY <1>8 DEF AgentInfo, UnknownAgent
<1>9. ASSUME NEW fate \in {"good", "stale", "renamed"}, Retarget(fate) PROVE Safe' /\ Quiet'
  BY <1>9, RetiredType DEF Retarget, Connect, StopWatch, FailWhoisWaiters, NoWelcome
<1>10. ASSUME NEW c \in Call, Begin(c) PROVE Safe' /\ Quiet'
  BY <1>10 DEF Begin
<1>11. ASSUME NEW c \in Call, TimesOut(c) PROVE Safe' /\ Quiet'
  BY <1>11 DEF TimesOut, Waits
<1>12. CASE RetryFires
  BY <1>12 DEF RetryFires, Connect
<1>13. CASE Stop
  BY <1>13, RetiredType DEF Stop, StopWatch, FailWhoisWaiters
<1>14. CASE Ping
  BY <1>14 DEF Ping
<1>15. CASE Deadline
  BY <1>15 DEF Deadline, StopWatch
<1>16. CASE HubFlips \/ HubForgets \/ UNCHANGED vars
  BY <1>16 DEF HubFlips, HubForgets, vars
<1>17. QED
  BY <1>1, <1>2, <1>3, <1>4, <1>5, <1>6, <1>7, <1>8, <1>9, <1>10, <1>11, <1>12, <1>13, <1>14, <1>15, <1>16
     DEF Next

\* The whole invariant of the session.
LEMMA PluginInvariant == Spec => []PluginInv
<1>1. Init => PluginInv
  BY InitPluginInv
<1>2. PluginInv /\ [Next]_vars => PluginInv'
  BY StepTypeOK, StepSafe DEF PluginInv
<1>3. QED
  BY <1>1, <1>2, PTL DEF Spec

\* connect and onDisconnect: whatever late events retired sockets deliver, and
\* however many of them are still alive, a dial is pending exactly when the
\* socket in use has closed, and no other socket dials or is open.
THEOREM NoSecondDial == Spec => []NoPhantomReconnect
<1>1. PluginInv => NoPhantomReconnect
  BY DEF PluginInv, Safe
<1>2. QED
  BY <1>1, PluginInvariant, PTL

\* connected: the client takes itself for connected only on a socket that was
\* itself welcomed, however late the welcome of an earlier one arrives.
THEOREM ConnectedMeansWelcomed == Spec => []ConnectedIsWelcomed
<1>1. PluginInv => ConnectedIsWelcomed
  BY DEF PluginInv, Safe
<1>2. QED
  BY <1>1, PluginInvariant, PTL

\* KeepAlive: the interval runs for the open socket in use, with a fresh verdict,
\* and for no other.
THEOREM WatchFollowsSocket == Spec => []OpenIsWatched
<1>1. PluginInv => OpenIsWatched
  BY DEF PluginInv, Safe
<1>2. QED
  BY <1>1, PluginInvariant, PTL

\* failWhoisWaiters: a lookup that a hub was asked never waits on a socket other
\* than the one in use, nor on one whose close was handled.
THEOREM LookupsEndWithSocket == Spec => []WhoisEndsWithSocket
<1>1. PluginInv => WhoisEndsWithSocket
  BY DEF PluginInv, Safe
<1>2. QED
  BY <1>1, PluginInvariant, PTL
=============================================================================
