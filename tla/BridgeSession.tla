--------------------------- MODULE BridgeSession ---------------------------
(***************************************************************************)
(* The connection life of the MCP bridge (adapters/mcp-bridge/src/         *)
(* client.ts) with its keep-alive watchdog (keepalive.ts): dial, hello,    *)
(* welcome, reconnect with backoff, the 401 recovery, dap_connect's        *)
(* retarget, the final stop, and the hub calls parked while they wait for  *)
(* an answer.                                                              *)
(*                                                                         *)
(* An action is one turn of the event loop: a socket event, a timer, or a  *)
(* tool call, run to the end of its microtasks.  One socket has listeners  *)
(* at any time, since retarget strips those of the socket it leaves; only  *)
(* timers may still refer to an earlier socket.                            *)
(*                                                                         *)
(* External: the network, the hub and whether its current instance accepts *)
(* the cached client secret.                                               *)
(***************************************************************************)
EXTENDS Integers

CONSTANTS
    Call,     \* tool calls in flight at once
    Initial,  \* backoff.initialMs
    Longest   \* backoff.maxMs

ASSUME BackoffIsOrdered ==
    Initial \in Nat \ {0} /\ Longest \in Nat /\ Initial <= Longest

VARIABLES
    stopped,     \* stop ran: this.ws is null from then on
    crashed,     \* an unhandled rejection ended the process
    sock,        \* the socket with listeners; "half" is open with no path to the hub,
                 \* "closing" waits for the hub's close, "down" for its close event
    welcomed,    \* this.welcomed
    retry,       \* retryTimer is armed
    delay,       \* this.delay
    watch,       \* the socket the watchdog's interval pings: "off", "current", "old"
    awaiting,    \* awaitingPong, and with it the pong deadline
    terminated,  \* the watchdog's terminated flag
    poller,      \* inviteTimer is armed
    secret,      \* clientSecret of config.json: "none", or what the hub makes of it:
                 \* "good", "stale" (401) or "renamed" (bound to another hello name)
    dial,        \* dialSource: "config" or "master"; the latter sets enrollPending
    enrolling,   \* enrollPending
    reEnrolled,  \* the latch of the 401 recovery
    joined,      \* the channel in use is in this.joined
    call,        \* [Call -> phase]
    old,         \* history: calls parked before the last retarget
    moved,       \* history: those of them that the hub in use has let join since
    hubUp        \* the hub is reachable

session == <<sock, welcomed, retry, delay, joined>>
watchdog == <<watch, awaiting, terminated>>
auth == <<secret, dial, enrolling, reEnrolled>>
calls == <<call, old, moved>>
vars == <<stopped, crashed, session, watchdog, poller, auth, calls, hubUp>>

Runs == ~crashed

\* Where a call may be parked, each with a timer of its own: in the join of a
\* dap_send or of an armed invite, in the join an invite goes on from ("ready"
\* when that has no connection yet), in a lookup of the agent's key, and in a
\* presence query, which an invite by name goes on from ("resolve").
Joins == {"join", "inviteJoin"}
Parked == Joins \cup {"ready", "whois", "presence", "resolve"}

NextDelay(d) == IF 2 * d < Longest THEN 2 * d ELSE Longest

\* resolveAuthToken: a cached client secret goes before the master secret.  No
\* DAP_CLIENT_SECRET here: set, it wins every dial and no recovery applies.
Source(cached) == IF cached = "none" THEN "master" ELSE "config"

\* connect(): a fresh token for each dial; the master secret makes it an
\* enrolling one.
Connect ==
    /\ sock' = "connecting"
    /\ dial' = Source(secret')
    /\ enrolling' = (secret' = "none")

\* A watchdog left running by connect pings an earlier socket.
Outlived == IF watch = "current" THEN "old" ELSE watch

StopWatch == watch' = "off" /\ awaiting' = FALSE

\* start(), called once by main.
Init ==
    /\ stopped = FALSE /\ crashed = FALSE
    /\ sock = "connecting" /\ welcomed = FALSE /\ retry = FALSE
    /\ delay = Initial /\ joined = FALSE
    /\ watch = "off" /\ awaiting = FALSE /\ terminated = FALSE
    /\ poller = FALSE
    /\ secret \in {"none", "good", "stale"}
    /\ dial = Source(secret)
    /\ enrolling = (secret = "none")
    /\ reEnrolled = FALSE
    /\ call = [c \in Call |-> "idle"] /\ old = {} /\ moved = {}
    /\ hubUp \in BOOLEAN

----------------------------------------------------------------------------
(* Dial and handshake. *)

\* A mutation: the verdict on the previous socket stays.
KeepsVerdict == terminated
FreshVerdict == FALSE

\* 'open': the watchdog starts with a first ping, hello goes out.  A stale
\* secret never gets here.
Opens ==
    /\ Runs /\ sock = "connecting" /\ hubUp
    /\ dial = "config" => secret # "stale"
    /\ sock' = "open"
    /\ watch' = "current"
    /\ terminated' = FreshVerdict
    /\ awaiting' = ~terminated'
    /\ UNCHANGED <<stopped, crashed, welcomed, retry, delay, joined, poller, auth, calls, hubUp>>

Purges == dial = "config" /\ ~reEnrolled

\* 'unexpected-response' with 401: the cached secret is purged once, the next
\* dial presents the master secret (without it main creates no client).
Refused401 ==
    /\ Runs /\ sock = "connecting" /\ hubUp
    /\ dial = "config" /\ secret = "stale"
    /\ IF Purges
         THEN reEnrolled' = TRUE /\ secret' = "none"
         ELSE UNCHANGED <<reEnrolled, secret>>
    /\ sock' = "down"
    /\ UNCHANGED <<stopped, crashed, welcomed, retry, delay, joined, watchdog, poller,
                   dial, enrolling, calls, hubUp>>

DialFails ==
    /\ Runs /\ sock = "connecting" /\ ~hubUp
    /\ sock' = "down"
    /\ UNCHANGED <<stopped, crashed, welcomed, retry, delay, joined, watchdog, poller, auth, calls, hubUp>>

\* onWelcome: warm-up, flush, enroll and a join of every channel go out, the
\* ready waiters go on to their join and the invite poller starts.  Messages
\* still arrive while a stopped socket closes; nothing can be sent then, and the
\* joins of the ready waiters fail.
Welcome ==
    /\ Runs /\ sock \in {"open", "closing"} /\ ~welcomed
    /\ dial = "config" => secret # "renamed"
    /\ welcomed' = TRUE
    /\ delay' = Initial
    /\ joined' = FALSE
    /\ call' = [c \in Call |-> CASE call[c] # "ready" -> call[c]
                                 [] stopped -> "failed"
                                 [] OTHER -> "inviteJoin"]
    /\ poller' = TRUE
    /\ UNCHANGED <<stopped, crashed, sock, retry, watchdog, auth, old, moved, hubUp>>

\* The hub answers the hello of a secret bound to another name with an error
\* and closes.
HelloRefused ==
    /\ Runs /\ sock = "open" /\ ~welcomed
    /\ dial = "config" /\ secret = "renamed"
    /\ sock' = "down"
    /\ UNCHANGED <<stopped, crashed, welcomed, retry, delay, joined, watchdog, poller, auth, calls, hubUp>>

\* onEnrolled on a connection in use.
Enrolled ==
    /\ Runs /\ sock = "open" /\ welcomed /\ enrolling
    /\ enrolling' = FALSE
    /\ secret' = "good"
    /\ UNCHANGED <<stopped, crashed, session, watchdog, poller, dial, reEnrolled, calls, hubUp>>

----------------------------------------------------------------------------
(* Loss and reconnect. *)

\* The hub, or the path to it, closes the connection.
Drops ==
    /\ Runs /\ sock \in {"open", "half"}
    /\ sock' = "down"
    /\ UNCHANGED <<stopped, crashed, welcomed, retry, delay, joined, watchdog, poller, auth, calls, hubUp>>

\* The path is lost in silence: sleep, NAT or tunnel timeout.
GoesHalf ==
    /\ Runs /\ sock = "open"
    /\ sock' = "half"
    /\ UNCHANGED <<stopped, crashed, welcomed, retry, delay, joined, watchdog, poller, auth, calls, hubUp>>

\* A mutation: calls in flight are left to their timers.
LeaveWaiters == UNCHANGED <<call, crashed>>
\* failWaiters: joins are left out, and a rejection nobody waits for any more
\* ends the process.
FailWaiters ==
    /\ call' = [c \in Call |-> IF call[c] \in Parked \ Joins THEN "failed" ELSE call[c]]
    /\ crashed' = \E c \in Call : call[c] = "orphan"

\* A mutation: after stop the reconnect goes on.
NeverLast == FALSE
Last == stopped

\* 'close': onDisconnect schedules the next dial, unless stop was called.
CloseEvent ==
    /\ Runs /\ sock \in {"down", "closing"}
    /\ sock' = "none"
    /\ welcomed' = FALSE
    /\ StopWatch
    /\ IF Last
         THEN FailWaiters /\ UNCHANGED <<retry, delay>>
         ELSE /\ retry' = TRUE
              /\ delay' = NextDelay(delay)
              /\ UNCHANGED <<crashed, call>>
    /\ UNCHANGED <<stopped, terminated, joined, poller, auth, old, moved, hubUp>>

RetryFires ==
    /\ Runs /\ retry
    /\ retry' = FALSE
    /\ UNCHANGED secret
    /\ Connect
    /\ watch' = Outlived
    /\ UNCHANGED <<stopped, crashed, welcomed, delay, joined, awaiting, terminated, poller,
                   reEnrolled, calls, hubUp>>

\* A mutation: the pending dial survives a retarget.
KeepsTimer == retry
NoTimer == FALSE

\* A mutation: the watchdog of the socket left behind goes on.
WatchGoesOn == watch' = Outlived /\ UNCHANGED awaiting
WatchEnds == StopWatch

\* retarget (dap_connect, which also persists url and name): other hubs refuse
\* the cached secret, and a new name does not fit it.  Join waiters stay.
Retarget(becomes) ==
    /\ Runs /\ ~stopped
    /\ retry' = NoTimer
    /\ WatchEnds
    /\ FailWaiters
    /\ old' = {c \in Call : call'[c] \in Parked}
    /\ moved' = {}
    /\ welcomed' = FALSE
    /\ joined' = FALSE
    /\ delay' = Initial
    /\ secret' = IF secret = "none" THEN "none" ELSE becomes
    /\ Connect
    /\ UNCHANGED <<stopped, terminated, poller, reEnrolled, hubUp>>

\* stop(), when stdio closes.  A dial under way is aborted; an open socket
\* waits for the hub's close.
Stop ==
    /\ Runs /\ ~stopped
    /\ stopped' = TRUE
    /\ StopWatch
    /\ retry' = FALSE
    /\ poller' = FALSE
    /\ sock' = CASE sock = "connecting" -> "down"
                 [] sock \in {"open", "half"} -> "closing"
                 [] OTHER -> sock
    /\ UNCHANGED <<crashed, welcomed, delay, joined, terminated, auth, calls, hubUp>>

----------------------------------------------------------------------------
(* Keep-alive. *)

\* The interval's ping; the same tick arms the pong deadline.
Ping ==
    /\ Runs /\ watch # "off" /\ ~terminated /\ ~awaiting
    /\ awaiting' = TRUE
    /\ UNCHANGED <<stopped, crashed, session, watch, terminated, poller, auth, calls, hubUp>>

Pong ==
    /\ Runs /\ sock = "open" /\ watch = "current" /\ awaiting
    /\ awaiting' = FALSE
    /\ UNCHANGED <<stopped, crashed, session, watch, terminated, poller, auth, calls, hubUp>>

\* A mutation: a missed pong is noted and nothing else.
OnlyNoted == sock
Killed == IF watch = "current" /\ sock \in {"open", "half"} THEN "down" ELSE sock

\* The deadline passes: terminate, so that the close event follows.
Deadline ==
    /\ Runs /\ awaiting
    /\ terminated' = TRUE
    /\ StopWatch
    /\ sock' = Killed
    /\ UNCHANGED <<stopped, crashed, welcomed, retry, delay, joined, poller, auth, calls, hubUp>>

----------------------------------------------------------------------------
(* Hub calls. *)

Connected == welcomed /\ sock \in {"open", "half"} /\ ~stopped

\* dm on a connection: the recipient's key is cached or asked for.
DM == {"done", "whois"}

\* invite on a connection: the join, and then the dm with the channel key.
Invite == IF joined THEN DM ELSE {"inviteJoin"}

\* The join that dap_send and an invite armed for later end with.
Join == IF joined THEN {"done"} ELSE {"join"}

\* Where a call goes at once.  dap_send, dap_dm, dap_peers, an invite by name and
\* the first of the pending invites need a connection; the next one of a pass of
\* the poller, a call of its own, waits for one.  whois asks in any state, and the
\* throw of a send on a dialling socket leaves its timer behind.
Begins ==
    UNION {IF Connected THEN Join \cup DM \cup {"presence", "resolve"} ELSE {"failed"},
           IF Connected THEN Invite ELSE {"ready"},
           IF sock = "connecting" THEN {"orphan"} ELSE {"whois"}}

Begin(c) ==
    /\ Runs /\ ~stopped /\ call[c] \in {"idle", "done", "failed"}
    /\ \E phase \in Begins : call' = [call EXCEPT ![c] = phase]
    /\ old' = old \ {c} /\ moved' = moved \ {c}
    /\ UNCHANGED <<stopped, crashed, session, watchdog, poller, auth, hubUp>>

\* What follows an answer: an invite by name goes on with the one agent of that
\* name, or is armed for later.
Follows(phase) == IF phase = "resolve" THEN Invite \cup Join ELSE {"done"}

\* onAgentInfo or the replyTo of a presence answer.  An orphan is settled by an
\* agent_info that another lookup of the agent asked for.  After stop calls are
\* left to the close event and their timers.
Answer(c) ==
    /\ Runs /\ sock = "open" /\ welcomed
    /\ call[c] \in {"whois", "presence", "resolve", "orphan"}
    /\ \E phase \in Follows(call[c]) : call' = [call EXCEPT ![c] = phase]
    /\ UNCHANGED <<stopped, crashed, session, watchdog, poller, auth, old, moved, hubUp>>

\* onJoined, the answer to any join of the channel, after which an invite goes on
\* to its dm on the connection in use.
Joined ==
    /\ Runs /\ sock = "open" /\ welcomed
    /\ joined' = TRUE
    /\ \E phase \in [Call -> DM] :
         call' = [c \in Call |-> CASE call[c] = "join" -> "done"
                                   [] call[c] = "inviteJoin" -> phase[c]
                                   [] OTHER -> call[c]]
    /\ moved' = moved \cup {c \in old : call[c] = "inviteJoin"}
    /\ UNCHANGED <<stopped, crashed, sock, welcomed, retry, delay, watchdog, poller, auth, old, hubUp>>

\* onError for a join the hub denies.
JoinDenied ==
    /\ Runs /\ sock = "open" /\ welcomed
    /\ call' = [c \in Call |-> IF call[c] \in Joins THEN "failed" ELSE call[c]]
    /\ UNCHANGED <<stopped, crashed, session, watchdog, poller, auth, old, moved, hubUp>>

\* A call's timer: 5 s for each kind.
TimesOut(c) ==
    /\ Runs /\ call[c] \in Parked \cup {"orphan"}
    /\ call' = [call EXCEPT ![c] = "failed"]
    /\ crashed' = (call[c] = "orphan")
    /\ UNCHANGED <<stopped, session, watchdog, poller, auth, old, moved, hubUp>>

----------------------------------------------------------------------------
(* The hub. *)

HubFlips ==
    /\ hubUp' = ~hubUp
    /\ UNCHANGED <<stopped, crashed, session, watchdog, poller, auth, calls>>

\* The secrets file is lost, or another client of the name enrolls.
HubForgets ==
    /\ secret = "good"
    /\ secret' = "stale"
    /\ UNCHANGED <<stopped, crashed, session, watchdog, poller, dial, enrolling, reEnrolled, calls, hubUp>>

Next ==
    \/ Opens \/ Refused401 \/ DialFails \/ Welcome \/ HelloRefused \/ Enrolled
    \/ Drops \/ GoesHalf \/ CloseEvent \/ RetryFires \/ Stop
    \/ \E s \in {"good", "stale", "renamed"} : Retarget(s)
    \/ Ping \/ Pong \/ Deadline
    \/ \E c \in Call : Begin(c) \/ Answer(c) \/ TimesOut(c)
    \/ Joined \/ JoinDenied
    \/ HubFlips \/ HubForgets

Spec == Init /\ [][Next]_vars

\* Timers fire and socket events are delivered; a close handshake that the hub
\* does not answer ends by the timeout of the ws library.  A dial and a hello that are
\* tried again and again while the hub is reachable succeed at last.
FairSpec ==
    /\ Spec
    /\ WF_vars(RetryFires) /\ WF_vars(CloseEvent) /\ WF_vars(Ping) /\ WF_vars(Deadline)
    /\ WF_vars(DialFails) /\ WF_vars(Refused401) /\ WF_vars(HelloRefused)
    /\ SF_vars(Opens) /\ SF_vars(Welcome)

----------------------------------------------------------------------------
(* Properties. *)

TypeOK ==
    /\ {stopped, crashed, welcomed, retry, awaiting, terminated, poller,
        enrolling, reEnrolled, joined, hubUp} \subseteq BOOLEAN
    /\ sock \in {"none", "connecting", "open", "half", "closing", "down"}
    /\ delay \in Initial..Longest
    /\ watch \in {"off", "current", "old"}
    /\ secret \in {"none", "good", "stale", "renamed"} /\ dial \in {"config", "master"}
    /\ call \in [Call -> Parked \cup {"idle", "orphan", "done", "failed"}]
    /\ old \subseteq Call /\ moved \subseteq old

\* A bridge that was not stopped has either a socket or a pending dial, never
\* both and never neither: the reconnect loop neither doubles nor dies, however
\* retarget, close events and the retry timer interleave; after stop nothing
\* dials.
OneLoop ==
    IF stopped THEN ~retry /\ sock \notin {"connecting", "open", "half"}
               ELSE retry <=> sock = "none"

\* An open socket in use is watched, with a verdict of its own, and nothing
\* watches a socket left behind.
OpenIsWatched ==
    /\ sock \in {"open", "half"} => watch = "current" /\ ~terminated
    /\ watch # "old"

\* While the hub stays reachable there is a welcomed connection with a path to it
\* again and again, so that no half-open one stays; but for a secret refused a
\* second time or one that a new name does not fit.
Reconnects ==
    <>[]hubUp => []<>(\/ Connected /\ sock = "open"
                      \/ stopped \/ crashed \/ secret = "renamed"
                      \/ secret = "stale" /\ reEnrolled)

\* "Fail every waiter parked on a deliberately-killed connection" (failWaiters)
\* leaves the joins out.  So a call made before a retarget still waits after it
\* only for a join, which the next hub's answer will settle, or for the key lookup
\* of an invite that went on from such a join, asked of that next hub: no lookup
\* or presence query asked of an earlier hub waits for the answer of a later one.
OnlyJoinsOutlive ==
    \A c \in old : call[c] \in Parked =>
        call[c] \in Joins \/ (call[c] = "whois" /\ c \in moved)
=============================================================================
