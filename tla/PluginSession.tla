--------------------------- MODULE PluginSession ---------------------------
(***************************************************************************)
(* The connection life of the dsh plugin (adapters/dsh-plugin/src/         *)
(* client.ts and keepalive.ts).  Unlike the bridge it leaves the listeners *)
(* on a socket it retires and compares the socket with this.ws in each of  *)
(* them, so a socket of the past still delivers events.                    *)
(*                                                                         *)
(* An action is one turn of the event loop: a socket event, a timer or a   *)
(* tool call, to the end of its microtasks.  External: the network, the    *)
(* hub, a proxy before it, and what the hub makes of a client secret.      *)
(***************************************************************************)
EXTENDS Integers

CONSTANTS
    Socket,   \* sockets alive at once, the retired ones included
    Call,     \* lookups in flight at once
    Initial,  \* backoff.initialMs
    Longest,  \* backoff.maxMs
    None

ASSUME BackoffIsOrdered ==
    Initial \in Nat \ {0} /\ Longest \in Nat /\ Initial <= Longest

ASSUME NoneIsNoSocket == None \notin Socket

VARIABLES
    sock,      \* [Socket -> state]; "half": open, no path to the hub; "hung": an upgrade
               \* refused and never ended; "closing": close() called; "down": about to
               \* emit close; "closed": emitted
    ws,        \* this.ws
    greeted,   \* history: sockets, not yet closed, that delivered a welcome
    welcomed,  \* this.welcomed
    stopped,   \* this.stopped
    retry,     \* retryTimer is armed
    delay,     \* this.delay
    watch,     \* the socket whose tick the watchdog's interval runs, or None
    awaiting,  \* awaitingPong, and with it the deadline
    killed,    \* the watchdog's terminated flag
    owed,      \* sockets with a pong on its way
    secret,    \* opts.clientSecret and config.json, always written together: "none",
               \* "good", "stale" (401) or "renamed" (bound to another hello name)
    dial,      \* dialSource: "config" or "master"
    enroll,    \* enrollMode
    latch,     \* reEnrolled
    call,      \* [Call -> phase]
    sentOn,    \* the socket whose hub was asked, None when the frame went nowhere
    crashed,   \* an unhandled rejection ended the process
    hubUp      \* the hub can be reached

link == <<sock, ws, greeted, welcomed>>
timers == <<retry, delay>>
dog == <<watch, awaiting, killed, owed>>
auth == <<secret, dial, enroll, latch>>
calls == <<call, sentOn, crashed>>
vars == <<link, stopped, timers, dog, auth, calls, hubUp>>

Runs == ~crashed

\* A mutation: a retired socket acts as if it were in use.
AnySocket(s) == TRUE
\* The guard of every listener, this.ws === ws.
InUse(s) == ws = s

Current == IF ws = None THEN "none" ELSE sock[ws]

\* readyState OPEN; a lost path does not show.
IsOpen == Current \in {"open", "half"}
Connected == welcomed /\ IsOpen

NextDelay == IF 2 * delay < Longest THEN 2 * delay ELSE Longest

\* The socket a close() leaves behind: a dial is aborted, an open connection
\* waits for the peer.
Closing(state) ==
    CASE state \in {"connecting", "hung"} -> "down"
      [] state \in {"open", "half"} -> "closing"
      [] state = "closed" -> "free"
      [] OTHER -> state

\* dialAuth: the cached secret goes before the master secret.  DAP_CLIENT_SECRET
\* is not set; set, it wins every dial and no recovery applies.
Source(cached) == IF cached = "none" THEN "master" ELSE "config"

\* connect(), where `left` is the sockets after what the caller did to them.
Connect(left) ==
    \E s \in Socket :
        /\ left[s] = "free"
        /\ sock' = [left EXCEPT ![s] = "connecting"]
        /\ ws' = s /\ UNCHANGED greeted
        /\ dial' = Source(secret')
        /\ enroll' = (secret' = "none")

\* A mutation: retiring a socket leaves the lookups to their timers.
KeepWaiters == UNCHANGED <<call, crashed>>
\* A rejection without a handler, that of a lookup which threw, ends the process.
FailWhoisWaiters ==
    /\ call' = [c \in Call |-> IF call[c] = "whois" THEN "failed" ELSE call[c]]
    /\ crashed' = \E c \in Call : call[c] = "orphan"

StopWatch == watch' = None /\ awaiting' = FALSE

\* start(), called once by apply.
Init ==
    \E s \in Socket :
        /\ sock = [t \in Socket |-> IF t = s THEN "connecting" ELSE "free"]
        /\ ws = s /\ greeted = {} /\ welcomed = FALSE /\ stopped = FALSE
        /\ retry = FALSE /\ delay = Initial
        /\ watch = None /\ awaiting = FALSE /\ killed = FALSE /\ owed = {}
        /\ secret \in {"none", "good", "stale"}
        /\ dial = Source(secret) /\ enroll = (secret = "none") /\ latch = FALSE
        /\ call = [c \in Call |-> "idle"] /\ sentOn = [c \in Call |-> None]
        /\ crashed = FALSE /\ hubUp \in BOOLEAN

----------------------------------------------------------------------------
(* Dial and handshake. *)

Becomes(s, state) == sock' = [sock EXCEPT ![s] = state]

\* A mutation: the verdict on the previous socket stays.
KeepsVerdict == killed
FreshVerdict == FALSE

\* 'open': the watchdog starts with a first ping, hello goes out.
Opens(s) ==
    /\ Runs /\ sock[s] = "connecting" /\ hubUp
    /\ dial = "config" => secret # "stale"
    /\ Becomes(s, "open")
    /\ IF InUse(s)
         THEN /\ watch' = s /\ killed' = FreshVerdict /\ awaiting' = ~killed'
              /\ owed' = owed \cup {s}
         ELSE UNCHANGED dog
    /\ UNCHANGED <<ws, greeted, welcomed, stopped, timers, auth, calls, hubUp>>

\* A mutation: the recovery never happens.
NeverPurges == FALSE
Purges == dial = "config" /\ ~latch

\* 'unexpected-response' with 401.  apply creates no client without the master
\* secret, so the next dial can enroll.
Refused401(s) ==
    /\ Runs /\ sock[s] = "connecting" /\ hubUp /\ InUse(s)
    /\ dial = "config" /\ secret = "stale"
    /\ IF Purges THEN latch' = TRUE /\ secret' = "none"
                 ELSE UNCHANGED <<latch, secret>>
    /\ Becomes(s, "down")
    /\ UNCHANGED <<ws, greeted, welcomed, stopped, timers, dog, dial, enroll, calls, hubUp>>

\* 'unexpected-response' with another status (a proxy's 502): the handler
\* returns, and having a listener the library does not end the request either.
RefusedOther(s) ==
    /\ Runs /\ sock[s] = "connecting" /\ InUse(s)
    /\ Becomes(s, "hung")
    /\ UNCHANGED <<ws, greeted, welcomed, stopped, timers, dog, auth, calls, hubUp>>

\* A dial that fails, a hello refused for its name, a connection closed by the
\* hub or the path, and the end of a close(): a close event is to come.
GoesDown(s) ==
    /\ Runs
    /\ \/ sock[s] = "connecting" /\ ~hubUp
       \/ sock[s] = "open" /\ s \notin greeted /\ ws = s /\ dial = "config" /\ secret = "renamed"
       \/ sock[s] = "closing"
    /\ Becomes(s, "down")
    /\ UNCHANGED <<ws, greeted, welcomed, stopped, timers, dog, auth, calls, hubUp>>

Drops(s) ==
    /\ Runs /\ sock[s] \in {"open", "half"}
    /\ Becomes(s, "down")
    /\ UNCHANGED <<ws, greeted, welcomed, stopped, timers, dog, auth, calls, hubUp>>

\* The path is lost in silence: sleep, NAT or tunnel timeout.
GoesHalf(s) ==
    /\ Runs /\ sock[s] = "open"
    /\ Becomes(s, "half")
    /\ UNCHANGED <<ws, greeted, welcomed, stopped, timers, dog, auth, calls, hubUp>>

\* onWelcome; it may still arrive at a socket retired after its hello.
Welcome(s) ==
    /\ Runs /\ sock[s] \in {"open", "closing"} /\ s \notin greeted
    /\ ws = s /\ dial = "config" => secret # "renamed"
    /\ greeted' = greeted \cup {s}
    /\ IF InUse(s) THEN welcomed' = TRUE /\ delay' = Initial
                   ELSE UNCHANGED <<welcomed, delay>>
    /\ UNCHANGED <<sock, ws, stopped, retry, dog, auth, calls, hubUp>>

\* handleRaw is given a frame that the hub sends after its welcome.
Hears(s) == Runs /\ sock[s] = "open" /\ s \in greeted /\ InUse(s)

\* onEnrolled.
Enrolled(s) ==
    /\ Hears(s) /\ enroll
    /\ enroll' = FALSE /\ secret' = "good"
    /\ UNCHANGED <<link, stopped, timers, dog, dial, latch, calls, hubUp>>

----------------------------------------------------------------------------
(* Loss, reconnect, retarget and stop. *)

\* 'close': onDisconnect for the socket in use.
CloseEvent(s) ==
    /\ Runs /\ sock[s] = "down"
    /\ Becomes(s, IF ws = s THEN "closed" ELSE "free")
    /\ IF InUse(s)
         THEN /\ StopWatch /\ welcomed' = FALSE /\ FailWhoisWaiters
              /\ IF stopped THEN UNCHANGED timers
                            ELSE retry' = TRUE /\ delay' = NextDelay
         ELSE UNCHANGED <<watch, awaiting, welcomed, call, crashed, timers>>
    /\ owed' = owed \ {s} /\ greeted' = greeted \ {s}
    /\ UNCHANGED <<ws, stopped, killed, auth, sentOn, hubUp>>

RetryFires ==
    /\ Runs /\ retry
    /\ retry' = FALSE
    /\ UNCHANGED secret
    /\ Connect([s \in Socket |-> IF s = ws /\ sock[s] = "closed" THEN "free" ELSE sock[s]])
    /\ UNCHANGED <<welcomed, stopped, delay, dog, latch, calls, hubUp>>

\* What close() and this.ws = null leave.
Retired == [s \in Socket |-> IF s = ws THEN Closing(sock[s]) ELSE sock[s]]

\* A mutation: retarget leaves the flag of the previous hub.
KeepsWelcome == welcomed
NoWelcome == FALSE

\* retarget (dap_connect): another hub may refuse the secret, another name does
\* not fit it.
Retarget(fate) ==
    /\ Runs /\ ~stopped
    /\ retry' = FALSE /\ delay' = Initial
    /\ StopWatch
    /\ welcomed' = NoWelcome
    /\ FailWhoisWaiters
    /\ secret' = IF secret = "none" THEN "none" ELSE fate
    /\ Connect(Retired)
    /\ UNCHANGED <<stopped, killed, owed, latch, sentOn, hubUp>>

\* stop(), when the host disposes of the plugin.
Stop ==
    /\ Runs /\ ~stopped
    /\ stopped' = TRUE
    /\ FailWhoisWaiters
    /\ StopWatch
    /\ retry' = FALSE
    /\ sock' = Retired /\ ws' = None
    /\ UNCHANGED <<greeted, welcomed, delay, killed, owed, auth, sentOn, hubUp>>

----------------------------------------------------------------------------
(* Keep-alive. *)

Ping ==
    /\ Runs /\ watch # None /\ ~killed /\ ~awaiting
    /\ awaiting' = TRUE
    /\ owed' = IF sock[watch] = "open" THEN owed \cup {watch} ELSE owed
    /\ UNCHANGED <<link, stopped, timers, watch, killed, auth, calls, hubUp>>

\* The listener of each socket the watchdog ever started with clears the one
\* flag and the one deadline, a late pong of a retired socket too.
Pong(s) ==
    /\ Runs /\ s \in owed /\ sock[s] \in {"open", "closing"}
    /\ owed' = owed \ {s}
    /\ awaiting' = FALSE
    /\ UNCHANGED <<link, stopped, timers, watch, killed, auth, calls, hubUp>>

\* The deadline passes: terminate, so that a close event follows.
Deadline ==
    /\ Runs /\ awaiting
    /\ killed' = TRUE
    /\ StopWatch
    /\ Becomes(watch, IF sock[watch] \in {"open", "half", "closing"} THEN "down" ELSE sock[watch])
    /\ UNCHANGED <<ws, greeted, welcomed, stopped, timers, owed, auth, calls, hubUp>>

----------------------------------------------------------------------------
(* Lookups: agentInfo for dap_whois, dap_dm and the sender of a message. *)

\* A send on a socket that still dials throws, and the waiter and its timer stay
\* behind; one on a closed socket goes nowhere.  The answer may be cached.
Begin(c) ==
    /\ Runs /\ ~stopped /\ call[c] \in {"idle", "done", "failed"}
    /\ call' = [call EXCEPT ![c] = IF Current \in {"connecting", "hung"} THEN "orphan" ELSE "whois"]
    /\ sentOn' = [sentOn EXCEPT ![c] = IF IsOpen THEN ws ELSE None]
    /\ UNCHANGED <<link, stopped, timers, dog, auth, crashed, hubUp>>

Waits(c) == call[c] \in {"whois", "orphan"}

\* onAgentInfo: the lookups of one agent are answered.
AgentInfo(s) ==
    /\ Hears(s)
    /\ \E asked \in (SUBSET {c \in Call : Waits(c)}) \ {{}} :
         call' = [c \in Call |-> IF c \in asked THEN "done" ELSE call[c]]
    /\ UNCHANGED <<link, stopped, timers, dog, auth, sentOn, crashed, hubUp>>

\* onHubErrorFrame with unknown_agent, which fails the lookups of every agent;
\* nobody looks at what an orphan resolves to.
UnknownAgent(s) ==
    /\ Hears(s) /\ \E c \in Call : Waits(c)
    /\ call' = [c \in Call |-> IF Waits(c) THEN "failed" ELSE call[c]]
    /\ UNCHANGED <<link, stopped, timers, dog, auth, sentOn, crashed, hubUp>>

TimesOut(c) ==
    /\ Runs /\ Waits(c)
    /\ call' = [call EXCEPT ![c] = "failed"]
    /\ crashed' = (call[c] = "orphan")
    /\ UNCHANGED <<link, stopped, timers, dog, auth, sentOn, hubUp>>

----------------------------------------------------------------------------

HubFlips ==
    /\ hubUp' = ~hubUp
    /\ UNCHANGED <<link, stopped, timers, dog, auth, calls>>

\* The hub loses its secrets, or another client of the name enrolls.
HubForgets ==
    /\ secret = "good"
    /\ secret' = "stale"
    /\ UNCHANGED <<link, stopped, timers, dog, dial, enroll, latch, calls, hubUp>>

Next ==
    \/ \E s \in Socket :
         \/ Opens(s) \/ Refused401(s) \/ RefusedOther(s) \/ GoesDown(s) \/ Drops(s) \/ GoesHalf(s)
         \/ Welcome(s) \/ Enrolled(s) \/ CloseEvent(s) \/ Pong(s) \/ AgentInfo(s) \/ UnknownAgent(s)
    \/ \E fate \in {"good", "stale", "renamed"} : Retarget(fate)
    \/ \E c \in Call : Begin(c) \/ TimesOut(c)
    \/ RetryFires \/ Stop \/ Ping \/ Deadline \/ HubFlips \/ HubForgets

Spec == Init /\ [][Next]_vars

\* Timers fire and socket events are delivered; a dial and a hello tried again
\* and again while the hub is reachable succeed at last, on whichever socket.
FairSpec ==
    /\ Spec
    /\ WF_vars(RetryFires) /\ WF_vars(Ping) /\ WF_vars(Deadline)
    /\ \A s \in Socket : WF_vars(CloseEvent(s)) /\ WF_vars(GoesDown(s))
    /\ WF_vars(\E s \in Socket : Refused401(s))
    /\ SF_vars(\E s \in Socket : Opens(s)) /\ SF_vars(\E s \in Socket : ws = s /\ Welcome(s))

----------------------------------------------------------------------------
(* Properties. *)

TypeOK ==
    /\ sock \in [Socket -> {"free", "connecting", "hung", "open", "half", "closing", "down", "closed"}]
    /\ ws \in Socket \cup {None} /\ watch \in Socket \cup {None}
    /\ greeted \subseteq Socket /\ owed \subseteq Socket
    /\ {welcomed, stopped, retry, awaiting, killed, enroll, latch, crashed, hubUp} \subseteq BOOLEAN
    /\ delay \in Initial..Longest
    /\ secret \in {"none", "good", "stale", "renamed"} /\ dial \in {"config", "master"}
    /\ call \in [Call -> {"idle", "whois", "orphan", "done", "failed"}]
    /\ sentOn \in [Call -> Socket \cup {None}]

\* "a stray close would arm a phantom reconnect" (connect): a dial is pending
\* exactly when the socket in use is closed, no other socket dials or is open,
\* and after stop nothing does, whatever events retired sockets still deliver.
NoPhantomReconnect ==
    /\ retry <=> (~stopped /\ Current = "closed")
    /\ stopped <=> ws = None
    /\ \A s \in Socket : sock[s] \in {"connecting", "hung", "open", "half", "closed"} => ws = s

\* The tools believe in a connection only after the hub behind the socket in use
\* has welcomed it: the welcome of a retired socket does not count, however late.
ConnectedIsWelcomed == Connected => ws \in greeted

\* An open socket in use is watched with a verdict of its own, and nothing else
\* is: every connection gets a deadline, and none the deadline of another.
OpenIsWatched ==
    /\ IsOpen => watch = ws /\ ~killed
    /\ watch # None => watch = ws

\* "Pending whois never outlives its socket" (failWhoisWaiters), for lookups the
\* hub was asked: the socket asked is the one in use, and its close is to come.
WhoisEndsWithSocket ==
    \A c \in Call : call[c] = "whois" /\ sentOn[c] # None
                      => ws = sentOn[c] /\ Current \in {"open", "half", "down"}

\* While the hub stays reachable there is a welcomed connection with a path to
\* it again and again; but for an upgrade refused with another status than 401,
\* which hangs until the next dap_connect, a secret refused a second time, and
\* one a new name does not fit.
Reconnects ==
    <>[]hubUp => []<>(\/ welcomed /\ Current = "open"
                      \/ stopped \/ crashed \/ Current = "hung" \/ secret = "renamed"
                      \/ secret = "stale" /\ latch)
=============================================================================
