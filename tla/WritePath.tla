----------------------------- MODULE WritePath -----------------------------
(***************************************************************************)
(* The write side of one hub connection (src/hub/relay.go, auth.go): any   *)
(* number of goroutines calling client.sendFrame, the connection's write   *)
(* pump, its own read loop refusing a hello through reject and then        *)
(* deregistering, and the goroutines that drop the connection from         *)
(* outside (register evicting it).                                         *)
(*                                                                         *)
(* Each atomic operation of the Go code is a step: a load or an add of     *)
(* client.queued, one select, one close of client.closed, one write.  A    *)
(* frame is its length.  A write may still succeed in the moment between   *)
(* close(c.closed) and CloseNow.                                           *)
(***************************************************************************)
EXTENDS Integers, Sequences, FiniteSets, Functions

CONSTANTS
    Sender,      \* goroutines that call sendFrame on this connection
    Sizes,       \* frame lengths in use
    SendBuffer,  \* sendBuffer: capacity of client.send, in frames
    MaxQueued    \* maxQueuedBytes: the cap on client.queued

\* Finitely many goroutines at a time; frames have a longest length, the read
\* limit of the connection they came in on.
ASSUME WritePathConstants ==
    /\ IsFiniteSet(Sender) /\ Sender # {}
    /\ Sizes \subseteq Nat \ {0} /\ \E n \in Sizes : \A m \in Sizes : m <= n
    /\ SendBuffer \in Nat \ {0}
    /\ MaxQueued \in Nat

VARIABLES
    at,        \* [Sender -> where its sendFrame call is]
    size,      \* [Sender -> Nat]   length of the frame it is sending
    send,      \* Seq(Sizes)        client.send
    queued,    \* Nat               client.queued
    closed,    \* BOOLEAN           client.closed is closed
    dropper,   \* who closed it first: history
    pump,      \* where writePump is
    writing,   \* Nat               length of the frame the pump is writing
    pending,   \* BOOLEAN           client.rejectCh holds the error frame
    loop       \* where the read loop is

vars == <<at, size, send, queued, closed, dropper, pump, writing, pending, loop>>
senders == <<at, size>>
reader  == <<loop, pending>>
conn    == <<closed, dropper>>
pumping == <<pump, writing>>

Droppers == {"pump", "reject", "shed", "evict", "dereg"}

Init ==
    /\ at = [s \in Sender |-> "idle"]
    /\ size = [s \in Sender |-> 0]
    /\ send = << >>
    /\ queued = 0
    /\ closed = FALSE
    /\ dropper = "nobody"
    /\ pump = "select"
    /\ writing = 0
    /\ pending = FALSE
    /\ loop = "read"

\* client.drop: closeOnce makes every call but the first a no-op.
Drop(by) ==
    /\ closed' = TRUE
    /\ dropper' = IF closed THEN dropper ELSE by

-----------------------------------------------------------------------------
(* sendFrame, called by goroutine s with a frame of n bytes.               *)

\* A mutation: the new frame's length is left out of the comparison.
FitsWithout(n) == queued <= MaxQueued
Fits(n) == queued + n <= MaxQueued

\* The load and the comparison: over the cap the slow consumer is shed.
Shed(s, n) ==
    /\ at[s] = "idle" /\ ~Fits(n)
    /\ Drop("shed")
    /\ UNCHANGED <<senders, send, queued, pumping, reader>>

Check(s, n) ==
    /\ at[s] = "idle" /\ Fits(n)
    /\ at' = [at EXCEPT ![s] = "add"]
    /\ size' = [size EXCEPT ![s] = n]
    /\ UNCHANGED <<send, queued, conn, pumping, reader>>

\* The add comes after the comparison, not with it.
Add(s) ==
    /\ at[s] = "add"
    /\ queued' = queued + size[s]
    /\ at' = [at EXCEPT ![s] = "test"]
    /\ UNCHANGED <<size, send, conn, pumping, reader>>

\* A mutation: a refused frame stays in the byte count.
UndoNothing(s) == queued
Undo(s) == queued - size[s]

\* A select that finds the connection closed takes its bytes back.
Return(s) ==
    /\ at[s] \in {"test", "select"} /\ closed
    /\ queued' = Undo(s)
    /\ at' = [at EXCEPT ![s] = "idle"]
    /\ UNCHANGED <<size, send, conn, pumping, reader>>

\* The first select's default branch.
TestOpen(s) ==
    /\ at[s] = "test" /\ ~closed
    /\ at' = [at EXCEPT ![s] = "select"]
    /\ UNCHANGED <<size, send, queued, conn, pumping, reader>>

\* The second select: with room in the buffer it may choose the send, also
\* when the connection has been closed since the test.
Accept(s) ==
    /\ at[s] = "select" /\ Len(send) < SendBuffer
    /\ send' = Append(send, size[s])
    /\ at' = [at EXCEPT ![s] = "idle"]
    /\ UNCHANGED <<size, queued, conn, pumping, reader>>

-----------------------------------------------------------------------------
(* writePump.                                                              *)

Take ==
    /\ pump = "select" /\ send # << >>
    /\ writing' = Head(send)
    /\ send' = Tail(send)
    /\ pump' = "write"
    /\ UNCHANGED <<senders, queued, conn, reader>>

Wrote ==
    /\ pump = "write"
    /\ queued' = queued - writing
    /\ writing' = 0
    /\ pump' = "select"
    /\ UNCHANGED <<senders, send, conn, reader>>

\* A mutation: the pump returns without dropping the connection.
ExitSilently == UNCHANGED conn
\* The deferred drop: every pump exit terminates the connection.
Exit == Drop("pump")

\* A failed write or its timeout; the frame's bytes stay counted.
WriteFails ==
    /\ pump = "write"
    /\ pump' = "gone"
    /\ Exit
    /\ UNCHANGED <<senders, send, queued, writing, reader>>

PingFails ==
    /\ pump = "select"
    /\ pump' = "gone"
    /\ Exit
    /\ UNCHANGED <<senders, send, queued, writing, reader>>

SeesClosed ==
    /\ pump = "select" /\ closed
    /\ pump' = "gone"
    /\ UNCHANGED <<senders, send, queued, writing, conn, reader>>

\* The error frame of a reject is written, best effort, before the drop.
TakeReject ==
    /\ pump = "select" /\ pending
    /\ pending' = FALSE
    /\ pump' = "reject"
    /\ UNCHANGED <<senders, send, queued, conn, writing, loop>>

WroteReject ==
    /\ pump = "reject"
    /\ Drop("reject")
    /\ pump' = "select"
    /\ UNCHANGED <<senders, send, queued, writing, reader>>

-----------------------------------------------------------------------------
(* The read loop, and the other goroutines.                                *)

\* reject: hand the error to the pump, unless the connection is closed.
Reject ==
    /\ loop = "read"
    /\ loop' = "reject"
    /\ UNCHANGED <<senders, send, queued, conn, pumping, pending>>

HandOver ==
    /\ loop = "reject" /\ ~pending
    /\ pending' = TRUE
    /\ loop' = "await"
    /\ UNCHANGED <<senders, send, queued, conn, pumping>>

\* A mutation: the read loop does not wait for the pump's drop.
NeedNotWait == TRUE
\* Both of reject's waits end when the connection is closed.
RejectDone == closed

EndReject ==
    /\ \/ loop = "reject" /\ closed
       \/ loop = "await" /\ RejectDone
    /\ loop' = "dereg"
    /\ UNCHANGED <<senders, send, queued, conn, pumping, pending>>

\* The peer hung up, or a read on the closed connection failed.
ReadFails ==
    /\ loop = "read"
    /\ loop' = "dereg"
    /\ UNCHANGED <<senders, send, queued, conn, pumping, pending>>

\* deregister begins with drop.
Deregister ==
    /\ loop = "dereg"
    /\ Drop("dereg")
    /\ loop' = "done"
    /\ UNCHANGED <<senders, send, queued, pumping, pending>>

\* register evicts this connection for a newer one of its agent.
Evict ==
    /\ loop # "done" /\ ~closed
    /\ Drop("evict")
    /\ UNCHANGED <<senders, send, queued, pumping, reader>>

Sending(s) == Add(s) \/ Return(s) \/ TestOpen(s) \/ Accept(s)
Pump == Take \/ Wrote \/ WriteFails \/ SeesClosed \/ TakeReject \/ WroteReject
ReadLoop == HandOver \/ EndReject \/ Deregister

Next ==
    \/ \E s \in Sender : Sending(s) \/ \E n \in Sizes : Shed(s, n) \/ Check(s, n)
    \/ Pump \/ PingFails
    \/ ReadLoop \/ Reject \/ ReadFails
    \/ Evict

Spec == Init /\ [][Next]_vars

\* Goroutines that can run do run, and a write returns within writeTimeout.
\* Senders blocked on the buffer are woken first in, first out, and a select
\* chooses at random among its ready cases: hence the strong fairness.  A
\* closed connection ends the read loop.  Nobody is obliged to send.
Fairness ==
    /\ \A s \in Sender : SF_vars(Sending(s))
    /\ WF_vars(Pump) /\ SF_vars(TakeReject)
    /\ WF_vars(ReadLoop)
    /\ WF_vars(closed /\ ReadFails)

FairSpec == Spec /\ Fairness

-----------------------------------------------------------------------------
(* Properties.                                                             *)

TypeOK ==
    /\ at \in [Sender -> {"idle", "add", "test", "select"}]
    /\ size \in [Sender -> Sizes \cup {0}]
    /\ send \in Seq(Sizes) /\ Len(send) <= SendBuffer
    /\ queued \in Nat
    /\ closed \in BOOLEAN
    /\ dropper \in Droppers \cup {"nobody"}
    /\ pump \in {"select", "write", "reject", "gone"}
    /\ writing \in Sizes \cup {0}
    /\ pending \in BOOLEAN
    /\ loop \in {"read", "reject", "await", "dereg", "done"}

\* The byte counter is exact: what sits in the buffer, what the pump is
\* writing (a failed write is never given back), and what senders have added
\* and not yet queued or taken back.  A drift either way would shed healthy
\* connections or disable the cap.
QueuedIsExact ==
    queued = SumFunction(send) + writing
             + SumFunctionOnSet(size, {s \in Sender : at[s] \in {"test", "select"}})

MaxSize == CHOOSE n \in Sizes : \A m \in Sizes : m <= n

\* What check-then-add gives: the cap is exceeded by at most the frames of
\* the goroutines that were inside sendFrame together, less one.
OvershootIsBounded == queued <= MaxQueued + SumFunction([s \in Sender |-> MaxSize]) - MaxSize

\* reject waits for the pump so that the read loop's own deregister cannot
\* cut off the error frame.
RejectIsNotCutShort == pending \/ pump = "reject" => dropper # "dereg"

\* Nobody hangs on a connection whose peer reads nothing: the write times out,
\* the pump's exit closes the connection, and that releases every sender in a
\* select on a full buffer, a refused hello that waits for its error frame, and
\* the pump itself after any other close.
WaitersReturn ==
    /\ \A s \in Sender : at[s] # "idle" ~> at[s] = "idle"
    /\ loop = "reject" ~> loop = "done"
    /\ closed ~> pump = "gone"
=============================================================================
