---------------------------- MODULE NonceCache ----------------------------
(***************************************************************************)
(* The hello replay check of the hub (src/hub/auth.go): the freshness      *)
(* window on the hello's own timestamp, and the cache that remembers each  *)
(* nonce for replayKeep and is swept about once per nonceSweepEvery.       *)
(*                                                                         *)
(* A hello is [pub, nonce, ts], with ts stamped by its sender's clock; the *)
(* same hello may arrive any number of times at any later moment.  The     *)
(* sender's clock may run ahead of the hub's or behind it: tsFresh takes   *)
(* any ts within Window of now, on either side.                            *)
(***************************************************************************)
EXTENDS Integers, Sequences

CONSTANTS
    Hello,       \* the hellos in play: [pub, nonce, ts]
    Pub, Nonce,  \* public keys and nonces
    Window,      \* tsWindow
    Keep,        \* replayKeep
    SweepEvery,  \* nonceSweepEvery
    MaxNow       \* bound: the end of the modelled time

ASSUME NonceConstants ==
    /\ Hello \subseteq [pub : Pub, nonce : Nonce, ts : Nat]
    /\ Window \in Nat /\ Keep \in Nat /\ SweepEvery \in Nat /\ MaxNow \in Nat

\* replayKeep is tsWindow and a minute.
ASSUME KeepExceedsWindow == Window < Keep

VARIABLES
    now,        \* the hub's clock
    expiry,     \* [Pub \X Nonce -> Nat]   nonceCache.seen; 0 is no entry
    lastSweep,  \* nonceCache.lastSweep
    accepted    \* [Hello -> Seq(Nat)]     history: the moments it was accepted

vars == <<now, expiry, lastSweep, accepted>>

Init ==
    /\ now = 0
    /\ expiry = [e \in Pub \X Nonce |-> 0]
    /\ lastSweep = 0
    /\ accepted = [h \in Hello |-> <<>>]

Tick ==
    /\ now < MaxNow
    /\ now' = now + 1
    /\ UNCHANGED <<expiry, lastSweep, accepted>>

\* tsFresh.
Fresh(ts) == now - ts <= Window /\ ts - now <= Window

\* check finds a live entry: replay.
Remembered(e) == now < expiry[e]

\* A mutation: a sweep takes entries that expire within the coming period.
DropSoon(x) == x <= now + SweepEvery
\* Expired entries of this key go at every accepted check, those of every key
\* once a sweep is due.
Drop(x) == x <= now
SweepDue == now - lastSweep >= SweepEvery

\* A mutation: the entry lives for the freshness window only.
KeepWindow == Window
KeepFor == Keep

\* A mutation: the periodic sweep visits the current key only.
SweepsOwnKey(e, p) == e[1] = p
Sweeps(e, p) == e[1] = p \/ SweepDue

SweptAt == now

\* hello passes tsFresh and nonceCache.check.
Accept(h) ==
    LET e == <<h.pub, h.nonce>> IN
    /\ Fresh(h.ts)
    /\ ~Remembered(e)
    /\ expiry' = [x \in Pub \X Nonce |->
                     IF x = e THEN now + KeepFor
                     ELSE IF Sweeps(x, h.pub) /\ Drop(expiry[x]) THEN 0
                     ELSE expiry[x]]
    /\ lastSweep' = IF SweepDue THEN SweptAt ELSE lastSweep
    /\ accepted' = [accepted EXCEPT ![h] = Append(@, now)]
    /\ UNCHANGED now

Next == Tick \/ \E h \in Hello : Accept(h)

Spec == Init /\ [][Next]_vars

-----------------------------------------------------------------------------

TypeOK ==
    /\ now \in Nat
    /\ expiry \in [Pub \X Nonce -> Nat]
    /\ lastSweep \in Nat /\ lastSweep <= now
    /\ accepted \in [Hello -> Seq(Nat)]

\* protocol.md: replayed nonces are rejected; auth.go: the cache is to "cover the
\* full ts window".  What the code does: whenever an accepted hello is presented
\* again, through expiry, per-key cleanup and sweeps, it is either stale or still
\* remembered, unless it was dated the margin of replayKeep over tsWindow or more
\* ahead of the hub's clock when it was first accepted.  Such a hello passes once
\* more when its nonce has expired before its timestamp has, and never a third time.
TwiceOnlyFromAhead ==
    \A h \in Hello :
        /\ Len(accepted[h]) <= 2
        /\ Len(accepted[h]) = 2 => h.ts - accepted[h][1] >= Keep - Window

\* The cache forgets: after a sweep only entries that were live then are left,
\* so that it holds no more than Keep + SweepEvery worth of hellos.
SweptClean == \A e \in Pub \X Nonce : expiry[e] # 0 => expiry[e] > lastSweep
=============================================================================
