# TLA+ models of the DAP hub and its adapters

This directory models the relay of the Distributed Agents Platform: the Go hub
(`src/hub`) and the TypeScript clients that talk to it (`src/adapters`). Modules
are translated from the source; where they quote `docs/protocol.md` it is to state a
property. TLC checks small instances; TLAPS proves every invariant of the runs for any
number of agents, connections and messages.

    tlc -config HubDM.cfg MCHub          # one run: its cfg and module are in PROJECT.json
    tlapm HubProofs.tla                  # the proofs

## 1. The system

Agents (coding assistants) keep one WebSocket each to the hub. A connection is
authenticated twice: a bearer token at the upgrade (the master secret, or a client
secret bound to a display name) and a signed `hello` (the agent's key, hence its id).
Agents then join channels, send channel and direct messages, flush their offline
mailbox, look each other up and query presence. The owner of the hub sets channel ACLs
and deletes identities over HTTP. Payloads are end-to-end encrypted; the hub routes.

| Component | State | Operations | Talks to |
|---|---|---|---|
| relay core (`relay.go`) | `clients`, `agents`, per connection `agentID`, `closed` | register with eviction, dispatch, deregister | everything else in the hub, under `h.mu` |
| write path (`relay.go`, `auth.go`) | `send`, `queued`, `rejectCh`, `closed` | `sendFrame`, write pump, ping, `reject`, `drop` | any handler goroutine that pushes to the connection |
| channels (`channels.go`) | `channels`: ACL, members | join, send, fan-out, direct route | registry, mailbox, dedupe |
| mailbox (`mailbox.go`) | `mailbox`, `mailboxDropped` | enqueue, drain, flush | direct and channel routes |
| hello checks (`auth.go`) | nonce cache | freshness, replay check, sweep | the upgrade's verdict, register |
| send dedupe (`auth.go`) | ring of ids per sender | `seen`, `add` | `handleSend` |
| enrollment and store (`enroll.go`, `store.go`) | secrets, `secrets.json`, `channels.json` | enroll, enroll_create, persist, load | upgrade, join, admin |
| admin (`admin.go`) | none of its own | set ACL, evict identity, listings | registry, store |
| presence (`presence.go`) | none of its own | whois, query, announce | registry, write path |
| client session (`client.ts`, two adapters) | socket, retry timer, backoff, waiters | dial, hello, welcome, reconnect, retarget, stop | hub, config file |
| keep-alive (`keepalive.ts`) | interval, deadline, flags | start, stop, tick, pong | the session's socket |
| glossary (`gloss.ts`) | entries, reverse map per conversation | propose, ack, drop, compact, expand | the peer's glossary, over messages |
| presence queries (`client.ts`, two adapters) | waiters by query id, the echo latch | ask, warm-up, answer, time out | the hub's query answers and broadcasts, on one stream |
| invites (`client.ts`, `index.ts`) | pending list, poller, `delivering` | arm, poll, deliver | presence, config file |
| config and channel files | two JSON files per machine | read-modify-write | every adapter on the machine |

What makes it hard. The hub has a goroutine per connection and one write pump per
connection; handlers take `h.mu` for short regions and act on what they read after
letting it go. An agent may have several connections at once, of which one is
registered. Buffers, mailboxes and caches have caps. A restart keeps two files and
nothing else. The clients are event loops whose sockets, timers and promises outlive
each other. `PROJECT.json` lists each such hazard at its line, with the properties that
watch it.

What each part must get right: the registry's three views agree and an agent has one
live connection; each accepted message was taken by a connection of its recipient,
waits, or was lost for a named reason, and none reaches an agent it was not routed to;
the byte counter is exact and nobody hangs on a dead connection; a hello is accepted once
unless it was dated ahead; the dedupe window is the window it claims to be; credentials and ACLs survive restarts and revoked ones stay revoked; a client
always has exactly one way forward to a connection, and watches the one it has; a
socket of the past changes nothing; a query gets its own answer; an invite that was
armed is delivered, once, and survives a restart; two agents' glossaries never translate
a token wrongly.

## 2. The modules

**`Hub`** (with `MCHub`, `HubProofs`). Each connection is a read-loop goroutine with a
program counter. One step is one region under `h.mu`, one region under the send-id
mutex, or one push to another connection. `Register` is hello's `register` as a whole,
with the eviction (`EvictOld`) and the identity upsert; `BeginSend`, `RouteDM`,
`LookupDM`, `RouteChan`, `Push`, `Enqueue`, `Latch` cut `handleSend` where its locks do:
a direct message reads the identity and then the connection in separate regions, so
everything may change between them. A push is two steps, as `sendFrame` has two selects:
`Push` looks whether the connection has closed, `Offer` puts the frame into its queue,
which it may also do when the connection has closed in between; `offer` is the connection
that a goroutine is between the two of. `PushFails` is the fallback of `deliverDM`.
`Drain`, `FlushOne` and `FlushOffer` (the same two selects), `FlushDone` are `handleFlush`.
`AdminEvict` and `SetACL` are the owner's calls. `ConnDies` stands for every way the
write side ends a connection. `owed`, `pushed` and `gone` are histories: what routing
decided, which connection's queue took a frame, what was lost to overflow, identity
deletion, or a flush that sendFrame refused. A frame in a queue is lost with its
connection if that closes before the pump has written it: `pushed` says taken, not read.

**`WritePath`** (with `MCWritePath`, `WritePathProofs`). One connection from below: goroutines in
`sendFrame` (load, compare, add, test of `closed`, select), the pump's select and
write, a refused hello that hands its frame to the pump and waits, eviction from
outside. `Fits`/`Check`/`Add`/`Undo` are the steps on `queued`.

**`SendIDCache`** implements **`SendWindow`** (with `MCSendIDCache`,
`SendIDProofs`). The ring with its
growing phase and wrapping index against "the last Cap ids, no more and no fewer":
`RingIsWindow` is the refinement, with the ring unrolled from its oldest entry. A loop is
between `Seen` and `Add` while its frame is routed; `overtaken` is a history that marks
it when another loop of the same sender latches the same id meanwhile.

**`NonceCache`** (with `MCNonceCache`, `NonceProofs`). Hub time, entry expiry, the
per-key cleanup and the sweep that is due about once a period. A hello may come back at
any later moment, and its timestamp may be up to five minutes on either side of the hub's
clock, all that `tsFresh` looks at. `accepted` records when each hello was accepted.

**`Store`** (with `MCStore`, `StoreProofs`). Memory against the two files. `Persist` rewrites a file
or fails and leaves it; `Crash` loses memory, `Start` loads. `Enroll` rotates,
`EnrollCreate` adds, `AdminEvict` purges when the last holder of the name goes.
`behind` and `lost` remember failed writes, so that the properties can say exactly when
a crash may cost something.

**`BridgeSession`** (with `BridgeProofs`). The MCP bridge's session and its watchdog. An action is one turn
of the event loop. `Connect` resolves the token, `Opens` starts the watchdog, `Welcome`
resets the backoff and starts the poller, `CloseEvent` is `onDisconnect`, `Retarget` is
`dap_connect`, `Stop` the end of stdio, `Refused401` the one-time recovery from a
refused secret. `call` holds where each tool call is parked, which changes as it goes on:
an invite by name waits for a presence answer, then for a join, then for its recipient's
key, on whatever connection is in use by then; each invite of a pass of the poller is a
call of its own. `old` and `moved` are histories: the calls made before the last retarget,
and those of them whose join the next hub granted. The state "orphan" is a
whois that threw on a dialling socket and left its timer behind. Once stopped, calls are
left to the close event and to their timers: an answer that arrives while the socket
closes would settle them a little earlier. The deployment is one
with a master secret and a config file; with `DAP_CLIENT_SECRET` set, that token wins
every dial and the recovery never applies.

**`PluginSession`** (with `PluginProofs`). The dsh plugin's session (`dsh-plugin/src/client.ts`,
`keepalive.ts`). It differs from the bridge where it is hard: a retired socket keeps its
listeners, and each of them compares the socket with `this.ws` (`InUse`). `sock` is
therefore a function on sockets, of which `ws` is the one in use, and a `Welcome`, a
`Pong` or a `CloseEvent` may still come from another one (a dial that is closed emits no
open). `greeted`
remembers which sockets delivered a welcome and `sentOn` which one a lookup was asked on;
both are histories. A slot of `Socket` is used again once its socket has emitted its
close and is no longer `this.ws`. `RefusedOther` is the 'unexpected-response' handler
for a status other than 401.

**`Presence`** (with `AdapterProofs`). One adapter, of either kind, and the hub's answers and broadcasts on
one ordered stream. `OnWelcome` starts the warm-up, `Receive` is `onPresence` or
`resolvePresence` with the latch `echoSeen`, `Tries` what a warm-up waiter does when a
frame without an id completes it: the plugin goes over a copy of its waiters, the
bridge over the live Map, which also visits those it parks meanwhile. `OnDisconnect` and
`Retarget` may lead to a hub with or without the echo. A query that lost its
connection is "lost" and waits for its timer.

**`Invites`** (with `AdapterProofs`). The delivery engine of both adapters, in several processes that share
`config.json`. A pass is `Polls` (flag, query), `Snapshot` or `NoSnapshot`, then
`Invited` or `NotInvited` per entry from the last index down; the index is kept across
the await, as in the code. A write of the file begins in the turn that calls
`persistDapConfig` and ends in `Written`: between the two, other processes may read an
empty file, a crash may leave it empty, and another process may have written a list
this one never saw. `owed` is what each process still has to deliver and `promised` what the
file is expected to hold; both are histories. `Slot` allows a second pass at once,
which the code's flag never uses and its mutation does.

**`Gloss`** (with `MCGloss`, `BridgeProofs`). Two agents and what is on its way in each
direction. A sent frame may be lost (the send throws and `handleInbound` swallows it, the
hub drops a channel post, a connection closes), which `drop()` and the ack do not notice,
and it may overtake earlier ones (a push overtakes what waits in a mailbox): `Sent`. An
abbreviation is the base derived from the term plus a suffix number, so two terms with
one skeleton compete for tokens as they do in `genAbbrev`. `sayTo` is two steps, since
it awaits the proposal's send before it compacts the message.

`AdapterProofs` extends both `Invites` and `Presence`, and `BridgeProofs` both
`BridgeSession` and `Gloss`; this is why the names every specification has begin with
`Query` in `Presence` (`QuerySpec`) and with `Gloss` in `Gloss`.

Operators commented "A mutation" are wrong variants of the definition after them; they
are used to see that a property notices the mistake, and no specification uses them.

## 3. The runs

| Run | Shows | Bounds |
|---|---|---|
| `HubDM` | registry agreement, one live connection, accepted direct messages accounted for, the overflow mark, deletion of offline identities only; dead connections leave and sends end | 3 connections of 2 agents, 2 messages, mailbox of 1; 50 000 states |
| `HubChannel` | nobody receives what was not addressed to them; a member misses a post only when its connection closed | the same with 1 channel, 1 post and 1 direct message; 590 000 states |
| `WritePath` | exact byte counter, bounded overshoot, no error frame cut short; senders, reject and pump all end (`WaitersReturn`) | 2 senders, frames of 1 or 2, buffer of 2, cap of 3 |
| `SendIDCache` | the ring is the window; an id latches again while it is remembered only in a loop that was overtaken | 2 senders, 2 read loops, 3 ids, ring of 2; 24 000 states |
| `NonceCache` | only a hello dated a minute or more ahead is accepted again, and once; sweeps leave live entries only | 4 hellos on 2 keys and 2 nonces, 12 minutes in half-minute units, the code's own 5, 6 and 1 minute constants; 1.1 million states |
| `Store` | delivered secrets work and revoked ones do not, across a crash; the last ACL holds; shared names keep their secrets | 2 connections, agents, names and secrets, 1 channel, 1 failed write, 1 crash |
| `BridgeSession` | one reconnect loop, open sockets watched, of the waits only joins, and the lookups they lead to, outlive a retarget; a working connection again and again | backoff 1, 2, 3, 2 calls in flight; 389 000 states |
| `PluginSession` | no socket of the past arms a timer, looks connected, is watched or holds a lookup; a welcomed connection again and again | 2 sockets, 1 lookup, backoff 1, 2; 208 000 states |
| `Presence` | only queries asked before the latch are answered by a broadcast; the warm-up arms the latch; queries are answered | both adapters, both hubs, 2 callers, 4 ids, 2 broadcasts in flight |
| `Invites` | an entry leaves the list exactly when its DM is sent, an armed entry stays in the file, every invite is delivered at last | 2 processes, 2 entries, crashes and torn reads at any time; 325 000 states |
| `Gloss` | no token misread, and an active entry held or dropped by the other side, with one proposer and any frame lost or overtaken | 2 terms of one base, 4 calls of say and drop, 3 suffixes; 355 000 states |
| `GlossCrossing` | finding: crossing proposals bind one token to two terms | 3 calls, both propose |

Why the bounds are enough to be interesting. Three connections of two agents give a
sender and a recipient that reconnects while its old connection still runs. A mailbox
of one overflows at the second message. In `WritePath` two frames fit and a third does
not, for both the buffer and the byte cap. The ring of two wraps with three ids, and two
read loops are an evicted one and its successor. The nonce run is two keep times long,
so that entries expire between checks and a hello dated ahead can come back after its
nonce has gone. Two
secrets make a rotation and a second credential, and a crash can follow either. In
`BridgeSession` nothing is cut off by a bound but the number of calls: its states are
finite, and two calls are a join and another one at a time. `PluginSession` needs a
second socket for every late event; a third would be a second retired one, and a
retarget that finds no free slot waits for a close event. In `Presence` four ids let the
warm-up's three attempts end before a caller asks, and `Tries` is not bounded by them.
Two invites are the least for which the index of one moves under the other, and two
processes for a lost update. Two terms of one base are the smallest case with a collision.

Deadlock is not checked where the system may stop: all connections gone, time over,
messages or query ids used up, a client crashed or stopped. `WritePath`, `SendIDCache`
and `Invites` check it.

Fairness. `Hub`: a goroutine that can run does, weakly; a closed connection's read
fails at last, strongly, because `CloseNow` follows the close. `WritePath`: the pump,
senders and the read loop run; a write ends, since it has a deadline. `BridgeSession`:
timers fire and socket events are delivered, weakly; a dial and a hello that are
repeated while the hub stays reachable succeed at last, strongly. That is an assumption
on the network, and `Reconnects` has it as its premise too (`<>[]hubUp`).
`PluginSession` is the same, with the strong fairness on some socket rather than a
given one. `Presence`: the hub answers and the adapter reads, weakly, and no timer is
fair, so that a query is never called answered because it gave up. `Invites`: process
`Me` takes its turns and its interval fires; a query that shows a given name, and the DM
of a given entry, succeed if they are tried for ever. Other processes may stop anywhere.

## 4. What is proved

`HubProofs` proves, for any agents, connections, channels, frames and mailbox cap
(`HubConstants` is all it assumes), that `TypeOK`, `RegistryAgrees`, `LiveIsRegistered`
and `MarkMeansFull` are invariant and that `EvictsOnlyOffline` holds of every step. The
registry properties are not inductive alone: a handler acts on locals taken in an
earlier region. `HubInv` adds `LocalsOK`, which says what a goroutine may rely on between
its steps (who it is, that it has a frame, that recipients are authenticated), and
contains `TypeOK` with the bound on mailboxes. Each conjunct has a lemma with a step per action;
`HubInvariant` combines them. `TrimFits` is the arithmetic of a full mailbox: dropping
the oldest and appending keeps the cap. `MarkIsNeverStale` is inductive on top of `HubInv`.
`EvictionIsOffline` needs `LiveIsRegistered`: an unclosed connection of the agent would
be registered, which the owner's call excludes.

`NonceProofs` proves `TwiceOnlyFromAhead` for any window, longer keep time, sweep period and
hellos with any timestamps. `NonceInv` has two parts. `Covered`: from each moment at which
a hello was accepted its nonce is remembered for Keep. `Spaced`: each acceptance was within
the window of the hello's timestamp, and two of them are Keep apart. Two acceptances then
are at most two windows apart, the first of them ahead of the clock by Keep - Window or
more, and a third one would be two keep times after the first, which Window < Keep
excludes. It also proves `SweptClean`.

`StoreProofs` proves `HeldSecretOpens`, `RevokedStaysRevoked`, `LastAclHolds`,
`EnrolledNameOnly`, `PurgeIsLast` and `TypeOK` for any number of connections, names,
secrets, channels, crashes and failing writes (`StoreConstants` is all it assumes). None
of the first three is inductive: a crash replaces memory by the files. `StoreInv`
therefore speaks of `Table` and `Registry`, what the hub serves from or is about to
load, and adds `FilesFollow` (a file whose last write succeeded is a copy of memory; a
stopped hub's failed writes are all in `lost`), `OneName` (no secret hangs on two names,
else a rotation of one would leave it valid under the other), `Accounts` (each secret
drawn is in the table or revoked, never both) and `Spoken` (a registered agent's name is
its connection's, and the secret's). `StepKinds` sorts the steps into the few that touch
tables or files, so that each lemma has one case for each of those.

On top of `HubInv`, `HubProofs` proves what becomes of messages. `OnlyAddressedReceive`
(`NoMisdelivery`) needs `AddressInv`: whoever a handler is still going to push to, or to
enqueue for, was addressed by its own routing decision. `LatchedDMIsAccounted`
(`LatchedDMsAreAccounted`) needs `DMInv`: while a handler delivers a direct message, the
message is accounted for already or the handler still has its recipient; `AccountedStays`
carries a frame from the mailbox through a flush to a queue or to one of the named
losses. `MissedPostMeansClosed` (`PostsReachMembers`) needs `PostInv`, the same for each
member a post is owed to. `DeliveryInv` is `HubInv` with the locals of a goroutine that
does not deliver or flush, and with the connection it offers a frame to. The third
property first said a little too much: an evicted connection may still be routing a copy
of a post whose id the agent's new connection latched, so the property now waits until no
handler has the post.

`WritePathProofs` proves `QueuedIsExact`, `OvershootIsBounded` and `RejectIsNotCutShort`
for any finite set of senders, any frame sizes, buffer and cap (`WritePathConstants`).
The counter is a sum over the channel and over the senders between their add and their
enqueue or undo. The first part of the module proves what is needed of sums over finite
sets, by least counterexample: among the subsets on which a claim fails there is a least
one. (The induction rules of the library take an operator, which this prover cannot
instantiate.) `WriteInv` adds what each
sender holds (`HoldsFrame`), the bound on the counter together with the frames that have
passed the check and are not yet added (`Overshoot`), and that an error frame is with the
pump only while its read loop waits or the connection is closed (`RejectWaits`).

`SendIDProofs` proves `RingIsWindow`, the refinement (`RingImplementsWindow`): `RingInv`
says that the index of a ring below its capacity is 0; a step of the ring then is
a step of the window or a stutter, with the remainders worked out in `OneTurn`. It It also
proves `OnlyOvertakenRepeat` for any number of loops, with no hypothesis on how they
interleave: only a latch puts an id into the window, and a latch marks every other loop
that holds the same id (`StepOvertaken`).

`BridgeProofs` proves `OneLoop`, `OpenIsWatched` and `OnlyJoinsOutlive` of the bridge and
`PluginProofs` proves `NoPhantomReconnect`, `ConnectedIsWelcomed`, `OpenIsWatched` and
`WhoisEndsWithSocket` of the plugin, for any number of sockets, calls and any backoff.
The inductive invariants add that no interval runs between two dials (`Unwatched`), and
for the plugin that a socket that dials or has closed is neither welcomed nor watched and
that only a watched one awaits a pong (`Quiet`).

The second part of `BridgeProofs` is about the glossary, for any terms, bases, messages
and suffixes, with at most one proposer (`OneProposer`; `GlossCrossing` shows that two
are too many). It proves `NeverMisread` and `ActiveIsHeld`, with frames lost and overtaken as
in the model. The notion behind both is `Means(t, b)`: a reverse map, an entry or a frame
on its way writes t as b. `OneMeaning` says that this is one to one over both agents and
both directions; it is inductive with `Known` (the proposer reserved every abbreviation
that means something) and `Untouched` (a term it may still propose means nothing), since
only a proposal creates a meaning (`NoNewMeaning`). `ActiveIsHeld` needs `Answered` besides:
a term that the proposer has active, or has an ack on its way for, is one its peer holds
or has dropped. No order of the frames is needed, because a term once dropped is never
proposed again.

`AdapterProofs` proves `PartialIsEarly` of `Presence`, from `Latched`: a query that waits
and was asked after the latch was armed waits under an armed latch. Of `Invites` it
proves `DeliveredIsRemoved` and `ArmedIsDurable`, for any processes, entries, crashes and
torn reads. `InviteInv` says that lists repeat nothing (`NoRepeats`), that a process has
at most one pass under way and its index points at the entry the DM is for (`PassOK`),
that a process that ended runs nothing (`OffOK`), and that a write nobody has overtaken
brings what its process owes, or somebody else is about to (`Fresh`).
`NoneIsNoWrite` is its only assumption.

Only model-checked: the liveness properties `DeadConnLeaves`, `SendEnds`, `WaitersReturn`,
`Reconnects` of both sessions, `WarmUpArms`, `QueriesAreAnswered` and `EventuallyInvited`.
They need fairness, which is outside the prover's reach. The assumptions on constants
(two agents, finitely many senders, a `None` that is none of the values it stands beside)
are in the modules that declare them, and TLC evaluates them on each run.

## 5. Findings

* **Crossing proposals** (`gloss.ts:229`). Both sides can bind one token to two terms,
  and the message then expands to the wrong one. Run `GlossCrossing`.

Deviations from a comment or document whose extent an invariant of a passing run states:

* `deliverChannel` ignores the result of `sendFrame` (`channels.go:133`), where `deliverDM`
  falls back to the mailbox: a member whose connection closes between the decision and
  the push misses the post (`docs/protocol.md:80`). `MissedPostMeansClosed` says that
  nobody else does, once no handler routes the post any more.
* A closed connection can accept a frame (`relay.go:342`): "A closed connection must never
  accept a frame", says the comment above `sendFrame`, and that the first test removes the
  race; but both cases of the second select can be ready. `sendFrame` then returns true, so
  `deliverDM` does not fall back to the mailbox (`channels.go:187`), the id latches and the
  message is lost, as is any frame still in the queue of a connection that closes.
  `LatchedDMIsAccounted` says that a latched message was taken by a queue of its
  recipient or is accounted for otherwise; `QueuedIsExact` that the byte counter stays
  right.
* A hello dated more than a minute ahead of the hub's clock can be accepted twice: the
  nonce is kept for six minutes from its arrival (`auth.go:130`), the timestamp is fresh up
  to ten minutes after the earliest moment (`auth.go:98`). The comment at `auth.go:21` wants
  the cache to cover the full window, and `docs/protocol.md:32` says that replayed nonces
  are rejected. `TwiceOnlyFromAhead` says that this is the only way, and that a third
  acceptance is impossible.
* Two read loops of one agent, an evicted one and its successor, can both find a send id
  absent and both deliver and latch it (`channels.go:109`, `channels.go:120`), where
  `docs/protocol.md:82` says that a duplicate accepted id is rejected.
  `OnlyOvertakenRepeat` says that nothing else is accepted twice within the window.
* `failWaiters` leaves out `joinWaiters` (`client.ts:312`), where its comment speaks of
  every waiter, so a join asked of one hub can be settled by the next, and an invite then
  goes on there: it looks its recipient up at the next hub and sends the channel's
  keypair to the agent of that id. `OnlyJoinsOutlive` says that no other wait outlives a
  retarget.
* "An entry becomes active only after BOTH sides hold it" (`docs/protocol.md:140`) holds of
  the moment it becomes active and not beyond: the acking side activates before its ack
  is sent and a failed ack is swallowed (`gloss.ts:212`, `gloss.ts:230`), and `drop`
  deactivates before its send, which may throw (`gloss.ts:116`), on channels whose posts
  may be lost (`channels.go:133`). `ActiveIsHeld` says what is left: the other side holds
  the term under the same abbreviation, active or still proposed, or has dropped it.
* A broadcast can answer a query asked before the echo latch is armed
  (`mcp-bridge/src/client.ts:770`). `PartialIsEarly` says none asked later is.
* "Pending whois never outlives its socket" holds for lookups that reached a socket
  (`WhoisEndsWithSocket`); one made while no connection is open waits for its timer.

Observed while modelling, without a run of their own:

* `relay.go:24` speaks of a cap on queued bytes; check-then-add can exceed it by one
  frame per further sender (`OvershootIsBounded` is what holds).
* Members removed from an ACL keep receiving: only join and publish consult it.
* A direct message enqueued after its recipient connected and flushed waits until that
  recipient's next flush.
* `adminEvict` leaves the agent in `Members`, so posts can create a mailbox for an
  identity that is gone.
* A restart forgets the nonce cache, memberships and mailboxes; a hello may be accepted
  again within its window.
* A failed write is only logged; a crash then restores the older file. The `Store`
  properties carry that proviso (`lost`).
* A file that cannot be read or parsed at start is logged at most, and the hub serves from
  an empty table (`enroll.go:164`, `store.go:48`): every client secret is then refused and
  every restricted channel can be created again, open, and the next write replaces the
  file. `Store` leaves this start out: its loads succeed, as they do for files that
  `writeAtomic` wrote.
* A pass of the invite poller uses the presence answer it began with to its end, also over
  a retarget, so ids seen at one hub are invited at the next (`client.ts:504`).
* In the bridge, a whois on a dialling socket ends the process 5 s later
  (`client.ts:855`); a welcome during the closing of a stopped socket arms the invite
  poller for ever (`client.ts:731`); after `dap_connect` with a new name a cached secret
  is refused at each hello and never replaced.
* In the plugin, a failed upgrade with a status other than 401 ends neither the request
  nor the wait (`dsh-plugin/src/client.ts:444`): no dial follows until `dap_connect`.
  `Reconnects` of `PluginSession` excludes that case, a renamed secret and a secret refused
  again after the one recovery.
* The bridge's warm-up uses all three attempts on one broadcast, because it parks new
  waiters in the Map it iterates over; the queries are sent, so the latch is armed all
  the same (`WarmUpArms`).
* The latch is never reset. After `dap_connect` from a hub with the echo to one without,
  each answer is taken for a broadcast and each query times out (`QueriesAreAnswered`
  excludes it).
* `config.json` is rewritten whole from what was read or from a process' own list, neither
  locked nor renamed into place. Another process' list, a reader amid a write or a crash
  amid a write can take an invite out of it, and arming it again does not write it, since
  it is still in memory. `ArmedIsDurable` holds in all other cases.

## 6. Not modelled

Cryptography, canonical JSON, frame parsing and the file limit are pure functions or
system calls; hellos and sends in the models are those with valid signatures. The two
admin listings and `resolveDapSettings` change nothing. Message decryption and the inbox
follow one message at a time and keep no protocol state. `channels.json` of the adapters
is written like `config.json`, which is modelled; what a member can read then depends on
keys handed over between machines, and no part of this code promises which keypair wins.
The peers a presence announcement goes to (`presencePeersLocked`), and the order in which
announcements of two connections of one agent arrive, are not modelled: the adapters
keep no roster, so nothing depends on it. The glossary's `serialize` and `load` are a
copy. The tools of `server.ts` and `index.ts` other than connect, invite and the end of
the host forward one call each. The site, scripts, CI and deployment hold no program
logic. The omp and fah adapters are documents here.

## 7. Plan

The modelling is complete as far as section 6 says, and every property of a passing run
but the liveness ones is a theorem too. What is left:

1. Theorems for the type invariants of `WritePath`, `BridgeSession`, `PluginSession`,
   `Gloss` and `Invites`, which so far are parts of the inductive invariants.
2. Action properties that follow from the invariants and say more than they do: an
   abbreviation keeps its one term for the length of a conversation (`Gloss`), the latch
   of `Presence` is never disarmed, what `gone` may grow by in one step (`Hub`).
