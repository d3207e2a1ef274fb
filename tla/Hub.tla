-------------------------------- MODULE Hub --------------------------------
(***************************************************************************)
(* The hub's relay core (src/hub): the connection registry with            *)
(* one-connection-per-agent eviction, channel membership and ACLs, the     *)
(* direct-message and channel routes, the offline mailboxes, the send-id   *)
(* dedupe and the owner's identity eviction.                               *)
(*                                                                         *)
(* One connection is one read-loop goroutine (handleWS).  Its program      *)
(* counter pc[c] advances by one region under h.mu, one region under the   *)
(* send-id mutex, or one of sendFrame's two selects per step, so every     *)
(* interleaving of the goroutines at lock boundaries is a behaviour.       *)
(*                                                                         *)
(* Abstractions.  An agent is its public key (agentIDFor is injective).    *)
(* A frame that fails signature, freshness or id checks changes no state   *)
(* modelled here.  The write pump is module WritePath: here the send queue *)
(* has room for every frame, a connection that closes between the two      *)
(* selects may still take the frame, and ConnDies(c) stands for every way  *)
(* the connection can be terminated at that moment (write or ping failure, *)
(* backpressure shed).  What a queue took reaches the peer only if the     *)
(* connection stays open.                                                  *)
(* Replies and presence broadcasts have no effect but that one, so they    *)
(* are left out.  The dedupe window never overflows here: module           *)
(* SendIDCache models the ring.                                            *)
(***************************************************************************)
EXTENDS Integers, Sequences, FiniteSets

CONSTANTS
    Conn,        \* connection instances; each lives once
    Agent,       \* public keys = agent ids
    Chan,        \* channel names
    Frame,       \* send frames: [from, to, chan, id], to or chan is None
    Key,         \* the public key each connection says hello with
    Master,      \* connections upgraded with the master secret
    MailboxCap,  \* mailboxCap: frames an offline mailbox holds
    None         \* nil, and the empty agentID of an unauthenticated client

FrameType == [from : Agent, to : Agent \cup {None}, chan : Chan \cup {None}, id : Nat]

ASSUME HubConstants ==
    /\ None \notin Conn \cup Agent \cup Chan
    /\ Frame \subseteq FrameType
    /\ None \notin Frame
    /\ \A f \in Frame : (f.to = None) # (f.chan = None)
    /\ Key \in [Conn -> Agent]
    /\ Master \subseteq Conn
    /\ MailboxCap \in Nat \ {0}

VARIABLES
    pc,        \* [Conn -> where the connection's read-loop goroutine is]
    who,       \* [Conn -> Agent or None]   client.agentID; None until authed
    closed,    \* [Conn -> BOOLEAN]         client.closed
    clients,   \* [Agent -> Conn or None]   hub.clients
    known,     \* [Agent -> BOOLEAN]        hub.agents has an entry
    online,    \* [Agent -> BOOLEAN]        agentEntry.Online
    exists,    \* [Chan -> BOOLEAN]         hub.channels has an entry
    acl,       \* [Chan -> SUBSET Agent]    channel.Allowed
    members,   \* [Chan -> SUBSET Agent]    channel.Members
    mailbox,   \* [Agent -> Seq(Frame)]     hub.mailbox
    mailboxDropped,  \* [Agent -> BOOLEAN]  hub.mailboxDropped
    used,      \* SUBSET Frame              hub.sendIDs
    frm,       \* [Conn -> Frame or None]   the frame handleSend works on
    todo,      \* [Conn -> SUBSET Conn]     recipients still to be pushed to
    off,       \* [Conn -> SUBSET Agent]    recipients still to be enqueued
    batch,     \* [Conn -> Seq(Frame)]      frames handleFlush has drained
    offer,     \* [Conn -> Conn or None]    found open by sendFrame's first select,
               \* the second still to come
    \* history, read by properties only
    owed,      \* <<frame, agent, connection>> the routing decision addressed;
               \* the connection a channel message was aimed at, else None
    pushed,    \* <<frame, connection>> a connection's send queue took
    gone       \* <<frame, agent>> lost to overflow, eviction, or a flush
               \* onto a connection that had closed

registry == <<clients, known, online>>
channels == <<exists, acl, members>>
mailboxes == <<mailbox, mailboxDropped>>
locals   == <<frm, todo, off, batch, offer>>
history  == <<owed, pushed, gone>>
vars     == <<pc, who, closed, registry, channels, mailboxes, used, locals, history>>

PC == {"new", "read", "route", "lookup", "deliver", "flush", "dereg", "done"}

Init ==
    /\ pc = [c \in Conn |-> "new"]
    /\ who = [c \in Conn |-> None]
    /\ closed = [c \in Conn |-> FALSE]
    /\ clients = [a \in Agent |-> None]
    /\ known = [a \in Agent |-> FALSE]
    /\ online = [a \in Agent |-> FALSE]
    /\ exists = [k \in Chan |-> FALSE]
    /\ acl = [k \in Chan |-> {}]
    /\ members = [k \in Chan |-> {}]
    /\ mailbox = [a \in Agent |-> << >>]
    /\ mailboxDropped = [a \in Agent |-> FALSE]
    /\ used = {}
    /\ frm = [c \in Conn |-> None]
    /\ todo = [c \in Conn |-> {}]
    /\ off = [c \in Conn |-> {}]
    /\ batch = [c \in Conn |-> << >>]
    /\ offer = [c \in Conn |-> None]
    /\ owed = {}
    /\ pushed = {}
    /\ gone = {}

Goto(c, l) == pc' = [pc EXCEPT ![c] = l]

\* The frames of a sequence.
Frames(s) == {s[i] : i \in DOMAIN s}

-----------------------------------------------------------------------------
(* Connection lifecycle.                                                   *)

\* handleWS: upgrade accepted, read loop and write pump started.
Open(c) ==
    /\ pc[c] = "new"
    /\ Goto(c, "read")
    /\ UNCHANGED <<who, closed, registry, channels, mailboxes, used, locals, history>>

\* A frame the read loop dispatches.  The connection may have been closed
\* since it was read (or between close(c.closed) and CloseNow).
Reading(c) == pc[c] = "read"
Authed(c) == who[c] # None

\* A mutation: the earlier connection is replaced but not dropped.
EvictNone(c, a) == closed' = closed

\* register drops the connection the same agent held before.
EvictOld(c, a) ==
    closed' = [d \in Conn |-> closed[d] \/ (clients[a] = d /\ d # c)]

\* hello accepted: welcome fills in the client, register installs it under
\* h.mu, evicting any earlier connection, and upserts the identity record.
Register(c) ==
    LET a == Key[c] IN
    /\ Reading(c) /\ ~Authed(c)
    /\ who' = [who EXCEPT ![c] = a]
    /\ EvictOld(c, a)
    /\ clients' = [clients EXCEPT ![a] = c]
    /\ known' = [known EXCEPT ![a] = TRUE]
    /\ online' = [online EXCEPT ![a] = TRUE]
    /\ UNCHANGED <<pc, channels, mailboxes, used, locals, history>>

\* hello refused: reject waits until the pump has dropped the connection.
RejectHello(c) ==
    /\ Reading(c) /\ ~Authed(c)
    /\ closed' = [closed EXCEPT ![c] = TRUE]
    /\ Goto(c, "dereg")
    /\ UNCHANGED <<who, registry, channels, mailboxes, used, locals, history>>

\* The pump or a sender terminates the connection (drop), at any moment of
\* whatever its own read loop is doing.
ConnDies(c) ==
    /\ pc[c] \notin {"new", "done"} /\ ~closed[c]
    /\ closed' = [closed EXCEPT ![c] = TRUE]
    /\ UNCHANGED <<pc, who, registry, channels, mailboxes, used, locals, history>>

\* The read loop sees the end: the peer hung up, or the connection is closed.
ReadFails(c) ==
    /\ pc[c] = "read"
    /\ Goto(c, "dereg")
    /\ UNCHANGED <<who, closed, registry, channels, mailboxes, used, locals, history>>

\* deregister acts only for the connection that is still registered.
IsRegistered(c) == Authed(c) /\ clients[who[c]] = c

\* A mutation: deregister trusts the agent id alone.
IsRegisteredAnyConn(c) == Authed(c) /\ clients[who[c]] # None

\* A mutation: a connection somebody else closed is taken for cleaned up.
IsRegisteredAndOpen(c) == IsRegistered(c) /\ ~closed[c]

\* deregister's region under h.mu, after cl.drop().
OwnsEntry(c) == IsRegistered(c)
Deregister(c) ==
    /\ pc[c] = "dereg"
    /\ closed' = [closed EXCEPT ![c] = TRUE]
    /\ IF OwnsEntry(c)
       THEN /\ clients' = [clients EXCEPT ![who[c]] = None]
            /\ online' = [online EXCEPT ![who[c]] = FALSE]
       ELSE UNCHANGED <<clients, online>>
    /\ Goto(c, "done")
    /\ UNCHANGED <<who, known, channels, mailboxes, used, locals, history>>


-----------------------------------------------------------------------------
(* Channels and the owner's API.                                           *)

\* channel.allows: an empty ACL admits every authenticated agent.
Allows(k, a) == acl[k] = {} \/ a \in acl[k]

\* joinChannel: only a master connection may create; the ACL gates entry.
Join(c, k) ==
    /\ Reading(c) /\ Authed(c)
    /\ exists[k] \/ c \in Master
    /\ Allows(k, who[c])
    /\ exists' = [exists EXCEPT ![k] = TRUE]
    /\ members' = [members EXCEPT ![k] = @ \cup {who[c]}]
    /\ UNCHANGED <<pc, who, closed, registry, acl, mailboxes, used, locals, history>>

\* adminSetACL: upsert the channel, replace the list.
SetACL(k, S) ==
    /\ exists' = [exists EXCEPT ![k] = TRUE]
    /\ acl' = [acl EXCEPT ![k] = S]
    /\ UNCHANGED <<pc, who, closed, registry, members, mailboxes, used, locals, history>>

\* A mutation: the overflow mark survives the mailbox it was set for.
AfterEmptyingKept(a) == mailboxDropped[a]

\* The overflow mark goes with the mailbox (adminEvict and drain).
AfterEmptying(a) == FALSE

\* A mutation: the 409 check is missing.
EvictableUnchecked(a) == known[a]

\* adminEvict: 404 for an unknown agent, 409 for a connected one.
Evictable(a) == known[a] /\ clients[a] = None

\* The identity and its queued frames go; channel membership stays.
AdminEvict(a) ==
    /\ Evictable(a)
    /\ known' = [known EXCEPT ![a] = FALSE]
    /\ online' = [online EXCEPT ![a] = FALSE]
    /\ mailbox' = [mailbox EXCEPT ![a] = << >>]
    /\ mailboxDropped' = [mailboxDropped EXCEPT ![a] = AfterEmptying(a)]
    /\ gone' = gone \cup (Frames(mailbox[a]) \X {a})
    /\ UNCHANGED <<pc, who, closed, clients, channels, used, locals,
                   owed, pushed>>

-----------------------------------------------------------------------------
(* handleSend: dedupe, route, deliver, latch.                              *)

\* A frame that passed the envelope checks, and whose id is not in the cache.
BeginSend(c, f) ==
    /\ Reading(c) /\ Authed(c)
    /\ f.from = who[c]
    /\ f \notin used
    /\ frm' = [frm EXCEPT ![c] = f]
    /\ Goto(c, "route")
    /\ UNCHANGED <<who, closed, registry, channels, mailboxes, used, todo, off,
                   batch, offer, history>>

\* channelTargets' refusals.
MayPublish(c, k) ==
    exists[k] /\ who[c] \in members[k] /\ Allows(k, who[c])

\* deliverDM's first lookup, or channelTargets: the frame is refused, and its
\* id stays free for a retry.
Refused(c, f) ==
    IF f.to # None THEN ~known[f.to] ELSE ~MayPublish(c, f.chan)

Refuse(c) ==
    /\ pc[c] = "route" /\ Refused(c, frm[c])
    /\ frm' = [frm EXCEPT ![c] = None]
    /\ Goto(c, "read")
    /\ UNCHANGED <<who, closed, registry, channels, mailboxes, used, todo, off,
                   batch, offer, history>>

\* deliverDM: lookupAgent found the recipient's identity.
RouteDM(c) ==
    LET f == frm[c] IN
    /\ pc[c] = "route" /\ f.to # None /\ ~Refused(c, f)
    /\ owed' = owed \cup {<<f, f.to, None>>}
    /\ Goto(c, "lookup")
    /\ UNCHANGED <<who, closed, registry, channels, mailboxes, used, locals,
                   pushed, gone>>

\* deliverDM: the second, separate look at the connection map.
LookupDM(c) ==
    LET a == frm[c].to IN
    /\ pc[c] = "lookup"
    /\ IF clients[a] = None
       THEN off' = [off EXCEPT ![c] = {a}] /\ UNCHANGED todo
       ELSE todo' = [todo EXCEPT ![c] = {clients[a]}] /\ UNCHANGED off
    /\ Goto(c, "deliver")
    /\ UNCHANGED <<who, closed, registry, channels, mailboxes, used, frm, batch,
                   offer, history>>

\* Mutations: the split forgets membership, or the members who are away.
ConnectedAnyone(k) == {a \in Agent : clients[a] # None}
AbsentNobody(k) == {}

\* channelTargets: one consistent split of the members, connected or not.
Connected(k) == {a \in members[k] : clients[a] # None}
Absent(k) == {a \in members[k] : clients[a] = None}

RouteChan(c) ==
    LET f == frm[c] IN
    /\ pc[c] = "route" /\ f.chan # None /\ ~Refused(c, f)
    /\ todo' = [todo EXCEPT ![c] = {clients[a] : a \in Connected(f.chan)}]
    /\ off' = [off EXCEPT ![c] = Absent(f.chan)]
    /\ owed' = owed \cup {<<f, a, clients[a]>> : a \in members[f.chan]}
    /\ Goto(c, "deliver")
    /\ UNCHANGED <<who, closed, registry, channels, mailboxes, used, frm, batch,
                   offer, pushed, gone>>

\* A mutation: the result of the push is ignored for direct messages too.
FallbackIgnored(c, d) == {}

\* Who is enqueued instead when the push onto d fails: the recipient of a
\* direct message, nobody for a channel message.
Fallback(c, d) == {frm[c].to} \ {None}

\* A mutation: a failed push is attempted again instead of falling back.
AfterPushRetry(c, d) == IF closed[d] THEN todo[c] ELSE todo[c] \ {d}
AfterPush(c, d) == todo[c] \ {d}

\* sendFrame onto one connected recipient returned false.
PushFails(c, d) ==
    /\ todo' = [todo EXCEPT ![c] = AfterPush(c, d)]
    /\ off' = [off EXCEPT ![c] = @ \cup Fallback(c, d)]

\* Its first select: a connection that has closed by now takes nothing.
Push(c, d) ==
    /\ pc[c] = "deliver" /\ offer[c] = None /\ d \in todo[c]
    /\ \/ closed[d] /\ PushFails(c, d) /\ UNCHANGED offer
       \/ ~closed[d] /\ offer' = [offer EXCEPT ![c] = d] /\ UNCHANGED <<todo, off>>
    /\ UNCHANGED <<pc, who, closed, registry, channels, mailboxes, used, frm, batch,
                   history>>

\* Its second select: the queue takes the frame, even when the connection has
\* closed since the first one, and then either case may be chosen.
Offer(c) ==
    LET d == offer[c] IN
    /\ pc[c] = "deliver" /\ d \in todo[c]
    /\ \/ /\ pushed' = pushed \cup {<<frm[c], d>>}
          /\ todo' = [todo EXCEPT ![c] = AfterPush(c, d)]
          /\ UNCHANGED off
       \/ closed[d] /\ PushFails(c, d) /\ UNCHANGED pushed
    /\ offer' = [offer EXCEPT ![c] = None]
    /\ UNCHANGED <<pc, who, closed, registry, channels, mailboxes, used, frm, batch,
                   owed, gone>>

\* A mutation: off by one at the cap.
OverflowsLate(q) == Len(q) > MailboxCap + 1
Overflows(q) == Len(q) > MailboxCap

\* enqueue: append, and beyond the cap drop the oldest.
Enqueue(c, a) ==
    LET q == Append(mailbox[a], frm[c]) IN
    /\ pc[c] = "deliver" /\ todo[c] = {} /\ a \in off[c]
    /\ off' = [off EXCEPT ![c] = @ \ {a}]
    /\ mailbox' = [mailbox EXCEPT ![a] = IF Overflows(q) THEN Tail(q) ELSE q]
    /\ mailboxDropped' = [mailboxDropped EXCEPT ![a] = @ \/ Overflows(q)]
    /\ gone' = IF Overflows(q) THEN gone \cup {<<Head(q), a>>} ELSE gone
    /\ UNCHANGED <<pc, who, closed, registry, channels, used, frm, todo, batch,
                   offer, owed, pushed>>

\* sendIDs.add: the id latches only now.
Latch(c) ==
    /\ pc[c] = "deliver" /\ todo[c] = {} /\ off[c] = {}
    /\ used' = used \cup {frm[c]}
    /\ frm' = [frm EXCEPT ![c] = None]
    /\ Goto(c, "read")
    /\ UNCHANGED <<who, closed, registry, channels, mailboxes, todo, off, batch,
                   offer, owed, pushed, gone>>

-----------------------------------------------------------------------------
(* handleFlush.                                                            *)

\* drain, under h.mu.
Drain(c) ==
    /\ Reading(c) /\ Authed(c)
    /\ batch' = [batch EXCEPT ![c] = mailbox[who[c]]]
    /\ mailbox' = [mailbox EXCEPT ![who[c]] = << >>]
    /\ mailboxDropped' = [mailboxDropped EXCEPT ![who[c]] = AfterEmptying(who[c])]
    /\ Goto(c, "flush")
    /\ UNCHANGED <<who, closed, registry, channels, used, frm, todo, off,
                   offer, owed, pushed, gone>>

\* One drained frame is sent to the flushing connection, by the same two selects.
\* sendFrame's result is ignored, so the frame is lost when it returns false.
FlushLost(c) ==
    /\ gone' = gone \cup {<<Head(batch[c]), who[c]>>}
    /\ batch' = [batch EXCEPT ![c] = Tail(@)]

FlushOne(c) ==
    /\ pc[c] = "flush" /\ offer[c] = None /\ batch[c] # << >>
    /\ \/ closed[c] /\ FlushLost(c) /\ UNCHANGED offer
       \/ ~closed[c] /\ offer' = [offer EXCEPT ![c] = c] /\ UNCHANGED <<batch, gone>>
    /\ UNCHANGED <<pc, who, closed, registry, channels, mailboxes, used, frm, todo,
                   off, owed, pushed>>

FlushOffer(c) ==
    /\ pc[c] = "flush" /\ offer[c] # None /\ batch[c] # << >>
    /\ \/ /\ pushed' = pushed \cup {<<Head(batch[c]), c>>}
          /\ batch' = [batch EXCEPT ![c] = Tail(@)]
          /\ UNCHANGED gone
       \/ closed[c] /\ FlushLost(c) /\ UNCHANGED pushed
    /\ offer' = [offer EXCEPT ![c] = None]
    /\ UNCHANGED <<pc, who, closed, registry, channels, mailboxes, used, frm, todo,
                   off, owed>>

\* The flushed reply, and back to the read loop.
FlushDone(c) ==
    /\ pc[c] = "flush" /\ batch[c] = << >>
    /\ Goto(c, "read")
    /\ UNCHANGED <<who, closed, registry, channels, mailboxes, used, locals, history>>

-----------------------------------------------------------------------------

\* What the read-loop goroutine does without waiting for its peer.
Handler(c) ==
    \/ Refuse(c) \/ RouteDM(c) \/ LookupDM(c) \/ RouteChan(c)
    \/ (\E d \in Conn : Push(c, d)) \/ Offer(c)
    \/ (\E a \in Agent : Enqueue(c, a))
    \/ Latch(c)
    \/ FlushOne(c) \/ FlushOffer(c) \/ FlushDone(c)
    \/ Deregister(c)

\* What its peer makes it do.
Peer(c) ==
    \/ Open(c) \/ Register(c) \/ RejectHello(c) \/ ReadFails(c) \/ ConnDies(c)
    \/ (\E k \in Chan : Join(c, k))
    \/ (\E f \in Frame : BeginSend(c, f))
    \/ Drain(c)

Owner ==
    \/ \E k \in Chan, S \in SUBSET Agent : SetACL(k, S)
    \/ \E a \in Agent : AdminEvict(a)

Next == (\E c \in Conn : Handler(c) \/ Peer(c)) \/ Owner

Spec == Init /\ [][Next]_vars

\* The Go scheduler runs a goroutine that can run.  CloseNow follows the close,
\* and from then on every read fails, so a closed connection is not read for
\* ever (hence SF).  Peers and the owner owe nothing.
Fairness ==
    \A c \in Conn : WF_vars(Handler(c)) /\ SF_vars(closed[c] /\ ReadFails(c))

FairSpec == Spec /\ Fairness

-----------------------------------------------------------------------------
(* Properties.                                                             *)

Pairs == Frame \X Agent
Aims == Frame \X Agent \X (Conn \cup {None})

TypeOK ==
    /\ pc \in [Conn -> PC]
    /\ who \in [Conn -> Agent \cup {None}]
    /\ closed \in [Conn -> BOOLEAN]
    /\ clients \in [Agent -> Conn \cup {None}]
    /\ known \in [Agent -> BOOLEAN]
    /\ online \in [Agent -> BOOLEAN]
    /\ exists \in [Chan -> BOOLEAN]
    /\ acl \in [Chan -> SUBSET Agent]
    /\ members \in [Chan -> SUBSET Agent]
    /\ mailbox \in [Agent -> Seq(Frame)]
    /\ \A a \in Agent : Len(mailbox[a]) <= MailboxCap
    /\ mailboxDropped \in [Agent -> BOOLEAN]
    /\ used \in SUBSET Frame
    /\ frm \in [Conn -> Frame \cup {None}]
    /\ todo \in [Conn -> SUBSET Conn]
    /\ off \in [Conn -> SUBSET Agent]
    /\ batch \in [Conn -> Seq(Frame)]
    /\ offer \in [Conn -> Conn \cup {None}]
    /\ owed \in SUBSET Aims
    /\ pushed \in SUBSET (Frame \X Conn)
    /\ gone \in SUBSET Pairs

\* The three views of who is connected agree: a registered connection is an
\* authenticated one of that very agent whose read loop has not finished, the
\* agent has an identity record (deregister dereferences it without a nil
\* check), and the record says online exactly while a connection is registered.
RegistryAgrees ==
    \A a \in Agent :
        /\ online[a] <=> clients[a] # None
        /\ clients[a] # None =>
              known[a] /\ who[clients[a]] = a /\ pc[clients[a]] \notin {"new", "done"}

\* One connection per agent: an authenticated connection that has not been
\* dropped is the registered one.  So two live connections never share an
\* agent, and the late deregister of an evicted connection never takes the
\* newer one out of the registry.
LiveIsRegistered ==
    \A c \in Conn : Authed(c) /\ ~closed[c] => clients[who[c]] = c

\* An identity is deleted only when no authenticated connection of the agent
\* is open, whatever order hello, deregister and the owner's DELETE run in.
EvictsOnlyOffline ==
    [][\A a \in Agent : known[a] /\ ~known'[a] =>
            \A c \in Conn : who'[c] = a => closed'[c]]_vars

\* Frame f is in the send queue of one of a's connections, or was when it closed.
Taken(f, a) == \E d \in Conn : who[d] = a /\ <<f, d>> \in pushed

\* Where frame f for agent a can be: waiting in the mailbox or in a flush in
\* progress, handed to one of a's connections, or lost in one of the named ways.
Accounted(f, a) ==
    \/ f \in Frames(mailbox[a])
    \/ \E c \in Conn : who[c] = a /\ f \in Frames(batch[c])
    \/ Taken(f, a)
    \/ <<f, a>> \in gone

\* channels.go: "queue to the mailbox instead of silently dropping the frame".  A
\* direct message whose id was latched, so that its sender will not retry, was
\* taken by the send queue of one of the recipient's own connections (with which
\* it is lost if that connection closes first), or it is in the mailbox or in a
\* flush, or it was lost to overflow, the owner's DELETE or a failed flush.  The
\* lookups, the closes, the push and the fallback lose it in no other way.
LatchedDMIsAccounted ==
    \A p \in owed : p[1] \in used /\ p[1].to # None => Accounted(p[1], p[2])

\* mailbox_full is never reported for a mailbox that lost nothing: the mark is
\* set only while the mailbox is full of what followed the frames it dropped,
\* whatever flushes, evictions and deliveries come between.
MarkMeansFull ==
    \A a \in Agent : mailboxDropped[a] => Len(mailbox[a]) = MailboxCap

\* protocol.md: a post is fanned out to connected members and enqueued for absent
\* ones.  What holds once no handler works on it any more (an evicted connection
\* of the sender may still be routing a copy whose id is latched already): for a
\* member who was absent when it was routed it is accounted for as above, and a
\* connected one can only miss it because the very connection it was aimed at has
\* closed.
MissedPostMeansClosed ==
    \A p \in owed :
        p[1].chan # None /\ (\A c \in Conn : frm[c] # p[1]) =>
            Accounted(p[1], p[2]) \/ (p[3] # None /\ closed[p[3]])

Addressed(f, a) == \E d \in Conn \cup {None} : <<f, a, d>> \in owed

\* Nobody receives, or holds in a mailbox or a flush in progress, a message
\* the routing decision did not address to that agent, although recipients
\* are resolved to connections first and pushed to later, when those may
\* belong to an agent that has reconnected, been evicted or been deleted.
OnlyAddressedReceive ==
    /\ \A p \in pushed : Addressed(p[1], who[p[2]])
    /\ \A a \in Agent : \A f \in Frames(mailbox[a]) : Addressed(f, a)
    /\ \A c \in Conn : \A f \in Frames(batch[c]) : Addressed(f, who[c])

\* A dropped connection leaves the registry, so that its agent is reported
\* offline and its messages go to the mailbox again.
DeadConnLeaves ==
    \A c \in Conn : closed[c] ~> \A a \in Agent : clients[a] # c

\* Every send handler ends, with the frame accepted or refused.
SendEnds == \A c \in Conn : frm[c] # None ~> frm[c] = None
=============================================================================
