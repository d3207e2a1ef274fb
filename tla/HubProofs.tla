----------------------------- MODULE HubProofs -----------------------------
(***************************************************************************)
(* Proofs about the relay core.  The registry properties are not inductive *)
(* by themselves: what a handler holds in its locals between two lock      *)
(* regions has to be part of the invariant.                                *)
(***************************************************************************)
EXTENDS Hub, TLAPS

\* What a goroutine may rely on between two of its steps.
LocalsOK ==
    \A c \in Conn :
        /\ pc[c] = "new" => who[c] = None
        /\ pc[c] \in {"route", "lookup", "deliver", "flush"} => who[c] # None
        /\ pc[c] \in {"route", "lookup", "deliver"} => frm[c] # None
        /\ pc[c] = "lookup" => frm[c].to # None
        /\ \A d \in todo[c] : who[d] # None

HubInv == TypeOK /\ RegistryAgrees /\ LiveIsRegistered /\ LocalsOK

\* What the constants say of one frame: it names an agent or a channel.
LEMMA FrameFields ==
    ASSUME NEW f \in Frame
    PROVE  /\ f # None
           /\ f.to # None => f.to \in Agent
           /\ f.chan # None => f.chan \in Chan
           /\ f.to = None <=> f.chan # None
BY HubConstants DEF FrameType

\* Appending to a mailbox within its cap, and trimming, keeps it within.
LEMMA TrimFits ==
    ASSUME NEW q \in Seq(Frame), Len(q) <= MailboxCap, NEW f \in Frame
    PROVE  LET r == Append(q, f) IN
           /\ r \in Seq(Frame)
           /\ Head(r) \in Frame
           /\ Tail(r) \in Seq(Frame)
           /\ Len(r) = Len(q) + 1
           /\ Len(Tail(r)) = Len(q)
           /\ Len(IF Overflows(r) THEN Tail(r) ELSE r) <= MailboxCap
<1> DEFINE r == Append(q, f)
<1>1. r \in Seq(Frame) /\ Len(r) = Len(q) + 1 /\ r # << >>
  OBVIOUS
<1>2. Len(Tail(r)) = Len(q) /\ Tail(r) \in Seq(Frame) /\ Head(r) \in Frame
  BY <1>1
<1>3. Len(q) \in Nat /\ MailboxCap \in Nat
  BY HubConstants
<1>4. QED
  BY <1>1, <1>2, <1>3 DEF Overflows

\* Both selects of sendFrame, for a recipient and for the flushing connection.
Pushing(c, d) == Push(c, d) \/ (Offer(c) /\ offer[c] = d)
Flushing(c) == FlushOne(c) \/ FlushOffer(c)

\* What a push onto d can do: offer, hand over, or fail on a closed connection.
LEMMA PushSteps ==
    ASSUME TypeOK, NEW c \in Conn, NEW d \in Conn, Pushing(c, d)
    PROVE  /\ pc[c] = "deliver" /\ d \in todo[c]
           /\ UNCHANGED <<pc, who, closed, registry, channels, mailboxes, used, frm, batch,
                          owed, gone>>
           /\ \A e \in Conn : e # c => todo'[e] = todo[e] /\ off'[e] = off[e]
           /\ \/ UNCHANGED <<todo, off, pushed>>
              \/ /\ todo'[c] = todo[c] \ {d} /\ off'[c] = off[c]
                 /\ pushed' = pushed \cup {<<frm[c], d>>}
              \/ /\ closed[d] /\ todo'[c] = todo[c] \ {d}
                 /\ off'[c] = off[c] \cup ({frm[c].to} \ {None}) /\ pushed' = pushed
<1> USE DEF TypeOK
<1>1. CASE Push(c, d) /\ closed[d]
  BY <1>1 DEF Push, PushFails, AfterPush, Fallback, history
<1>2. CASE Push(c, d) /\ ~closed[d]
  BY <1>2 DEF Push, history
<1>3. CASE Offer(c) /\ offer[c] = d
  BY <1>3 DEF Offer, PushFails, AfterPush, Fallback
<1>4. QED
  BY <1>1, <1>2, <1>3 DEF Pushing

\* What a flush can do with the frame it is at.
LEMMA FlushSteps ==
    ASSUME TypeOK, NEW c \in Conn, Flushing(c)
    PROVE  /\ pc[c] = "flush" /\ batch[c] # << >> /\ batch[c] \in Seq(Frame)
           /\ UNCHANGED <<pc, who, closed, registry, channels, mailboxes, used, frm, todo,
                          off, owed>>
           /\ \/ UNCHANGED <<batch, pushed, gone>>
              \/ /\ batch' = [batch EXCEPT ![c] = Tail(@)]
                 /\ pushed' = pushed \cup {<<Head(batch[c]), c>>} /\ gone' = gone
              \/ /\ batch' = [batch EXCEPT ![c] = Tail(@)]
                 /\ gone' = gone \cup {<<Head(batch[c]), who[c]>>} /\ pushed' = pushed
<1>1. CASE FlushOne(c)
  BY <1>1 DEF FlushOne, FlushLost, TypeOK
<1>2. CASE FlushOffer(c)
  BY <1>2 DEF FlushOffer, FlushLost, TypeOK
<1>3. QED
  BY <1>1, <1>2 DEF Flushing

\* A handler's steps, with sendFrame's selects taken together.
LEMMA HandlerCases ==
    ASSUME TypeOK, NEW c \in Conn, Handler(c)
    PROVE  \/ Refuse(c) \/ RouteDM(c) \/ LookupDM(c) \/ RouteChan(c)
           \/ (\E d \in Conn : Pushing(c, d))
           \/ (\E a \in Agent : Enqueue(c, a))
           \/ Latch(c) \/ Flushing(c) \/ FlushDone(c) \/ Deregister(c)
<1>1. Offer(c) => offer[c] \in Conn
  BY DEF Offer, TypeOK
<1>2. QED
  BY <1>1 DEF Handler, Pushing, Flushing

\* A hub that starts has no connection, identity or mail.
LEMMA InitHubInv == Init => HubInv
<1>1. Init => TypeOK
  BY HubConstants, SMTT(30) DEF Init, TypeOK, PC, Pairs, Aims
<1>2. Init => RegistryAgrees /\ LiveIsRegistered /\ LocalsOK
  BY DEF Init, RegistryAgrees, LiveIsRegistered, LocalsOK, Authed
<1>3. QED
  BY <1>1, <1>2 DEF HubInv

\* Types and the mailbox cap are kept by every step.
LEMMA StepTypeOK == HubInv /\ [Next]_vars => TypeOK'
<1> SUFFICES ASSUME HubInv, [Next]_vars PROVE TypeOK'
  OBVIOUS
<1> USE HubConstants DEF HubInv
<1>1. ASSUME NEW c \in Conn, Open(c) PROVE TypeOK'
  BY <1>1 DEF TypeOK, Open, Goto, PC, registry, channels, mailboxes, locals, history
<1>2. ASSUME NEW c \in Conn, Register(c) PROVE TypeOK'
  BY <1>2 DEF TypeOK, Register, EvictOld, channels, mailboxes, locals, history
<1>3. ASSUME NEW c \in Conn, RejectHello(c) PROVE TypeOK'
  BY <1>3 DEF TypeOK, RejectHello, Goto, PC, registry, channels, mailboxes, locals, history
<1>4. ASSUME NEW c \in Conn, ConnDies(c) PROVE TypeOK'
  BY <1>4 DEF TypeOK, ConnDies, registry, channels, mailboxes, locals, history
<1>5. ASSUME NEW c \in Conn, ReadFails(c) PROVE TypeOK'
  BY <1>5 DEF TypeOK, ReadFails, Goto, PC, registry, channels, mailboxes, locals, history
<1>6. ASSUME NEW c \in Conn, Deregister(c) PROVE TypeOK'
  BY <1>6 DEF TypeOK, Deregister, OwnsEntry, Goto, PC, registry, channels, mailboxes, locals, history
<1>7. ASSUME NEW c \in Conn, NEW k \in Chan, Join(c, k) PROVE TypeOK'
  BY <1>7 DEF TypeOK, Join, Authed, registry, mailboxes, locals, history
<1>8. ASSUME NEW k \in Chan, NEW S \in SUBSET Agent, SetACL(k, S) PROVE TypeOK'
  BY <1>8 DEF TypeOK, SetACL, registry, mailboxes, locals, history
<1>9. ASSUME NEW a \in Agent, AdminEvict(a) PROVE TypeOK'
  BY <1>9 DEF TypeOK, AdminEvict, AfterEmptying, Frames, Pairs, channels, locals
<1>10. ASSUME NEW c \in Conn, NEW f \in Frame, BeginSend(c, f) PROVE TypeOK'
  BY <1>10 DEF TypeOK, BeginSend, Goto, PC, registry, channels, mailboxes, history
<1>11. ASSUME NEW c \in Conn, Refuse(c) PROVE TypeOK'
  BY <1>11 DEF TypeOK, Refuse, Goto, PC, registry, channels, mailboxes, history
<1>12. ASSUME NEW c \in Conn, RouteDM(c) PROVE TypeOK'
  <2>1. frm[c] \in Frame /\ frm[c].to \in Agent
    BY <1>12, FrameFields DEF TypeOK, LocalsOK, RouteDM
  <2>2. owed' \in SUBSET Aims
    BY <1>12, <2>1 DEF TypeOK, RouteDM, Aims
  <2>3. QED
    BY <1>12, <2>2 DEF TypeOK, RouteDM, Goto, PC, registry, channels, mailboxes, locals
<1>13. ASSUME NEW c \in Conn, LookupDM(c) PROVE TypeOK'
  <2>1. frm[c].to \in Agent
    BY <1>13, FrameFields DEF TypeOK, LocalsOK, LookupDM
  <2>2. off' \in [Conn -> SUBSET Agent] /\ todo' \in [Conn -> SUBSET Conn]
    <3>1. off \in [Conn -> SUBSET Agent] /\ todo \in [Conn -> SUBSET Conn]
      BY DEF TypeOK
    <3>2. CASE clients[frm[c].to] = None
      <4>1. off' = [off EXCEPT ![c] = {frm[c].to}] /\ todo' = todo
        BY <1>13, <3>2 DEF LookupDM
      <4>2. QED
        BY <4>1, <3>1, <2>1
    <3>3. CASE clients[frm[c].to] # None
      <4>1. clients[frm[c].to] \in Conn
        BY <2>1, <3>3 DEF TypeOK
      <4>2. todo' = [todo EXCEPT ![c] = {clients[frm[c].to]}] /\ off' = off
        BY <1>13, <3>3 DEF LookupDM
      <4>3. QED
        BY <4>1, <4>2, <3>1
    <3>4. QED
      BY <3>2, <3>3
  <2>3. QED
    BY <1>13, <2>2 DEF TypeOK, LookupDM, Goto, PC, registry, channels, mailboxes, history
<1>14. ASSUME NEW c \in Conn, RouteChan(c) PROVE TypeOK'
  <2>1. frm[c] \in Frame /\ frm[c].chan \in Chan
    BY <1>14, FrameFields DEF TypeOK, LocalsOK, RouteChan
  <2>2. {clients[a] : a \in Connected(frm[c].chan)} \in SUBSET Conn
    BY <2>1 DEF TypeOK, Connected
  <2>3. Absent(frm[c].chan) \in SUBSET Agent /\ members[frm[c].chan] \in SUBSET Agent
    BY <2>1 DEF TypeOK, Absent
  <2>4. owed' \in SUBSET Aims
    BY <1>14, <2>1, <2>3 DEF TypeOK, RouteChan, Aims
  <2>5. todo' \in [Conn -> SUBSET Conn] /\ off' \in [Conn -> SUBSET Agent]
    BY <1>14, <2>2, <2>3 DEF TypeOK, RouteChan
  <2>6. QED
    BY <1>14, <2>4, <2>5 DEF TypeOK, RouteChan, Goto, PC, registry, channels, mailboxes
<1>15a. ASSUME NEW c \in Conn, NEW d \in Conn, Push(c, d) PROVE TypeOK'
  <2>1. Fallback(c, d) \subseteq Agent
    BY <1>15a, FrameFields DEF TypeOK, LocalsOK, Push, Fallback
  <2>2. CASE closed[d]
    <3>0. /\ off' = [off EXCEPT ![c] = @ \cup Fallback(c, d)]
          /\ todo' = [todo EXCEPT ![c] = todo[c] \ {d}] /\ offer' = offer
      BY <1>15a, <2>2 DEF Push, PushFails, AfterPush
    <3>1. off' \in [Conn -> SUBSET Agent] /\ todo' \in [Conn -> SUBSET Conn] /\ offer' = offer
      <4>1. off' \in [Conn -> SUBSET Agent]
        <5>1. off[c] \cup Fallback(c, d) \in SUBSET Agent
          BY <2>1 DEF TypeOK
        <5>2. QED
          BY <3>0, <5>1 DEF TypeOK
      <4>2. todo' \in [Conn -> SUBSET Conn]
        BY <3>0 DEF TypeOK
      <4>3. QED
        BY <3>0, <4>1, <4>2
    <3>2. QED
      BY <1>15a, <3>1 DEF TypeOK, Push, registry, channels, mailboxes, history
  <2>3. CASE ~closed[d]
    <3>0. offer' = [offer EXCEPT ![c] = d] /\ UNCHANGED <<todo, off>>
      BY <1>15a, <2>3 DEF Push
    <3>1. offer' \in [Conn -> Conn \cup {None}] /\ UNCHANGED <<todo, off>>
      BY <3>0 DEF TypeOK
    <3>2. QED
      BY <1>15a, <3>1 DEF TypeOK, Push, registry, channels, mailboxes, history
  <2>4. QED
    BY <2>2, <2>3
<1>15b. ASSUME NEW c \in Conn, Offer(c) PROVE TypeOK'
  <2> DEFINE d == offer[c]
  <2>1. frm[c] \in Frame /\ d \in Conn /\ Fallback(c, d) \subseteq Agent
    BY <1>15b, FrameFields DEF TypeOK, LocalsOK, Offer, Fallback
  <2>2. offer' \in [Conn -> Conn \cup {None}] /\ todo' \in [Conn -> SUBSET Conn]
    <3>1. offer' = [offer EXCEPT ![c] = None] /\ todo' = [todo EXCEPT ![c] = todo[c] \ {d}]
      BY <1>15b DEF Offer, PushFails, AfterPush
    <3>2. todo' \in [Conn -> SUBSET Conn]
      BY <3>1 DEF TypeOK
    <3>3. QED
      BY <3>1, <3>2 DEF TypeOK
  <2>3. off' \in [Conn -> SUBSET Agent]
    <3>1. off' = off \/ off' = [off EXCEPT ![c] = @ \cup Fallback(c, d)]
      BY <1>15b DEF Offer, PushFails
    <3>2. off[c] \cup Fallback(c, d) \in SUBSET Agent /\ off \in [Conn -> SUBSET Agent]
      BY <2>1 DEF TypeOK
    <3>3. CASE off' = off
      BY <3>2, <3>3
    <3>4. CASE off' = [off EXCEPT ![c] = @ \cup Fallback(c, d)]
      BY <3>2, <3>4
    <3>5. QED
      BY <3>1, <3>3, <3>4
  <2>4. pushed' \in SUBSET (Frame \X Conn)
    <3>1. pushed' = pushed \/ pushed' = pushed \cup {<<frm[c], d>>}
      BY <1>15b DEF Offer
    <3>2. QED
      BY <2>1, <3>1 DEF TypeOK
  <2>5. QED
    BY <1>15b, <2>2, <2>3, <2>4 DEF TypeOK, Offer, registry, channels, mailboxes
<1>16. ASSUME NEW c \in Conn, NEW a \in Agent, Enqueue(c, a) PROVE TypeOK'
  <2> DEFINE q == Append(mailbox[a], frm[c])
  <2>1. frm[c] \in Frame /\ mailbox[a] \in Seq(Frame) /\ Len(mailbox[a]) <= MailboxCap
    BY <1>16 DEF TypeOK, LocalsOK, Enqueue
  <2>2. /\ q \in Seq(Frame) /\ Head(q) \in Frame /\ Tail(q) \in Seq(Frame)
        /\ Len(IF Overflows(q) THEN Tail(q) ELSE q) <= MailboxCap
    BY <2>1, TrimFits
  <2>3. mailbox' = [mailbox EXCEPT ![a] = IF Overflows(q) THEN Tail(q) ELSE q]
    BY <1>16 DEF Enqueue
  <2> HIDE DEF q
  <2>4. /\ mailbox' \in [Agent -> Seq(Frame)]
        /\ \A b \in Agent : Len(mailbox'[b]) <= MailboxCap
    BY <2>2, <2>3 DEF TypeOK
  <2>5. gone' \in SUBSET Pairs
    BY <1>16, <2>2 DEF TypeOK, Enqueue, Pairs, q
  <2>6. off' \in [Conn -> SUBSET Agent]
    BY <1>16 DEF TypeOK, Enqueue
  <2>7. QED
    BY <1>16, <2>4, <2>5, <2>6 DEF TypeOK, Enqueue, registry, channels
<1>17. ASSUME NEW c \in Conn, Latch(c) PROVE TypeOK'
  BY <1>17 DEF TypeOK, LocalsOK, Latch, Goto, PC, registry, channels, mailboxes
<1>18. ASSUME NEW c \in Conn, Drain(c) PROVE TypeOK'
  BY <1>18 DEF TypeOK, Drain, AfterEmptying, Authed, Goto, PC, registry, channels
<1>19. ASSUME NEW c \in Conn, Flushing(c) PROVE TypeOK'
  <2>1. batch[c] \in Seq(Frame) /\ batch[c] # << >> /\ who[c] \in Agent
    BY <1>19, FlushSteps DEF TypeOK, LocalsOK
  <2>2. Head(batch[c]) \in Frame /\ Tail(batch[c]) \in Seq(Frame)
    BY <2>1
  <2>3. pushed' \in SUBSET (Frame \X Conn) /\ gone' \in SUBSET Pairs
    <3>1. /\ pushed' = pushed \/ pushed' = pushed \cup {<<Head(batch[c]), c>>}
          /\ gone' = gone \/ gone' = gone \cup {<<Head(batch[c]), who[c]>>}
      BY <1>19, FlushSteps DEF HubInv
    <3>2. <<Head(batch[c]), c>> \in Frame \X Conn /\ <<Head(batch[c]), who[c]>> \in Pairs
      BY <2>1, <2>2 DEF Pairs
    <3>3. QED
      BY <3>1, <3>2 DEF TypeOK
  <2>4. batch' \in [Conn -> Seq(Frame)]
    <3>1. batch' = batch \/ batch' = [batch EXCEPT ![c] = Tail(@)]
      BY <1>19, FlushSteps DEF HubInv
    <3>2. QED
      BY <2>2, <3>1 DEF TypeOK
  <2>5. offer' \in [Conn -> Conn \cup {None}]
    <3>1. offer \in [Conn -> Conn \cup {None}]
      BY DEF TypeOK
    <3>2. offer' = offer \/ offer' = [offer EXCEPT ![c] = c] \/ offer' = [offer EXCEPT ![c] = None]
      BY <1>19 DEF Flushing, FlushOne, FlushOffer
    <3>3. QED
      BY <3>1, <3>2
  <2>6. QED
    BY <1>19, <2>3, <2>4, <2>5, FlushSteps DEF TypeOK, registry, channels, mailboxes
<1>20. ASSUME NEW c \in Conn, FlushDone(c) PROVE TypeOK'
  BY <1>20 DEF TypeOK, FlushDone, Goto, PC, registry, channels, mailboxes, locals, history
<1>21. CASE UNCHANGED vars
  BY <1>21 DEF TypeOK, vars, registry, channels, mailboxes, mailboxes, locals, history
<1>22. QED
  BY <1>1, <1>2, <1>3, <1>4, <1>5, <1>6, <1>7, <1>8, <1>9, <1>10, <1>11, <1>12,
     <1>13, <1>14, <1>15a, <1>15b, <1>16, <1>17, <1>18, <1>19, <1>20, <1>21
     DEF Next, Handler, Flushing, Peer, Owner

\* The registry part: only Register, Deregister and AdminEvict write it.
LEMMA StepRegistryAgrees == HubInv /\ [Next]_vars => RegistryAgrees'
<1> SUFFICES ASSUME HubInv, [Next]_vars PROVE RegistryAgrees'
  OBVIOUS
<1> USE HubConstants DEF HubInv, TypeOK, RegistryAgrees
<1>1. ASSUME NEW c \in Conn, Open(c) PROVE RegistryAgrees'
  BY <1>1 DEF Open, Goto, registry, LocalsOK
<1>2. ASSUME NEW c \in Conn, Register(c) PROVE RegistryAgrees'
  BY <1>2 DEF Register, Reading, Authed
<1>3. ASSUME NEW c \in Conn, RejectHello(c) PROVE RegistryAgrees'
  BY <1>3 DEF RejectHello, Reading, Goto, registry
<1>4. ASSUME NEW c \in Conn, ReadFails(c) PROVE RegistryAgrees'
  BY <1>4 DEF ReadFails, Goto, registry
<1>5. ASSUME NEW c \in Conn, Deregister(c) PROVE RegistryAgrees'
  <2>1. SUFFICES ASSUME NEW a \in Agent
                 PROVE  /\ online'[a] <=> clients'[a] # None
                        /\ clients'[a] # None =>
                              /\ known'[a] /\ who'[clients'[a]] = a
                              /\ pc'[clients'[a]] \notin {"new", "done"}
    OBVIOUS
  <2>2. pc' = [pc EXCEPT ![c] = "done"] /\ UNCHANGED <<who, known>>
    BY <1>5 DEF Deregister, Goto
  <2>3. CASE OwnsEntry(c)
    <3>1. /\ who[c] \in Agent /\ clients[who[c]] = c
          /\ clients' = [clients EXCEPT ![who[c]] = None]
          /\ online' = [online EXCEPT ![who[c]] = FALSE]
      BY <1>5, <2>3 DEF Deregister, OwnsEntry, IsRegistered, Authed
    <3>2. a # who[c] => clients[a] # c
      BY <3>1
    <3>3. QED
      BY <2>2, <3>1, <3>2
  <2>4. CASE ~OwnsEntry(c)
    <3>1. UNCHANGED <<clients, online>>
      BY <1>5, <2>4 DEF Deregister
    <3>2. clients[a] # c
      <4>1. clients[a] = c => who[c] = a /\ c # None /\ a # None
        BY HubConstants
      <4>2. who[c] # None => clients[who[c]] # c
        BY <2>4 DEF OwnsEntry, IsRegistered, Authed
      <4>3. QED
        BY <4>1, <4>2
    <3>3. QED
      BY <2>2, <3>1, <3>2
  <2>5. QED
    BY <2>3, <2>4
<1>6. ASSUME NEW a \in Agent, AdminEvict(a) PROVE RegistryAgrees'
  BY <1>6 DEF AdminEvict, Evictable
<1>7. ASSUME UNCHANGED <<who, registry>>,
             \E c \in Conn, l \in {"read", "route", "lookup", "deliver", "flush"} :
                 pc[c] # "new" /\ pc' = [pc EXCEPT ![c] = l]
      PROVE  RegistryAgrees'
  BY <1>7 DEF registry
<1>8. ASSUME UNCHANGED <<pc, who, registry>> PROVE RegistryAgrees'
  BY <1>8 DEF registry
<1>9. QED
  <2>1. ASSUME NEW c \in Conn, Handler(c) \/ Peer(c) PROVE RegistryAgrees'
    <3>1. CASE \/ Refuse(c) \/ RouteDM(c) \/ LookupDM(c) \/ RouteChan(c) \/ Latch(c)
               \/ FlushDone(c) \/ Drain(c) \/ \E f \in Frame : BeginSend(c, f)
      BY <1>7, <3>1 DEF Refuse, RouteDM, LookupDM, RouteChan, Latch, FlushDone, Drain,
                        BeginSend, Reading, Goto
    <3>2. CASE \/ ConnDies(c) \/ Flushing(c) \/ \E k \in Chan : Join(c, k)
               \/ \E d \in Conn : Pushing(c, d)
               \/ \E a \in Agent : Enqueue(c, a)
      BY <1>8, <3>2, FlushSteps, PushSteps DEF ConnDies, Join, Enqueue
    <3>3. QED
      BY <2>1, <1>1, <1>2, <1>3, <1>4, <1>5, <3>1, <3>2, HandlerCases DEF Peer
  <2>2. ASSUME Owner PROVE RegistryAgrees'
    BY <2>2, <1>6, <1>8 DEF Owner, SetACL
  <2>3. CASE UNCHANGED vars
    BY <2>3, <1>8 DEF vars
  <2>4. QED
    BY <2>1, <2>2, <2>3 DEF Next

\* A registration closes the connection it replaces, so one live one remains.
LEMMA StepLiveIsRegistered == HubInv /\ [Next]_vars => LiveIsRegistered'
<1> SUFFICES ASSUME HubInv, [Next]_vars PROVE LiveIsRegistered'
  OBVIOUS
<1> USE HubConstants DEF HubInv, TypeOK, LiveIsRegistered, Authed
\* The connection that was live before is the registered one, so it is dropped.
<1>1. ASSUME NEW c \in Conn, Register(c) PROVE LiveIsRegistered'
  <2>1. /\ Key[c] \in Agent
        /\ who' = [who EXCEPT ![c] = Key[c]]
        /\ clients' = [clients EXCEPT ![Key[c]] = c]
        /\ \A d \in Conn : closed'[d] <=> closed[d] \/ (clients[Key[c]] = d /\ d # c)
    BY <1>1 DEF Register, EvictOld
  <2>2. ASSUME NEW d \in Conn, who'[d] # None, ~closed'[d], d # c
        PROVE  clients'[who'[d]] = d
    <3>1. who'[d] = who[d] /\ who[d] \in Agent /\ clients[who[d]] = d
      BY <2>1, <2>2
    <3>2. who[d] # Key[c]
      BY <2>1, <2>2, <3>1
    <3>3. QED
      BY <2>1, <3>1, <3>2
  <2>3. clients'[who'[c]] = c
    BY <2>1
  <2>4. QED
    BY <2>2, <2>3
\* It closes itself, and frees an entry only if that entry is its own.
<1>2. ASSUME NEW c \in Conn, Deregister(c) PROVE LiveIsRegistered'
  BY <1>2 DEF Deregister, OwnsEntry, IsRegistered, RegistryAgrees
<1>3. ASSUME UNCHANGED <<who, clients>>, \A c \in Conn : closed[c] => closed'[c]
      PROVE  LiveIsRegistered'
  BY <1>3
<1>4. QED
  <2>1. ASSUME NEW c \in Conn, Handler(c) \/ Peer(c) PROVE LiveIsRegistered'
    <3>1. CASE \/ Refuse(c) \/ RouteDM(c) \/ LookupDM(c) \/ RouteChan(c) \/ Latch(c)
               \/ Flushing(c) \/ FlushDone(c)
               \/ \E d \in Conn : Pushing(c, d)
               \/ \E a \in Agent : Enqueue(c, a)
      BY <1>3, <3>1, FlushSteps, PushSteps
         DEF Refuse, RouteDM, LookupDM, RouteChan, Latch, FlushDone, Enqueue, registry
    <3>2. CASE \/ Open(c) \/ ReadFails(c) \/ Drain(c)
               \/ \E f \in Frame : BeginSend(c, f)
               \/ \E k \in Chan : Join(c, k)
      BY <1>3, <3>2 DEF Open, ReadFails, Drain, BeginSend, Join, registry
    <3>3. CASE ConnDies(c) \/ RejectHello(c)
      <4>1. closed' = [closed EXCEPT ![c] = TRUE] /\ UNCHANGED <<who, clients>>
        BY <3>3 DEF ConnDies, RejectHello, registry
      <4>2. QED
        BY <1>3, <4>1
    <3>4. QED
      BY <2>1, <1>1, <1>2, <3>1, <3>2, <3>3, HandlerCases DEF Peer
  <2>2. ASSUME Owner PROVE LiveIsRegistered'
    BY <2>2, <1>3 DEF Owner, SetACL, AdminEvict, registry
  <2>3. CASE UNCHANGED vars
    BY <2>3, <1>3 DEF vars, registry
  <2>4. QED
    BY <2>1, <2>2, <2>3 DEF Next

\* What a goroutine read in one lock region stays true enough for the next.
LEMMA StepLocalsOK == HubInv /\ [Next]_vars => LocalsOK'
<1> SUFFICES ASSUME HubInv, [Next]_vars PROVE LocalsOK'
  OBVIOUS
<1> USE HubConstants DEF HubInv, TypeOK, LocalsOK
<1>1. ASSUME NEW c \in Conn, Register(c) PROVE LocalsOK'
  BY <1>1 DEF Register, Reading, Authed, locals
<1>2. ASSUME NEW c \in Conn, NEW f \in Frame, BeginSend(c, f) PROVE LocalsOK'
  BY <1>2 DEF BeginSend, Reading, Authed, Goto
<1>3. ASSUME NEW c \in Conn, LookupDM(c) PROVE LocalsOK'
  <2>1. \A d \in todo'[c] : who[d] # None
    BY <1>3, FrameFields DEF LookupDM, RegistryAgrees
  <2>2. QED
    BY <1>3, <2>1 DEF LookupDM, Goto
<1>4. ASSUME NEW c \in Conn, RouteChan(c) PROVE LocalsOK'
  <2>1. frm[c].chan \in Chan
    BY <1>4, FrameFields DEF RouteChan
  <2>2. \A d \in todo'[c] : who[d] # None
    BY <1>4, <2>1 DEF RouteChan, Connected, RegistryAgrees
  <2>3. QED
    BY <1>4, <2>2 DEF RouteChan, Goto
<1>5. ASSUME NEW c \in Conn,
             Open(c) \/ RejectHello(c) \/ ReadFails(c) \/ Deregister(c) \/ Refuse(c)
                 \/ RouteDM(c) \/ Latch(c) \/ Drain(c) \/ FlushDone(c)
      PROVE  LocalsOK'
  BY <1>5 DEF Open, RejectHello, ReadFails, Deregister, Refuse, RouteDM, Latch, Drain,
              FlushDone, Reading, Authed, Goto, locals
<1>6. ASSUME UNCHANGED <<pc, who, frm>>,
             \A c \in Conn : todo'[c] \subseteq todo[c]
      PROVE  LocalsOK'
  BY <1>6
<1>7. QED
  <2>1. ASSUME NEW c \in Conn, Handler(c) \/ Peer(c) PROVE LocalsOK'
    <3>1. CASE \/ ConnDies(c) \/ Flushing(c) \/ \E k \in Chan : Join(c, k)
               \/ \E a \in Agent : Enqueue(c, a)
      BY <1>6, <3>1, FlushSteps DEF ConnDies, Join, Enqueue, locals
    <3>2. ASSUME NEW d \in Conn, Pushing(c, d) PROVE LocalsOK'
      <4>1. /\ UNCHANGED <<pc, who, frm>>
            /\ \A e \in Conn : e # c => todo'[e] = todo[e]
            /\ UNCHANGED todo \/ todo'[c] = todo[c] \ {d}
        <5> HIDE DEF TypeOK, LocalsOK
        <5>1. QED
          BY <3>2, PushSteps
      <4>2. \A e \in Conn : todo'[e] \subseteq todo[e]
        BY <4>1
      <4>3. QED
        BY <1>6, <4>1, <4>2
    <3>3. QED
      BY <2>1, <1>1, <1>2, <1>3, <1>4, <1>5, <3>1, <3>2, HandlerCases DEF Peer
  <2>2. ASSUME Owner PROVE LocalsOK'
    BY <2>2, <1>6 DEF Owner, SetACL, AdminEvict, locals
  <2>3. CASE UNCHANGED vars
    BY <2>3, <1>6 DEF vars, locals
  <2>4. QED
    BY <2>1, <2>2, <2>3 DEF Next

\* The four parts together are inductive.
LEMMA HubInvariant == Spec => []HubInv
<1>1. HubInv /\ [Next]_vars => HubInv'
  BY StepTypeOK, StepRegistryAgrees, StepLiveIsRegistered, StepLocalsOK DEF HubInv
<1>2. QED
  BY InitHubInv, <1>1, PTL DEF Spec

\* Every variable of the relay core stays in its type, mailboxes in their cap.
THEOREM TypeCorrect == Spec => []TypeOK
BY HubInvariant, PTL DEF HubInv

\* For any number of connections and agents, in any order of hello, eviction,
\* deregister and the owner's DELETE: the connection map, the identity
\* records and the connections' own view agree (deregister never meets a
\* missing record).
THEOREM RegistryCorrect == Spec => []RegistryAgrees
BY HubInvariant, PTL DEF HubInv

\* One live connection per agent, and it is the registered one.
THEOREM OneLiveConnection == Spec => []LiveIsRegistered
BY HubInvariant, PTL DEF HubInv

\* mailbox_full is reported only for a mailbox that overflowed since it was
\* last emptied: the mark implies a full mailbox.
THEOREM MarkIsNeverStale == Spec => []MarkMeansFull
<1>1. Init => MarkMeansFull
  BY DEF Init, MarkMeansFull
<1>2. HubInv /\ MarkMeansFull /\ [Next]_vars => MarkMeansFull'
  <2> SUFFICES ASSUME HubInv, MarkMeansFull, [Next]_vars PROVE MarkMeansFull'
    OBVIOUS
  <2> USE HubConstants DEF HubInv, TypeOK, MarkMeansFull
  <2>1. ASSUME NEW c \in Conn, NEW a \in Agent, Enqueue(c, a) PROVE MarkMeansFull'
    <3> DEFINE q == Append(mailbox[a], frm[c])
    <3>1. frm[c] \in Frame /\ mailbox[a] \in Seq(Frame) /\ Len(mailbox[a]) <= MailboxCap
      BY <2>1 DEF LocalsOK, Enqueue
    <3>2. q \in Seq(Frame) /\ Len(q) = Len(mailbox[a]) + 1 /\ Len(Tail(q)) = Len(mailbox[a])
      BY <3>1, TrimFits
    <3>3. /\ mailbox' = [mailbox EXCEPT ![a] = IF Overflows(q) THEN Tail(q) ELSE q]
          /\ mailboxDropped' = [mailboxDropped EXCEPT ![a] = @ \/ Overflows(q)]
      BY <2>1 DEF Enqueue
    <3> HIDE DEF q
    <3>4. Overflows(q) <=> Len(mailbox[a]) = MailboxCap
      BY <3>1, <3>2 DEF Overflows
    <3>5. mailboxDropped'[a] => Len(mailbox'[a]) = MailboxCap
      BY <3>2, <3>3, <3>4
    <3>6. \A b \in Agent : b # a => mailboxDropped'[b] = mailboxDropped[b] /\ mailbox'[b] = mailbox[b]
      BY <3>3
    <3>7. QED
      BY <3>5, <3>6
  <2>2. ASSUME NEW c \in Conn, Drain(c) PROVE MarkMeansFull'
    BY <2>2 DEF Drain, AfterEmptying
  <2>3. ASSUME NEW a \in Agent, AdminEvict(a) PROVE MarkMeansFull'
    BY <2>3 DEF AdminEvict, AfterEmptying
  <2>4. ASSUME UNCHANGED mailboxes PROVE MarkMeansFull'
    BY <2>4 DEF mailboxes
  <2>5. ASSUME NEW c \in Conn, Handler(c) \/ Peer(c) PROVE MarkMeansFull'
    BY <2>1, <2>2, <2>4, <2>5, HandlerCases, PushSteps, FlushSteps
       DEF Peer, Open, Register, RejectHello, ReadFails, ConnDies, Join, BeginSend, Refuse,
           RouteDM, LookupDM, RouteChan, Latch, FlushDone, Deregister
  <2>6. ASSUME Owner PROVE MarkMeansFull'
    BY <2>3, <2>4, <2>6 DEF Owner, SetACL
  <2>7. QED
    BY <2>4, <2>5, <2>6 DEF Next, vars
<1>3. QED
  BY <1>1, <1>2, HubInvariant, PTL DEF Spec

\* The owner's DELETE never removes an agent that has a live connection.
THEOREM EvictionIsOffline == Spec => EvictsOnlyOffline
<1>1. HubInv /\ [Next]_vars =>
        [\A a \in Agent : known[a] /\ ~known'[a] =>
            \A c \in Conn : who'[c] = a => closed'[c]]_vars
  <2> SUFFICES ASSUME HubInv, Next, NEW a \in Agent, known[a], ~known'[a],
                      NEW c \in Conn, who'[c] = a
               PROVE  closed'[c]
    OBVIOUS
  <2>1. PICK b \in Agent : AdminEvict(b)
    <3>1. ASSUME NEW d \in Conn, Handler(d) PROVE known' = known
      BY <3>1 DEF Handler, Refuse, RouteDM, LookupDM, RouteChan, Push, Offer, Enqueue, Latch,
                  FlushOne, FlushOffer, FlushDone, Deregister, registry
    <3>2. ASSUME NEW d \in Conn, Peer(d) PROVE known'[a]
      BY <3>2 DEF Peer, Open, Register, RejectHello, ReadFails, ConnDies, Join, BeginSend,
                  Drain, registry, HubInv, TypeOK
    <3>3. QED
      BY <3>1, <3>2 DEF Next, Owner, SetACL, registry
  <2>2. a = b
    BY <2>1 DEF AdminEvict, HubInv, TypeOK
  <2>3. QED
    <3>1. clients[a] = None /\ who[c] = a /\ closed' = closed
      BY <2>1, <2>2 DEF AdminEvict, Evictable
    <3>2. a # None /\ c # None
      BY HubConstants
    <3>3. QED
      BY <3>1, <3>2 DEF HubInv, LiveIsRegistered, Authed
<1>2. QED
  BY <1>1, HubInvariant, PTL DEF Spec, EvictsOnlyOffline
-----------------------------------------------------------------------------
(* Delivery.  What a handler still has to push or to enqueue lives in its  *)
(* locals, so where a message is has to be said of every point in between. *)

\* Recipients are in hand only while delivering, drained frames only while
\* flushing: no handler starts over what an earlier one left behind.
LocalsIdle ==
    \A c \in Conn :
        /\ pc[c] # "deliver" => todo[c] = {} /\ off[c] = {}
        /\ pc[c] # "flush" => batch[c] = << >>

DeliveryInv == HubInv /\ LocalsIdle

\* What appending to a sequence of frames and taking its head do to its set.
LEMMA FramesOf ==
    ASSUME NEW q \in Seq(Frame)
    PROVE  /\ Frames(q) \subseteq Frame
           /\ \A f \in Frame : Frames(Append(q, f)) = Frames(q) \cup {f}
           /\ q # << >> => Frames(q) = {Head(q)} \cup Frames(Tail(q))
           /\ Frames(<< >>) = {}
<1>1. Frames(q) \subseteq Frame /\ Frames(<< >>) = {}
  BY DEF Frames
<1>2. ASSUME NEW f \in Frame PROVE Frames(Append(q, f)) = Frames(q) \cup {f}
  <2> DEFINE r == Append(q, f)
  <2>1. /\ DOMAIN q = 1 .. Len(q) /\ DOMAIN r = 1 .. (Len(q) + 1) /\ Len(q) \in Nat
        /\ r[Len(q) + 1] = f /\ \A i \in 1 .. Len(q) : r[i] = q[i]
    OBVIOUS
  <2> HIDE DEF r
  <2>2. \A i \in DOMAIN r : i \in DOMAIN q \/ i = Len(q) + 1
    BY <2>1
  <2>3. Len(q) + 1 \in DOMAIN r /\ DOMAIN q \subseteq DOMAIN r
    BY <2>1
  <2>4. QED
    BY <2>1, <2>2, <2>3 DEF Frames, r
<1>3. ASSUME q # << >> PROVE Frames(q) = {Head(q)} \cup Frames(Tail(q))
  <2> DEFINE t == Tail(q)
  <2>1. /\ DOMAIN q = 1 .. Len(q) /\ Len(q) \in Nat \ {0} /\ DOMAIN t = 1 .. (Len(q) - 1)
        /\ Head(q) = q[1] /\ \A i \in 1 .. (Len(q) - 1) : t[i] = q[i + 1]
    BY <1>3
  <2> HIDE DEF t
  <2>2. \A i \in DOMAIN q : i = 1 \/ (i - 1 \in DOMAIN t /\ t[i - 1] = q[i])
    BY <2>1
  <2>3. \A i \in DOMAIN t : i + 1 \in DOMAIN q /\ t[i] = q[i + 1]
    BY <2>1
  <2>4. 1 \in DOMAIN q
    BY <2>1
  <2>5. Frames(q) = {q[1]} \cup Frames(t)
    <3>1. \A g \in Frames(q) : g = q[1] \/ g \in Frames(t)
      BY <2>2 DEF Frames
    <3>2. q[1] \in Frames(q) /\ \A g \in Frames(t) : g \in Frames(q)
      BY <2>3, <2>4 DEF Frames
    <3>3. QED
      BY <3>1, <3>2
  <2>6. QED
    BY <2>1, <2>5 DEF t
<1>4. QED
  BY <1>1, <1>2, <1>3

\* enqueue keeps the new frame, invents none and loses at most the oldest.
LEMMA TrimKeeps ==
    ASSUME NEW q \in Seq(Frame), NEW f \in Frame
    PROVE  LET r == Append(q, f)
               t == IF Overflows(r) THEN Tail(r) ELSE r
           IN  /\ f \in Frames(t)
               /\ Frames(t) \subseteq Frames(q) \cup {f}
               /\ \A g \in Frames(q) : g \in Frames(t) \/ (Overflows(r) /\ g = Head(r))
<1> DEFINE r == Append(q, f)
           t == IF Overflows(r) THEN Tail(r) ELSE r
<1>1. r \in Seq(Frame) /\ r # << >> /\ Len(r) = Len(q) + 1 /\ Len(q) \in Nat
  OBVIOUS
<1>2. Frames(r) = Frames(q) \cup {f} /\ Frames(r) = {Head(r)} \cup Frames(Tail(r))
  BY <1>1, FramesOf
<1>3. Overflows(r) => f \in Frames(Tail(r))
  <2>1. ASSUME Overflows(r) PROVE f \in Frames(Tail(r))
    <3>1. Len(q) >= 1
      BY <2>1, <1>1, HubConstants DEF Overflows
    <3> DEFINE u == Tail(r)
    <3>2. u[Len(q)] = f /\ DOMAIN u = 1 .. Len(q)
      BY <3>1, <1>1
    <3>3. Len(q) \in DOMAIN u
      BY <1>1, <3>1, <3>2
    <3> HIDE DEF u
    <3>4. f \in Frames(u)
      BY <3>2, <3>3 DEF Frames
    <3>5. QED
      BY <3>4 DEF u
  <2>2. QED
    BY <2>1
<1> HIDE DEF r
<1>4. QED
  BY <1>2, <1>3 DEF r

\* A handler empties its locals before it goes back to reading.
LEMMA StepLocalsIdle == DeliveryInv /\ [Next]_vars => LocalsIdle'
<1> SUFFICES ASSUME DeliveryInv, [Next]_vars PROVE LocalsIdle'
  OBVIOUS
<1> USE DEF DeliveryInv, HubInv, TypeOK, LocalsIdle
<1>1. ASSUME NEW c \in Conn,
             Open(c) \/ RejectHello(c) \/ ReadFails(c) \/ Deregister(c) \/ Refuse(c)
                 \/ RouteDM(c) \/ FlushDone(c) \/ \E f \in Frame : BeginSend(c, f)
      PROVE  LocalsIdle'
  BY <1>1 DEF Open, RejectHello, ReadFails, Deregister, Refuse, RouteDM, FlushDone,
              BeginSend, Reading, Goto, locals
<1>2. ASSUME NEW c \in Conn, LookupDM(c) PROVE LocalsIdle'
  <2>1. /\ pc[c] = "lookup" /\ pc' = [pc EXCEPT ![c] = "deliver"] /\ batch' = batch
        /\ \A d \in Conn : d # c => todo'[d] = todo[d] /\ off'[d] = off[d]
    BY <1>2 DEF LookupDM, Goto
  <2>2. QED
    BY <2>1
<1>3. ASSUME NEW c \in Conn, RouteChan(c) PROVE LocalsIdle'
  <2>1. /\ pc[c] = "route" /\ pc' = [pc EXCEPT ![c] = "deliver"] /\ batch' = batch
        /\ \A d \in Conn : d # c => todo'[d] = todo[d] /\ off'[d] = off[d]
    BY <1>3 DEF RouteChan, Goto
  <2>2. QED
    BY <2>1
<1>4. ASSUME NEW c \in Conn, NEW d \in Conn, Pushing(c, d) PROVE LocalsIdle'
  <2>1. /\ pc[c] = "deliver" /\ pc' = pc /\ batch' = batch
        /\ \A e \in Conn : e # c => todo'[e] = todo[e] /\ off'[e] = off[e]
    BY <1>4, PushSteps
  <2>2. QED
    BY <2>1
<1>5. ASSUME NEW c \in Conn, NEW a \in Agent, Enqueue(c, a) PROVE LocalsIdle'
  BY <1>5 DEF Enqueue
<1>6. ASSUME NEW c \in Conn, Latch(c) PROVE LocalsIdle'
  BY <1>6 DEF Latch, Goto
<1>7. ASSUME NEW c \in Conn, Drain(c) \/ Flushing(c) PROVE LocalsIdle'
  BY <1>7, FlushSteps DEF Drain, Reading, Goto
<1>8. ASSUME UNCHANGED <<pc, todo, off, batch>> PROVE LocalsIdle'
  BY <1>8
<1>9. QED
  <2>1. ASSUME NEW c \in Conn, Handler(c) \/ Peer(c) PROVE LocalsIdle'
    <3>1. CASE Register(c) \/ ConnDies(c) \/ \E k \in Chan : Join(c, k)
      BY <1>8, <3>1 DEF Register, ConnDies, Join, locals
    <3>2. QED
      BY <2>1, <1>1, <1>2, <1>3, <1>4, <1>5, <1>6, <1>7, <3>1, HandlerCases DEF Peer
  <2>2. ASSUME Owner PROVE LocalsIdle'
    BY <2>2, <1>8 DEF Owner, SetACL, AdminEvict, locals
  <2>3. CASE UNCHANGED vars
    BY <2>3, <1>8 DEF vars, locals
  <2>4. QED
    BY <2>1, <2>2, <2>3 DEF Next

\* The relay invariant with the idle locals is inductive.
LEMMA DeliveryInvariant == Spec => []DeliveryInv
<1>1. Init => DeliveryInv
  BY InitHubInv DEF Init, DeliveryInv, LocalsIdle
<1>2. DeliveryInv /\ [Next]_vars => DeliveryInv'
  BY StepTypeOK, StepRegistryAgrees, StepLiveIsRegistered, StepLocalsOK, StepLocalsIdle
     DEF DeliveryInv, HubInv
<1>3. QED
  BY <1>1, <1>2, PTL DEF Spec

\* Whoever a handler is still going to push to, or to enqueue for, was
\* addressed by its own routing decision.
HandAddressed(c) ==
    /\ pc[c] = "lookup" => Addressed(frm[c], frm[c].to)
    /\ pc[c] = "deliver" =>
          /\ \A d \in todo[c] : Addressed(frm[c], who[d])
          /\ \A a \in off[c] : Addressed(frm[c], a)
          /\ frm[c].to # None => Addressed(frm[c], frm[c].to)

AddressInv == OnlyAddressedReceive /\ \A c \in Conn : HandAddressed(c)

\* Routing decisions are never taken back.
LEMMA AddressedStays ==
    ASSUME owed \subseteq owed' PROVE \A f, a : Addressed(f, a) => Addressed(f, a)'
BY DEF Addressed

\* A handler is not disturbed by what others do.
LEMMA HandStays ==
    ASSUME HubInv, NEW c \in Conn, HandAddressed(c), owed \subseteq owed',
           pc'[c] \in {"lookup", "deliver"} => pc'[c] = pc[c] /\ frm'[c] = frm[c],
           todo'[c] \subseteq todo[c], off'[c] \subseteq off[c],
           \A d \in Conn : who[d] # None => who'[d] = who[d]
    PROVE  HandAddressed(c)'
<1>1. \A f, a : Addressed(f, a) => Addressed(f, a)'
  BY AddressedStays
<1>2. \A d \in todo'[c] : who'[d] = who[d]
  BY DEF HubInv, TypeOK, LocalsOK
<1>3. QED
  BY <1>1, <1>2 DEF HandAddressed

\* A frame goes from hand to mailbox, to flush, to connection, always under
\* the name of an agent it was routed to.
LEMMA StepAddressInv == DeliveryInv /\ AddressInv /\ [Next]_vars => AddressInv'
<1> SUFFICES ASSUME DeliveryInv, AddressInv, [Next]_vars PROVE AddressInv'
  OBVIOUS
<1> USE DEF DeliveryInv, HubInv
<1>1. ASSUME NEW c \in Conn, RouteDM(c) PROVE AddressInv'
  <2>1. /\ owed \subseteq owed' /\ UNCHANGED <<who, frm, todo, off, mailbox, batch, pushed>>
        /\ pc'[c] = "lookup" /\ \A d \in Conn : d # c => pc'[d] = pc[d]
    BY <1>1 DEF RouteDM, Goto, TypeOK, locals, mailboxes
  <2>2. Addressed(frm[c], frm[c].to)'
    BY <1>1 DEF RouteDM, Addressed, locals
  <2>3. HandAddressed(c)'
    BY <2>1, <2>2 DEF HandAddressed
  <2>4. \A d \in Conn : d # c => HandAddressed(d)'
    BY <2>1, HandStays DEF AddressInv
  <2>5. OnlyAddressedReceive'
    BY <2>1, AddressedStays DEF AddressInv, OnlyAddressedReceive
  <2>6. QED
    BY <2>3, <2>4, <2>5 DEF AddressInv
<1>2. ASSUME NEW c \in Conn, LookupDM(c) PROVE AddressInv'
  <2> DEFINE a == frm[c].to
  <2>1. /\ UNCHANGED <<who, frm, mailbox, batch, owed, pushed>> /\ pc'[c] = "deliver"
        /\ \A d \in Conn : d # c => pc'[d] = pc[d] /\ todo'[d] = todo[d] /\ off'[d] = off[d]
    BY <1>2 DEF LookupDM, Goto, TypeOK, mailboxes, history
  <2>2. a \in Agent /\ Addressed(frm[c], a)
    BY <1>2, FrameFields DEF LookupDM, LocalsOK, TypeOK, AddressInv, HandAddressed
  <2>3. (\A d \in todo'[c] : who[d] = a) /\ (\A b \in off'[c] : b = a)
    <3>1. CASE clients[a] = None
      <4>1. todo'[c] = {} /\ off'[c] = {a}
        BY <1>2, <3>1 DEF LookupDM, LocalsIdle, TypeOK
      <4>2. QED
        BY <4>1
    <3>2. CASE clients[a] # None
      <4>1. todo'[c] = {clients[a]} /\ off'[c] = {}
        BY <1>2, <3>2 DEF LookupDM, LocalsIdle, TypeOK
      <4>2. QED
        BY <2>2, <3>2, <4>1 DEF RegistryAgrees
    <3>3. QED
      BY <3>1, <3>2
  <2>4. HandAddressed(c)'
    BY <2>1, <2>2, <2>3 DEF HandAddressed, Addressed
  <2>5. \A d \in Conn : d # c => HandAddressed(d)'
    BY <2>1, HandStays DEF AddressInv
  <2>6. OnlyAddressedReceive'
    BY <2>1, AddressedStays DEF AddressInv, OnlyAddressedReceive
  <2>7. QED
    BY <2>4, <2>5, <2>6 DEF AddressInv
<1>3. ASSUME NEW c \in Conn, RouteChan(c) PROVE AddressInv'
  <2> DEFINE f == frm[c]
  <2>1. /\ UNCHANGED <<who, frm, mailbox, batch, pushed>> /\ pc'[c] = "deliver"
        /\ owed' = owed \cup {<<f, a, clients[a]>> : a \in members[f.chan]}
        /\ \A d \in Conn : d # c => pc'[d] = pc[d] /\ todo'[d] = todo[d] /\ off'[d] = off[d]
    BY <1>3 DEF RouteChan, Goto, TypeOK, mailboxes
  <2>2. f.chan \in Chan /\ f.to = None
    BY <1>3, FrameFields DEF RouteChan, LocalsOK, TypeOK
  <2>3. \A a \in members[f.chan] : Addressed(f, a)'
    <3>1. ASSUME NEW a \in members[f.chan] PROVE Addressed(f, a)'
      <4>1. clients[a] \in Conn \cup {None} /\ <<f, a, clients[a]>> \in owed'
        BY <2>1, <2>2, <3>1 DEF TypeOK
      <4>2. QED
        BY <2>1, <4>1 DEF Addressed
    <3>2. QED
      BY <3>1
  <2>4. \A d \in todo'[c] : who[d] \in members[f.chan]
    <3>1. todo'[c] = {clients[a] : a \in Connected(f.chan)}
      BY <1>3 DEF RouteChan, TypeOK
    <3>2. \A a \in Connected(f.chan) : who[clients[a]] = a /\ a \in members[f.chan]
      BY <2>2 DEF Connected, RegistryAgrees, TypeOK
    <3>3. QED
      BY <3>1, <3>2
  <2>5. \A a \in off'[c] : a \in members[f.chan]
    BY <1>3 DEF RouteChan, TypeOK, Absent
  <2>6. HandAddressed(c)'
    BY <2>1, <2>2, <2>3, <2>4, <2>5 DEF HandAddressed
  <2>7. \A d \in Conn : d # c => HandAddressed(d)'
    BY <2>1, HandStays DEF AddressInv
  <2>8. OnlyAddressedReceive'
    BY <2>1, AddressedStays DEF AddressInv, OnlyAddressedReceive
  <2>9. QED
    BY <2>6, <2>7, <2>8 DEF AddressInv
<1>4. ASSUME NEW c \in Conn, NEW d \in Conn, Pushing(c, d) PROVE AddressInv'
  <2>1. /\ UNCHANGED <<pc, who, frm, mailbox, batch, owed>> /\ pc[c] = "deliver"
        /\ todo'[c] \subseteq todo[c] /\ d \in todo[c]
        /\ off'[c] \subseteq off[c] \cup ({frm[c].to} \ {None})
        /\ pushed' \subseteq pushed \cup {<<frm[c], d>>}
        /\ \A e \in Conn : e # c => todo'[e] = todo[e] /\ off'[e] = off[e]
    <3>1. /\ UNCHANGED <<pc, who, frm, mailbox, batch, owed>> /\ pc[c] = "deliver"
          /\ d \in todo[c] /\ \A e \in Conn : e # c => todo'[e] = todo[e] /\ off'[e] = off[e]
      BY <1>4, PushSteps DEF mailboxes
    <3>2. \/ UNCHANGED <<todo, off, pushed>>
          \/ /\ todo'[c] = todo[c] \ {d} /\ off'[c] = off[c]
             /\ pushed' = pushed \cup {<<frm[c], d>>}
          \/ /\ todo'[c] = todo[c] \ {d} /\ pushed' = pushed
             /\ off'[c] = off[c] \cup ({frm[c].to} \ {None})
      BY <1>4, PushSteps
    <3>3. QED
      BY <3>1, <3>2
  <2>2. \A g, a : Addressed(g, a)' <=> Addressed(g, a)
    BY <2>1 DEF Addressed
  <2>3. HandAddressed(c)'
    BY <2>1, <2>2 DEF AddressInv, HandAddressed
  <2>4. \A e \in Conn : e # c => HandAddressed(e)'
    BY <2>1, HandStays DEF AddressInv
  <2>5. Addressed(frm[c], who[d])
    BY <2>1 DEF AddressInv, HandAddressed
  <2>6. OnlyAddressedReceive'
    BY <2>1, <2>2, <2>5 DEF AddressInv, OnlyAddressedReceive
  <2>7. QED
    BY <2>3, <2>4, <2>6 DEF AddressInv
<1>5. ASSUME NEW c \in Conn, NEW a \in Agent, Enqueue(c, a) PROVE AddressInv'
  <2>1. /\ UNCHANGED <<pc, who, frm, todo, batch, owed, pushed>> /\ pc[c] = "deliver"
        /\ a \in off[c] /\ off' = [off EXCEPT ![c] = @ \ {a}]
    BY <1>5 DEF Enqueue
  <2>2. /\ \A b \in Agent : b # a => mailbox'[b] = mailbox[b]
        /\ Frames(mailbox'[a]) \subseteq Frames(mailbox[a]) \cup {frm[c]}
    BY <1>5, TrimKeeps DEF Enqueue, TypeOK, LocalsOK
  <2>3. Addressed(frm[c], a)
    BY <2>1 DEF AddressInv, HandAddressed
  <2>4. \A g, b : Addressed(g, b)' <=> Addressed(g, b)
    BY <2>1 DEF Addressed
  <2>5. \A d \in Conn : HandAddressed(d)'
    BY <2>1, HandStays DEF AddressInv, TypeOK
  <2>6. OnlyAddressedReceive'
    BY <2>1, <2>2, <2>3, <2>4 DEF AddressInv, OnlyAddressedReceive
  <2>7. QED
    BY <2>5, <2>6 DEF AddressInv
<1>6. ASSUME NEW c \in Conn, Drain(c) PROVE AddressInv'
  <2>1. /\ UNCHANGED <<who, frm, todo, off, owed, pushed>>
        /\ who[c] \in Agent
        /\ batch' = [batch EXCEPT ![c] = mailbox[who[c]]]
        /\ mailbox' = [mailbox EXCEPT ![who[c]] = << >>]
        /\ \A d \in Conn : pc'[d] \in {"lookup", "deliver"} => pc'[d] = pc[d]
    BY <1>6 DEF Drain, Authed, TypeOK, Goto
  <2>2. \A g, b : Addressed(g, b)' <=> Addressed(g, b)
    BY <2>1 DEF Addressed
  <2>3. \A d \in Conn : HandAddressed(d)'
    BY <2>1, HandStays DEF AddressInv
  <2>4. OnlyAddressedReceive'
    <3>1. \A p \in pushed' : Addressed(p[1], who[p[2]])'
      BY <2>1, <2>2 DEF AddressInv, OnlyAddressedReceive
    <3>2. \A b \in Agent : \A g \in Frames(mailbox'[b]) : Addressed(g, b)'
      BY <2>1, <2>2 DEF AddressInv, OnlyAddressedReceive, Frames, TypeOK
    <3>3. \A d \in Conn : \A g \in Frames(batch'[d]) : Addressed(g, who[d])'
      BY <2>1, <2>2 DEF AddressInv, OnlyAddressedReceive, TypeOK
    <3>4. QED
      BY <2>1, <3>1, <3>2, <3>3 DEF OnlyAddressedReceive
  <2>5. QED
    BY <2>3, <2>4 DEF AddressInv
<1>7. ASSUME NEW c \in Conn, Flushing(c) PROVE AddressInv'
  <2>1. /\ UNCHANGED <<pc, who, frm, todo, off, owed, mailbox>>
        /\ batch[c] # << >> /\ batch[c] \in Seq(Frame)
        /\ batch' = batch \/ batch' = [batch EXCEPT ![c] = Tail(@)]
        /\ pushed' \subseteq pushed \cup {<<Head(batch[c]), c>>}
    BY <1>7, FlushSteps DEF mailboxes
  <2>2. Frames(batch[c]) = {Head(batch[c])} \cup Frames(Tail(batch[c]))
    BY <2>1, FramesOf
  <2>3. \A g, b : Addressed(g, b)' <=> Addressed(g, b)
    BY <2>1 DEF Addressed
  <2>4. \A d \in Conn : HandAddressed(d)'
    BY <2>1, HandStays DEF AddressInv
  <2>5. Addressed(Head(batch[c]), who[c])
    BY <2>2 DEF AddressInv, OnlyAddressedReceive
  <2>6. \A d \in Conn : Frames(batch'[d]) \subseteq Frames(batch[d])
    BY <2>1, <2>2 DEF TypeOK
  <2>7. OnlyAddressedReceive'
    <3>1. \A p \in pushed' : Addressed(p[1], who[p[2]])'
      BY <2>1, <2>3, <2>5 DEF AddressInv, OnlyAddressedReceive
    <3>2. \A d \in Conn : \A g \in Frames(batch'[d]) : Addressed(g, who[d])'
      BY <2>1, <2>3, <2>6 DEF AddressInv, OnlyAddressedReceive
    <3>3. QED
      BY <2>1, <2>3, <3>1, <3>2 DEF AddressInv, OnlyAddressedReceive
  <2>8. QED
    BY <2>4, <2>7 DEF AddressInv
\* A hello changes the name of a connection that holds nothing yet.
<1>8. ASSUME NEW c \in Conn, Register(c) PROVE AddressInv'
  <2>1. /\ UNCHANGED <<pc, frm, todo, off, owed, pushed, mailbox, batch>>
        /\ \A d \in Conn : who[d] # None => who'[d] = who[d]
        /\ \A d \in Conn : d # c => who'[d] = who[d]
        /\ batch[c] = << >>
    BY <1>8 DEF Register, Reading, Authed, LocalsIdle, TypeOK, locals, mailboxes, history
  <2>2. \A g, b : Addressed(g, b)' <=> Addressed(g, b)
    BY <2>1 DEF Addressed
  <2>3. \A d \in Conn : HandAddressed(d)'
    BY <2>1, HandStays DEF AddressInv
  <2>4. Frames(batch[c]) = {}
    BY <2>1 DEF Frames
  <2>5. \A p \in pushed : who'[p[2]] = who[p[2]]
    <3>1. ASSUME NEW p \in pushed PROVE who[p[2]] # None
      <4>1. Addressed(p[1], who[p[2]])
        BY DEF AddressInv, OnlyAddressedReceive
      <4>2. who[p[2]] \in Agent
        BY <4>1 DEF Addressed, TypeOK, Aims
      <4>3. QED
        BY <4>2, HubConstants
    <3>2. QED
      BY <2>1, <3>1 DEF TypeOK
  <2>6. OnlyAddressedReceive'
    <3>1. \A p \in pushed' : Addressed(p[1], who[p[2]])'
      <4>1. \A p \in pushed : Addressed(p[1], who[p[2]])
        BY DEF AddressInv, OnlyAddressedReceive
      <4>2. QED
        BY <2>1, <2>5, <4>1 DEF Addressed
    <3>2. \A a \in Agent : \A f \in Frames(mailbox[a])' : Addressed(f, a)'
      BY <2>1, <2>2 DEF AddressInv, OnlyAddressedReceive
    <3>3. \A d \in Conn : \A f \in Frames(batch[d])' : Addressed(f, who[d])'
      <4>1. ASSUME NEW d \in Conn, NEW f \in Frames(batch[d]) PROVE Addressed(f, who[d])'
        <5>1. Addressed(f, who[d]) /\ who'[d] = who[d]
          BY <2>1, <2>4, <4>1 DEF AddressInv, OnlyAddressedReceive
        <5>2. QED
          BY <2>1, <5>1 DEF Addressed
      <4>2. QED
        BY <2>1, <4>1
    <3>4. QED
      BY <3>1, <3>2, <3>3 DEF OnlyAddressedReceive
  <2>7. QED
    BY <2>3, <2>6 DEF AddressInv
<1>9. ASSUME NEW a \in Agent, AdminEvict(a) PROVE AddressInv'
  <2>1. /\ UNCHANGED <<pc, who, frm, todo, off, owed, pushed, batch>>
        /\ mailbox' = [mailbox EXCEPT ![a] = << >>]
    BY <1>9 DEF AdminEvict, locals
  <2>2. \A g, b : Addressed(g, b)' <=> Addressed(g, b)
    BY <2>1 DEF Addressed
  <2>3. \A d \in Conn : HandAddressed(d)'
    BY <2>1, HandStays DEF AddressInv
  <2>4. \A b \in Agent : Frames(mailbox'[b]) \subseteq Frames(mailbox[b])
    BY <2>1 DEF Frames, TypeOK
  <2>5. OnlyAddressedReceive'
    BY <2>1, <2>2, <2>4 DEF AddressInv, OnlyAddressedReceive
  <2>6. QED
    BY <2>3, <2>5 DEF AddressInv
<1>10. ASSUME UNCHANGED <<who, todo, off, batch, mailbox, owed, pushed>>,
              \A d \in Conn : pc'[d] \in {"lookup", "deliver"} =>
                                  pc'[d] = pc[d] /\ frm'[d] = frm[d]
       PROVE  AddressInv'
  <2>1. \A d \in Conn : HandAddressed(d)'
    BY <1>10, HandStays DEF AddressInv
  <2>2. OnlyAddressedReceive'
    BY <1>10 DEF AddressInv, OnlyAddressedReceive, Addressed
  <2>3. QED
    BY <2>1, <2>2 DEF AddressInv
<1>11. QED
  <2>1. ASSUME NEW c \in Conn, Handler(c) \/ Peer(c) PROVE AddressInv'
    <3>1. CASE Refuse(c) \/ Latch(c) \/ FlushDone(c) \/ Deregister(c)
      BY <1>10, <3>1 DEF Refuse, Latch, FlushDone, Deregister, Goto, TypeOK,
                         locals, mailboxes, history
    <3>2. CASE \/ Open(c) \/ RejectHello(c) \/ ReadFails(c) \/ ConnDies(c)
               \/ (\E k \in Chan : Join(c, k)) \/ (\E f \in Frame : BeginSend(c, f))
      BY <1>10, <3>2 DEF Open, RejectHello, ReadFails, ConnDies, Join, BeginSend, Goto, TypeOK,
                         locals, mailboxes, history
    <3>3. QED
      BY <2>1, <1>1, <1>2, <1>3, <1>4, <1>5, <1>6, <1>7, <1>8, <3>1, <3>2, HandlerCases DEF Peer
  <2>2. ASSUME Owner PROVE AddressInv'
    BY <2>2, <1>9, <1>10 DEF Owner, SetACL, locals, mailboxes, history
  <2>3. CASE UNCHANGED vars
    BY <2>3, <1>10 DEF vars, locals, mailboxes, history
  <2>4. QED
    BY <2>1, <2>2, <2>3 DEF Next

\* Whatever reconnects, evictions and deletions come between the routing of a
\* message and its delivery, only agents it was routed to receive or hold it.
THEOREM NoMisdelivery == Spec => []OnlyAddressedReceive
<1>1. Init => AddressInv
  BY DEF Init, AddressInv, OnlyAddressedReceive, HandAddressed, Frames
<1>2. QED
  BY <1>1, StepAddressInv, DeliveryInvariant, PTL DEF Spec, AddressInv

\* A closed connection stays closed and a name once taken is kept.
LEMMA StepStable ==
    DeliveryInv /\ [Next]_vars =>
        \A c \in Conn : (closed[c] => closed'[c]) /\ (who[c] # None => who'[c] = who[c])
<1> SUFFICES ASSUME DeliveryInv, [Next]_vars, NEW c \in Conn
             PROVE  (closed[c] => closed'[c]) /\ (who[c] # None => who'[c] = who[c])
  OBVIOUS
<1> USE DEF DeliveryInv, HubInv, TypeOK
<1>1. ASSUME NEW d \in Conn, Register(d)
      PROVE  (closed[c] => closed'[c]) /\ (who[c] # None => who'[c] = who[c])
  BY <1>1 DEF Register, EvictOld, Authed
<1>2. ASSUME NEW d \in Conn, RejectHello(d) \/ ConnDies(d) \/ Deregister(d)
      PROVE  (closed[c] => closed'[c]) /\ (who[c] # None => who'[c] = who[c])
  BY <1>2 DEF RejectHello, ConnDies, Deregister
<1>3. ASSUME UNCHANGED <<closed, who>>
      PROVE  (closed[c] => closed'[c]) /\ (who[c] # None => who'[c] = who[c])
  BY <1>3
<1>4. QED
  <2>1. ASSUME NEW d \in Conn, Handler(d) PROVE Deregister(d) \/ UNCHANGED <<closed, who>>
    BY <2>1 DEF Handler, Refuse, RouteDM, LookupDM, RouteChan, Push, Offer, Enqueue, Latch,
                FlushOne, FlushOffer, FlushDone
  <2>2. ASSUME NEW d \in Conn, Peer(d)
        PROVE  Register(d) \/ RejectHello(d) \/ ConnDies(d) \/ UNCHANGED <<closed, who>>
    BY <2>2 DEF Peer, Open, ReadFails, Join, BeginSend, Drain
  <2>3. Owner \/ UNCHANGED vars => UNCHANGED <<closed, who>>
    BY DEF Owner, SetACL, AdminEvict, vars
  <2>4. QED
    BY <1>1, <1>2, <1>3, <2>1, <2>2, <2>3 DEF Next

\* A frame that reached a mailbox, a flush or a connection stays in one of
\* these, or is lost in one of the named ways.
LEMMA AccountedStays ==
    DeliveryInv /\ [Next]_vars =>
        \A f \in Frame, a \in Agent : Accounted(f, a) => Accounted(f, a)'
<1> SUFFICES ASSUME DeliveryInv, [Next]_vars, NEW f \in Frame, NEW a \in Agent, Accounted(f, a)
             PROVE  Accounted(f, a)'
  OBVIOUS
<1> USE DEF DeliveryInv, HubInv
<1>1. \A c \in Conn : who[c] = a => who'[c] = a
  BY StepStable, HubConstants
<1>2. ASSUME NEW c \in Conn, NEW b \in Agent, Enqueue(c, b) PROVE Accounted(f, a)'
  <2> DEFINE q == Append(mailbox[b], frm[c])
  <2>1. /\ UNCHANGED <<who, batch, pushed>> /\ gone \subseteq gone'
        /\ Overflows(q) => <<Head(q), b>> \in gone'
        /\ \A e \in Agent : e # b => mailbox'[e] = mailbox[e]
    BY <1>2 DEF Enqueue, TypeOK
  <2>2. \A g \in Frames(mailbox[b]) : g \in Frames(mailbox'[b]) \/ (Overflows(q) /\ g = Head(q))
    BY <1>2, TrimKeeps DEF Enqueue, TypeOK, LocalsOK
  <2> HIDE DEF q
  <2>3. QED
    BY <2>1, <2>2 DEF Accounted, Taken
<1>3. ASSUME NEW c \in Conn, Drain(c) PROVE Accounted(f, a)'
  <2>1. /\ UNCHANGED <<who, pushed, gone>> /\ who[c] \in Agent /\ batch[c] = << >>
        /\ batch' = [batch EXCEPT ![c] = mailbox[who[c]]]
        /\ mailbox' = [mailbox EXCEPT ![who[c]] = << >>]
    BY <1>3 DEF Drain, Reading, Authed, LocalsIdle, TypeOK
  <2>2. Frames(batch[c]) = {}
    BY <2>1 DEF Frames
  <2>3. CASE f \in Frames(mailbox[a]) /\ who[c] = a
    <3>1. who'[c] = a /\ f \in Frames(batch'[c])
      BY <2>1, <2>3 DEF TypeOK
    <3>2. QED
      BY <3>1 DEF Accounted
  <2>4. CASE f \in Frames(mailbox[a]) /\ who[c] # a
    <3>1. mailbox'[a] = mailbox[a]
      BY <2>1, <2>4 DEF TypeOK
    <3>2. QED
      BY <2>4, <3>1 DEF Accounted
  <2>5. ASSUME NEW d \in Conn, who[d] = a, f \in Frames(batch[d]) PROVE Accounted(f, a)'
    <3>1. d # c
      BY <2>2, <2>5
    <3>2. batch'[d] = batch[d] /\ who'[d] = a
      BY <2>1, <2>5, <3>1 DEF TypeOK
    <3>3. QED
      BY <2>5, <3>2 DEF Accounted
  <2>6. QED
    BY <2>1, <2>3, <2>4, <2>5 DEF Accounted, Taken
<1>4. ASSUME NEW c \in Conn, Flushing(c) PROVE Accounted(f, a)'
  <2>1. /\ UNCHANGED <<who, mailbox>> /\ batch[c] # << >> /\ batch[c] \in Seq(Frame)
        /\ pushed \subseteq pushed' /\ gone \subseteq gone'
        /\ \/ batch' = batch
           \/ /\ batch' = [batch EXCEPT ![c] = Tail(@)]
              /\ <<Head(batch[c]), c>> \in pushed' \/ <<Head(batch[c]), who[c]>> \in gone'
    BY <1>4, FlushSteps DEF mailboxes
  <2>2. Frames(batch[c]) = {Head(batch[c])} \cup Frames(Tail(batch[c]))
    BY <2>1, FramesOf
  <2>3. ASSUME NEW d \in Conn, who[d] = a, f \in Frames(batch[d]) PROVE Accounted(f, a)'
    <3>0. CASE batch' = batch
      BY <2>1, <2>3, <3>0 DEF Accounted
    <3>1. CASE batch' # batch /\ d = c /\ f = Head(batch[c])
      <4>1. (<<f, c>> \in pushed' /\ who'[c] = a) \/ <<f, a>> \in gone'
        BY <2>1, <2>3, <3>1
      <4>2. QED
        BY <4>1 DEF Accounted, Taken
    <3>2. CASE batch' # batch /\ ~(d = c /\ f = Head(batch[c]))
      <4>1. f \in Frames(batch'[d]) /\ who'[d] = a
        BY <2>1, <2>2, <2>3, <3>2 DEF TypeOK
      <4>2. QED
        BY <4>1 DEF Accounted
    <3>3. QED
      BY <3>0, <3>1, <3>2
  <2>4. QED
    BY <2>1, <2>3 DEF Accounted, Taken
<1>5. ASSUME NEW b \in Agent, AdminEvict(b) PROVE Accounted(f, a)'
  <2>1. /\ UNCHANGED <<who, batch, pushed>>
        /\ gone' = gone \cup (Frames(mailbox[b]) \X {b})
        /\ \A e \in Agent : e # b => mailbox'[e] = mailbox[e]
    BY <1>5 DEF AdminEvict, TypeOK, locals
  <2>2. QED
    BY <2>1 DEF Accounted, Taken
<1>6. ASSUME UNCHANGED <<mailbox, batch, gone>>, pushed \subseteq pushed' PROVE Accounted(f, a)'
  BY <1>1, <1>6 DEF Accounted, Taken
<1>7. QED
  <2>1. ASSUME NEW c \in Conn, Handler(c) \/ Peer(c) PROVE Accounted(f, a)'
    <3>1. CASE \/ Refuse(c) \/ RouteDM(c) \/ LookupDM(c) \/ RouteChan(c) \/ Latch(c)
               \/ FlushDone(c) \/ Deregister(c) \/ \E d \in Conn : Pushing(c, d)
      BY <1>6, <3>1, PushSteps DEF Refuse, RouteDM, LookupDM, RouteChan, Latch, FlushDone, Deregister,
                        locals, mailboxes, history
    <3>2. CASE \/ Open(c) \/ Register(c) \/ RejectHello(c) \/ ReadFails(c) \/ ConnDies(c)
               \/ (\E k \in Chan : Join(c, k)) \/ (\E g \in Frame : BeginSend(c, g))
      BY <1>6, <3>2 DEF Open, Register, RejectHello, ReadFails, ConnDies, Join, BeginSend,
                        locals, mailboxes, history
    <3>3. QED
      BY <2>1, <1>2, <1>3, <1>4, <3>1, <3>2, HandlerCases DEF Peer
  <2>2. ASSUME Owner PROVE Accounted(f, a)'
    BY <2>2, <1>5, <1>6 DEF Owner, SetACL, locals, mailboxes, history
  <2>3. CASE UNCHANGED vars
    BY <2>3, <1>6 DEF vars, locals, mailboxes, history
  <2>4. QED
    BY <2>1, <2>2, <2>3 DEF Next

\* enqueue, and a push that did not fail, account for the frame in hand.
LEMMA DeliveryAccounts ==
    ASSUME DeliveryInv, NEW c \in Conn
    PROVE  /\ \A a \in Agent : Enqueue(c, a) => Accounted(frm[c], a)'
           /\ \A d \in Conn : Pushing(c, d) /\ pushed' = pushed \cup {<<frm[c], d>>}
                                  => Accounted(frm[c], who[d])'
<1> USE DEF DeliveryInv, HubInv
<1>1. ASSUME NEW a \in Agent, Enqueue(c, a) PROVE Accounted(frm[c], a)'
  <2>1. frm[c] \in Frames(mailbox'[a]) /\ frm'[c] = frm[c]
    BY <1>1, TrimKeeps DEF Enqueue, TypeOK, LocalsOK
  <2>2. QED
    BY <2>1 DEF Accounted
<1>2. ASSUME NEW d \in Conn, Pushing(c, d), pushed' = pushed \cup {<<frm[c], d>>}
      PROVE  Accounted(frm[c], who[d])'
  BY <1>2, PushSteps DEF Accounted, Taken
<1>3. QED
  BY <1>1, <1>2

\* Where a direct message is while its handler delivers it.
DMInHand(c) ==
    pc[c] = "deliver" /\ frm[c].to # None =>
        \/ Accounted(frm[c], frm[c].to)
        \/ frm[c].to \in off[c]
        \/ \E d \in todo[c] : who[d] = frm[c].to

DMInv ==
    /\ \A f \in used : f.to # None => Accounted(f, f.to)
    /\ \A c \in Conn : DMInHand(c)
    /\ \A p \in owed : p[1].to # None => p[2] = p[1].to

\* A handler that is not delivering, or that nobody touches, keeps its message.
LEMMA DMInHandStays ==
    ASSUME DeliveryInv, [Next]_vars, NEW c \in Conn, DMInHand(c),
           pc'[c] = "deliver" => pc[c] = "deliver" /\ frm'[c] = frm[c],
           todo'[c] = todo[c], off'[c] = off[c]
    PROVE  DMInHand(c)'
<1> SUFFICES ASSUME pc'[c] = "deliver", frm[c].to # None, ~Accounted(frm[c], frm[c].to)'
             PROVE  frm[c].to \in off[c] \/ \E d \in todo[c] : who'[d] = frm[c].to
  BY DEF DMInHand
<1>1. frm[c] \in Frame /\ frm[c].to \in Agent
  BY FrameFields DEF DeliveryInv, HubInv, LocalsOK, TypeOK
<1>2. ~Accounted(frm[c], frm[c].to)
  <2>1. frm'[c] = frm[c]
    OBVIOUS
  <2>2. QED
    BY <1>1, <2>1, AccountedStays DEF Accounted
<1>3. \A d \in todo[c] : who'[d] = who[d]
  BY StepStable DEF DeliveryInv, HubInv, LocalsOK, TypeOK
<1>4. QED
  BY <1>2, <1>3 DEF DMInHand

\* Every step hands a direct message on, or leaves it where it was.
LEMMA StepDMInv == DeliveryInv /\ DMInv /\ [Next]_vars => DMInv'
<1> SUFFICES ASSUME DeliveryInv, DMInv, [Next]_vars PROVE DMInv'
  OBVIOUS
<1> USE DEF DeliveryInv, HubInv
<1>0. \A f \in used : f.to # None => Accounted(f, f.to)'
  BY AccountedStays, FrameFields DEF DMInv, TypeOK
<1>1. ASSUME NEW c \in Conn, RouteDM(c) PROVE DMInv'
  <2>1. /\ UNCHANGED <<used, frm, todo, off>> /\ pc'[c] = "lookup"
        /\ \A d \in Conn : d # c => pc'[d] = pc[d]
        /\ owed' = owed \cup {<<frm[c], frm[c].to, None>>}
    BY <1>1 DEF RouteDM, Goto, TypeOK, locals
  <2>2. \A d \in Conn : DMInHand(d)'
    BY <2>1, DMInHandStays DEF DMInv
  <2>3. QED
    BY <1>0, <2>1, <2>2 DEF DMInv
<1>2. ASSUME NEW c \in Conn, LookupDM(c) PROVE DMInv'
  <2> DEFINE a == frm[c].to
  <2>1. /\ UNCHANGED <<used, frm, owed, who>> /\ pc'[c] = "deliver"
        /\ \A d \in Conn : d # c => pc'[d] = pc[d] /\ todo'[d] = todo[d] /\ off'[d] = off[d]
    BY <1>2 DEF LookupDM, Goto, TypeOK, history
  <2>2. a \in Agent
    BY <1>2, FrameFields DEF LookupDM, LocalsOK, TypeOK
  <2>3. a \in off'[c] \/ \E d \in todo'[c] : who[d] = a
    <3>1. CASE clients[a] = None
      BY <1>2, <3>1 DEF LookupDM, TypeOK
    <3>2. CASE clients[a] # None
      <4>1. todo'[c] = {clients[a]}
        BY <1>2, <3>2 DEF LookupDM, TypeOK
      <4>2. QED
        BY <2>2, <3>2, <4>1 DEF RegistryAgrees
    <3>3. QED
      BY <3>1, <3>2
  <2>4. DMInHand(c)'
    BY <2>1, <2>3 DEF DMInHand
  <2>5. \A d \in Conn : d # c => DMInHand(d)'
    BY <2>1, DMInHandStays DEF DMInv
  <2>6. QED
    BY <1>0, <2>1, <2>4, <2>5 DEF DMInv
<1>3. ASSUME NEW c \in Conn, RouteChan(c) PROVE DMInv'
  <2>1. /\ UNCHANGED <<used, frm>> /\ pc'[c] = "deliver"
        /\ \A d \in Conn : d # c => pc'[d] = pc[d] /\ todo'[d] = todo[d] /\ off'[d] = off[d]
        /\ owed' = owed \cup {<<frm[c], a, clients[a]>> : a \in members[frm[c].chan]}
    BY <1>3 DEF RouteChan, Goto, TypeOK
  <2>2. frm[c].to = None
    BY <1>3, FrameFields DEF RouteChan, LocalsOK, TypeOK
  <2>3. DMInHand(c)'
    BY <2>1, <2>2 DEF DMInHand
  <2>4. \A d \in Conn : d # c => DMInHand(d)'
    BY <2>1, DMInHandStays DEF DMInv
  <2>5. QED
    BY <1>0, <2>1, <2>2, <2>3, <2>4 DEF DMInv
<1>4. ASSUME NEW c \in Conn, NEW d \in Conn, Pushing(c, d) PROVE DMInv'
  <2>1. /\ UNCHANGED <<used, frm, owed, who, pc>>
        /\ \A e \in Conn : e # c => todo'[e] = todo[e] /\ off'[e] = off[e]
    BY <1>4, PushSteps
  <2>2. ASSUME pc[c] = "deliver", frm[c].to # None
        PROVE  \/ Accounted(frm[c], frm[c].to)'
               \/ frm[c].to \in off'[c]
               \/ \E e \in todo'[c] : who[e] = frm[c].to
    <3>1. frm[c] \in Frame /\ frm[c].to \in Agent
      BY <2>2, FrameFields DEF LocalsOK, TypeOK
    <3>2. Accounted(frm[c], frm[c].to) => Accounted(frm[c], frm[c].to)'
      BY <2>1, <3>1, AccountedStays
    <3>3. CASE UNCHANGED <<todo, off>>
      BY <2>1, <2>2, <3>2, <3>3 DEF DMInv, DMInHand
    <3>4. CASE /\ todo'[c] = todo[c] \ {d} /\ off'[c] = off[c]
               /\ pushed' = pushed \cup {<<frm[c], d>>}
      <4>1. who[d] = frm[c].to => Accounted(frm[c], frm[c].to)'
        BY <1>4, <2>1, <3>4, DeliveryAccounts
      <4>2. QED
        BY <2>1, <2>2, <3>2, <3>4, <4>1 DEF DMInv, DMInHand
    <3>5. CASE off'[c] = off[c] \cup ({frm[c].to} \ {None})
      BY <2>2, <3>5
    <3>6. QED
      BY <1>4, <3>3, <3>4, <3>5, PushSteps
  <2>3. DMInHand(c)'
    BY <2>1, <2>2 DEF DMInHand
  <2>4. \A e \in Conn : e # c => DMInHand(e)'
    BY <2>1, DMInHandStays DEF DMInv
  <2>5. QED
    BY <1>0, <2>1, <2>3, <2>4 DEF DMInv
<1>5. ASSUME NEW c \in Conn, NEW a \in Agent, Enqueue(c, a) PROVE DMInv'
  <2>1. /\ UNCHANGED <<used, frm, owed, who, pc, todo>>
        /\ off' = [off EXCEPT ![c] = @ \ {a}]
    BY <1>5 DEF Enqueue
  <2>2. ASSUME pc[c] = "deliver", frm[c].to # None
        PROVE  \/ Accounted(frm[c], frm[c].to)'
               \/ frm[c].to \in off'[c]
               \/ \E e \in todo[c] : who[e] = frm[c].to
    <3>1. frm[c] \in Frame /\ frm[c].to \in Agent
      BY <2>2, FrameFields DEF LocalsOK, TypeOK
    <3>2. a = frm[c].to => Accounted(frm[c], frm[c].to)'
      BY <1>5, <2>1, DeliveryAccounts
    <3>3. Accounted(frm[c], frm[c].to) => Accounted(frm[c], frm[c].to)'
      BY <2>1, <3>1, AccountedStays
    <3>4. a # frm[c].to /\ frm[c].to \in off[c] => frm[c].to \in off'[c]
      BY <2>1 DEF TypeOK
    <3>5. QED
      BY <2>2, <3>2, <3>3, <3>4 DEF DMInv, DMInHand
  <2>3. DMInHand(c)'
    BY <2>1, <2>2 DEF DMInHand
  <2>4. \A e \in Conn : e # c => DMInHand(e)'
    BY <2>1, DMInHandStays DEF DMInv, TypeOK
  <2>5. QED
    BY <1>0, <2>1, <2>3, <2>4 DEF DMInv
\* Nothing is in hand any more when the id latches.
<1>6. ASSUME NEW c \in Conn, Latch(c) PROVE DMInv'
  <2>1. /\ UNCHANGED <<owed, todo, off>> /\ used' = used \cup {frm[c]}
        /\ pc[c] = "deliver" /\ todo[c] = {} /\ off[c] = {}
        /\ pc'[c] = "read" /\ \A d \in Conn : d # c => pc'[d] = pc[d] /\ frm'[d] = frm[d]
    BY <1>6 DEF Latch, Goto, TypeOK
  <2>2. frm[c].to # None => Accounted(frm[c], frm[c].to)
    BY <2>1 DEF DMInv, DMInHand
  <2>3. frm[c] \in Frame /\ (frm[c].to # None => frm[c].to \in Agent)
    BY <2>1, FrameFields DEF LocalsOK, TypeOK
  <2>4. \A f \in used' : f.to # None => Accounted(f, f.to)'
    <3>1. UNCHANGED <<mailbox, batch, who, pushed, gone>>
      BY <1>6 DEF Latch, mailboxes
    <3>2. QED
      BY <1>0, <2>1, <2>2, <3>1 DEF Accounted, Taken
  <2>5. \A d \in Conn : DMInHand(d)'
    BY <2>1, DMInHandStays DEF DMInv
  <2>6. QED
    BY <2>1, <2>4, <2>5 DEF DMInv
<1>7. ASSUME UNCHANGED <<used, owed, todo, off>>,
             \A d \in Conn : pc'[d] = "deliver" => pc[d] = "deliver" /\ frm'[d] = frm[d]
      PROVE  DMInv'
  <2>1. \A d \in Conn : DMInHand(d)'
    BY <1>7, DMInHandStays DEF DMInv
  <2>2. QED
    BY <1>0, <1>7, <2>1 DEF DMInv
<1>8. QED
  <2>1. ASSUME NEW c \in Conn, Handler(c) \/ Peer(c) PROVE DMInv'
    <3>1. CASE Refuse(c) \/ Flushing(c) \/ FlushDone(c) \/ Deregister(c)
      BY <1>7, <3>1, FlushSteps DEF Refuse, FlushDone, Deregister, Goto, TypeOK, locals, history
    <3>2. CASE \/ Open(c) \/ Register(c) \/ RejectHello(c) \/ ReadFails(c) \/ ConnDies(c)
               \/ Drain(c) \/ (\E k \in Chan : Join(c, k)) \/ (\E f \in Frame : BeginSend(c, f))
      BY <1>7, <3>2 DEF Open, Register, RejectHello, ReadFails, ConnDies, Drain, Join,
                        BeginSend, Goto, TypeOK, locals, history
    <3>3. QED
      BY <2>1, <1>1, <1>2, <1>3, <1>4, <1>5, <1>6, <3>1, <3>2, HandlerCases DEF Peer
  <2>2. ASSUME Owner PROVE DMInv'
    BY <2>2, <1>7 DEF Owner, SetACL, AdminEvict, locals, history
  <2>3. CASE UNCHANGED vars
    BY <2>3, <1>7 DEF vars, locals, history
  <2>4. QED
    BY <2>1, <2>2, <2>3 DEF Next

\* A direct message whose id is latched was taken by the send queue of one of
\* its recipient's connections, is in the mailbox or in a flush, or is lost in one
\* of the named ways; no order of lookups, closes, selects and enqueues loses it
\* otherwise.
THEOREM LatchedDMsAreAccounted == Spec => []LatchedDMIsAccounted
<1>1. Init => DMInv
  BY DEF Init, DMInv, DMInHand
<1>2. DMInv => LatchedDMIsAccounted
  BY DEF DMInv, LatchedDMIsAccounted
<1>3. QED
  BY <1>1, <1>2, StepDMInv, DeliveryInvariant, PTL DEF Spec

\* A channel message in the hands of a handler: the connection it is aimed at
\* is still to be pushed to, or the absent member still to be enqueued for.
PostInHand(p, c) ==
    /\ pc[c] = "deliver" /\ frm[c] = p[1]
    /\ p[3] \in todo[c] \/ p[2] \in off[c]

PostSettled(p) ==
    Accounted(p[1], p[2]) \/ (p[3] # None /\ closed[p[3]])

PostInv ==
    \A p \in owed :
        p[1].chan # None =>
            /\ p[3] # None => who[p[3]] = p[2]
            /\ PostSettled(p) \/ \E c \in Conn : PostInHand(p, c)

\* What was settled stays settled, and a connection keeps its agent.
LEMMA SettledStays ==
    ASSUME DeliveryInv, [Next]_vars, NEW p \in owed
    PROVE  /\ PostSettled(p) => PostSettled(p)'
           /\ p[3] # None /\ who[p[3]] = p[2] => who'[p[3]] = p[2]
<1>1. /\ p[1] \in Frame /\ p[2] \in Agent /\ p[2] # None
      /\ p[3] # None => p[3] \in Conn
  BY HubConstants DEF DeliveryInv, HubInv, TypeOK, Aims
<1>2. Accounted(p[1], p[2]) => Accounted(p[1], p[2])'
  BY <1>1, AccountedStays
<1>3. QED
  BY <1>1, <1>2, StepStable DEF PostSettled

\* A step that disturbs no handler's hand keeps the invariant.
LEMMA PostInvStays ==
    ASSUME DeliveryInv, PostInv, [Next]_vars, owed' = owed,
           \A p \in owed, c \in Conn :
               p[1].chan # None /\ PostInHand(p, c) => PostSettled(p)' \/ PostInHand(p, c)'
    PROVE  PostInv'
BY SettledStays DEF PostInv

\* Every step hands a post on, settles it, or leaves it in hand.
LEMMA StepPostInv == DeliveryInv /\ PostInv /\ [Next]_vars => PostInv'
<1> SUFFICES ASSUME DeliveryInv, PostInv, [Next]_vars PROVE PostInv'
  OBVIOUS
<1> USE DEF DeliveryInv, HubInv
<1>1. ASSUME NEW c \in Conn, RouteDM(c) PROVE PostInv'
  <2>1. /\ UNCHANGED <<frm, todo, off>> /\ pc[c] = "route"
        /\ \A d \in Conn : d # c => pc'[d] = pc[d]
        /\ owed' = owed \cup {<<frm[c], frm[c].to, None>>}
        /\ frm[c].chan = None
    BY <1>1, FrameFields DEF RouteDM, Goto, TypeOK, LocalsOK, locals
  <2>2. \A p \in owed, d \in Conn : PostInHand(p, d) => PostInHand(p, d)'
    BY <2>1 DEF PostInHand
  <2>3. QED
    BY <2>1, <2>2, SettledStays DEF PostInv
<1>2. ASSUME NEW c \in Conn, LookupDM(c) PROVE PostInv'
  <2>1. /\ UNCHANGED <<frm, owed>> /\ pc[c] = "lookup"
        /\ \A d \in Conn : d # c => pc'[d] = pc[d] /\ todo'[d] = todo[d] /\ off'[d] = off[d]
    BY <1>2 DEF LookupDM, Goto, TypeOK, history
  <2>2. \A p \in owed, d \in Conn : PostInHand(p, d) => PostInHand(p, d)'
    BY <2>1 DEF PostInHand
  <2>3. QED
    BY <2>1, <2>2, PostInvStays
\* A new routing decision is all in the hands of its handler.
<1>3. ASSUME NEW c \in Conn, RouteChan(c) PROVE PostInv'
  <2> DEFINE f == frm[c]
  <2>1. /\ UNCHANGED <<frm, who>> /\ pc[c] = "route" /\ pc'[c] = "deliver"
        /\ \A d \in Conn : d # c => pc'[d] = pc[d] /\ todo'[d] = todo[d] /\ off'[d] = off[d]
        /\ owed' = owed \cup {<<f, a, clients[a]>> : a \in members[f.chan]}
        /\ todo'[c] = {clients[a] : a \in Connected(f.chan)}
        /\ off'[c] = Absent(f.chan)
    BY <1>3 DEF RouteChan, Goto, TypeOK
  <2>2. f.chan \in Chan
    BY <1>3, FrameFields DEF RouteChan, LocalsOK, TypeOK
  <2>3. \A p \in owed, d \in Conn : PostInHand(p, d) => PostInHand(p, d)'
    BY <2>1 DEF PostInHand
  <2>4. ASSUME NEW a \in members[f.chan]
        PROVE  /\ clients[a] # None => who'[clients[a]] = a
               /\ PostInHand(<<f, a, clients[a]>>, c)'
    <3>1. a \in Agent /\ (clients[a] # None => who[clients[a]] = a)
      BY <2>2 DEF TypeOK, RegistryAgrees
    <3>2. clients[a] \in todo'[c] \/ a \in off'[c]
      BY <2>1 DEF Connected, Absent
    <3>3. PostInHand(<<f, a, clients[a]>>, c)'
      <4>1. clients'[a] = clients[a]
        BY <1>3 DEF RouteChan, registry
      <4>2. QED
        BY <2>1, <3>2, <4>1 DEF PostInHand
    <3>4. QED
      BY <2>1, <3>1, <3>3
  <2>5. \A p \in owed :
            p[1].chan # None =>
                /\ p[3] # None => who'[p[3]] = p[2]
                /\ PostSettled(p)' \/ \E d \in Conn : PostInHand(p, d)'
    BY <2>3, SettledStays DEF PostInv
  <2>6. \A a \in members[f.chan] : clients'[a] = clients[a] /\ f = frm'[c]
    BY <1>3 DEF RouteChan, registry
  <2>7. ASSUME NEW p \in owed' \ owed
        PROVE  /\ p[3] # None => who'[p[3]] = p[2]
               /\ \E d \in Conn : PostInHand(p, d)'
    <3>1. PICK a \in members[f.chan] : p = <<f, a, clients[a]>>
      BY <2>1
    <3>2. p[3] = clients[a] /\ p[2] = a /\ p[1] = f
      BY <3>1
    <3>3. PostInHand(p, c)'
      BY <2>1, <2>4, <2>6, <3>2 DEF PostInHand
    <3>4. QED
      BY <2>4, <3>2, <3>3
  <2>8. QED
    BY <2>5, <2>7 DEF PostInv
\* A connection that takes the post accounts for it; a closed one settles it.
<1>4. ASSUME NEW c \in Conn, NEW d \in Conn, Pushing(c, d) PROVE PostInv'
  <2>1. /\ UNCHANGED <<frm, owed, who, pc, closed>>
        /\ todo[c] \ {d} \subseteq todo'[c] /\ off[c] \subseteq off'[c]
        /\ \A e \in Conn : e # c => todo'[e] = todo[e] /\ off'[e] = off[e]
    BY <1>4, PushSteps
  <2>2. ASSUME NEW p \in owed, NEW e \in Conn, p[1].chan # None, PostInHand(p, e)
        PROVE  PostSettled(p)' \/ PostInHand(p, e)'
    <3>1. CASE e = c /\ p[3] = d
      <4>1. who[d] = p[2] /\ frm[c] = p[1] /\ d # None
        BY <2>2, <3>1, HubConstants DEF PostInv, PostInHand
      <4>2. CASE UNCHANGED <<todo, off>>
        BY <2>1, <2>2, <4>2 DEF PostInHand
      <4>3. CASE pushed' = pushed \cup {<<frm[c], d>>}
        <5>1. Accounted(frm[c], who[d])'
          BY <1>4, <4>3, DeliveryAccounts
        <5>2. frm'[c] = p[1] /\ who'[d] = p[2]
          BY <2>1, <4>1
        <5>3. Accounted(p[1], p[2])'
          BY <2>1, <4>1, <5>1, <5>2
        <5>4. QED
          BY <5>3 DEF PostSettled
      <4>4. CASE closed[d]
        BY <2>1, <3>1, <4>1, <4>4 DEF PostSettled
      <4>5. QED
        BY <1>4, <4>2, <4>3, <4>4, PushSteps
    <3>2. CASE ~(e = c /\ p[3] = d)
      BY <2>1, <2>2, <3>2 DEF PostInHand
    <3>3. QED
      BY <3>1, <3>2
  <2>3. QED
    BY <2>1, <2>2, PostInvStays
<1>5. ASSUME NEW c \in Conn, NEW a \in Agent, Enqueue(c, a) PROVE PostInv'
  <2>1. /\ UNCHANGED <<frm, owed, who, pc, todo>>
        /\ off' = [off EXCEPT ![c] = @ \ {a}]
    BY <1>5 DEF Enqueue
  <2>2. ASSUME NEW p \in owed, NEW e \in Conn, p[1].chan # None, PostInHand(p, e)
        PROVE  PostSettled(p)' \/ PostInHand(p, e)'
    <3>1. CASE e = c /\ p[2] = a
      <4>1. Accounted(p[1], p[2])'
        BY <1>5, <2>1, <2>2, <3>1, DeliveryAccounts DEF PostInHand
      <4>2. QED
        BY <4>1 DEF PostSettled
    <3>2. CASE ~(e = c /\ p[2] = a)
      BY <2>1, <2>2, <3>2 DEF PostInHand, TypeOK
    <3>3. QED
      BY <3>1, <3>2
  <2>3. QED
    BY <2>1, <2>2, PostInvStays
<1>6. ASSUME NEW c \in Conn, Latch(c) PROVE PostInv'
  <2>1. /\ UNCHANGED <<owed, todo, off>> /\ todo[c] = {} /\ off[c] = {}
        /\ \A d \in Conn : d # c => pc'[d] = pc[d] /\ frm'[d] = frm[d]
    BY <1>6 DEF Latch, Goto, TypeOK
  <2>2. \A p \in owed, d \in Conn : PostInHand(p, d) => PostInHand(p, d)'
    BY <2>1 DEF PostInHand
  <2>3. QED
    BY <2>1, <2>2, PostInvStays
<1>7. ASSUME UNCHANGED <<owed, todo, off>>,
             \A d \in Conn : pc[d] = "deliver" => pc'[d] = "deliver" /\ frm'[d] = frm[d]
      PROVE  PostInv'
  <2>1. \A p \in owed, d \in Conn : PostInHand(p, d) => PostInHand(p, d)'
    BY <1>7 DEF PostInHand
  <2>2. QED
    BY <1>7, <2>1, PostInvStays
<1>8. QED
  <2>1. ASSUME NEW c \in Conn, Handler(c) \/ Peer(c) PROVE PostInv'
    <3>1. CASE Refuse(c) \/ Flushing(c) \/ FlushDone(c) \/ Deregister(c)
      BY <1>7, <3>1, FlushSteps DEF Refuse, FlushDone, Deregister, Goto, TypeOK, locals, history
    <3>2. CASE \/ Open(c) \/ Register(c) \/ RejectHello(c) \/ ReadFails(c) \/ ConnDies(c)
               \/ Drain(c) \/ (\E k \in Chan : Join(c, k)) \/ (\E f \in Frame : BeginSend(c, f))
      BY <1>7, <3>2 DEF Open, Register, RejectHello, ReadFails, ConnDies, Drain, Join,
                        BeginSend, Reading, Goto, TypeOK, locals, history
    <3>3. QED
      BY <2>1, <1>1, <1>2, <1>3, <1>4, <1>5, <1>6, <3>1, <3>2, HandlerCases DEF Peer
  <2>2. ASSUME Owner PROVE PostInv'
    BY <2>2, <1>7 DEF Owner, SetACL, AdminEvict, locals, history
  <2>3. CASE UNCHANGED vars
    BY <2>3, <1>7 DEF vars, locals, history
  <2>4. QED
    BY <2>1, <2>2, <2>3 DEF Next

\* When no handler works on a post any more, a member it was routed to has it
\* unless the very connection it was aimed at has closed: membership, presence
\* and ACL changes during the fan-out lose nothing else.
THEOREM PostsReachMembers == Spec => []MissedPostMeansClosed
<1>1. Init => PostInv
  BY DEF Init, PostInv
<1>2. PostInv => MissedPostMeansClosed
  BY DEF PostInv, PostInHand, PostSettled, MissedPostMeansClosed
<1>3. QED
  BY <1>1, <1>2, StepPostInv, DeliveryInvariant, PTL DEF Spec
=============================================================================
