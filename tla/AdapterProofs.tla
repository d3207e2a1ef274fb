--------------------------- MODULE AdapterProofs ---------------------------
(***************************************************************************)
(* Proofs about what the adapters do on top of a session: the invites by   *)
(* name of Invites, and the presence queries of Presence, which the passes *)
(* over the invites rest on.                                               *)
(***************************************************************************)
EXTENDS Invites, Presence, FiniteSetTheorems, TLAPS

-----------------------------------------------------------------------------
(* Presence queries. *)

\* A query asked after the latch was armed waits under an armed latch.
Latched == \A u \in User : Parked(u) /\ ~ask[u].early => echoSeen

\* A caller's query is a record of these fields.
AsksOK ==
    /\ ask = [u \in User |-> [st |-> ask[u].st, id |-> ask[u].id, early |-> ask[u].early]]
    /\ {echoSeen} \cup {ask[u].early : u \in User} \subseteq BOOLEAN

QueryInv == AsksOK /\ Latched /\ PartialIsEarly

\* Nobody has asked.
LEMMA InitQueryInv == QueryInit => QueryInv
<1> SUFFICES ASSUME QueryInit PROVE QueryInv
  OBVIOUS
<1>1. /\ echoSeen = FALSE
      /\ ask = [u \in User |-> [st |-> "idle", id |-> 0, early |-> FALSE]]
  BY DEF QueryInit, NoReply
<1>2. \A u \in User : ask[u] = [st |-> "idle", id |-> 0, early |-> FALSE]
  BY <1>1
<1>3. AsksOK
  BY <1>1, <1>2 DEF AsksOK
<1>4. Latched /\ PartialIsEarly
  BY <1>2 DEF Latched, Parked, PartialIsEarly
<1>5. QED
  BY <1>3, <1>4 DEF QueryInv

\* What a step may make of the caller u: nothing, a query lost or ended with its
\* own answer or none, one that any frame ended while the latch was not armed, or
\* a new one.
Keeps(u) == ask'[u] = ask[u]
Loses(u) == WithHub(u) /\ ask'[u] = [ask[u] EXCEPT !.st = "lost"]
EndsAs(u, how) == Parked(u) /\ ask'[u] = [ask[u] EXCEPT !.st = how, !.id = 0]
Mistaken(u) == ~echoSeen /\ (EndsAs(u, "any") \/ EndsAs(u, "partial"))
Asked(u) == \E i : ask'[u] = [st |-> "parked", id |-> i, early |-> ~echoSeen]

QueryStep ==
    /\ echoSeen' = echoSeen \/ echoSeen' = TRUE
    /\ ask' = [u \in User |-> ask'[u]]
    /\ \A u \in User : \/ Keeps(u) \/ Loses(u) \/ EndsAs(u, "own") \/ EndsAs(u, "failed")
                         \/ Mistaken(u) \/ Asked(u)

\* Every step is such a step.
LEMMA QuerySteps ==
    ASSUME AsksOK, [QueryNext]_queryVars
    PROVE  QueryStep
<1> USE DEF AsksOK, QueryStep
<1>1. CASE UNCHANGED queryVars
  BY <1>1 DEF queryVars, Keeps
<1>2. CASE OnWelcome \/ WarmUpTimesOut \/ Answer \/ Broadcast
  BY <1>2 DEF OnWelcome, WarmUpTimesOut, Answer, Broadcast, Keeps
<1>3. CASE Receive
  <2>1. CASE Echo(Head(frames))
    BY <2>1 DEF Echo, Arms, Ends, NoReply, Keeps, EndsAs
  <2>2. CASE IdLess(Head(frames))
    <3>1. CASE echoSeen
      BY <2>2, <3>1 DEF IdLess, IsBroadcast, Keeps
    <3>2. CASE ~echoSeen
      <4>1. /\ echoSeen' = echoSeen
            /\ ask' = [u \in User |-> IF Parked(u)
                           THEN [ask[u] EXCEPT !.st = IF Head(frames).full THEN "any" ELSE "partial",
                                               !.id = 0]
                           ELSE ask[u]]
        BY <2>2, <3>2 DEF IdLess, IsBroadcast, Ends, NoReply
      <4>2. QED
        BY <3>2, <4>1 DEF Keeps, Mistaken, EndsAs
    <3>3. QED
      BY <3>1, <3>2
  <2>3. QED
    BY <1>3, <2>1, <2>2 DEF Receive
<1>4. ASSUME NEW v \in User, Ask(v) PROVE QueryStep
  BY <1>4 DEF Ask, Keeps, Asked
<1>5. ASSUME NEW v \in User, TimesOut(v) PROVE QueryStep
  BY <1>5 DEF TimesOut, Ends, NoReply, Keeps, EndsAs
<1>6. ASSUME NEW h, OnDisconnect(h) \/ Retarget(h) PROVE QueryStep
  BY <1>6 DEF OnDisconnect, Retarget, Lose, Ends, NoReply, Keeps, Loses, EndsAs
<1>7. QED
  BY <1>1, <1>2, <1>3, <1>4, <1>5, <1>6 DEF QueryNext

\* Such steps keep the invariant: what any frame ends was asked before the latch
\* was armed, since under an armed latch no frame is mistaken.
LEMMA StepQueryInv == QueryInv /\ [QueryNext]_queryVars => QueryInv'
<1> SUFFICES ASSUME QueryInv, [QueryNext]_queryVars PROVE QueryInv'
  OBVIOUS
<1>1. QueryStep
  BY QuerySteps DEF QueryInv
<1>2. ASSUME NEW u \in User
      PROVE  /\ ask'[u] = [st |-> ask'[u].st, id |-> ask'[u].id, early |-> ask'[u].early]
             /\ ask'[u].early \in BOOLEAN
             /\ ask'[u].st \in {"parked", "lost"} /\ ~ask'[u].early => echoSeen'
             /\ ask'[u].st \in {"any", "partial"} => ask'[u].early
  <2>1. /\ ask[u] = [st |-> ask[u].st, id |-> ask[u].id, early |-> ask[u].early]
        /\ ask[u].early \in BOOLEAN /\ echoSeen \in BOOLEAN
        /\ ask[u].st \in {"parked", "lost"} /\ ~ask[u].early => echoSeen
        /\ ask[u].st \in {"any", "partial"} => ask[u].early
    BY DEF QueryInv, AsksOK, Latched, Parked, PartialIsEarly
  <2>2. echoSeen => echoSeen'
    BY <1>1 DEF QueryStep
  <2>3. CASE Keeps(u)
    BY <2>1, <2>2, <2>3 DEF Keeps
  <2>4. CASE Loses(u)
    <3>1. ask'[u] = [st |-> "lost", id |-> ask[u].id, early |-> ask[u].early]
      BY <2>1, <2>4 DEF Loses
    <3>2. QED
      BY <2>1, <2>2, <2>4, <3>1 DEF Loses, WithHub
  <2>5. ASSUME NEW how \in {"own", "failed", "any", "partial"}, EndsAs(u, how)
        PROVE  ask'[u] = [st |-> how, id |-> 0, early |-> ask[u].early]
    BY <2>1, <2>5 DEF EndsAs
  <2>6. CASE EndsAs(u, "own") \/ EndsAs(u, "failed")
    BY <2>1, <2>5, <2>6
  <2>7. CASE Mistaken(u)
    <3>1. ask[u].early
      BY <2>1, <2>7 DEF Mistaken, EndsAs, Parked
    <3>2. \/ ask'[u] = [st |-> "any", id |-> 0, early |-> ask[u].early]
          \/ ask'[u] = [st |-> "partial", id |-> 0, early |-> ask[u].early]
      BY <2>5, <2>7 DEF Mistaken
    <3>3. /\ ask'[u] = [st |-> ask'[u].st, id |-> ask'[u].id, early |-> ask'[u].early]
          /\ ask'[u].st \in {"any", "partial"} /\ ask'[u].early = ask[u].early
      BY ONLY <3>2
    <3>4. QED
      BY ONLY <2>1, <3>1, <3>3
  <2>8. CASE Asked(u)
    <3>1. PICK i : ask'[u] = [st |-> "parked", id |-> i, early |-> ~echoSeen]
      BY <2>8 DEF Asked
    <3>2. /\ ask'[u] = [st |-> ask'[u].st, id |-> ask'[u].id, early |-> ask'[u].early]
          /\ ask'[u].st = "parked" /\ ask'[u].early = ~echoSeen
      BY ONLY <3>1
    <3>3. QED
      BY ONLY <2>1, <2>2, <3>2
  <2>9. QED
    BY <1>1, <2>3, <2>4, <2>6, <2>7, <2>8 DEF QueryStep
<1>3. echoSeen' \in BOOLEAN /\ ask' = [u \in User |-> ask'[u]]
  BY <1>1 DEF QueryStep, QueryInv, AsksOK
<1>4. QED
  BY <1>2, <1>3 DEF QueryInv, AsksOK, Latched, Parked, PartialIsEarly

\* presence: a query asked once the latch is armed is never completed by a frame
\* without its id, for any number of callers, ids and changes of hub.
THEOREM QueriesGetTheirOwn == QuerySpec => []PartialIsEarly
<1>1. QueryInv => PartialIsEarly
  BY DEF QueryInv
<1>2. QED
  BY <1>1, InitQueryInv, StepQueryInv, PTL DEF QuerySpec
-----------------------------------------------------------------------------
(* Invites: the lists. *)

\* Arming: the new entry comes last, and is new.
LEMMA Appended ==
    ASSUME NEW q \in Seq(Entry), IsInjective(q), NEW e \in Entry, e \notin ToSet(q)
    PROVE  LET r == Append(q, e)
           IN  /\ r \in Seq(Entry) /\ IsInjective(r) /\ ToSet(r) = ToSet(q) \cup {e}
               /\ Len(r) = Len(q) + 1 /\ \A i \in 1 .. Len(q) : r[i] = q[i]
<1> DEFINE r == Append(q, e)
<1>1. /\ r \in Seq(Entry) /\ Len(r) = Len(q) + 1 /\ Len(q) \in Nat
      /\ DOMAIN r = 1 .. Len(q) + 1 /\ DOMAIN q = 1 .. Len(q)
      /\ r[Len(q) + 1] = e /\ \A i \in 1 .. Len(q) : r[i] = q[i]
  OBVIOUS
<1> HIDE DEF r
<1>2. \A i \in DOMAIN r : i \in DOMAIN q \/ i = Len(q) + 1
  BY <1>1
<1>3. \A i \in DOMAIN q : i \in DOMAIN r /\ r[i] = q[i]
  BY <1>1
<1>4. IsInjective(r)
  BY <1>1, <1>2, <1>3 DEF IsInjective, ToSet
<1>5. ToSet(r) = ToSet(q) \cup {e}
  BY <1>1, <1>2, <1>3 DEF ToSet
<1>6. QED
  BY <1>1, <1>4, <1>5 DEF r

\* One list behind the other.
LEMMA Concatenated ==
    ASSUME NEW a \in Seq(Entry), NEW b \in Seq(Entry)
    PROVE  /\ a \o b \in Seq(Entry) /\ Len(a \o b) = Len(a) + Len(b)
           /\ \A j \in 1 .. Len(a) + Len(b) :
                  (a \o b)[j] = IF j <= Len(a) THEN a[j] ELSE b[j - Len(a)]
OBVIOUS

\* The splice: one entry leaves, the ones behind it move up.
LEMMA Spliced ==
    ASSUME NEW q \in Seq(Entry), IsInjective(q), NEW i \in 1 .. Len(q)
    PROVE  LET r == RemoveAt(q, i)
           IN  /\ r \in Seq(Entry) /\ IsInjective(r) /\ ToSet(r) = ToSet(q) \ {q[i]}
               /\ Len(r) = Len(q) - 1
<1> DEFINE r == RemoveAt(q, i)
           a == SubSeq(q, 1, i - 1)
           b == SubSeq(q, i + 1, Len(q))
<1>1. Len(q) \in Nat /\ i \in Nat /\ 1 <= i /\ i <= Len(q) /\ DOMAIN q = 1 .. Len(q)
  OBVIOUS
<1>2. /\ a \in Seq(Entry) /\ Len(a) = i - 1
      /\ \A j \in 1 .. i - 1 : a[j] = q[j]
  BY <1>1
<1>3. /\ b \in Seq(Entry) /\ Len(b) = Len(q) - i
      /\ \A j \in 1 .. Len(q) - i : b[j] = q[j + i]
  <2> DEFINE n == Len(q)
             c == i + 1
  <2>1. n \in Nat /\ c \in Nat /\ 1 <= c /\ c <= n + 1 /\ b = SubSeq(q, c, n) /\ n = Len(q)
    BY <1>1
  <2> HIDE DEF n, c, b
  <2>2. /\ b \in Seq(Entry) /\ Len(b) = n - c + 1
        /\ \A j \in 1 .. n - c + 1 : b[j] = q[c + j - 1]
    BY <2>1
  <2>3. n - c + 1 = Len(q) - i /\ \A j \in 1 .. n - c + 1 : c + j - 1 = j + i
    BY <1>1 DEF n, c
  <2>4. QED
    BY <2>2, <2>3
<1>4. r = a \o b
  BY DEF RemoveAt
<1> HIDE DEF a, b, r
<1>5. /\ r \in Seq(Entry) /\ Len(r) = Len(q) - 1 /\ DOMAIN r = 1 .. Len(q) - 1
      /\ \A j \in 1 .. Len(q) - 1 : r[j] = IF j < i THEN q[j] ELSE q[j + 1]
  <2>1. /\ r \in Seq(Entry) /\ Len(r) = Len(a) + Len(b)
        /\ \A j \in 1 .. Len(a) + Len(b) : r[j] = IF j <= Len(a) THEN a[j] ELSE b[j - Len(a)]
    BY <1>2, <1>3, <1>4, Concatenated
  <2>2. Len(a) + Len(b) = Len(q) - 1
    BY <1>1, <1>2, <1>3
  <2>3. ASSUME NEW j \in 1 .. Len(q) - 1 PROVE r[j] = IF j < i THEN q[j] ELSE q[j + 1]
    <3>1. CASE j < i
      BY <1>1, <1>2, <2>1, <2>2, <3>1
    <3>2. CASE ~(j < i)
      <4>1. j - (i - 1) \in 1 .. Len(q) - i /\ j - (i - 1) + i = j + 1
        BY <1>1, <3>2
      <4>2. r[j] = b[j - (i - 1)]
        BY <1>1, <1>2, <2>1, <2>2, <3>2
      <4>3. QED
        BY <1>3, <3>2, <4>1, <4>2
    <3>3. QED
      BY <3>1, <3>2
  <2>4. DOMAIN r = 1 .. Len(q) - 1
    BY <2>1, <2>2
  <2>5. QED
    BY <2>1, <2>2, <2>3, <2>4
<1> DEFINE Was(j) == IF j < i THEN j ELSE j + 1
<1>6. \A j \in DOMAIN r : Was(j) \in DOMAIN q /\ Was(j) # i /\ r[j] = q[Was(j)]
  BY <1>1, <1>5
<1>7. \A j, k \in DOMAIN r : Was(j) = Was(k) => j = k
  BY <1>1, <1>5
<1>8. \A m \in DOMAIN q : m # i => \E j \in DOMAIN r : Was(j) = m
  <2> SUFFICES ASSUME NEW m \in DOMAIN q, m # i PROVE \E j \in DOMAIN r : Was(j) = m
    OBVIOUS
  <2>1. CASE m < i
    BY <1>1, <1>5, <2>1
  <2>2. CASE m > i
    <3>1. m - 1 \in DOMAIN r /\ Was(m - 1) = m
      BY <1>1, <1>5, <2>2
    <3>2. QED
      BY <3>1
  <2>3. QED
    BY <1>1, <2>1, <2>2
<1> HIDE DEF Was
<1>9. i \in DOMAIN q
  BY <1>1
<1>10. IsInjective(r)
  BY <1>6, <1>7 DEF IsInjective
<1>11. ToSet(r) = ToSet(q) \ {q[i]}
  BY <1>6, <1>8, <1>9 DEF IsInjective, ToSet
<1>12. QED
  BY <1>5, <1>10, <1>11 DEF r

\* A set of places in a list has a last one.
LEMMA HasLast ==
    ASSUME NEW n \in Nat, NEW S, S \subseteq 1 .. n, S # {}
    PROVE  \E m \in S : \A x \in S : x <= m
<1> DEFINE U(y) == {x \in S : y <= x}
           B == {U(y) : y \in S}
<1>1. IsFiniteSet(S)
  <2>1. IsFiniteSet(1 .. n)
    BY FS_Interval
  <2> DEFINE I == 1 .. n
  <2>2. IsFiniteSet(I) /\ S \in SUBSET I
    BY <2>1
  <2> HIDE DEF I
  <2>3. QED
    BY ONLY <2>2, FS_Subset
<1>2. IsWellFoundedOn(StrictSubsetOrdering(S), SUBSET S)
  BY ONLY <1>1, FS_StrictSubsetOrderingWellFounded, FS_FiniteSubsetsOfFinite
<1>3. B \subseteq SUBSET S /\ B # {}
  OBVIOUS
<1> HIDE DEF B
<1>4. PICK T \in B : \A V \in B : ~(<<V, T>> \in StrictSubsetOrdering(S))
  BY ONLY <1>2, <1>3, WFMin
<1>5. PICK m \in S : T = U(m)
  BY DEF B
<1>6. ASSUME NEW x \in S, ~(x <= m) PROVE FALSE
  <2>1. U(x) \subseteq U(m) /\ m \in U(m) /\ m \notin U(x)
    <3>1. x \in Int /\ m \in Int /\ \A y \in S : y \in Int
      OBVIOUS
    <3>2. m <= m /\ \A y \in S : x <= y => m <= y
      BY ONLY <1>6, <3>1
    <3>3. QED
      BY <1>6, <3>2, Zenon
  <2>2. U(x) \in B /\ <<U(x), U(m)>> \in StrictSubsetOrdering(S)
    BY <2>1 DEF B, StrictSubsetOrdering
  <2>3. QED
    BY <1>4, <1>5, <2>2
<1>7. QED
  BY <1>6
-----------------------------------------------------------------------------
(* Invites: the inductive invariant. *)

PassRec == [st : {"idle", "ask", "dm"}, i : Nat, entry : Entry \cup {None}, seen : SUBSET Entry]

InviteTypes ==
    /\ TypeOK
    /\ pass \in [Proc -> [Slot -> PassRec]] /\ owed \in [Proc -> SUBSET Entry]

\* One pass at a time, under the flag, and the index it holds across the await
\* still points at its entry.
PassOK(p) ==
    /\ \A k \in Slot : pass[p][k] # Idle => delivering[p]
    /\ \A j, k \in Slot : pass[p][j] # Idle /\ pass[p][k] # Idle => j = k
    /\ \A k \in Slot : pass[p][k].st = "dm" =>
         /\ pass[p][k].i \in 1 .. Len(pending[p])
         /\ pending[p][pass[p][k].i] = pass[p][k].entry

\* A process that has ended runs nothing.
OffOK(p) == state[p] = "off" => ~delivering[p] /\ writing[p] = None

\* Lists in the file, or on their way there, repeat nothing either.
NoRepeats ==
    IsInjective(file) /\ \A p \in Proc : writing[p] # None => IsInjective(writing[p].list)

Writes(e, q) == writing[q] # None /\ e \in ToSet(writing[q].list)

\* A write that nobody's has overtaken brings what its process owes, or somebody
\* else is about to.
Fresh(p) ==
    writing[p] # None /\ ~writing[p].stale =>
        \A e \in promised \cap owed[p] :
            e \in ToSet(writing[p].list) \/ \E q \in Proc \ {p} : Writes(e, q)

InviteInv ==
    /\ InviteTypes /\ NoRepeats /\ DeliveredIsRemoved /\ ArmedIsDurable
    /\ \A p \in Proc : PassOK(p) /\ OffOK(p) /\ Fresh(p)

\* Nothing pending and nothing written.
LEMMA InitInviteInv == Init => InviteInv
<1> SUFFICES ASSUME Init PROVE InviteInv
  OBVIOUS
<1>1. InviteTypes
  BY DEF Init, InviteTypes, TypeOK, PassRec, Idle
<1>2. IsInjective(<< >>) /\ ToSet(<< >>) = {}
  BY DEF IsInjective, ToSet
<1>3. NoRepeats /\ DeliveredIsRemoved /\ ArmedIsDurable
  BY <1>2 DEF Init, NoRepeats, DeliveredIsRemoved, ArmedIsDurable
<1>4. ASSUME NEW p \in Proc PROVE PassOK(p) /\ OffOK(p) /\ Fresh(p)
  <2>1. \A k \in Slot : pass[p][k] = Idle
    BY DEF Init
  <2>i. Idle.st # "dm"
    BY DEF Idle
  <2>2. PassOK(p)
    BY <2>1, <2>i DEF PassOK
  <2>3. QED
    BY <2>2 DEF Init, OffOK, Fresh
<1>5. QED
  BY <1>1, <1>3, <1>4 DEF InviteInv

-----------------------------------------------------------------------------
(* Invites: what a step does to the passes of a process. *)

\* The entries of a list keep their places in a longer one.
Extends(q, r) == Len(q) <= Len(r) /\ \A i \in 1 .. Len(q) : r[i] = q[i]

Points(r, list) == r.st = "dm" /\ r.i \in 1 .. Len(list) /\ list[r.i] = r.entry

Stays(p) == /\ pass'[p] = pass[p] /\ delivering'[p] = delivering[p]
            /\ Extends(pending[p], pending'[p])
Begins(p) == /\ ~delivering[p] /\ delivering'[p] = TRUE
             /\ \E k \in Slot : pass'[p] = [pass[p] EXCEPT ![k] = Asks]
GoesOn(p) == \E k \in Slot, r \in PassRec :
                /\ pass[p][k] # Idle /\ pass'[p] = [pass[p] EXCEPT ![k] = r]
                /\ \/ r = Idle
                   \/ Points(r, pending'[p]) /\ delivering'[p] = delivering[p]
Rests(p) == \A k \in Slot : pass'[p][k] = Idle

PassStep(p) == Stays(p) \/ Begins(p) \/ GoesOn(p) \/ Rests(p)

\* The loop over the entries: it ends, or goes on with one of the list.
LEMMA LoopResult ==
    ASSUME InviteTypes, NEW p \in Proc, NEW k \in Slot, NEW list \in Seq(Entry),
           NEW i \in 1 .. Len(list) + 1, NEW seen \in SUBSET Entry, LoopOn(p, k, list, i, seen)
    PROVE  \E r \in PassRec :
              /\ pass' = [pass EXCEPT ![p][k] = r]
              /\ \/ r = Idle /\ delivering' = [delivering EXCEPT ![p] = FALSE]
                 \/ Points(r, list) /\ delivering' = delivering
<1> DEFINE below == {j \in 1 .. i - 1 : list[j] \in seen}
           j == CHOOSE n \in below : \A m \in below : m <= n
           r == [st |-> "dm", i |-> j, entry |-> list[j],
                 seen |-> seen \cap ToSet(SubSeq(list, 1, j - 1))]
<1>1. /\ pass' = [pass EXCEPT ![p][k] = IF below = {} THEN Idle ELSE r]
      /\ delivering' = IF below = {} THEN [delivering EXCEPT ![p] = FALSE] ELSE delivering
  BY DEF LoopOn
<1>2. Idle \in PassRec
  BY DEF Idle, PassRec
<1>3. ASSUME below # {} PROVE r \in PassRec /\ Points(r, list)
  <2>1. i - 1 \in Nat /\ below \subseteq 1 .. i - 1
    OBVIOUS
  <2>2. \E n \in below : \A m \in below : m <= n
    <3> DEFINE b == i - 1
    <3>1. b \in Nat /\ below \subseteq 1 .. b /\ below # {}
      BY <1>3, <2>1
    <3> HIDE DEF b, below
    <3>2. QED
      BY ONLY <3>1, HasLast
  <2>3. j \in below
    BY <2>2
  <2>4. j \in 1 .. Len(list) /\ list[j] \in Entry
    BY <2>3
  <2> HIDE DEF j, below
  <2>5. QED
    BY <2>4 DEF PassRec, Points
<1> HIDE DEF below, r
<1>4. QED
  BY <1>1, <1>2, <1>3
\* A poll begins a pass or does nothing.
LEMMA PollResult ==
    ASSUME InviteTypes, NEW p \in Proc, NEW list, Polls(p, list)
    PROVE  \/ UNCHANGED <<delivering, pass>>
           \/ /\ ~delivering[p] /\ delivering' = [delivering EXCEPT ![p] = TRUE]
              /\ \E k \in Slot : pass' = [pass EXCEPT ![p][k] = Asks]
<1>1. CASE list = << >> \/ Busy(p) \/ state'[p] # "up"
  BY <1>1 DEF Polls
<1>2. CASE ~(list = << >> \/ Busy(p) \/ state'[p] # "up")
  <2> DEFINE k == CHOOSE k \in Slot : pass[p][k] = Idle
  <2>1. /\ \E j \in Slot : pass[p][j] = Idle
        /\ pass' = [pass EXCEPT ![p][k] = Asks]
        /\ delivering' = [delivering EXCEPT ![p] = TRUE]
    BY <1>2 DEF Polls
  <2>2. k \in Slot
    BY <2>1
  <2> HIDE DEF k
  <2>3. QED
    BY <1>2, <2>1, <2>2 DEF Busy
<1>3. QED
  BY <1>1, <1>2

\* The types as facts about one process.
LEMMA ProcessTypes ==
    ASSUME InviteTypes, NEW p \in Proc
    PROVE  /\ pending[p] \in Seq(Entry) /\ delivering[p] \in BOOLEAN /\ owed[p] \in SUBSET Entry
           /\ pass[p] \in [Slot -> PassRec] /\ state[p] \in {"off", "on", "up"}
           /\ writing[p] # None => writing[p] \in [list : Seq(Entry), stale : BOOLEAN]
           /\ Len(pending[p]) \in Nat /\ DOMAIN pending[p] = 1 .. Len(pending[p])
           /\ Extends(pending[p], pending[p])
BY DEF InviteTypes, TypeOK, Extends

\* A pass that goes on, as one process sees it.
LEMMA LoopStep ==
    ASSUME InviteTypes, NEW p \in Proc, NEW k \in Slot, pass[p][k] # Idle,
           pending' \in [Proc -> Seq(Entry)],
           NEW i \in 1 .. Len(pending'[p]) + 1, NEW seen \in SUBSET Entry,
           LoopOn(p, k, pending'[p], i, seen)
    PROVE  /\ GoesOn(p)
           /\ pass' \in [Proc -> [Slot -> PassRec]] /\ delivering' \in [Proc -> BOOLEAN]
           /\ \A q \in Proc \ {p} : pass'[q] = pass[q] /\ delivering'[q] = delivering[q]
<1>1. PICK r \in PassRec :
              /\ pass' = [pass EXCEPT ![p][k] = r]
              /\ \/ r = Idle /\ delivering' = [delivering EXCEPT ![p] = FALSE]
                 \/ Points(r, pending'[p]) /\ delivering' = delivering
  <2>1. pending'[p] \in Seq(Entry)
    OBVIOUS
  <2>2. QED
    BY <2>1, LoopResult
<1>2. pass \in [Proc -> [Slot -> PassRec]] /\ delivering \in [Proc -> BOOLEAN]
  BY DEF InviteTypes, TypeOK
<1>3. /\ pass'[p] = [pass[p] EXCEPT ![k] = r] /\ \A q \in Proc \ {p} : pass'[q] = pass[q]
      /\ pass' \in [Proc -> [Slot -> PassRec]]
  <2> DEFINE row == [pass[p] EXCEPT ![k] = r]
  <2>1. pass' = [pass EXCEPT ![p] = row] /\ row \in [Slot -> PassRec]
    BY <1>1, <1>2
  <2> HIDE DEF row
  <2>2. pass'[p] = row /\ pass' \in [Proc -> [Slot -> PassRec]] /\ \A q \in Proc \ {p} : pass'[q] = pass[q]
    BY <1>2, <2>1
  <2>3. QED
    BY <2>2 DEF row
<1>4. delivering' \in [Proc -> BOOLEAN] /\ \A q \in Proc \ {p} : delivering'[q] = delivering[q]
  <2>1. delivering' = delivering \/ delivering' = [delivering EXCEPT ![p] = FALSE]
    BY <1>1
  <2>2. QED
    BY ONLY <1>2, <2>1
<1>5. r = Idle \/ (Points(r, pending'[p]) /\ delivering'[p] = delivering[p])
  <2>1. delivering' = delivering => delivering'[p] = delivering[p]
    OBVIOUS
  <2>2. r = Idle \/ (Points(r, pending'[p]) /\ delivering' = delivering)
    BY <1>1, Zenon
  <2>3. QED
    BY ONLY <2>1, <2>2, Zenon
<1>6. QED
  BY <1>3, <1>4, <1>5 DEF GoesOn

\* What a step leaves: types of what the passes use, and the passes themselves.
PassTypes ==
    /\ pass' \in [Proc -> [Slot -> PassRec]] /\ delivering' \in [Proc -> BOOLEAN]
    /\ pending' \in [Proc -> Seq(Entry)]

\* A process that another one's step leaves alone.
Untouched(q) == pass'[q] = pass[q] /\ delivering'[q] = delivering[q] /\ pending'[q] = pending[q]

\* Every step treats the passes of every process in one of these ways.
LEMMA PassSteps ==
    ASSUME InviteInv, [Next]_vars
    PROVE  PassTypes /\ \A q \in Proc : PassStep(q)
<1>t. InviteTypes /\ \A q \in Proc : PassOK(q) /\ OffOK(q)
  BY DEF InviteInv
<1>e. /\ pass \in [Proc -> [Slot -> PassRec]] /\ delivering \in [Proc -> BOOLEAN]
      /\ pending \in [Proc -> Seq(Entry)]
  BY <1>t DEF InviteTypes, TypeOK
<1>s. \A q \in Proc : Untouched(q) => PassStep(q)
  BY <1>t, ProcessTypes DEF Untouched, PassStep, Stays
<1>u. ASSUME UNCHANGED <<pass, delivering, pending>>
      PROVE  PassTypes /\ \A q \in Proc : PassStep(q)
  BY <1>e, <1>s, <1>u DEF PassTypes, Untouched
<1>f. ASSUME NEW p \in Proc, PassTypes, PassStep(p), \A q \in Proc \ {p} : Untouched(q)
      PROVE  PassTypes /\ \A q \in Proc : PassStep(q)
  BY <1>f, <1>s
<1>1. CASE UNCHANGED vars
  BY <1>1, <1>u DEF vars, memory
<1>2. ASSUME NEW p \in Proc, PersistOther(p) \/ Written(p) \/ Drop(p)
      PROVE  PassTypes /\ \A q \in Proc : PassStep(q)
  BY <1>2, <1>u DEF PersistOther, Written, Drop, memory
<1>3. ASSUME NEW p \in Proc, Crash(p)
      PROVE  PassTypes /\ \A q \in Proc : PassStep(q)
  <2>1. /\ pass' = [pass EXCEPT ![p] = [k \in Slot |-> Idle]]
        /\ delivering' = [delivering EXCEPT ![p] = FALSE] /\ pending' = [pending EXCEPT ![p] = << >>]
    BY <1>3 DEF Crash
  <2>2. Idle \in PassRec /\ << >> \in Seq(Entry)
    BY DEF Idle, PassRec
  <2>3. PassTypes /\ \A q \in Proc \ {p} : Untouched(q)
    BY <1>e, <2>1, <2>2 DEF PassTypes, Untouched
  <2>4. PassStep(p)
    BY <1>e, <2>1 DEF PassStep, Rests
  <2>5. QED
    BY <1>f, <2>3, <2>4
<1>4. ASSUME NEW p \in Proc, Start(p)
      PROVE  PassTypes /\ \A q \in Proc : PassStep(q)
  <2>1. PICK list \in Readable(p) : pending' = [pending EXCEPT ![p] = list]
    BY <1>4 DEF Start
  <2>2. list \in Seq(Entry)
    <3>1. list = file \/ list = << >>
      BY <2>1 DEF Readable
    <3>2. file \in Seq(Entry) /\ << >> \in Seq(Entry)
      BY <1>t DEF InviteTypes, TypeOK
    <3>3. QED
      BY ONLY <3>1, <3>2, Zenon
  <2>3. pass' = pass /\ delivering' = delivering /\ state[p] = "off"
    BY <1>4 DEF Start
  <2>4. PassTypes /\ \A q \in Proc \ {p} : Untouched(q)
    BY <1>e, <2>1, <2>2, <2>3 DEF PassTypes, Untouched
  <2>5. Rests(p)
    BY <1>t, <2>3 DEF Rests, PassOK, OffOK
  <2>6. QED
    BY <1>f, <2>4, <2>5 DEF PassStep
<1>5. ASSUME NEW p \in Proc, NEW list, Polls(p, list), pending' \in [Proc -> Seq(Entry)],
             Extends(pending[p], pending'[p]), \A q \in Proc \ {p} : pending'[q] = pending[q]
      PROVE  PassTypes /\ \A q \in Proc : PassStep(q)
  <2>1. CASE UNCHANGED <<delivering, pass>>
    <3>1. Stays(p) /\ PassTypes /\ \A q \in Proc \ {p} : Untouched(q)
      BY <1>e, <1>5, <2>1 DEF Stays, PassTypes, Untouched
    <3>2. QED
      BY <1>f, <3>1 DEF PassStep
  <2>2. CASE /\ ~delivering[p] /\ delivering' = [delivering EXCEPT ![p] = TRUE]
             /\ \E k \in Slot : pass' = [pass EXCEPT ![p][k] = Asks]
    <3>1. PICK k \in Slot : pass' = [pass EXCEPT ![p][k] = Asks]
      BY <2>2
    <3>2. Asks \in PassRec
      BY DEF Asks, Idle, PassRec
    <3>3. PassTypes /\ \A q \in Proc \ {p} : Untouched(q)
      BY <1>e, <1>5, <2>2, <3>1, <3>2 DEF PassTypes, Untouched
    <3>4. Begins(p)
      BY <1>e, <2>2, <3>1 DEF Begins
    <3>5. QED
      BY <1>f, <3>3, <3>4 DEF PassStep
  <2>3. QED
    BY <1>5, <1>t, <2>1, <2>2, PollResult
<1>6. ASSUME NEW p \in Proc, Poll(p) \/ Welcome(p) \/ \E e \in Entry : ArmAgain(p, e)
      PROVE  PassTypes /\ \A q \in Proc : PassStep(q)
  <2>1. Polls(p, pending[p]) /\ pending' = pending
    BY <1>6 DEF Poll, Welcome, ArmAgain
  <2>2. QED
    BY <1>e, <1>t, <1>5, <2>1, ProcessTypes
<1>7. ASSUME NEW p \in Proc, NEW e \in Entry, Arm(p, e)
      PROVE  PassTypes /\ \A q \in Proc : PassStep(q)
  <2> DEFINE list == Append(pending[p], e)
  <2>1. Polls(p, list) /\ pending' = [pending EXCEPT ![p] = list] /\ e \notin ToSet(pending[p])
    BY <1>7 DEF Arm
  <2>2. /\ list \in Seq(Entry) /\ Extends(pending[p], list)
    <3>1. pending[p] \in Seq(Entry) /\ IsInjective(pending[p])
      BY <1>e DEF InviteInv, DeliveredIsRemoved
    <3>2. QED
      BY <2>1, <3>1, Appended DEF Extends
  <2> HIDE DEF list
  <2>3. /\ pending' \in [Proc -> Seq(Entry)] /\ pending'[p] = list
        /\ \A q \in Proc \ {p} : pending'[q] = pending[q]
    BY <1>e, <2>1, <2>2
  <2>4. QED
    BY <1>5, <2>1, <2>2, <2>3
<1>8. ASSUME NEW p \in Proc, NEW k \in Slot, pass[p][k] # Idle,
             pending' \in [Proc -> Seq(Entry)], \A q \in Proc \ {p} : pending'[q] = pending[q],
             NEW i \in 1 .. Len(pending'[p]) + 1, NEW seen \in SUBSET Entry,
             LoopOn(p, k, pending'[p], i, seen)
      PROVE  PassTypes /\ \A q \in Proc : PassStep(q)
  <2>1. /\ GoesOn(p)
        /\ pass' \in [Proc -> [Slot -> PassRec]] /\ delivering' \in [Proc -> BOOLEAN]
        /\ \A q \in Proc \ {p} : pass'[q] = pass[q] /\ delivering'[q] = delivering[q]
    BY <1>t, <1>8, LoopStep
  <2>2. PassTypes /\ PassStep(p) /\ \A q \in Proc \ {p} : Untouched(q)
    BY <1>8, <2>1 DEF PassTypes, PassStep, Untouched
  <2>3. QED
    BY <1>f, <2>2
<1>9. ASSUME NEW p \in Proc, NEW k \in Slot, NEW online \in SUBSET Entry, Snapshot(p, k, online)
      PROVE  PassTypes /\ \A q \in Proc : PassStep(q)
  <2>1. /\ pass[p][k] = Asks /\ pending' = pending
        /\ LoopOn(p, k, pending[p], Len(pending[p]) + 1, online)
    BY <1>9 DEF Snapshot
  <2>2. pass[p][k] # Idle
    BY <2>1 DEF Asks, Idle
  <2>3. Len(pending[p]) + 1 \in 1 .. Len(pending[p]) + 1
    BY <1>t, ProcessTypes
  <2>4. QED
    BY <1>e, <1>8, <2>1, <2>2, <2>3
<1>10. ASSUME NEW p \in Proc, NEW k \in Slot, NoSnapshot(p, k)
       PROVE  PassTypes /\ \A q \in Proc : PassStep(q)
  <2>1. /\ pass[p][k] = Asks /\ pending' = pending
        /\ pass' = [pass EXCEPT ![p][k] = Idle] /\ delivering' = [delivering EXCEPT ![p] = FALSE]
    BY <1>10 DEF NoSnapshot, Released
  <2>2. pass[p][k] # Idle /\ Idle \in PassRec
    BY <2>1 DEF Asks, Idle, PassRec
  <2>3. PassTypes /\ \A q \in Proc \ {p} : Untouched(q)
    BY <1>e, <2>1, <2>2 DEF PassTypes, Untouched
  <2>4. pass'[p] = [pass[p] EXCEPT ![k] = Idle]
    BY <1>e, <2>1
  <2>5. GoesOn(p)
    BY <2>2, <2>4 DEF GoesOn
  <2>6. QED
    BY <1>f, <2>3, <2>5 DEF PassStep
<1>11. ASSUME NEW p \in Proc, NEW k \in Slot, NotInvited(p, k)
       PROVE  PassTypes /\ \A q \in Proc : PassStep(q)
  <2>1. /\ pass[p][k].st = "dm" /\ pending' = pending
        /\ LoopOn(p, k, pending[p], pass[p][k].i, pass[p][k].seen)
    BY <1>11 DEF NotInvited, Inviting
  <2>2. pass[p][k] # Idle
    BY <2>1 DEF Idle
  <2>3. pass[p][k].i \in 1 .. Len(pending[p]) /\ Len(pending[p]) \in Nat
    BY <1>t, <2>1, ProcessTypes DEF PassOK
  <2>4. pass[p][k].i \in 1 .. Len(pending[p]) + 1
    BY <2>3
  <2>5. pass[p][k].seen \in SUBSET Entry
    BY <1>e DEF PassRec
  <2>6. QED
    BY <1>e, <1>8, <2>1, <2>2, <2>4, <2>5
<1>12. ASSUME NEW p \in Proc, NEW k \in Slot, Invited(p, k)
       PROVE  PassTypes /\ \A q \in Proc : PassStep(q)
  <2> DEFINE i == pass[p][k].i
             left == RemoveAt(pending[p], i)
  <2>1. /\ pass[p][k].st = "dm" /\ pending' = [pending EXCEPT ![p] = left]
        /\ LoopOn(p, k, left, i, pass[p][k].seen)
    BY <1>12 DEF Invited, Inviting
  <2>2. pass[p][k] # Idle
    BY <2>1 DEF Idle
  <2>3. /\ i \in 1 .. Len(pending[p]) /\ Len(pending[p]) \in Nat /\ pending[p] \in Seq(Entry)
        /\ IsInjective(pending[p])
    BY <1>t, <2>1, ProcessTypes DEF PassOK, InviteInv, DeliveredIsRemoved
  <2> HIDE DEF i
  <2>4. left \in Seq(Entry) /\ Len(left) = Len(pending[p]) - 1
    BY <2>3, Spliced
  <2>5. i \in 1 .. Len(left) + 1
    BY <2>3, <2>4
  <2>6. pass[p][k].seen \in SUBSET Entry
    BY <1>e DEF PassRec
  <2> HIDE DEF left
  <2>7. /\ pending' \in [Proc -> Seq(Entry)] /\ pending'[p] = left
        /\ \A q \in Proc \ {p} : pending'[q] = pending[q]
    BY <1>e, <2>1, <2>4
  <2>8. QED
    BY <1>8, <2>1, <2>2, <2>5, <2>6, <2>7
<1>13. QED
  BY <1>1, <1>2, <1>3, <1>4, <1>6, <1>7, <1>9, <1>10, <1>11, <1>12 DEF Next

\* A pass stays one, under the flag, and its index keeps pointing at its entry.
LEMMA StepPassOK ==
    ASSUME InviteInv, [Next]_vars, NEW p \in Proc
    PROVE  PassOK(p)'
<1>1. PassTypes /\ PassStep(p)
  BY PassSteps
<1>2. PassOK(p) /\ InviteTypes
  BY DEF InviteInv
<1>3. /\ pass[p] \in [Slot -> PassRec] /\ pass'[p] \in [Slot -> PassRec]
      /\ pending[p] \in Seq(Entry) /\ delivering[p] \in BOOLEAN /\ delivering'[p] \in BOOLEAN
  BY <1>1, <1>2, ProcessTypes DEF PassTypes
<1>4. Idle.st # "dm" /\ Asks.st # "dm"
  BY DEF Idle, Asks
<1>5. CASE Stays(p)
  BY <1>2, <1>3, <1>5 DEF Stays, Extends, PassOK
<1>6. CASE Begins(p)
  BY <1>2, <1>3, <1>4, <1>6 DEF Begins, PassOK
<1>7. CASE GoesOn(p)
  BY <1>2, <1>3, <1>4, <1>7 DEF GoesOn, Points, PassOK
<1>8. CASE Rests(p)
  BY <1>4, <1>8 DEF Rests, PassOK
<1>9. QED
  BY <1>1, <1>5, <1>6, <1>7, <1>8 DEF PassStep
-----------------------------------------------------------------------------
(* Invites: the file, the writes and the lists. *)

\* A write under way keeps its list when another one ends.
LEMMA WritesAfter ==
    ASSUME InviteTypes, NEW p \in Proc, EndsWrite(p)
    PROVE  /\ writing' \in [Proc -> [list : Seq(Entry), stale : BOOLEAN] \cup {None}]
           /\ writing'[p] = None
           /\ \A q \in Proc \ {p} :
                 /\ writing[q] = None <=> writing'[q] = None
                 /\ writing[q] # None => /\ writing'[q].list = writing[q].list
                                         /\ writing'[q].stale = (writing[p] # None \/ writing[q].stale)
<1>1. writing' = [q \in Proc |-> IF q = p \/ writing[q] = None THEN None
                                 ELSE [writing[q] EXCEPT !.stale = writing[p] # None \/ @]]
  BY DEF EndsWrite
<1>2. ASSUME NEW q \in Proc, q # p, writing[q] # None
      PROVE  /\ writing'[q] \in [list : Seq(Entry), stale : BOOLEAN]
             /\ writing'[q].list = writing[q].list
             /\ writing'[q].stale = (writing[p] # None \/ writing[q].stale)
  <2> DEFINE b == writing[p] # None \/ writing[q].stale
  <2>1. writing[q] \in [list : Seq(Entry), stale : BOOLEAN] /\ b \in BOOLEAN
    BY <1>2, ProcessTypes
  <2>2. writing'[q] = [writing[q] EXCEPT !.stale = b]
    BY <1>1, <1>2
  <2> HIDE DEF b
  <2>3. QED
    BY <2>1, <2>2 DEF b
<1>3. ASSUME NEW q \in Proc, q # p, writing[q] # None PROVE writing'[q] # None
  BY <1>2, <1>3, NoneIsNoWrite
<1>4. \A q \in Proc : q = p \/ writing[q] = None => writing'[q] = None
  BY <1>1
<1>5. writing' = [q \in Proc |-> writing'[q]]
  BY <1>1
<1>6. QED
  BY <1>2, <1>3, <1>4, <1>5

\* The entries of p's list, what p owes and what p writes, whatever p does; and
\* what the step leaves alone.
Lists(p) ==
    /\ writing' \in [Proc -> [list : Seq(Entry), stale : BOOLEAN] \cup {None}]
    /\ \A q \in Proc \ {p} : pending'[q] = pending[q] /\ owed'[q] = owed[q] /\ state'[q] = state[q]
    /\ owed' \in [Proc -> SUBSET Entry] /\ state' \in [Proc -> {"off", "on", "up"}]
    /\ promised' \in SUBSET Entry
    /\ IsInjective(pending'[p]) /\ ToSet(pending'[p]) = owed'[p]

\* p begins to write the list l, and nobody's write ends.
NewWrite(p, l) ==
    /\ writing[p] = None /\ writing' = [writing EXCEPT ![p] = [list |-> l, stale |-> FALSE]]
    /\ l \in Seq(Entry) /\ IsInjective(l) /\ file' = file /\ state[p] # "off" /\ state'[p] # "off"

\* What a step of p does to the file.
Armed(p) == \E e \in Entry : /\ promised' = promised \cup {e} /\ e \in owed'[p]
                             /\ \E l \in Seq(Entry) : NewWrite(p, l) /\ ToSet(l) = owed'[p]
Sent(p) == /\ promised' \subseteq promised
           /\ \E l \in Seq(Entry) : NewWrite(p, l) /\ ToSet(l) = owed'[p]
Copied(p) == /\ owed' = owed
             /\ \/ NewWrite(p, file) /\ promised' = promised
                \/ NewWrite(p, << >>) /\ promised' = {}
Ended(p) == /\ writing[p] # None /\ file' = writing[p].list /\ EndsWrite(p)
            /\ owed' = owed /\ state' = state
            /\ promised' = IF writing[p].stale THEN promised \cap ToSet(file')
                           ELSE promised \cap (ToSet(file') \cup owed[p])
Died(p) == /\ EndsWrite(p) /\ state'[p] = "off"
           /\ IF writing[p] = None THEN file' = file /\ promised' = promised
              ELSE file' \in {file, writing[p].list, << >>} /\ promised' = promised \cap ToSet(file')
Elsewhere(p) == /\ file' = file /\ writing' = writing /\ promised' = promised
                /\ writing[p] = None /\ state'[p] # "off"

FileStep(p) == Armed(p) \/ Sent(p) \/ Copied(p) \/ Ended(p) \/ Died(p) \/ Elsewhere(p)

\* The step of a process that runs changes the file as one of these.
LEMMA FileSteps ==
    ASSUME InviteInv, Next
    PROVE  \E p \in Proc : Lists(p) /\ FileStep(p)
<1>t. InviteTypes /\ NoRepeats
  BY DEF InviteInv
<1>e. /\ pending \in [Proc -> Seq(Entry)] /\ owed \in [Proc -> SUBSET Entry]
      /\ state \in [Proc -> {"off", "on", "up"}] /\ promised \in SUBSET Entry
      /\ writing \in [Proc -> [list : Seq(Entry), stale : BOOLEAN] \cup {None}]
      /\ file \in Seq(Entry)
  BY <1>t DEF InviteTypes, TypeOK
<1>d. \A p \in Proc : IsInjective(pending[p]) /\ ToSet(pending[p]) = owed[p]
  BY DEF InviteInv, DeliveredIsRemoved
<1>n. \A l \in Seq(Entry) : [list |-> l, stale |-> FALSE] \in [list : Seq(Entry), stale : BOOLEAN]
  OBVIOUS
<1>z. << >> \in Seq(Entry) /\ IsInjective(<< >>) /\ ToSet(<< >>) = {}
  BY DEF IsInjective, ToSet
<1>1. ASSUME NEW p \in Proc, PersistOther(p) PROVE Lists(p) /\ FileStep(p)
  <2>1. PICK l \in Readable(p) :
          /\ writing' = [writing EXCEPT ![p] = [list |-> l, stale |-> FALSE]]
          /\ promised' = IF l = file THEN promised ELSE {}
    BY <1>1 DEF PersistOther, Persist, Merged
  <2>2. writing[p] = None /\ state[p] # "off" /\ UNCHANGED <<file, state, pending, owed>>
    BY <1>1 DEF PersistOther, Runs, memory
  <2>3. l = file \/ l = << >>
    BY <2>1 DEF Readable
  <2>4. \/ NewWrite(p, file) /\ promised' = promised
        \/ NewWrite(p, << >>) /\ promised' = {}
    <3>1. CASE l = file
      <4>1. promised' = promised /\ writing' = [writing EXCEPT ![p] = [list |-> file, stale |-> FALSE]]
        BY <2>1, <3>1
      <4>2. file \in Seq(Entry) /\ IsInjective(file)
        BY <1>e, <1>t DEF NoRepeats
      <4>3. file' = file /\ state'[p] # "off" /\ state[p] # "off" /\ writing[p] = None
        BY <2>2
      <4>4. NewWrite(p, file)
        BY ONLY <4>1, <4>2, <4>3, Zenon DEF NewWrite
      <4>5. QED
        BY <4>1, <4>4
    <3>2. CASE l = << >> /\ l # file
      BY <1>z, <2>1, <2>2, <3>2 DEF NewWrite
    <3>3. QED
      BY <2>3, <3>1, <3>2
  <2>5. l \in Seq(Entry)
    BY ONLY <1>e, <1>z, <2>3, Zenon
  <2>6. Lists(p)
    <3>1. writing' \in [Proc -> [list : Seq(Entry), stale : BOOLEAN] \cup {None}]
      BY <1>e, <1>n, <2>1, <2>5
    <3>2. promised' \in SUBSET Entry
      BY <1>e, <2>1
    <3>3. QED
      BY <1>e, <1>d, <2>2, <3>1, <3>2 DEF Lists
  <2>7. QED
    BY <2>2, <2>4, <2>6 DEF FileStep, Copied
<1>2. ASSUME NEW p \in Proc, Written(p) PROVE Lists(p) /\ FileStep(p)
  <2>1. Ended(p) /\ pending' = pending
    BY <1>2 DEF Written, Ended, memory
  <2>2. writing' \in [Proc -> [list : Seq(Entry), stale : BOOLEAN] \cup {None}]
    BY <1>t, <2>1, WritesAfter DEF Ended
  <2>3. promised' \in SUBSET Entry
    BY <1>e, <2>1 DEF Ended
  <2>4. QED
    BY <1>e, <1>d, <2>1, <2>2, <2>3 DEF Lists, Ended, FileStep
<1>3. ASSUME NEW p \in Proc, Crash(p) PROVE Lists(p) /\ FileStep(p)
  <2>1. /\ EndsWrite(p) /\ state' = [state EXCEPT ![p] = "off"]
        /\ pending' = [pending EXCEPT ![p] = << >>] /\ owed' = [owed EXCEPT ![p] = {}]
    BY <1>3 DEF Crash
  <2>2. IF writing[p] = None THEN file' = file /\ promised' = promised
        ELSE file' \in {file, writing[p].list, << >>} /\ promised' = promised \cap ToSet(file')
    BY <1>3 DEF Crash
  <2>3. Died(p)
    BY <1>e, <2>1, <2>2 DEF Died
  <2>4. writing' \in [Proc -> [list : Seq(Entry), stale : BOOLEAN] \cup {None}]
    BY <1>t, <2>1, WritesAfter
  <2>5. promised' \in SUBSET Entry
    BY <1>e, <2>2
  <2>6. Lists(p)
    BY <1>e, <1>z, <2>1, <2>4, <2>5 DEF Lists
  <2>7. QED
    BY <2>3, <2>6 DEF FileStep
<1>4. ASSUME NEW p \in Proc, Start(p) PROVE Lists(p) /\ FileStep(p)
  <2>1. PICK l \in Readable(p) : pending' = [pending EXCEPT ![p] = l] /\ owed' = [owed EXCEPT ![p] = ToSet(l)]
    BY <1>4 DEF Start
  <2>2. l = file \/ l = << >>
    BY <2>1 DEF Readable
  <2>3. l \in Seq(Entry) /\ IsInjective(l)
    BY ONLY <1>e, <1>t, <1>z, <2>2, Zenon DEF NoRepeats
  <2>4. ToSet(l) \in SUBSET Entry
    BY <2>3 DEF ToSet
  <2>5. /\ state[p] = "off" /\ state' = [state EXCEPT ![p] = "on"]
        /\ UNCHANGED <<file, writing, promised>>
    BY <1>4 DEF Start
  <2>6. writing[p] = None
    BY <2>5 DEF InviteInv, OffOK
  <2>7. Elsewhere(p)
    BY <1>e, <2>5, <2>6 DEF Elsewhere
  <2>8. Lists(p)
    BY <1>e, <2>1, <2>3, <2>4, <2>5 DEF Lists
  <2>9. QED
    BY <2>7, <2>8 DEF FileStep
<1>5. ASSUME NEW p \in Proc,
             \/ Poll(p) \/ Welcome(p) \/ Drop(p) \/ \E e \in Entry : ArmAgain(p, e)
             \/ \E k \in Slot : NoSnapshot(p, k) \/ NotInvited(p, k)
             \/ \E k \in Slot, online \in SUBSET Entry : Snapshot(p, k, online)
      PROVE  Lists(p) /\ FileStep(p)
  <2>1. /\ UNCHANGED <<file, writing, pending, owed, promised>>
        /\ writing[p] = None /\ state[p] # "off"
        /\ \/ state' = state \/ state' = [state EXCEPT ![p] = "up"]
           \/ state' = [state EXCEPT ![p] = "on"]
    BY <1>5 DEF Poll, Welcome, Drop, ArmAgain, NoSnapshot, NotInvited, Snapshot, Runs, memory
  <2>2. /\ state' \in [Proc -> {"off", "on", "up"}] /\ state'[p] # "off"
        /\ \A q \in Proc \ {p} : state'[q] = state[q]
    BY <1>e, <2>1
  <2>3. QED
    BY <1>e, <1>d, <2>1, <2>2 DEF Lists, FileStep, Elsewhere
<1>6. ASSUME NEW p \in Proc, NEW e \in Entry, Arm(p, e) PROVE Lists(p) /\ FileStep(p)
  <2> DEFINE l == Append(pending[p], e)
  <2>1. /\ writing[p] = None /\ state[p] = "up" /\ e \notin ToSet(pending[p]) /\ state' = state
        /\ pending' = [pending EXCEPT ![p] = l]
        /\ writing' = [writing EXCEPT ![p] = [list |-> l, stale |-> FALSE]]
        /\ owed' = [owed EXCEPT ![p] = @ \cup {e}]
        /\ promised' = promised \cup {e} /\ file' = file
    BY <1>6 DEF Arm, Runs, Persist
  <2>2. l \in Seq(Entry) /\ IsInjective(l) /\ ToSet(l) = ToSet(pending[p]) \cup {e}
    <3>1. pending[p] \in Seq(Entry) /\ IsInjective(pending[p])
      BY <1>e, <1>d
    <3>2. QED
      BY <2>1, <3>1, Appended
  <2> HIDE DEF l
  <2>3. owed'[p] = owed[p] \cup {e} /\ owed' \in [Proc -> SUBSET Entry] /\ pending'[p] = l
    BY <1>e, <2>1
  <2>4. ToSet(l) = owed'[p]
    BY <1>d, <2>2, <2>3
  <2>5. NewWrite(p, l)
    BY <1>e, <2>1, <2>2 DEF NewWrite
  <2>6. writing' \in [Proc -> [list : Seq(Entry), stale : BOOLEAN] \cup {None}]
    BY <1>e, <1>n, <2>1, <2>2
  <2>7. Lists(p)
    BY <1>e, <2>1, <2>2, <2>3, <2>4, <2>6 DEF Lists
  <2>8. QED
    BY <2>1, <2>2, <2>3, <2>4, <2>5, <2>7 DEF FileStep, Armed
<1>7. ASSUME NEW p \in Proc, NEW k \in Slot, Invited(p, k) PROVE Lists(p) /\ FileStep(p)
  <2> DEFINE i == pass[p][k].i
             l == RemoveAt(pending[p], i)
             e == pass[p][k].entry
  <2>1. /\ writing[p] = None /\ state[p] = "up" /\ state' = state /\ pass[p][k].st = "dm"
        /\ pending' = [pending EXCEPT ![p] = l]
        /\ writing' = [writing EXCEPT ![p] = [list |-> l, stale |-> FALSE]]
        /\ owed' = [owed EXCEPT ![p] = @ \ {e}]
        /\ promised' = promised \ {e} /\ file' = file
    BY <1>7 DEF Invited, Inviting, Runs, Persist
  <2>2. i \in 1 .. Len(pending[p]) /\ pending[p][i] = e
    BY <2>1 DEF InviteInv, PassOK
  <2>3. l \in Seq(Entry) /\ IsInjective(l) /\ ToSet(l) = ToSet(pending[p]) \ {e}
    <3>1. pending[p] \in Seq(Entry) /\ IsInjective(pending[p])
      BY <1>e, <1>d
    <3> HIDE DEF i, e
    <3>2. QED
      BY <2>2, <3>1, Spliced
  <2> HIDE DEF l, e, i
  <2>4. owed'[p] = owed[p] \ {e} /\ owed' \in [Proc -> SUBSET Entry] /\ pending'[p] = l
    BY <1>e, <2>1
  <2>5. ToSet(l) = owed'[p]
    BY <1>d, <2>3, <2>4
  <2>6. NewWrite(p, l)
    BY <1>e, <2>1, <2>3 DEF NewWrite
  <2>7. writing' \in [Proc -> [list : Seq(Entry), stale : BOOLEAN] \cup {None}]
    BY <1>e, <1>n, <2>1, <2>3
  <2>8. Lists(p)
    BY <1>e, <2>1, <2>3, <2>4, <2>5, <2>7 DEF Lists
  <2>9. QED
    BY <2>1, <2>3, <2>5, <2>6, <2>8 DEF FileStep, Sent
<1>8. QED
  BY <1>1, <1>2, <1>3, <1>4, <1>5, <1>6, <1>7 DEF Next
\* Types.
LEMMA StepInviteTypes ==
    ASSUME InviteInv, [Next]_vars, NEW p \in Proc, Lists(p), FileStep(p)
    PROVE  InviteTypes'
<1>1. PassTypes
  BY PassSteps
<1>2. InviteTypes
  BY DEF InviteInv
<1>3. file' \in Seq(Entry)
  <2>1. file \in Seq(Entry) /\ << >> \in Seq(Entry)
    BY <1>2 DEF InviteTypes, TypeOK
  <2>2. writing[p] # None => writing[p].list \in Seq(Entry)
    BY <1>2, ProcessTypes
  <2>3. \/ file' = file \/ file' = << >>
        \/ writing[p] # None /\ file' = writing[p].list
    BY DEF FileStep, Armed, Sent, Copied, NewWrite, Ended, Died, Elsewhere
  <2>4. QED
    BY ONLY <2>1, <2>2, <2>3, Zenon
<1>4. QED
  BY <1>1, <1>3 DEF PassTypes, Lists, InviteTypes, TypeOK

\* A write that begins: its list, and the other writes as they were.
LEMMA NewWrites ==
    ASSUME InviteTypes, NEW p \in Proc, NEW l, NewWrite(p, l)
    PROVE  /\ writing'[p] # None /\ writing'[p].list = l /\ writing'[p].stale = FALSE
           /\ \A q \in Proc \ {p} : writing'[q] = writing[q]
           /\ \A e : Writes(e, p)' <=> e \in ToSet(l)
           /\ \A q \in Proc : \A e : Writes(e, q) => Writes(e, q)'
<1>1. /\ writing \in [Proc -> [list : Seq(Entry), stale : BOOLEAN] \cup {None}]
      /\ l \in Seq(Entry)
  BY DEF InviteTypes, TypeOK, NewWrite
<1>2. [list |-> l, stale |-> FALSE] \in [list : Seq(Entry), stale : BOOLEAN]
  BY <1>1
<1>3. [list |-> l, stale |-> FALSE] # None
  BY <1>2, NoneIsNoWrite
<1>4. writing'[p] = [list |-> l, stale |-> FALSE] /\ \A q \in Proc \ {p} : writing'[q] = writing[q]
  BY <1>1 DEF NewWrite
<1>5. writing'[p] # None /\ writing'[p].list = l /\ writing'[p].stale = FALSE
  BY <1>3, <1>4
<1>6. \A e : Writes(e, p)' <=> e \in ToSet(l)
  BY <1>5 DEF Writes
<1>7. \A q \in Proc : \A e : Writes(e, q) => Writes(e, q)'
  BY <1>4 DEF Writes, NewWrite
<1>8. QED
  BY <1>4, <1>5, <1>6, <1>7

\* Lists repeat nothing, and each holds what its process owes.
LEMMA StepLists ==
    ASSUME InviteInv, NEW p \in Proc, Lists(p), FileStep(p)
    PROVE  NoRepeats' /\ DeliveredIsRemoved'
<1>1. InviteTypes /\ NoRepeats /\ DeliveredIsRemoved
  BY DEF InviteInv
<1>2. DeliveredIsRemoved'
  BY <1>1 DEF DeliveredIsRemoved, Lists
<1>z. IsInjective(<< >>)
  BY DEF IsInjective
<1>3. ASSUME NEW l, NewWrite(p, l) PROVE NoRepeats'
  BY <1>1, <1>3, NewWrites DEF NoRepeats, NewWrite
<1>4. CASE Armed(p) \/ Sent(p) \/ Copied(p)
  BY <1>2, <1>3, <1>4 DEF Armed, Sent, Copied
<1>5. ASSUME EndsWrite(p), IsInjective(file') PROVE NoRepeats'
  BY <1>1, <1>5, WritesAfter DEF NoRepeats
<1>6. CASE Ended(p)
  BY <1>2, <1>1, <1>5, <1>6 DEF Ended, NoRepeats
<1>7. CASE Died(p)
  <2>1. \/ file' = file \/ file' = << >>
        \/ writing[p] # None /\ file' = writing[p].list
    BY <1>7 DEF Died
  <2>2. IsInjective(file')
    BY <1>1, <1>z, <2>1 DEF NoRepeats
  <2>3. QED
    BY <1>2, <1>5, <1>7, <2>2 DEF Died
<1>8. CASE Elsewhere(p)
  BY <1>2, <1>1, <1>8 DEF Elsewhere, NoRepeats
<1>9. QED
  BY <1>2, <1>4, <1>6, <1>7, <1>8 DEF FileStep

\* What was promised stays in the file or on its way to it.
LEMMA StepDurable ==
    ASSUME InviteInv, NEW p \in Proc, Lists(p), FileStep(p)
    PROVE  ArmedIsDurable' /\ \A q \in Proc : Fresh(q)'
<1>1. InviteTypes /\ \A q \in Proc : Fresh(q)
  BY DEF InviteInv
<1>2. \A e \in promised : e \in ToSet(file) \/ \E q \in Proc : Writes(e, q)
  BY DEF InviteInv, ArmedIsDurable, Writes
<1>3. SUFFICES /\ \A e \in promised' : e \in ToSet(file') \/ \E q \in Proc : Writes(e, q)'
               /\ \A q \in Proc : Fresh(q)'
  BY DEF ArmedIsDurable, Writes
<1>4. \A q \in Proc \ {p} : owed'[q] = owed[q]
  BY DEF Lists
<1>5. ASSUME NEW l, NewWrite(p, l), ToSet(l) = owed'[p],
             \A e \in promised' : e \in promised \/ e \in ToSet(l)
      PROVE  /\ \A e \in promised' : e \in ToSet(file') \/ \E q \in Proc : Writes(e, q)'
             /\ \A q \in Proc : Fresh(q)'
  <2>1. /\ writing'[p].list = l /\ file' = file
        /\ \A q \in Proc \ {p} : writing'[q] = writing[q]
        /\ \A e : Writes(e, p)' <=> e \in ToSet(l)
        /\ \A q \in Proc : \A e : Writes(e, q) => Writes(e, q)'
    BY <1>1, <1>5, NewWrites DEF NewWrite
  <2>2. \A e \in promised' : e \in ToSet(file') \/ \E q \in Proc : Writes(e, q)'
    BY <1>2, <1>5, <2>1
  <2>3. Fresh(p)'
    BY <1>5, <2>1 DEF Fresh
  <2>4. ASSUME NEW q \in Proc \ {p}, writing'[q] # None, ~writing'[q].stale,
               NEW e \in promised' \cap owed'[q]
        PROVE  e \in ToSet(writing'[q].list) \/ \E r \in Proc \ {q} : Writes(e, r)'
    <3>1. CASE e \in promised
      <4>1. e \in ToSet(writing[q].list) \/ \E r \in Proc \ {q} : Writes(e, r)
        BY <1>1, <1>4, <2>1, <2>4, <3>1 DEF Fresh
      <4>2. QED
        BY <2>1, <4>1
    <3>2. CASE e \in ToSet(l)
      BY <2>1, <3>2
    <3>3. QED
      BY <1>5, <3>1, <3>2
  <2>5. QED
    BY <2>2, <2>3, <2>4 DEF Fresh
<1>6. CASE Armed(p)
  <2>1. PICK e \in Entry, l \in Seq(Entry) : /\ promised' = promised \cup {e} /\ e \in owed'[p]
                                             /\ NewWrite(p, l) /\ ToSet(l) = owed'[p]
    BY <1>6 DEF Armed
  <2>2. QED
    BY <1>5, <2>1
<1>7. CASE Sent(p)
  BY <1>5, <1>7 DEF Sent
<1>8. CASE Copied(p)
  <2>1. CASE promised' = {}
    BY <2>1 DEF Fresh
  <2>2. CASE NewWrite(p, file) /\ promised' = promised
    <3>1. /\ writing'[p].list = file /\ file' = file /\ owed' = owed /\ writing[p] = None
          /\ \A q \in Proc \ {p} : writing'[q] = writing[q]
          /\ \A q \in Proc : \A e : Writes(e, q) => Writes(e, q)'
      BY <1>1, <1>8, <2>2, NewWrites DEF NewWrite, Copied
    <3>2. \A e \in promised' : e \in ToSet(file') \/ \E q \in Proc : Writes(e, q)'
      BY <1>2, <2>2, <3>1
    <3>3. \A e : ~Writes(e, p)
      BY <3>1 DEF Writes
    <3>4. Fresh(p)'
      BY <1>2, <2>2, <3>1, <3>3 DEF Fresh
    <3>5. \A q \in Proc \ {p} : Fresh(q)'
      BY <1>1, <2>2, <3>1 DEF Fresh
    <3>6. QED
      BY <3>2, <3>4, <3>5
  <2>3. QED
    BY <1>8, <2>1, <2>2 DEF Copied
<1>9. CASE Ended(p)
  <2>1. /\ writing'[p] = None
        /\ \A q \in Proc \ {p} :
              /\ writing[q] = None <=> writing'[q] = None
              /\ writing[q] # None => writing'[q].list = writing[q].list /\ writing'[q].stale = TRUE
    BY <1>1, <1>9, WritesAfter DEF Ended
  <2>2. \A q \in Proc : Fresh(q)'
    BY <2>1 DEF Fresh
  <2>3. \A q \in Proc \ {p} : \A e : Writes(e, q) => Writes(e, q)'
    BY <2>1 DEF Writes
  <2>4. ASSUME NEW e \in promised', e \notin ToSet(file') PROVE \E q \in Proc : Writes(e, q)'
    <3>1. /\ file' = writing[p].list /\ writing[p] # None /\ ~writing[p].stale
          /\ e \in promised \cap owed[p]
      BY <1>9, <2>4 DEF Ended
    <3>2. \E q \in Proc \ {p} : Writes(e, q)
      BY <1>1, <2>4, <3>1 DEF Fresh
    <3>3. QED
      BY <2>3, <3>2
  <2>5. QED
    BY <2>2, <2>4
<1>10. CASE Died(p)
  <2>1. /\ writing'[p] = None
        /\ \A q \in Proc \ {p} :
              /\ writing[q] = None <=> writing'[q] = None
              /\ writing[q] # None =>
                    /\ writing'[q].list = writing[q].list
                    /\ writing'[q].stale = (writing[p] # None \/ writing[q].stale)
    BY <1>1, <1>10, WritesAfter DEF Died
  <2>2. CASE writing[p] # None
    BY <1>10, <2>1, <2>2 DEF Died, Fresh
  <2>3. CASE writing[p] = None
    <3>1. file' = file /\ promised' = promised
      BY <1>10, <2>3 DEF Died
    <3>2. \A q \in Proc : \A e : Writes(e, q) => Writes(e, q)'
      BY <2>1, <2>3 DEF Writes
    <3>3. \A e \in promised' : e \in ToSet(file') \/ \E q \in Proc : Writes(e, q)'
      BY <1>2, <3>1, <3>2
    <3>4. ASSUME NEW q \in Proc \ {p}, writing'[q] # None, ~writing'[q].stale,
                 NEW e \in promised' \cap owed'[q]
          PROVE  e \in ToSet(writing'[q].list) \/ \E r \in Proc \ {q} : Writes(e, r)'
      <4>1. writing[q] # None /\ ~writing[q].stale /\ e \in promised \cap owed[q]
            /\ writing'[q].list = writing[q].list
        BY <1>4, <2>1, <2>3, <3>1, <3>4
      <4>2. e \in ToSet(writing[q].list) \/ \E r \in Proc \ {q} : Writes(e, r)
        BY <1>1, <4>1 DEF Fresh
      <4>3. QED
        BY <3>2, <4>1, <4>2
    <3>5. QED
      BY <2>1, <3>3, <3>4 DEF Fresh
  <2>4. QED
    BY <2>2, <2>3
<1>11. CASE Elsewhere(p)
  <2>1. file' = file /\ writing' = writing /\ promised' = promised /\ writing[p] = None
    BY <1>11 DEF Elsewhere
  <2>2. \A q \in Proc : \A e : Writes(e, q)' <=> Writes(e, q)
    BY <2>1 DEF Writes
  <2>3. \A q \in Proc : Fresh(q)'
    BY <1>1, <1>4, <2>1, <2>2 DEF Fresh
  <2>4. QED
    BY <1>2, <2>1, <2>2, <2>3
<1>12. QED
  BY <1>6, <1>7, <1>8, <1>9, <1>10, <1>11 DEF FileStep
\* A process that has ended has no flag set and writes nothing.
LEMMA StepOff ==
    ASSUME InviteInv, Next
    PROVE  \A q \in Proc : OffOK(q)'
<1>t. InviteTypes /\ \A q \in Proc : OffOK(q)
  BY DEF InviteInv
<1>e. /\ delivering \in [Proc -> BOOLEAN] /\ state \in [Proc -> {"off", "on", "up"}]
      /\ writing \in [Proc -> [list : Seq(Entry), stale : BOOLEAN] \cup {None}]
  BY <1>t DEF InviteTypes, TypeOK
<1>1. ASSUME NEW p \in Proc, state'[p] # "off",
             \A q \in Proc \ {p} :
                /\ state'[q] = state[q] /\ delivering'[q] = delivering[q]
                /\ writing[q] = None => writing'[q] = None
      PROVE  \A q \in Proc : OffOK(q)'
  BY <1>t, <1>1 DEF OffOK
<1>p. ASSUME NEW p \in Proc, NEW list, Polls(p, list) PROVE \A q \in Proc \ {p} : delivering'[q] = delivering[q]
  BY <1>e, <1>t, <1>p, PollResult
<1>l. ASSUME NEW p \in Proc, NEW k \in Slot, NEW list, NEW i, NEW seen, LoopOn(p, k, list, i, seen)
      PROVE  \A q \in Proc \ {p} : delivering'[q] = delivering[q]
  <2>1. delivering' = delivering \/ delivering' = [delivering EXCEPT ![p] = FALSE]
    BY <1>l DEF LoopOn
  <2>2. QED
    BY ONLY <1>e, <2>1
<1>2. ASSUME NEW p \in Proc, PersistOther(p) PROVE \A q \in Proc : OffOK(q)'
  <2>1. /\ state[p] # "off" /\ state' = state /\ delivering' = delivering
        /\ \E l : writing' = [writing EXCEPT ![p] = [list |-> l, stale |-> FALSE]]
    BY <1>2 DEF PersistOther, Runs, Persist, memory
  <2>2. QED
    BY <1>1, <1>e, <2>1
<1>3. ASSUME NEW p \in Proc, Written(p) PROVE \A q \in Proc : OffOK(q)'
  <2>1. state' = state /\ delivering' = delivering /\ EndsWrite(p) /\ writing[p] # None
    BY <1>3 DEF Written, memory
  <2>2. \A q \in Proc \ {p} : writing[q] = None => writing'[q] = None
    BY <1>t, <2>1, WritesAfter
  <2>3. state[p] # "off"
    BY <1>t, <2>1 DEF OffOK
  <2>4. QED
    BY <1>1, <2>1, <2>2, <2>3
<1>4. ASSUME NEW p \in Proc, Crash(p) PROVE \A q \in Proc : OffOK(q)'
  <2>1. /\ state' = [state EXCEPT ![p] = "off"] /\ EndsWrite(p)
        /\ delivering' = [delivering EXCEPT ![p] = FALSE]
    BY <1>4 DEF Crash
  <2>2. writing'[p] = None /\ \A q \in Proc \ {p} : writing[q] = None => writing'[q] = None
    BY <1>t, <2>1, WritesAfter
  <2>3. delivering'[p] = FALSE /\ \A q \in Proc \ {p} : delivering'[q] = delivering[q] /\ state'[q] = state[q]
    BY <1>e, <2>1
  <2>4. QED
    BY <1>t, <2>2, <2>3 DEF OffOK
<1>5. ASSUME NEW p \in Proc, Start(p) \/ Drop(p) PROVE \A q \in Proc : OffOK(q)'
  <2>1. state' = [state EXCEPT ![p] = "on"] /\ delivering' = delivering /\ writing' = writing
    BY <1>5 DEF Start, Drop, memory
  <2>2. QED
    BY <1>1, <1>e, <2>1
<1>6. ASSUME NEW p \in Proc, Poll(p) \/ Welcome(p) \/ \E e \in Entry : ArmAgain(p, e)
      PROVE  \A q \in Proc : OffOK(q)'
  <2>1. /\ state[p] # "off" /\ writing' = writing /\ Polls(p, pending[p])
        /\ state' = state \/ state' = [state EXCEPT ![p] = "up"]
    BY <1>6 DEF Poll, Welcome, ArmAgain, Runs
  <2>2. state'[p] # "off" /\ \A q \in Proc \ {p} : state'[q] = state[q]
    BY <1>e, <2>1
  <2>3. QED
    BY <1>1, <1>p, <2>1, <2>2
<1>7. ASSUME NEW p \in Proc, NEW e \in Entry, Arm(p, e) PROVE \A q \in Proc : OffOK(q)'
  <2>1. /\ state[p] # "off" /\ state' = state /\ Polls(p, Append(pending[p], e))
        /\ \E l : writing' = [writing EXCEPT ![p] = [list |-> l, stale |-> FALSE]]
    BY <1>7 DEF Arm, Runs, Persist
  <2>2. \A q \in Proc \ {p} : writing'[q] = writing[q] /\ delivering'[q] = delivering[q]
    BY <1>e, <1>p, <2>1
  <2>3. QED
    BY <1>1, <2>1, <2>2
<1>8. ASSUME NEW p \in Proc, NEW k \in Slot, NoSnapshot(p, k) PROVE \A q \in Proc : OffOK(q)'
  <2>1. /\ state[p] # "off" /\ state' = state /\ writing' = writing
        /\ delivering' = [delivering EXCEPT ![p] = FALSE]
    BY <1>8 DEF NoSnapshot, Runs, Released
  <2>2. QED
    BY <1>1, <1>e, <2>1
<1>9. ASSUME NEW p \in Proc, NEW k \in Slot,
             NotInvited(p, k) \/ \E online \in SUBSET Entry : Snapshot(p, k, online)
      PROVE  \A q \in Proc : OffOK(q)'
  <2>1. /\ state[p] # "off" /\ state' = state /\ writing' = writing
        /\ \E list, i, seen : LoopOn(p, k, list, i, seen)
    BY <1>9 DEF NotInvited, Snapshot, Runs
  <2>2. QED
    BY <1>1, <1>l, <2>1
<1>10. ASSUME NEW p \in Proc, NEW k \in Slot, Invited(p, k) PROVE \A q \in Proc : OffOK(q)'
  <2>1. /\ state[p] # "off" /\ state' = state
        /\ \E l : writing' = [writing EXCEPT ![p] = [list |-> l, stale |-> FALSE]]
        /\ \E list, i, seen : LoopOn(p, k, list, i, seen)
    BY <1>10 DEF Invited, Runs, Persist
  <2>2. \A q \in Proc \ {p} : writing'[q] = writing[q] /\ delivering'[q] = delivering[q]
    BY <1>e, <1>l, <2>1
  <2>3. QED
    BY <1>1, <2>1, <2>2
<1>11. QED
  BY <1>2, <1>3, <1>4, <1>5, <1>6, <1>7, <1>8, <1>9, <1>10 DEF Next

\* Every step keeps the invariant.
LEMMA StepInviteInv == InviteInv /\ [Next]_vars => InviteInv'
<1> SUFFICES ASSUME InviteInv, [Next]_vars PROVE InviteInv'
  OBVIOUS
<1>1. CASE UNCHANGED vars
  <2>1. UNCHANGED <<file, writing, state, pending, delivering, pass, owed, promised>>
    BY <1>1 DEF vars, memory
  <2>2. InviteTypes' /\ NoRepeats' /\ DeliveredIsRemoved' /\ ArmedIsDurable'
    BY <2>1 DEF InviteInv, InviteTypes, TypeOK, NoRepeats, DeliveredIsRemoved, ArmedIsDurable
  <2>3. \A p \in Proc : PassOK(p)' /\ OffOK(p)' /\ Fresh(p)'
    BY <2>1 DEF InviteInv, PassOK, OffOK, Fresh, Writes
  <2>4. QED
    BY <2>2, <2>3 DEF InviteInv
<1>2. CASE Next
  <2>1. PICK p \in Proc : Lists(p) /\ FileStep(p)
    BY <1>2, FileSteps
  <2>2. InviteTypes' /\ NoRepeats' /\ DeliveredIsRemoved' /\ ArmedIsDurable'
    BY <2>1, StepInviteTypes, StepLists, StepDurable
  <2>3. \A q \in Proc : PassOK(q)' /\ OffOK(q)' /\ Fresh(q)'
    BY <1>2, <2>1, StepPassOK, StepOff, StepDurable
  <2>4. QED
    BY <2>2, <2>3 DEF InviteInv
<1>3. QED
  BY <1>1, <1>2

\* All of it holds in every reachable state.
LEMMA InviteInvariant == Spec => []InviteInv
<1>1. Init => InviteInv
  BY InitInviteInv
<1>2. InviteInv /\ [Next]_vars => InviteInv'
  BY StepInviteInv
<1>3. QED
  BY <1>1, <1>2, PTL DEF Spec

-----------------------------------------------------------------------------
(* The theorems about invites. *)

\* deliverPendingInvites: a pending invite leaves the list exactly when its own DM
\* has been sent, for any number of processes and entries, although the splice
\* uses an index taken before an await.
THEOREM SpliceHitsItsEntry == Spec => []DeliveredIsRemoved
<1>1. InviteInv => DeliveredIsRemoved
  BY DEF InviteInv
<1>2. QED
  BY <1>1, InviteInvariant, PTL

\* armInvite and persistDapConfig: an armed invite stays in the file or in a write
\* under way, but for the named ways in which whole-file writes of several
\* processes lose it.
THEOREM ArmedInvitesLast == Spec => []ArmedIsDurable
<1>1. InviteInv => ArmedIsDurable
  BY DEF InviteInv
<1>2. QED
  BY <1>1, InviteInvariant, PTL
=============================================================================
