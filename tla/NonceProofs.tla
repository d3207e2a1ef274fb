---------------------------- MODULE NonceProofs ----------------------------
(***************************************************************************)
(* Proof of what the replay check guarantees, for every set of hellos,     *)
(* clock bound and sweep period, as long as replayKeep exceeds the         *)
(* freshness window: a hello is accepted a second time only if it was      *)
(* dated the difference ahead of the hub's clock, and never a third time.  *)
(***************************************************************************)
EXTENDS NonceCache, TLAPS

EntryOf(h) == <<h.pub, h.nonce>>

\* From each moment a hello was accepted at, its nonce is remembered for Keep.
Covered ==
    \A h \in Hello : \A i \in DOMAIN accepted[h] :
        accepted[h][i] + Keep <= now \/ accepted[h][i] + Keep <= expiry[EntryOf(h)]

\* It was fresh each time, and the times are Keep apart.
Spaced ==
    \A h \in Hello : \A i \in DOMAIN accepted[h] :
        /\ accepted[h][i] <= h.ts + Window /\ h.ts <= accepted[h][i] + Window
        /\ \A j \in DOMAIN accepted[h] : i < j => accepted[h][i] + Keep <= accepted[h][j]

NonceInv == TypeOK /\ Covered /\ Spaced

\* The parts of a hello.
LEMMA HelloFields ==
    ASSUME NEW h \in Hello
    PROVE  EntryOf(h) \in Pub \X Nonce /\ h.ts \in Nat
BY NonceConstants DEF EntryOf

\* What an acceptance changes.
LEMMA AcceptStep ==
    ASSUME TypeOK, NEW g \in Hello, Accept(g)
    PROVE  /\ now \in Nat /\ now' = now /\ now <= g.ts + Window /\ g.ts <= now + Window
           /\ expiry[EntryOf(g)] <= now
           /\ accepted'[g] = Append(accepted[g], now)
           /\ \A h \in Hello : h # g => accepted'[h] = accepted[h]
           /\ expiry'[EntryOf(g)] = now + Keep
           /\ \A x \in Pub \X Nonce : x # EntryOf(g) =>
                expiry'[x] = expiry[x] \/ (expiry'[x] = 0 /\ expiry[x] <= now)
           /\ TypeOK'
<1>1. EntryOf(g) \in Pub \X Nonce /\ g.ts \in Nat /\ now \in Nat /\ now' = now
  BY HelloFields DEF Accept, TypeOK
<1>2. /\ now <= g.ts + Window /\ g.ts <= now + Window
      /\ ~(now < expiry[EntryOf(g)]) /\ expiry[EntryOf(g)] \in Nat
  BY <1>1, NonceConstants DEF Accept, Fresh, Remembered, EntryOf, TypeOK
<1>3. /\ accepted' = [accepted EXCEPT ![g] = Append(@, now)]
      /\ accepted' \in [Hello -> Seq(Nat)]
  BY <1>1 DEF Accept, TypeOK
<1>4. \A x \in Pub \X Nonce :
        \/ x = EntryOf(g) /\ expiry'[x] = now + Keep
        \/ x # EntryOf(g) /\ expiry'[x] = expiry[x]
        \/ x # EntryOf(g) /\ expiry'[x] = 0 /\ expiry[x] <= now
  BY DEF Accept, Drop, KeepFor, EntryOf
<1>5. expiry' \in [Pub \X Nonce -> Nat]
  BY <1>1, NonceConstants DEF Accept, KeepFor, TypeOK
<1>6. lastSweep' \in Nat /\ lastSweep' <= now'
  BY <1>1 DEF Accept, SweptAt, TypeOK
<1>7. accepted'[g] = Append(accepted[g], now) /\ \A h \in Hello : h # g => accepted'[h] = accepted[h]
  BY <1>3 DEF TypeOK
<1>8. TypeOK'
  BY <1>1, <1>3, <1>5, <1>6 DEF TypeOK
<1>9. QED
  BY <1>1, <1>2, <1>4, <1>7, <1>8

\* The moments after one more.
LEMMA OneMore ==
    ASSUME NEW s \in Seq(Nat), NEW m \in Nat
    PROVE  \A i \in DOMAIN Append(s, m) :
             /\ \/ i \in DOMAIN s /\ Append(s, m)[i] = s[i] /\ s[i] \in Nat /\ i <= Len(s)
                \/ i = Len(s) + 1 /\ Append(s, m)[i] = m
             /\ i \in Nat /\ i <= Len(s) + 1 /\ Len(s) \in Nat
OBVIOUS

\* The clock only makes the moments older.
LEMMA TickKeeps == NonceInv /\ Tick => NonceInv'
<1> SUFFICES ASSUME NonceInv, Tick PROVE NonceInv'
  OBVIOUS
<1>1. now \in Nat /\ now' = now + 1 /\ UNCHANGED <<expiry, lastSweep, accepted>>
  BY DEF NonceInv, Tick, TypeOK
<1>2. TypeOK' /\ Spaced'
  BY <1>1 DEF NonceInv, TypeOK, Spaced
<1>3. Covered'
  <2>1. ASSUME NEW h \in Hello, NEW i \in DOMAIN accepted[h]
        PROVE  accepted[h][i] + Keep <= now + 1 \/ accepted[h][i] + Keep <= expiry[EntryOf(h)]
    <3>1. accepted[h][i] \in Nat
      BY <2>1 DEF NonceInv, TypeOK
    <3>2. QED
      BY <1>1, <2>1, <3>1, NonceConstants DEF NonceInv, Covered
  <2>2. QED
    BY <1>1, <2>1 DEF Covered, EntryOf
<1>4. QED
  BY <1>2, <1>3 DEF NonceInv

\* An acceptance comes Keep after every earlier one of the same hello, and no
\* entry that still counts is taken away.
LEMMA AcceptKeeps ==
    ASSUME NonceInv, NEW g \in Hello, Accept(g)
    PROVE  NonceInv'
<1>0. TypeOK /\ Covered /\ Spaced /\ Keep \in Nat /\ Window \in Nat
  BY NonceConstants DEF NonceInv
<1>1. /\ now \in Nat /\ now' = now /\ now <= g.ts + Window /\ g.ts <= now + Window
      /\ expiry[EntryOf(g)] <= now
      /\ accepted'[g] = Append(accepted[g], now)
      /\ \A h \in Hello : h # g => accepted'[h] = accepted[h]
      /\ expiry'[EntryOf(g)] = now + Keep
      /\ \A x \in Pub \X Nonce : x # EntryOf(g) =>
           expiry'[x] = expiry[x] \/ (expiry'[x] = 0 /\ expiry[x] <= now)
      /\ TypeOK'
  BY <1>0, AcceptStep
<1>2. \A h \in Hello : EntryOf(h)' = EntryOf(h) /\ EntryOf(h) \in Pub \X Nonce /\ h.ts \in Nat
  BY HelloFields DEF EntryOf
<1>3. \A h \in Hello : accepted[h] \in Seq(Nat)
  BY <1>0 DEF TypeOK
<1>4. \A x \in Pub \X Nonce : expiry[x] \in Nat
  BY <1>0 DEF TypeOK
\* A moment that was covered still is.
<1>5. ASSUME NEW h \in Hello, NEW m \in Nat, m + Keep <= now \/ m + Keep <= expiry[EntryOf(h)]
      PROVE  m + Keep <= now \/ m + Keep <= expiry'[EntryOf(h)]
  <2>1. CASE EntryOf(h) = EntryOf(g)
    BY <1>0, <1>1, <1>2, <1>4, <1>5, <2>1
  <2>2. CASE EntryOf(h) # EntryOf(g)
    BY <1>0, <1>1, <1>2, <1>4, <1>5, <2>2
  <2>3. QED
    BY <2>1, <2>2
<1>6. Covered'
  <2>1. ASSUME NEW h \in Hello, NEW i \in DOMAIN accepted'[h]
        PROVE  accepted'[h][i] + Keep <= now \/ accepted'[h][i] + Keep <= expiry'[EntryOf(h)]
    <3>1. CASE i \in DOMAIN accepted[h] /\ accepted'[h][i] = accepted[h][i] /\ accepted[h][i] \in Nat
      BY <1>0, <1>5, <3>1 DEF Covered
    <3>2. CASE h = g /\ accepted'[h][i] = now
      BY <1>0, <1>1, <3>2
    <3>3. CASE h # g
      BY <1>1, <1>3, <2>1, <3>1, <3>3
    <3>4. CASE h = g
      <4>1. accepted[g] \in Seq(Nat) /\ now \in Nat /\ accepted'[h] = Append(accepted[g], now)
        BY <1>1, <1>3, <3>4
      <4>2. \/ i \in DOMAIN accepted[g] /\ accepted'[h][i] = accepted[g][i] /\ accepted[g][i] \in Nat
            \/ accepted'[h][i] = now
        BY <2>1, <4>1, OneMore
      <4>3. QED
        BY <3>1, <3>2, <3>4, <4>2
    <3>5. QED
      BY <3>3, <3>4
  <2>2. QED
    BY <1>1, <1>2, <2>1 DEF Covered
<1>7. ASSUME NEW i \in DOMAIN accepted[g]
      PROVE  accepted[g][i] \in Nat /\ accepted[g][i] + Keep <= now
  <2>1. accepted[g][i] \in Nat
    BY <1>3
  <2>2. accepted[g][i] + Keep <= now \/ accepted[g][i] + Keep <= expiry[EntryOf(g)]
    BY <1>0 DEF Covered
  <2>3. expiry[EntryOf(g)] \in Nat /\ expiry[EntryOf(g)] <= now
    BY <1>1, <1>2, <1>4
  <2>4. QED
    BY <1>0, <1>1, <2>1, <2>2, <2>3
<1>8. Spaced'
  <2>1. ASSUME NEW h \in Hello, NEW i \in DOMAIN accepted'[h]
        PROVE  /\ accepted'[h][i] <= h.ts + Window /\ h.ts <= accepted'[h][i] + Window
               /\ \A j \in DOMAIN accepted'[h] : i < j => accepted'[h][i] + Keep <= accepted'[h][j]
    <3>1. CASE h # g
      BY <1>0, <1>1, <2>1, <3>1 DEF Spaced
    <3>2. CASE h = g
      <4>1. \A k \in DOMAIN accepted'[g] :
              /\ \/ /\ k \in DOMAIN accepted[g] /\ accepted'[g][k] = accepted[g][k]
                    /\ k <= Len(accepted[g])
                 \/ k = Len(accepted[g]) + 1 /\ accepted'[g][k] = now
              /\ k \in Nat /\ k <= Len(accepted[g]) + 1 /\ Len(accepted[g]) \in Nat
        BY <1>1, <1>3, OneMore
      <4>2. accepted'[g][i] <= g.ts + Window /\ g.ts <= accepted'[g][i] + Window
        BY <1>0, <1>1, <2>1, <3>2, <4>1 DEF Spaced
      <4>3. ASSUME NEW j \in DOMAIN accepted'[g], i < j
            PROVE  accepted'[g][i] + Keep <= accepted'[g][j]
        <5>1. i \in DOMAIN accepted[g] /\ accepted'[g][i] = accepted[g][i]
          BY <2>1, <3>2, <4>1, <4>3
        <5>2. CASE j \in DOMAIN accepted[g] /\ accepted'[g][j] = accepted[g][j]
          BY <1>0, <4>3, <5>1, <5>2 DEF Spaced
        <5>3. CASE accepted'[g][j] = now
          BY <1>7, <5>1, <5>3
        <5>4. QED
          BY <4>1, <4>3, <5>2, <5>3
      <4>4. QED
        BY <3>2, <4>2, <4>3
    <3>3. QED
      BY <3>1, <3>2
  <2>2. QED
    BY <2>1 DEF Spaced
<1>9. QED
  BY <1>1, <1>6, <1>8 DEF NonceInv

\* NonceInv holds at every moment.
LEMMA NonceInvariant == Spec => []NonceInv
<1>1. Init => NonceInv
  BY NonceConstants DEF Init, NonceInv, TypeOK, Covered, Spaced
<1>2. NonceInv /\ [Next]_vars => NonceInv'
  <2>1. NonceInv /\ UNCHANGED vars => NonceInv'
    BY DEF vars, NonceInv, TypeOK, Covered, Spaced
  <2>2. QED
    BY <2>1, TickKeeps, AcceptKeeps DEF Next
<1>3. QED
  BY <1>1, <1>2, PTL DEF Spec

\* checkHello (auth.go): a hello passes a second time only if it was first seen
\* replayKeep - tsWindow or more before the time it is dated, and never a third
\* time.  Acceptances are Keep apart, and both lie within Window of ts.
THEOREM AcceptedAgainOnlyFromAhead == Spec => []TwiceOnlyFromAhead
<1>1. NonceInv => TwiceOnlyFromAhead
  <2> SUFFICES ASSUME NonceInv, NEW h \in Hello
               PROVE  /\ Len(accepted[h]) <= 2
                      /\ Len(accepted[h]) = 2 => h.ts - accepted[h][1] >= Keep - Window
    BY DEF TwiceOnlyFromAhead
  <2>1. /\ accepted[h] \in Seq(Nat) /\ h.ts \in Nat
        /\ Window \in Nat /\ Keep \in Nat /\ Window < Keep
    BY HelloFields, NonceConstants, KeepExceedsWindow DEF NonceInv, TypeOK
  <2>2. \A i \in DOMAIN accepted[h] :
          /\ accepted[h][i] \in Nat
          /\ accepted[h][i] <= h.ts + Window /\ h.ts <= accepted[h][i] + Window
          /\ \A j \in DOMAIN accepted[h] : i < j => accepted[h][i] + Keep <= accepted[h][j]
    BY <2>1 DEF NonceInv, Spaced
  <2>3. Len(accepted[h]) \in Nat /\ DOMAIN accepted[h] = 1..Len(accepted[h])
    BY <2>1
  <2>4. Len(accepted[h]) <= 2
    <3> SUFFICES ASSUME Len(accepted[h]) > 2 PROVE FALSE
      BY <2>3
    <3>1. 1 \in DOMAIN accepted[h] /\ 2 \in DOMAIN accepted[h] /\ 3 \in DOMAIN accepted[h]
      BY <2>3
    <3> DEFINE a == accepted[h][1]
               b == accepted[h][2]
               c == accepted[h][3]
    <3>2. a \in Nat /\ b \in Nat /\ c \in Nat /\ h.ts <= a + Window /\ c <= h.ts + Window
      BY <2>2, <3>1
    <3>3. a + Keep <= b /\ b + Keep <= c
      <4>1. 1 < 2 /\ 2 < 3
        OBVIOUS
      <4>2. QED
        BY <2>2, <3>1, <4>1
    <3> HIDE DEF a, b, c
    <3>4. QED
      BY <2>1, <3>2, <3>3
  <2>5. ASSUME Len(accepted[h]) = 2 PROVE h.ts - accepted[h][1] >= Keep - Window
    <3>1. 1 \in DOMAIN accepted[h] /\ 2 \in DOMAIN accepted[h]
      BY <2>3, <2>5
    <3> DEFINE a == accepted[h][1]
               b == accepted[h][2]
    <3>2. a \in Nat /\ b \in Nat /\ b <= h.ts + Window
      BY <2>2, <3>1
    <3>3. a + Keep <= b
      <4>1. 1 < 2
        OBVIOUS
      <4>2. QED
        BY <2>2, <3>1, <4>1
    <3> HIDE DEF a, b
    <3>4. a + Keep <= h.ts + Window
      BY <2>1, <3>2, <3>3
    <3>5. h.ts - a >= Keep - Window
      BY <2>1, <3>2, <3>4
    <3>6. QED
      BY <3>5 DEF a
  <2>6. QED
    BY <2>4, <2>5
<1>2. QED
  BY <1>1, NonceInvariant, PTL

\* A sweep leaves only live entries behind.
THEOREM CacheIsSwept == Spec => []SweptClean
<1>1. Init => SweptClean
  BY DEF Init, SweptClean
<1>2. NonceInv /\ SweptClean /\ [Next]_vars => SweptClean'
  <2> SUFFICES ASSUME NonceInv, SweptClean, [Next]_vars PROVE SweptClean'
    OBVIOUS
  <2>1. ASSUME NEW h \in Hello, Accept(h) PROVE SweptClean'
    <3> SUFFICES ASSUME NEW x \in Pub \X Nonce, expiry'[x] # 0
                 PROVE  expiry'[x] > lastSweep'
      BY DEF SweptClean
    <3>1. /\ expiry[x] \in Nat /\ now \in Nat /\ lastSweep \in Nat /\ lastSweep <= now
          /\ expiry[x] # 0 => expiry[x] > lastSweep
      BY DEF NonceInv, TypeOK, SweptClean
    <3>2. Keep \in Nat /\ Keep > 0
      BY NonceConstants, KeepExceedsWindow
    <3>3. CASE x = <<h.pub, h.nonce>>
      BY <2>1, <3>1, <3>2, <3>3 DEF Accept, KeepFor, SweptAt
    <3>4. CASE x # <<h.pub, h.nonce>> /\ SweepDue
      BY <2>1, <3>1, <3>4 DEF Accept, Sweeps, Drop, SweptAt
    <3>5. CASE x # <<h.pub, h.nonce>> /\ ~SweepDue
      BY <2>1, <3>1, <3>5 DEF Accept, Sweeps, Drop
    <3>6. QED
      BY <3>3, <3>4, <3>5
  <2>2. QED
    BY <2>1 DEF Next, Tick, vars, SweptClean
<1>3. QED
  BY <1>1, <1>2, NonceInvariant, PTL DEF Spec
=============================================================================
