---------------------------- MODULE SendIDProofs ----------------------------
(***************************************************************************)
(* Proofs about the ring of send ids: for any capacity, number of senders  *)
(* and number of read loops it implements the window it stands for.        *)
(***************************************************************************)
EXTENDS SendIDCache, TLAPS

\* Below its capacity the ring has not begun to wrap.
RingShape == \A p \in Sender : Len(ids[p]) <= Cap /\ (Len(ids[p]) < Cap => next[p] = 0)

RingInv == TypeOK /\ RingShape

\* Remainders as the index meets them: at most one turn of the ring.
LEMMA OneTurn ==
    \A n \in Nat, x \in Nat :
        x < n + n => /\ (x < n => x % n = x)
                     /\ (n <= x => x % n = x - n)
OBVIOUS

\* Sequences of one length with the same entries are equal.
LEMMA SameEntries ==
    ASSUME NEW v \in Seq(Id), NEW w \in Seq(Id), Len(v) = Len(w),
           \A k \in 1 .. Len(v) : v[k] = w[k]
    PROVE  v = w
OBVIOUS

\* An empty cache.
LEMMA InitRingInv == Init => RingInv
BY SendIDConstants DEF Init, RingInv, TypeOK, RingShape

\* The overwrite index moves on, and from the last place to the first.
LEMMA WrapTurns ==
    ASSUME NEW n \in 0 .. Cap - 1
    PROVE  Wrap(n) = IF n + 1 < Cap THEN n + 1 ELSE 0
<1> DEFINE x == n + 1
<1>1. Cap \in Nat /\ x \in Nat /\ x < Cap + Cap /\ x <= Cap
  BY SendIDConstants
<1> HIDE DEF x
<1>2. (x < Cap => x % Cap = x) /\ (Cap <= x => x % Cap = x - Cap)
  BY <1>1, OneTurn
<1>3. x % Cap = IF x < Cap THEN x ELSE 0
  BY <1>1, <1>2
<1>4. QED
  BY <1>3 DEF Wrap, x

\* What add does to one sender's ring, with the index in range.
LEMMA AddSteps ==
    ASSUME RingInv, NEW l \in Loop, Add(l)
    PROVE  LET p == job[l][1]
               i == job[l][2] IN
           /\ p \in Sender /\ i \in Id /\ job' = [job EXCEPT ![l] = None]
           /\ \/ /\ Len(ids[p]) < Cap /\ next[p] = 0 /\ next' = next
                 /\ ids' = [ids EXCEPT ![p] = Append(ids[p], i)]
              \/ /\ Len(ids[p]) = Cap
                 /\ ids' = [ids EXCEPT ![p] = [ids[p] EXCEPT ![next[p] + 1] = i]]
                 /\ next' = [next EXCEPT ![p] = IF next[p] + 1 < Cap THEN next[p] + 1 ELSE 0]
<1> DEFINE p == job[l][1]
           i == job[l][2]
<1>1. p \in Sender /\ i \in Id
  BY DEF RingInv, TypeOK, Add
<1>2. next[p] \in 0 .. Cap - 1 /\ Len(ids[p]) \in Nat /\ Len(ids[p]) <= Cap /\ Cap \in Nat \ {0}
  BY <1>1, SendIDConstants DEF RingInv, TypeOK, RingShape
<1>3. Wrap(next[p]) = IF next[p] + 1 < Cap THEN next[p] + 1 ELSE 0
  BY <1>2, WrapTurns
<1>4. CASE Grows(p)
  BY <1>1, <1>2, <1>4 DEF Add, Grows, RingInv, RingShape
<1>5. CASE ~Grows(p)
  <2>1. Len(ids[p]) = Cap
    BY <1>2, <1>5 DEF Grows
  <2>2. /\ ids' = [ids EXCEPT ![p] = [ids[p] EXCEPT ![next[p] + 1] = i]]
        /\ next' = [next EXCEPT ![p] = Wrap(next[p])] /\ job' = [job EXCEPT ![l] = None]
    BY <1>5 DEF Add
  <2>3. QED
    BY <1>1, <1>3, <2>1, <2>2
<1>6. QED
  BY <1>4, <1>5

\* The ring keeps its shape.
LEMMA StepRingInv == RingInv /\ [Next]_vars => RingInv'
<1> SUFFICES ASSUME RingInv, [Next]_vars PROVE RingInv'
  OBVIOUS
<1>1. ASSUME NEW l \in Loop, NEW p \in Sender, NEW i \in Id, Seen(l, p, i) PROVE RingInv'
  BY <1>1 DEF Seen, RingInv, TypeOK, RingShape
<1>2. ASSUME NEW l \in Loop, Refused(l) PROVE RingInv'
  BY <1>2 DEF Refused, RingInv, TypeOK, RingShape
<1>3. ASSUME NEW l \in Loop, Add(l) PROVE RingInv'
  <2> DEFINE p == job[l][1]
             i == job[l][2]
  <2>1. p \in Sender /\ i \in Id /\ job' = [job EXCEPT ![l] = None]
    BY <1>3, AddSteps
  <2>2. ids[p] \in Seq(Id) /\ next[p] \in 0 .. Cap - 1 /\ Cap \in Nat \ {0} /\ Len(ids[p]) \in Nat
    BY <2>1, SendIDConstants DEF RingInv, TypeOK
  <2>3. /\ job' \in [Loop -> (Sender \X Id) \cup {None}]
        /\ overtaken' \in [Loop -> BOOLEAN]
    <3>1. overtaken' \in [Loop -> BOOLEAN]
      BY <1>3 DEF Add
    <3>2. QED
      BY <2>1, <3>1 DEF RingInv, TypeOK
  <2>4. CASE /\ Len(ids[p]) < Cap /\ next[p] = 0 /\ next' = next
             /\ ids' = [ids EXCEPT ![p] = Append(ids[p], i)]
    <3>1. Append(ids[p], i) \in Seq(Id) /\ Len(Append(ids[p], i)) = Len(ids[p]) + 1
      BY <2>1, <2>2
    <3>2. QED
      BY <2>1, <2>2, <2>3, <2>4, <3>1 DEF RingInv, TypeOK, RingShape
  <2>5. CASE /\ Len(ids[p]) = Cap
             /\ ids' = [ids EXCEPT ![p] = [ids[p] EXCEPT ![next[p] + 1] = i]]
             /\ next' = [next EXCEPT ![p] = IF next[p] + 1 < Cap THEN next[p] + 1 ELSE 0]
    <3> DEFINE new == [ids[p] EXCEPT ![next[p] + 1] = i]
    <3>1. new \in Seq(Id) /\ Len(new) = Cap
      BY <2>1, <2>2, <2>5
    <3>2. next'[p] \in 0 .. Cap - 1
      BY <2>1, <2>2, <2>5 DEF RingInv, TypeOK
    <3>3. ids' \in [Sender -> Seq(Id)] /\ ids'[p] = new
      BY <2>1, <2>5, <3>1 DEF RingInv, TypeOK
    <3>4. next' \in [Sender -> 0 .. Cap - 1]
      BY <2>1, <2>2, <2>5 DEF RingInv, TypeOK
    <3>5. QED
      BY <2>1, <2>2, <2>3, <2>5, <3>1, <3>3, <3>4 DEF RingInv, TypeOK, RingShape
  <2>6. QED
    BY <1>3, <2>4, <2>5, AddSteps
<1>4. CASE UNCHANGED vars
  BY <1>4 DEF vars, RingInv, TypeOK, RingShape
<1>5. QED
  BY <1>1, <1>2, <1>3, <1>4 DEF Next

\* The place of the window's k-th entry without remainders: from the overwrite index to the end,
\* then from the start.
LEMMA UnrolledAt ==
    ASSUME NEW n \in Nat, NEW m \in Nat, n = 0 \/ m < n, NEW k \in 1 .. n
    PROVE  ((m + k - 1) % n) + 1 = IF m + k <= n THEN m + k ELSE m + k - n
<1>1. m + k - 1 \in Nat /\ m + k - 1 < n + n
  OBVIOUS
<1> DEFINE x == m + k - 1
<1>2. x \in Nat /\ x < n + n
  BY <1>1
<1> HIDE DEF x
<1>3. (x < n => x % n = x) /\ (n <= x => x % n = x - n)
  BY <1>2, OneTurn
<1>4. QED
  BY <1>1, <1>3 DEF x

\* One sender's window, as SendWindow has it.
WindowOf(s, m) == [k \in 1 .. Len(s) |-> s[((m + k - 1) % Len(s)) + 1]]

\* A ring that has not wrapped is its own window.
LEMMA WindowUnwrapped ==
    ASSUME NEW s \in Seq(Id)
    PROVE  WindowOf(s, 0) = s
<1>1. Len(s) \in Nat /\ (Len(s) = 0 \/ 0 < Len(s))
  OBVIOUS
<1>2. \A k \in 1 .. Len(s) : ((0 + k - 1) % Len(s)) + 1 = k
  BY <1>1, UnrolledAt
<1>3. WindowOf(s, 0) = [k \in 1 .. Len(s) |-> s[k]]
  BY <1>2 DEF WindowOf
<1>4. QED
  BY <1>3

\* A full ring has a full window.
LEMMA WindowType ==
    ASSUME NEW s \in Seq(Id), NEW m \in 0 .. Cap - 1, Len(s) = Cap
    PROVE  WindowOf(s, m) \in Seq(Id) /\ Len(WindowOf(s, m)) = Cap
<1>1. Cap \in Nat \ {0} /\ m \in Nat /\ m < Cap
  BY SendIDConstants
<1>2. ASSUME NEW k \in 1 .. Cap PROVE ((m + k - 1) % Cap) + 1 \in 1 .. Cap
  <2>1. ((m + k - 1) % Cap) + 1 = IF m + k <= Cap THEN m + k ELSE m + k - Cap
    BY <1>1, UnrolledAt
  <2>2. QED
    BY <1>1, <2>1
<1>3. \A k \in 1 .. Cap : s[((m + k - 1) % Cap) + 1] \in Id
  BY <1>2
<1>4. QED
  BY <1>1, <1>3 DEF WindowOf

\* Overwriting the oldest entry and moving the index on drops the window's head
\* and appends to it.
LEMMA WindowTurns ==
    ASSUME NEW s \in Seq(Id), NEW m \in 0 .. Cap - 1, Len(s) = Cap, NEW i \in Id
    PROVE  WindowOf([s EXCEPT ![m + 1] = i], IF m + 1 < Cap THEN m + 1 ELSE 0)
             = Tail(Append(WindowOf(s, m), i))
<1> DEFINE new == [s EXCEPT ![m + 1] = i]
           mm == IF m + 1 < Cap THEN m + 1 ELSE 0
           w == WindowOf(s, m)
<1>1. Cap \in Nat \ {0} /\ m \in Nat /\ mm \in Nat /\ m < Cap /\ mm < Cap
  BY SendIDConstants
<1>2. new \in Seq(Id) /\ Len(new) = Cap
  BY <1>1
<1>3. w = [k \in 1 .. Cap |-> s[IF m + k <= Cap THEN m + k ELSE m + k - Cap]]
  <2>1. \A k \in 1 .. Cap : ((m + k - 1) % Cap) + 1 = IF m + k <= Cap THEN m + k ELSE m + k - Cap
    BY <1>1, UnrolledAt
  <2>2. QED
    BY <2>1 DEF WindowOf
<1>4. WindowOf(new, mm) = [k \in 1 .. Cap |-> new[IF mm + k <= Cap THEN mm + k ELSE mm + k - Cap]]
  <2> HIDE DEF mm
  <2>1. \A k \in 1 .. Cap : ((mm + k - 1) % Cap) + 1 = IF mm + k <= Cap THEN mm + k ELSE mm + k - Cap
    BY <1>1, UnrolledAt
  <2>2. QED
    BY <1>2, <2>1 DEF WindowOf
<1>5. w \in Seq(Id) /\ Len(w) = Cap
  BY WindowType
<1>6. /\ Tail(Append(w, i)) \in Seq(Id) /\ Len(Tail(Append(w, i))) = Cap
      /\ \A k \in 1 .. Cap : Tail(Append(w, i))[k] = IF k < Cap THEN w[k + 1] ELSE i
  BY <1>1, <1>5
<1>7. ASSUME NEW k \in 1 .. Cap
      PROVE  new[IF mm + k <= Cap THEN mm + k ELSE mm + k - Cap] = Tail(Append(w, i))[k]
  <2>1. CASE k < Cap
    <3>1. w[k + 1] = s[IF m + k + 1 <= Cap THEN m + k + 1 ELSE m + k + 1 - Cap]
      BY <1>1, <1>3, <2>1
    <3>2. (IF mm + k <= Cap THEN mm + k ELSE mm + k - Cap)
            = IF m + k + 1 <= Cap THEN m + k + 1 ELSE m + k + 1 - Cap
      BY <1>1, <2>1
    <3>3. (IF m + k + 1 <= Cap THEN m + k + 1 ELSE m + k + 1 - Cap) \in (1 .. Cap) \ {m + 1}
      BY <1>1, <2>1
    <3>4. QED
      BY <1>6, <2>1, <3>1, <3>2, <3>3
  <2>2. CASE k = Cap
    <3>1. (IF mm + k <= Cap THEN mm + k ELSE mm + k - Cap) = m + 1
      BY <1>1, <2>2
    <3>2. m + 1 \in 1 .. Len(s)
      BY <1>1
    <3>3. new[m + 1] = i
      BY <3>2
    <3>4. Tail(Append(w, i))[k] = i
      BY <1>1, <1>6, <2>2
    <3>5. QED
      BY <3>1, <3>3, <3>4
  <2>3. k < Cap \/ k = Cap
    BY <1>1
  <2>4. QED
    BY <2>1, <2>2, <2>3
<1>8. WindowOf(new, mm) \in Seq(Id) /\ Len(WindowOf(new, mm)) = Cap
  <2>1. mm \in 0 .. Cap - 1
    BY <1>1
  <2> HIDE DEF mm, new
  <2>2. QED
    BY <1>2, <2>1, WindowType
<1>9. \A k \in 1 .. Cap : WindowOf(new, mm)[k] = Tail(Append(w, i))[k]
  BY <1>4, <1>7
<1>10. QED
  BY <1>6, <1>8, <1>9, SameEntries

\* Every step of the ring is a step of the window, or leaves it as it is.
LEMMA StepWindow == RingInv /\ [Next]_vars => [Window!Next]_Unrolled
<1> SUFFICES ASSUME RingInv, [Next]_vars PROVE [Window!Next]_Unrolled
  OBVIOUS
<1>1. Unrolled = [q \in Sender |-> WindowOf(ids[q], next[q])]
  BY DEF Unrolled, WindowOf
<1>2. Unrolled' = [q \in Sender |-> WindowOf(ids'[q], next'[q])]
  BY DEF Unrolled, WindowOf
<1>3. CASE UNCHANGED <<ids, next>>
  BY <1>1, <1>2, <1>3
<1>4. ASSUME NEW l \in Loop, Add(l) PROVE Window!Next
  <2> DEFINE p == job[l][1]
             i == job[l][2]
             w == Append(Unrolled[p], i)
  <2>1. p \in Sender /\ i \in Id
    BY <1>4, AddSteps
  <2>2. ids[p] \in Seq(Id) /\ next[p] \in 0 .. Cap - 1 /\ Cap \in Nat \ {0} /\ Len(ids[p]) \in Nat
    BY <2>1, SendIDConstants DEF RingInv, TypeOK
  <2>3. Unrolled'[p] = IF Len(w) > Cap THEN Tail(w) ELSE w
    <3>1. CASE /\ Len(ids[p]) < Cap /\ next[p] = 0 /\ next' = next
               /\ ids' = [ids EXCEPT ![p] = Append(ids[p], i)]
      <4>1. Unrolled[p] = ids[p]
        BY <1>1, <2>1, <2>2, <3>1, WindowUnwrapped
      <4>2. Append(ids[p], i) \in Seq(Id) /\ Len(w) = Len(ids[p]) + 1
        BY <2>1, <2>2, <4>1
      <4>3. ids'[p] = Append(ids[p], i) /\ next'[p] = 0
        BY <2>1, <3>1 DEF RingInv, TypeOK
      <4>4. Unrolled'[p] = Append(ids[p], i)
        BY <1>2, <2>1, <4>2, <4>3, WindowUnwrapped
      <4>5. QED
        BY <2>2, <3>1, <4>1, <4>2, <4>4
    <3>2. CASE /\ Len(ids[p]) = Cap
               /\ ids' = [ids EXCEPT ![p] = [ids[p] EXCEPT ![next[p] + 1] = i]]
               /\ next' = [next EXCEPT ![p] = IF next[p] + 1 < Cap THEN next[p] + 1 ELSE 0]
      <4>1. /\ ids'[p] = [ids[p] EXCEPT ![next[p] + 1] = i]
            /\ next'[p] = IF next[p] + 1 < Cap THEN next[p] + 1 ELSE 0
        BY <2>1, <3>2 DEF RingInv, TypeOK
      <4>2. Unrolled[p] = WindowOf(ids[p], next[p]) /\ Unrolled'[p] = WindowOf(ids'[p], next'[p])
        BY <1>1, <1>2, <2>1
      <4>3. Unrolled'[p] = Tail(w)
        <5> HIDE DEF p, i
        <5>1. Len(ids[p]) = Cap
          BY <3>2
        <5>2. WindowOf([ids[p] EXCEPT ![next[p] + 1] = i], IF next[p] + 1 < Cap THEN next[p] + 1 ELSE 0)
                = Tail(Append(WindowOf(ids[p], next[p]), i))
          BY <2>1, <2>2, <5>1, WindowTurns
        <5>3. QED
          BY <4>1, <4>2, <5>2
      <4>4. Len(w) = Cap + 1
        <5>1. Unrolled[p] \in Seq(Id) /\ Len(Unrolled[p]) = Cap
          BY <2>2, <3>2, <4>2, WindowType
        <5>2. QED
          BY <2>1, <5>1
      <4>5. QED
        BY <2>2, <4>3, <4>4
    <3>3. QED
      BY <1>4, <3>1, <3>2, AddSteps
  <2>4. ASSUME NEW q \in Sender, q # p PROVE Unrolled'[q] = Unrolled[q]
    <3>1. ids'[q] = ids[q] /\ next'[q] = next[q]
      BY <1>4, <2>1, <2>4, AddSteps DEF RingInv, TypeOK
    <3>2. QED
      BY <1>1, <1>2, <3>1
  <2>5. Unrolled' = [Unrolled EXCEPT ![p] = IF Len(w) > Cap THEN Tail(w) ELSE w]
    BY <1>1, <1>2, <2>1, <2>3, <2>4
  <2>6. Window!Accept(p, i)
    BY <2>5 DEF Window!Accept
  <2>7. QED
    BY <2>1, <2>6 DEF Window!Next
<1>5. QED
  BY <1>3, <1>4 DEF Next, Seen, Refused, vars

\* sendIDCache keeps the promise of SendWindow: for every capacity, the ring
\* with its growing phase and its wrapping index holds the last Cap accepted ids
\* of each sender, whatever the read loops do between seen and add.
THEOREM RingImplementsWindow == Spec => RingIsWindow
<1>1. Init => Window!Init
  <2>1. ASSUME Init PROVE Unrolled = [p \in Sender |-> << >>]
    <3>1. \A p \in Sender : Len(ids[p]) = 0
      BY <2>1 DEF Init
    <3>2. QED
      BY <3>1 DEF Unrolled
  <2>2. QED
    BY <2>1 DEF Window!Init
<1>2. QED
  BY <1>1, InitRingInv, StepRingInv, StepWindow, PTL DEF Spec, RingIsWindow, Window!Spec

-----------------------------------------------------------------------------

\* A latch under a loop's feet marks the loop as overtaken, and only a latch puts
\* an id into the window.
LEMMA StepOvertaken == RingInv /\ OnlyOvertakenRepeat /\ [Next]_vars => OnlyOvertakenRepeat'
<1> SUFFICES ASSUME RingInv, OnlyOvertakenRepeat, [Next]_vars PROVE OnlyOvertakenRepeat'
  OBVIOUS
<1>1. ASSUME NEW l \in Loop, NEW p \in Sender, NEW i \in Id, Seen(l, p, i)
      PROVE  OnlyOvertakenRepeat'
  BY <1>1 DEF Seen, RingInv, TypeOK, OnlyOvertakenRepeat, Holds, InWindow
<1>2. ASSUME NEW l \in Loop, Refused(l) PROVE OnlyOvertakenRepeat'
  BY <1>2 DEF Refused, RingInv, TypeOK, OnlyOvertakenRepeat, InWindow
<1>3. ASSUME NEW l \in Loop, Add(l) PROVE OnlyOvertakenRepeat'
  <2> DEFINE p == job[l][1]
             i == job[l][2]
  <2>1. /\ p \in Sender /\ i \in Id /\ job' = [job EXCEPT ![l] = None] /\ job[l] # None
        /\ overtaken' = [m \in Loop |-> m # l /\ (overtaken[m] \/ job[m] = job[l])]
    BY <1>3, AddSteps DEF Add
  <2>2. \A q \in Sender : q # p => ids'[q] = ids[q]
    BY <1>3, <2>1, AddSteps DEF RingInv, TypeOK
  <2>3. ids[p] \in Seq(Id) /\ Len(ids[p]) \in Nat /\ next[p] \in 0 .. Cap - 1 /\ Cap \in Nat
    BY <2>1, SendIDConstants DEF RingInv, TypeOK
  <2>4. \A n \in DOMAIN ids'[p] : ids'[p][n] = i \/ (n \in DOMAIN ids[p] /\ ids'[p][n] = ids[p][n])
    <3>1. CASE ids' = [ids EXCEPT ![p] = Append(ids[p], i)]
      <4>1. ids'[p] = Append(ids[p], i)
        BY <2>1, <3>1 DEF RingInv, TypeOK
      <4>2. QED
        BY <2>1, <2>3, <4>1
    <3>2. CASE ids' = [ids EXCEPT ![p] = [ids[p] EXCEPT ![next[p] + 1] = i]]
      <4>1. ids'[p] = [ids[p] EXCEPT ![next[p] + 1] = i]
        BY <2>1, <3>2 DEF RingInv, TypeOK
      <4>2. QED
        BY <2>1, <2>3, <4>1
    <3>3. QED
      BY <1>3, <3>1, <3>2, AddSteps
  <2>5. ASSUME NEW m \in Loop, job'[m] # None,
               NEW n \in DOMAIN ids'[job'[m][1]], ids'[job'[m][1]][n] = job'[m][2]
        PROVE  overtaken'[m]
    <3>1. m # l /\ job'[m] = job[m] /\ job[m] \in Sender \X Id
      BY <2>1, <2>5 DEF RingInv, TypeOK
    <3>2. overtaken'[m] = (overtaken[m] \/ job[m] = job[l])
      BY <2>1, <3>1
    <3>3. CASE job[m] = job[l]
      BY <3>2, <3>3
    <3>4. CASE job[m] # job[l]
      <4>1. \E k \in DOMAIN ids[job[m][1]] : ids[job[m][1]][k] = job[m][2]
        <5>1. CASE job[m][1] = p
          <6>1. job[m][2] # i
            <7>1. job[l] \in Sender \X Id
              BY <2>1 DEF RingInv, TypeOK
            <7>2. QED
              BY <3>1, <3>4, <5>1, <7>1
          <6>2. ids'[p][n] = job[m][2] /\ n \in DOMAIN ids'[p]
            BY <2>5, <3>1, <5>1
          <6>3. QED
            BY <2>4, <5>1, <6>1, <6>2
        <5>2. CASE job[m][1] # p
          BY <2>2, <2>5, <3>1, <5>2
        <5>3. QED
          BY <5>1, <5>2
      <4>2. overtaken[m]
        BY <3>1, <4>1, <2>5 DEF OnlyOvertakenRepeat, InWindow
      <4>3. QED
        BY <3>2, <4>2
    <3>5. QED
      BY <3>3, <3>4
  <2>6. QED
    BY <2>5 DEF OnlyOvertakenRepeat, InWindow
<1>4. CASE UNCHANGED vars
  BY <1>4 DEF vars, OnlyOvertakenRepeat, InWindow
<1>5. QED
  BY <1>1, <1>2, <1>3, <1>4 DEF Next

\* handleSend, for any number of read loops of one agent between seen and add: an
\* id is latched a second time within the window only by a loop that had looked
\* before the other one latched it.
THEOREM RepeatsAreOvertaken == Spec => []OnlyOvertakenRepeat
<1>1. Init => OnlyOvertakenRepeat
  BY DEF Init, OnlyOvertakenRepeat
<1>2. QED
  BY <1>1, InitRingInv, StepRingInv, StepOvertaken, PTL DEF Spec
=============================================================================
