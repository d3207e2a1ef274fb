-------------------------- MODULE WritePathProofs --------------------------
(***************************************************************************)
(* Proofs about the write side of a connection.  The byte counter is a sum *)
(* over a buffer and over the goroutines inside sendFrame, so the first    *)
(* part proves what is needed of SumFunctionOnSet, by least counterexample *)
(* among the subsets of a finite set.                                      *)
(***************************************************************************)
EXTENDS WritePath, FiniteSetTheorems, TLAPS

\* The element MapThenFoldSet takes next.
Pick(T) == CHOOSE x \in T : TRUE

\* g holds the sums of f over the subsets of S.
IsSums(g, f, S) ==
    g = [T \in SUBSET S |-> IF T = {} THEN 0 ELSE f[Pick(T)] + g[T \ {Pick(T)}]]

Sums(f, S) == CHOOSE g : IsSums(g, f, S)

\* What SumFunctionOnSet computes, in these terms.
LEMMA SumIs == \A f, S : SumFunctionOnSet(f, S) = Sums(f, S)[S]
BY DEF SumFunctionOnSet, FoldFunctionOnSet, MapThenFoldSet, Sums, IsSums, Pick

\* Among subsets of a finite set there is a least one.
LEMMA LeastSubset ==
    ASSUME NEW S, IsFiniteSet(S), NEW B \in SUBSET (SUBSET S), B # {}
    PROVE  \E T \in B : \A U \in B : ~(U \subseteq T /\ U # T)
<1>1. IsWellFoundedOn(StrictSubsetOrdering(S), SUBSET S)
  BY FS_StrictSubsetOrderingWellFounded, FS_FiniteSubsetsOfFinite
<1>2. PICK T \in B : \A U \in B : <<U, T>> \notin StrictSubsetOrdering(S)
  BY <1>1, WFMin
<1>3. \A U \in B : U \subseteq T /\ U # T => <<U, T>> \in StrictSubsetOrdering(S)
  BY DEF StrictSubsetOrdering
<1>4. \A U \in B : ~(U \subseteq T /\ U # T)
  BY <1>2, <1>3
<1>5. QED
  BY <1>4

\* The picked element is an element.
LEMMA PickIn == \A T : T # {} => Pick(T) \in T
BY DEF Pick

\* Two functions of sums agree where both are defined.
LEMMA SumsAgree ==
    ASSUME NEW f, NEW S, IsFiniteSet(S), NEW V \in SUBSET S,
           NEW g, NEW h, IsSums(g, f, S), IsSums(h, f, V)
    PROVE  \A T \in SUBSET V : g[T] = h[T]
<1> DEFINE B == {T \in SUBSET V : g[T] # h[T]}
<1>1. SUFFICES ASSUME B # {} PROVE FALSE
  OBVIOUS
<1>2. IsFiniteSet(V) /\ B \in SUBSET (SUBSET V)
  BY FS_Subset
<1> HIDE DEF B
<1>3. PICK T \in B : \A U \in B : ~(U \subseteq T /\ U # T)
  BY <1>1, <1>2, LeastSubset
<1> USE DEF B
<1>4. T # {}
  BY <1>3 DEF IsSums
<1>5. Pick(T) \in T /\ T \ {Pick(T)} \subseteq T /\ T \ {Pick(T)} # T
  BY <1>4, PickIn
<1>6. g[T \ {Pick(T)}] = h[T \ {Pick(T)}]
  BY <1>3, <1>5
<1>7. /\ g[T] = f[Pick(T)] + g[T \ {Pick(T)}]
      /\ h[T] = f[Pick(T)] + h[T \ {Pick(T)}]
  BY <1>3, <1>4 DEF IsSums
<1>8. QED
  BY <1>3, <1>6, <1>7

\* The recursive definition defines: a finite set has a function of sums.
LEMMA SumsExist ==
    ASSUME NEW f, NEW S, IsFiniteSet(S)
    PROVE  IsSums(Sums(f, S), f, S)
<1> DEFINE Has(T) == \E g : IsSums(g, f, T)
           B == {T \in SUBSET S : ~Has(T)}
<1>1. \A T : Has(T) => IsSums(Sums(f, T), f, T)
  BY DEF Sums
<1>2. SUFFICES ASSUME B # {} PROVE FALSE
  BY <1>1
<1> B \in SUBSET (SUBSET S)
  OBVIOUS
<1> HIDE DEF B
<1>3. PICK T \in B : \A U \in B : ~(U \subseteq T /\ U # T)
  BY <1>2, LeastSubset
<1> USE DEF B
<1>4. \A U \in SUBSET T : U # T => IsSums(Sums(f, U), f, U)
  BY <1>1, <1>3
<1> DEFINE g == [U \in SUBSET T |->
                    IF U = {} THEN 0
                    ELSE f[Pick(U)] + Sums(f, U \ {Pick(U)})[U \ {Pick(U)}]]
<1>5. ASSUME NEW U \in SUBSET T, U # T PROVE g[U] = Sums(f, U)[U]
  <2>1. CASE U = {}
    BY <1>4, <1>5, <2>1 DEF IsSums
  <2>2. CASE U # {}
    <3> DEFINE V == U \ {Pick(U)}
    <3>1. Pick(U) \in U /\ V \in SUBSET U /\ V \in SUBSET T /\ V # T
      BY <1>5, <2>2, PickIn
    <3>2. IsSums(Sums(f, V), f, V) /\ IsSums(Sums(f, U), f, U) /\ IsFiniteSet(U)
      BY <1>3, <1>4, <1>5, <3>1, FS_Subset
    <3> HIDE DEF V
    <3>3. Sums(f, U)[V] = Sums(f, V)[V]
      BY ONLY <3>1, <3>2, SumsAgree
    <3> USE DEF V
    <3>4. Sums(f, U)[U] = f[Pick(U)] + Sums(f, U)[V]
      BY <2>2, <3>2 DEF IsSums
    <3>5. g[U] = f[Pick(U)] + Sums(f, V)[V]
      BY <1>5, <2>2
    <3>6. QED
      BY <3>3, <3>4, <3>5
  <2>3. QED
    BY <2>1, <2>2
<1>6. ASSUME NEW U \in SUBSET T
      PROVE  g[U] = IF U = {} THEN 0 ELSE f[Pick(U)] + g[U \ {Pick(U)}]
  <2>1. U # {} => U \ {Pick(U)} \in SUBSET T /\ U \ {Pick(U)} # T
    BY PickIn
  <2>2. U # {} => g[U \ {Pick(U)}] = Sums(f, U \ {Pick(U)})[U \ {Pick(U)}]
    BY <1>5, <2>1
  <2>3. g[U] = IF U = {} THEN 0
               ELSE f[Pick(U)] + Sums(f, U \ {Pick(U)})[U \ {Pick(U)}]
    OBVIOUS
  <2> HIDE DEF g
  <2>4. QED
    BY <2>2, <2>3
<1>7. IsSums(g, f, T)
  <2>1. DOMAIN g = SUBSET T /\ g = [U \in SUBSET T |-> g[U]]
    OBVIOUS
  <2> HIDE DEF g
  <2>2. QED
    BY <1>6, <2>1 DEF IsSums
<1>8. QED
  BY <1>3, <1>7

\* The recursion of SumFunctionOnSet, one element at a time.
LEMMA SumStep ==
    ASSUME NEW f, NEW S, IsFiniteSet(S)
    PROVE  /\ S = {} => SumFunctionOnSet(f, S) = 0
           /\ S # {} => /\ Pick(S) \in S
                        /\ SumFunctionOnSet(f, S)
                               = f[Pick(S)] + SumFunctionOnSet(f, S \ {Pick(S)})
<1> DEFINE V == S \ {Pick(S)}
<1>1. IsSums(Sums(f, S), f, S) /\ IsFiniteSet(V) /\ V \in SUBSET S
  BY SumsExist, FS_Subset
<1>2. IsSums(Sums(f, V), f, V)
  BY <1>1, SumsExist
<1> HIDE DEF V
<1>3. Sums(f, S)[V] = Sums(f, V)[V]
  BY <1>1, <1>2, SumsAgree
<1> USE DEF V
<1>4. S = {} => Sums(f, S)[S] = 0
  BY <1>1 DEF IsSums
<1>5. S # {} => Sums(f, S)[S] = f[Pick(S)] + Sums(f, S)[V]
  BY <1>1 DEF IsSums
<1>6. QED
  BY <1>3, <1>4, <1>5, SumIs, PickIn

\* Sums of numbers are numbers.
LEMMA SumType ==
    ASSUME NEW S, IsFiniteSet(S), NEW f, \A x \in S : f[x] \in Nat
    PROVE  SumFunctionOnSet(f, S) \in Nat
<1> DEFINE B == {T \in SUBSET S : SumFunctionOnSet(f, T) \notin Nat}
<1>1. SUFFICES ASSUME B # {} PROVE FALSE
  OBVIOUS
<1> B \in SUBSET (SUBSET S)
  OBVIOUS
<1> HIDE DEF B
<1>2. PICK T \in B : \A U \in B : ~(U \subseteq T /\ U # T)
  BY <1>1, LeastSubset
<1> USE DEF B
<1>3. T \in SUBSET S /\ SumFunctionOnSet(f, T) \notin Nat /\ IsFiniteSet(T)
  BY <1>2, FS_Subset
<1> DEFINE V == T \ {Pick(T)}
<1>e. T = {} => SumFunctionOnSet(f, T) = 0
  BY <1>3, SumStep
<1> T # {}
  BY ONLY <1>3, <1>e
<1>4. Pick(T) \in T /\ SumFunctionOnSet(f, T) = f[Pick(T)] + SumFunctionOnSet(f, V)
  BY <1>3, SumStep
<1>5. V \subseteq T /\ V # T /\ V \in SUBSET S
  BY <1>3, <1>4
<1>6. SumFunctionOnSet(f, V) \in Nat
  BY <1>2, <1>5
<1>7. f[Pick(T)] \in Nat
  BY <1>3, <1>4
<1>8. QED
  BY <1>3, <1>4, <1>6, <1>7

\* The order of summation does not matter: any element can be taken out first.
LEMMA SumRemove ==
    ASSUME NEW S, IsFiniteSet(S), NEW f, \A x \in S : f[x] \in Nat, NEW a \in S
    PROVE  SumFunctionOnSet(f, S) = f[a] + SumFunctionOnSet(f, S \ {a})
<1> DEFINE B == {T \in SUBSET S : \E b \in T :
                    SumFunctionOnSet(f, T) # f[b] + SumFunctionOnSet(f, T \ {b})}
<1>1. SUFFICES ASSUME B # {} PROVE FALSE
  OBVIOUS
<1> B \in SUBSET (SUBSET S)
  OBVIOUS
<1> HIDE DEF B
<1>2. PICK T \in B : \A U \in B : ~(U \subseteq T /\ U # T)
  BY <1>1, LeastSubset
<1> USE DEF B
<1>3. T \in SUBSET S /\ IsFiniteSet(T)
  BY <1>2, FS_Subset
<1>4. PICK b \in T : SumFunctionOnSet(f, T) # f[b] + SumFunctionOnSet(f, T \ {b})
  BY <1>2
<1> DEFINE p == Pick(T)
           V == T \ {p}
           W == T \ {b}
           X == V \ {b}
<1>5. p \in T /\ SumFunctionOnSet(f, T) = f[p] + SumFunctionOnSet(f, V)
  BY <1>3, <1>4, SumStep
<1>6. p # b
  BY <1>4, <1>5
<1>7. V \subseteq T /\ V # T /\ W \subseteq T /\ W # T /\ X = W \ {p} /\ b \in V /\ p \in W
  BY <1>4, <1>5, <1>6
<1>8. V \in SUBSET S /\ W \in SUBSET S /\ X \in SUBSET S /\ V \notin B /\ W \notin B
  BY <1>2, <1>3, <1>7
<1>9. SumFunctionOnSet(f, V) = f[b] + SumFunctionOnSet(f, X)
  BY <1>7, <1>8
<1>10. SumFunctionOnSet(f, W) = f[p] + SumFunctionOnSet(f, X)
  BY <1>7, <1>8
<1>11. f[p] \in Nat /\ f[b] \in Nat /\ IsFiniteSet(X) /\ \A x \in X : f[x] \in Nat
  BY <1>3, <1>4, <1>5, <1>8, FS_Subset
<1> HIDE DEF X, V, W, p
<1>12. SumFunctionOnSet(f, X) \in Nat
  BY ONLY <1>11, SumType
<1>13. SumFunctionOnSet(f, T) = f[b] + SumFunctionOnSet(f, W)
  BY ONLY <1>5, <1>9, <1>10, <1>11, <1>12
<1>14. QED
  BY <1>4, <1>13 DEF W

\* Functions that agree on a set have one sum over it.
LEMMA SumSame ==
    ASSUME NEW S, IsFiniteSet(S), NEW f, NEW g, \A x \in S : f[x] = g[x]
    PROVE  SumFunctionOnSet(f, S) = SumFunctionOnSet(g, S)
<1> DEFINE B == {T \in SUBSET S : SumFunctionOnSet(f, T) # SumFunctionOnSet(g, T)}
<1>1. SUFFICES ASSUME B # {} PROVE FALSE
  OBVIOUS
<1> B \in SUBSET (SUBSET S)
  OBVIOUS
<1> HIDE DEF B
<1>2. PICK T \in B : \A U \in B : ~(U \subseteq T /\ U # T)
  BY <1>1, LeastSubset
<1> USE DEF B
<1>3. T \in SUBSET S /\ IsFiniteSet(T) /\ SumFunctionOnSet(f, T) # SumFunctionOnSet(g, T)
  BY <1>2, FS_Subset
<1>4. T # {}
  BY <1>3, SumStep
<1> DEFINE V == T \ {Pick(T)}
<1>5. /\ Pick(T) \in T
      /\ SumFunctionOnSet(f, T) = f[Pick(T)] + SumFunctionOnSet(f, V)
      /\ SumFunctionOnSet(g, T) = g[Pick(T)] + SumFunctionOnSet(g, V)
  BY <1>3, <1>4, SumStep
<1>6. V \subseteq T /\ V # T /\ V \in SUBSET S
  BY <1>3, <1>5
<1>7. SumFunctionOnSet(f, V) = SumFunctionOnSet(g, V)
  BY <1>2, <1>6
<1>8. f[Pick(T)] = g[Pick(T)]
  BY <1>3, <1>5
<1>9. QED
  BY <1>3, <1>5, <1>7, <1>8

\* Sums grow with the set and with the summands.
LEMMA SumGrows ==
    ASSUME NEW S, IsFiniteSet(S), NEW V \in SUBSET S, NEW f, NEW g,
           \A x \in S : f[x] \in Nat /\ g[x] \in Nat,
           \A x \in V : f[x] <= g[x]
    PROVE  SumFunctionOnSet(f, V) <= SumFunctionOnSet(g, S)
<1> DEFINE B == {T \in SUBSET S :
                    ~(SumFunctionOnSet(f, T \cap V) <= SumFunctionOnSet(g, T))}
<1>1. SUFFICES ASSUME B # {} PROVE FALSE
  <2>1. S \cap V = V
    OBVIOUS
  <2>2. QED
    BY <2>1
<1> B \in SUBSET (SUBSET S)
  OBVIOUS
<1> HIDE DEF B
<1>2. PICK T \in B : \A U \in B : ~(U \subseteq T /\ U # T)
  BY <1>1, LeastSubset
<1> USE DEF B
<1>3. /\ T \in SUBSET S /\ IsFiniteSet(T) /\ IsFiniteSet(T \cap V)
      /\ ~(SumFunctionOnSet(f, T \cap V) <= SumFunctionOnSet(g, T))
  BY <1>2, FS_Subset
<1>4. T # {}
  <2>1. SUFFICES ASSUME T = {} PROVE FALSE
    OBVIOUS
  <2>2. SumFunctionOnSet(f, T \cap V) = 0 /\ SumFunctionOnSet(g, T) = 0
    BY <1>3, <2>1, SumStep
  <2>3. QED
    BY <1>3, <2>2
<1> DEFINE p == Pick(T)
           W == T \ {p}
<1>5. p \in T /\ SumFunctionOnSet(g, T) = g[p] + SumFunctionOnSet(g, W)
  BY <1>3, <1>4, SumStep
<1>6. W \subseteq T /\ W # T /\ W \in SUBSET S
  BY <1>3, <1>5
<1>7. SumFunctionOnSet(f, W \cap V) <= SumFunctionOnSet(g, W)
  BY <1>2, <1>6
<1>8. /\ IsFiniteSet(W) /\ IsFiniteSet(W \cap V)
      /\ \A x \in W : g[x] \in Nat
      /\ \A x \in W \cap V : f[x] \in Nat
      /\ \A x \in T \cap V : f[x] \in Nat
      /\ g[p] \in Nat /\ f[p] \in Nat
      /\ p \in V => p \in T \cap V /\ f[p] <= g[p] /\ (T \cap V) \ {p} = W \cap V
      /\ p \notin V => T \cap V = W \cap V
  BY <1>3, <1>5, <1>6, FS_Subset
<1> HIDE DEF p, W
<1>9. SumFunctionOnSet(f, W \cap V) \in Nat
  BY ONLY <1>8, SumType
<1>10. SumFunctionOnSet(g, W) \in Nat
  BY ONLY <1>8, SumType
<1>11. CASE p \in V
  <2>1. SumFunctionOnSet(f, T \cap V) = f[p] + SumFunctionOnSet(f, W \cap V)
    BY ONLY <1>3, <1>8, <1>11, SumRemove
  <2>2. QED
    BY ONLY <1>3, <1>5, <1>7, <1>8, <1>9, <1>10, <1>11, <2>1
<1>12. CASE p \notin V
  <2>1. SumFunctionOnSet(f, T \cap V) = SumFunctionOnSet(f, W \cap V) /\ g[p] \in Nat
    BY ONLY <1>8, <1>12
  <2>2. QED
    BY ONLY <1>3, <1>5, <1>7, <1>9, <1>10, <2>1
<1>13. QED
  BY <1>11, <1>12

\* A sum over numbers that have all moved up by one.
LEMMA SumShift ==
    ASSUME NEW S, S \subseteq Nat, IsFiniteSet(S), NEW f, NEW g,
           \A x \in S : f[x] = g[x + 1] /\ f[x] \in Nat
    PROVE  SumFunctionOnSet(f, S) = SumFunctionOnSet(g, {x + 1 : x \in S})
<1> DEFINE Up(T) == {x + 1 : x \in T}
           B == {T \in SUBSET S : SumFunctionOnSet(f, T) # SumFunctionOnSet(g, Up(T))}
<1>1. SUFFICES ASSUME B # {} PROVE FALSE
  OBVIOUS
<1>b. B \in SUBSET (SUBSET S)
  OBVIOUS
<1> HIDE DEF B, Up
<1>2. PICK T \in B : \A U \in B : ~(U \subseteq T /\ U # T)
  BY ONLY IsFiniteSet(S), <1>1, <1>b, LeastSubset
<1>3. T \in SUBSET S /\ IsFiniteSet(T) /\ SumFunctionOnSet(f, T) # SumFunctionOnSet(g, Up(T))
  BY <1>2, FS_Subset DEF B
<1>4. IsFiniteSet(Up(T))
  <2> DEFINE s == [x \in T |-> x + 1]
  <2>1. s \in Surjection(T, Up(T))
    BY DEF Surjection, Up
  <2>2. QED
    BY ONLY <1>3, <2>1, FS_Surjection
<1>5. T # {}
  <2>1. SUFFICES ASSUME T = {} PROVE FALSE
    OBVIOUS
  <2>2. Up(T) = {}
    BY <2>1 DEF Up
  <2>3. SumFunctionOnSet(f, T) = 0 /\ SumFunctionOnSet(g, Up(T)) = 0
    BY <1>3, <1>4, <2>1, <2>2, SumStep
  <2>4. QED
    BY <1>3, <2>3
<1>6. PICK p \in T : TRUE
  BY <1>5
<1> DEFINE V == T \ {p}
<1>7. V \subseteq T /\ V # T /\ V \in SUBSET S
  BY <1>3, <1>6
<1>8. SumFunctionOnSet(f, V) = SumFunctionOnSet(g, Up(V))
  BY <1>2, <1>7 DEF B
<1>9. SumFunctionOnSet(f, T) = f[p] + SumFunctionOnSet(f, V)
  BY <1>3, SumRemove
<1>10. p + 1 \in Up(T) /\ Up(V) = Up(T) \ {p + 1} /\ f[p] = g[p + 1]
  <2>1. T \subseteq Nat /\ \A x, y \in T : x + 1 = y + 1 => x = y
    BY <1>3
  <2>2. QED
    BY ONLY <1>3, <1>6, <2>1, \A x \in S : f[x] = g[x + 1], Zenon DEF Up
<1>11. \A y \in Up(T) : g[y] \in Nat
  BY <1>3 DEF Up
<1> DEFINE q == p + 1
<1> HIDE DEF q, V
<1>12. q \in Up(T) /\ Up(V) = Up(T) \ {q} /\ f[p] = g[q]
  BY <1>10 DEF q
<1>13. SumFunctionOnSet(g, Up(T)) = g[q] + SumFunctionOnSet(g, Up(T) \ {q})
  BY ONLY <1>4, <1>11, <1>12, SumRemove
<1>14. QED
  BY ONLY <1>3, <1>8, <1>9, <1>12, <1>13

\* A buffer of frames: what Append and Tail do to its sum.
LEMMA SumOfBuffer ==
    ASSUME NEW q \in Seq(Nat)
    PROVE  /\ SumFunction(q) \in Nat
           /\ q = << >> => SumFunction(q) = 0
           /\ \A n \in Nat : SumFunction(Append(q, n)) = SumFunction(q) + n
           /\ q # << >> => SumFunction(q) = Head(q) + SumFunction(Tail(q))
<1>1. DOMAIN q = 1 .. Len(q) /\ Len(q) \in Nat /\ \A i \in DOMAIN q : q[i] \in Nat
  OBVIOUS
<1>2. IsFiniteSet(DOMAIN q)
  BY <1>1, FS_Interval
<1>3. SumFunction(q) \in Nat
  BY <1>1, <1>2, SumType DEF SumFunction
<1>4. ASSUME q = << >> PROVE SumFunction(q) = 0
  <2>1. DOMAIN q = {}
    BY <1>1, <1>4
  <2>2. QED
    BY <1>2, <2>1, SumStep DEF SumFunction
<1>5. ASSUME NEW n \in Nat PROVE SumFunction(Append(q, n)) = SumFunction(q) + n
  <2> DEFINE r == Append(q, n)
             k == Len(q) + 1
  <2>1. /\ DOMAIN r = 1 .. k /\ k \in Nat /\ r[k] = n
        /\ (1 .. k) \ {k} = DOMAIN q
        /\ \A i \in 1 .. k : r[i] \in Nat
        /\ \A i \in DOMAIN q : r[i] = q[i]
        /\ k \in 1 .. k
    BY <1>1
  <2> HIDE DEF r, k
  <2>2. IsFiniteSet(1 .. k)
    BY <2>1, FS_Interval
  <2> DEFINE K == 1 .. k
  <2>3. K = 1 .. k
    OBVIOUS
  <2> HIDE DEF K
  <2>4. SumFunctionOnSet(r, K) = r[k] + SumFunctionOnSet(r, K \ {k})
    BY ONLY <2>1, <2>2, <2>3, SumRemove
  <2>5. SumFunctionOnSet(r, DOMAIN q) = SumFunctionOnSet(q, DOMAIN q)
    BY ONLY <1>2, <2>1, SumSame
  <2>6. SumFunction(r) = SumFunctionOnSet(r, K)
    BY <2>1, <2>3 DEF SumFunction
  <2>7. SumFunction(r) = n + SumFunction(q)
    BY <2>1, <2>3, <2>4, <2>5, <2>6 DEF SumFunction
  <2>8. QED
    BY <1>3, <2>7 DEF r
<1>6. ASSUME q # << >> PROVE SumFunction(q) = Head(q) + SumFunction(Tail(q))
  <2> DEFINE t == Tail(q)
             D == DOMAIN q
             E == DOMAIN t
  <2>1. /\ Len(t) \in Nat /\ E = 1 .. Len(t)
        /\ 1 \in D /\ Head(q) = q[1]
        /\ \A i \in E : t[i] = q[i + 1] /\ t[i] \in Nat
    BY <1>1, <1>6
  <2>2. D \ {1} = {i + 1 : i \in E}
    <3>1. Len(t) = Len(q) - 1
      BY <1>1, <1>6
    <3>2. \A j \in D \ {1} : j - 1 \in E /\ j = (j - 1) + 1
      BY <1>1, <2>1, <3>1
    <3>3. \A i \in E : i + 1 \in D \ {1}
      BY <1>1, <2>1, <3>1
    <3>4. QED
      BY <3>2, <3>3
  <2>3. E \in SUBSET Nat /\ IsFiniteSet(E)
    BY <2>1, FS_Interval
  <2>4. IsFiniteSet(D) /\ \A i \in D : q[i] \in Nat
    BY <1>1, <1>2
  <2>5. SumFunction(q) = SumFunctionOnSet(q, D) /\ SumFunction(t) = SumFunctionOnSet(t, E)
    BY DEF SumFunction
  <2> HIDE DEF D, E, t
  <2>6. SumFunctionOnSet(q, D) = q[1] + SumFunctionOnSet(q, D \ {1})
    BY ONLY <2>1, <2>4, SumRemove
  <2>7. SumFunctionOnSet(t, E) = SumFunctionOnSet(q, {i + 1 : i \in E})
    BY ONLY <2>1, <2>3, SumShift
  <2>8. QED
    BY <2>1, <2>2, <2>5, <2>6, <2>7 DEF t
<1>7. QED
  BY <1>3, <1>4, <1>5, <1>6
-----------------------------------------------------------------------------
(* The inductive invariant. *)

Inside == {s \in Sender : at[s] \in {"test", "select"}}
Adding == {s \in Sender : at[s] = "add"}
InAdds == SumFunctionOnSet(size, Adding)
Added  == SumFunctionOnSet(size, Inside)
Most == [s \in Sender |-> MaxSize]

\* A goroutine inside sendFrame has a frame; a pump that is not writing has none.
HoldsFrame ==
    /\ \A s \in Sender : at[s] # "idle" => size[s] \in Sizes
    /\ pump \in {"select", "reject"} => writing = 0

\* The cap is exceeded by less than all goroutines' frames, those included that
\* have been compared with the counter and not added to it yet.
Overshoot == queued + InAdds <= MaxQueued + SumFunction(Most) - MaxSize

\* An error frame is with the pump only while the read loop waits for it, or
\* somebody else has closed the connection.
RejectWaits ==
    /\ pending \/ pump = "reject" => closed \/ loop = "await"
    /\ dropper = "dereg" => loop = "done"
    /\ RejectIsNotCutShort

WriteInv == TypeOK /\ HoldsFrame /\ QueuedIsExact /\ Overshoot /\ RejectWaits

\* The longest frame length is one, and bounds the others.
LEMMA LongestSize == MaxSize \in Sizes /\ MaxSize \in Nat /\ \A n \in Sizes : n <= MaxSize
BY WritePathConstants DEF MaxSize

\* The numbers among the constants.
LEMMA Numbers == Sizes \subseteq Nat /\ SendBuffer \in Nat /\ MaxQueued \in Nat
BY ONLY WritePathConstants

\* Goroutines' frames are numbers, and subsets of the goroutines are finite.
LEMMA SendersFinite ==
    ASSUME TypeOK
    PROVE  /\ Sender \in SUBSET Sender
           /\ \A T \in SUBSET Sender : IsFiniteSet(T)
           /\ \A s \in Sender : size[s] \in Nat
           /\ InAdds \in Nat /\ Added \in Nat
<1>1. \A T \in SUBSET Sender : IsFiniteSet(T)
  BY WritePathConstants, FS_Subset
<1>2. \A s \in Sender : size[s] \in Nat
  <2>1. size \in [Sender -> Sizes \cup {0}]
    BY DEF TypeOK
  <2>2. Sizes \cup {0} \subseteq Nat
    BY ONLY Numbers
  <2>3. QED
    BY ONLY <2>1, <2>2
<1>3. Adding \in SUBSET Sender /\ Inside \in SUBSET Sender
  BY DEF Adding, Inside
<1>4. InAdds \in Nat
  BY <1>1, <1>2, <1>3, SumType DEF InAdds
<1>5. Added \in Nat
  BY <1>1, <1>2, <1>3, SumType DEF Added
<1>6. QED
  BY <1>1, <1>2, <1>4, <1>5

\* The bound on the overshoot is a number, with one frame per goroutine.
LEMMA MostIsSum ==
    /\ SumFunction(Most) \in Nat
    /\ \A s \in Sender :
         /\ SumFunctionOnSet(Most, Sender \ {s}) \in Nat
         /\ SumFunction(Most) = MaxSize + SumFunctionOnSet(Most, Sender \ {s})
<1>1. IsFiniteSet(Sender) /\ DOMAIN Most = Sender /\ \A s \in Sender : Most[s] = MaxSize
  BY WritePathConstants DEF Most
<1>2. \A s \in Sender : Most[s] \in Nat
  BY <1>1, LongestSize
<1>3. SumFunction(Most) = SumFunctionOnSet(Most, Sender)
  BY <1>1 DEF SumFunction
<1>4. SumFunction(Most) \in Nat
  BY <1>1, <1>2, <1>3, SumType
<1>5. ASSUME NEW s \in Sender
      PROVE  /\ SumFunctionOnSet(Most, Sender \ {s}) \in Nat
             /\ SumFunction(Most) = MaxSize + SumFunctionOnSet(Most, Sender \ {s})
  <2>1. SumFunctionOnSet(Most, Sender) = Most[s] + SumFunctionOnSet(Most, Sender \ {s})
    BY <1>1, <1>2, SumRemove
  <2>2. IsFiniteSet(Sender \ {s}) /\ \A x \in Sender \ {s} : Most[x] \in Nat
    BY <1>1, <1>2, FS_Subset
  <2>3. SumFunctionOnSet(Most, Sender \ {s}) \in Nat
    BY <2>2, SumType
  <2>4. QED
    BY <1>1, <1>3, <2>1, <2>3
<1>6. QED
  BY <1>4, <1>5

\* An idle connection.
LEMMA InitWriteInv == Init => WriteInv
<1> SUFFICES ASSUME Init PROVE WriteInv
  OBVIOUS
<1>1. TypeOK
  <2>1. size \in [Sender -> Sizes \cup {0}] /\ send \in Seq(Sizes) /\ writing \in Sizes \cup {0}
    BY DEF Init
  <2>2. Len(send) <= SendBuffer /\ queued \in Nat
    BY Numbers DEF Init
  <2>3. QED
    BY <2>1, <2>2 DEF Init, TypeOK, Droppers
<1>2. HoldsFrame /\ RejectWaits
  BY DEF Init, HoldsFrame, RejectWaits, RejectIsNotCutShort
<1>3. Inside = {} /\ Adding = {}
  BY DEF Init, Inside, Adding
<1>4. Added = 0 /\ InAdds = 0
  BY <1>3, SumStep, FS_EmptySet DEF Added, InAdds
<1>5. SumFunction(send) = 0
  <2>1. send \in Seq(Nat) /\ send = << >>
    BY DEF Init
  <2>2. QED
    BY ONLY <2>1, SumOfBuffer
<1>6. QueuedIsExact
  BY <1>4, <1>5 DEF Init, QueuedIsExact, Added, Inside
<1>7. Overshoot
  <2>1. PICK s \in Sender : TRUE
    BY WritePathConstants
  <2>2. queued = 0 /\ MaxQueued \in Nat
    BY WritePathConstants DEF Init
  <2> DEFINE rest == SumFunctionOnSet(Most, Sender \ {s})
             all == SumFunction(Most)
  <2>3. rest \in Nat /\ all = MaxSize + rest /\ MaxSize \in Nat
    BY <2>1, MostIsSum, LongestSize
  <2> HIDE DEF rest, all
  <2>4. 0 <= MaxQueued + all - MaxSize
    BY ONLY <2>2, <2>3
  <2>5. QED
    BY <1>4, <2>2, <2>4 DEF Overshoot, all
<1>8. QED
  BY <1>1, <1>2, <1>6, <1>7 DEF WriteInv

-----------------------------------------------------------------------------
(* What a step does to the sums. *)

\* Senders that stay where they are leave the sums as they are.
LEMMA SumsKept ==
    ASSUME UNCHANGED senders
    PROVE  Added' = Added /\ InAdds' = InAdds
<1>1. Inside' = Inside /\ Adding' = Adding /\ size' = size
  BY DEF senders, Inside, Adding
<1>2. QED
  BY <1>1 DEF Added, InAdds

\* One goroutine more in a sum.
LEMMA SumJoins ==
    ASSUME NEW T, T \subseteq Sender, NEW s \in Sender, s \notin T,
           NEW f, \A x \in Sender : f[x] \in Nat
    PROVE  SumFunctionOnSet(f, T \cup {s}) = f[s] + SumFunctionOnSet(f, T)
<1> DEFINE W == T \cup {s}
<1>1. W \in SUBSET Sender /\ W \ {s} = T /\ s \in W /\ \A x \in W : f[x] \in Nat
  OBVIOUS
<1>2. IsFiniteSet(W)
  BY <1>1, WritePathConstants, FS_Subset
<1> HIDE DEF W
<1>3. SumFunctionOnSet(f, W) = f[s] + SumFunctionOnSet(f, W \ {s})
  BY ONLY <1>1, <1>2, SumRemove
<1>4. QED
  BY <1>1, <1>3 DEF W

\* A frame that passed the comparison is not in the counter; the others in its
\* place are at most one per other goroutine.
LEMMA SumsOfCheck ==
    ASSUME TypeOK, NEW s \in Sender, NEW n \in Sizes, Check(s, n)
    PROVE  /\ Added' = Added /\ InAdds' = InAdds + n
           /\ InAdds <= SumFunctionOnSet(Most, Sender \ {s})
<1>1. /\ at[s] = "idle" /\ at' = [at EXCEPT ![s] = "add"] /\ size' = [size EXCEPT ![s] = n]
      /\ at \in [Sender -> {"idle", "add", "test", "select"}]
      /\ size \in [Sender -> Sizes \cup {0}]
  BY DEF Check, TypeOK
<1>2. /\ Inside' = Inside /\ Adding' = Adding \cup {s} /\ s \notin Adding /\ s \notin Inside
      /\ Adding \subseteq Sender \ {s} /\ Inside \subseteq Sender \ {s}
  BY <1>1 DEF Inside, Adding
<1>3. size'[s] = n /\ \A x \in Sender \ {s} : size'[x] = size[x]
  BY <1>1
<1>4. \A x \in Sender : size[x] \in Nat /\ size'[x] \in Nat
  <2>1. \A x \in Sender : size[x] \in Nat
    BY SendersFinite
  <2>2. n \in Nat
    BY Numbers
  <2>3. QED
    BY <1>3, <2>1, <2>2
<1>5. IsFiniteSet(Adding) /\ IsFiniteSet(Inside) /\ IsFiniteSet(Sender \ {s}) /\ InAdds \in Nat
  BY <1>2, SendersFinite
<1>6. SumFunctionOnSet(size', Inside) = SumFunctionOnSet(size, Inside)
  BY ONLY <1>2, <1>3, <1>5, SumSame
<1>7. SumFunctionOnSet(size', Adding) = SumFunctionOnSet(size, Adding)
  BY ONLY <1>2, <1>3, <1>5, SumSame
<1>8. SumFunctionOnSet(size', Adding \cup {s}) = size'[s] + SumFunctionOnSet(size', Adding)
  BY <1>2, <1>4, SumJoins
<1>9. Added' = Added /\ InAdds' = n + InAdds
  BY <1>2, <1>3, <1>6, <1>7, <1>8 DEF Added, InAdds
<1>10. InAdds <= SumFunctionOnSet(Most, Sender \ {s})
  <2>1. \A x \in Sender \ {s} : size[x] \in Nat /\ Most[x] \in Nat
    BY <1>4, LongestSize DEF Most
  <2>2. \A x \in Adding : size[x] <= Most[x]
    <3>1. \A x \in Adding : size[x] \in Sizes \/ size[x] = 0
      BY <1>1, <1>2
    <3>2. \A x \in Adding : Most[x] = MaxSize
      BY <1>2 DEF Most
    <3>3. 0 <= MaxSize /\ \A m \in Sizes : m <= MaxSize
      BY LongestSize
    <3>4. QED
      BY ONLY <3>1, <3>2, <3>3
  <2>3. Adding \in SUBSET (Sender \ {s})
    BY <1>2
  <2> DEFINE R == Sender \ {s}
  <2> HIDE DEF R
  <2>4. IsFiniteSet(R) /\ Adding \in SUBSET R /\ \A x \in R : size[x] \in Nat /\ Most[x] \in Nat
    BY <1>5, <2>1, <2>3 DEF R
  <2>5. SumFunctionOnSet(size, Adding) <= SumFunctionOnSet(Most, R)
    BY ONLY <2>2, <2>4, SumGrows
  <2>6. QED
    BY <2>5 DEF InAdds, R
<1>11. n \in Nat
  BY Numbers
<1>12. QED
  BY <1>5, <1>9, <1>10, <1>11

\* The add moves a frame from one sum to the other.
LEMMA SumsOfAdd ==
    ASSUME TypeOK, NEW s \in Sender, Add(s)
    PROVE  Added' = size[s] + Added /\ InAdds = size[s] + InAdds' /\ InAdds' \in Nat
<1>1. /\ at[s] = "add" /\ at' = [at EXCEPT ![s] = "test"] /\ size' = size
      /\ at \in [Sender -> {"idle", "add", "test", "select"}]
  BY DEF Add, TypeOK
<1> DEFINE A == Adding \ {s}
<1>2. /\ Inside' = Inside \cup {s} /\ s \notin Inside /\ Inside \subseteq Sender
      /\ Adding = A \cup {s} /\ Adding' = A /\ s \notin A /\ A \subseteq Sender
  BY <1>1 DEF Inside, Adding
<1>3. \A x \in Sender : size[x] \in Nat
  BY SendersFinite
<1> HIDE DEF A
<1>4. SumFunctionOnSet(size, Inside \cup {s}) = size[s] + SumFunctionOnSet(size, Inside)
  BY <1>2, <1>3, SumJoins
<1>5. SumFunctionOnSet(size, A \cup {s}) = size[s] + SumFunctionOnSet(size, A)
  BY <1>2, <1>3, SumJoins
<1>6. SumFunctionOnSet(size, A) \in Nat
  <2>1. IsFiniteSet(A) /\ \A x \in A : size[x] \in Nat
    BY <1>2, <1>3, SendersFinite
  <2>2. QED
    BY ONLY <2>1, SumType
<1>7. QED
  BY <1>1, <1>2, <1>4, <1>5, <1>6 DEF Added, InAdds

\* A goroutine that leaves sendFrame leaves the sum.
LEMMA SumsOfLeave ==
    ASSUME TypeOK, NEW s \in Sender, at[s] \in {"test", "select"},
           at' = [at EXCEPT ![s] = "idle"], size' = size
    PROVE  Added = size[s] + Added' /\ InAdds' = InAdds /\ Added' \in Nat
<1>1. at \in [Sender -> {"idle", "add", "test", "select"}]
  BY DEF TypeOK
<1> DEFINE A == Inside \ {s}
<1>2. /\ Adding' = Adding
      /\ Inside = A \cup {s} /\ Inside' = A /\ s \notin A /\ A \subseteq Sender
  BY <1>1 DEF Inside, Adding
<1>3. \A x \in Sender : size[x] \in Nat
  BY SendersFinite
<1> HIDE DEF A
<1>4. SumFunctionOnSet(size, A \cup {s}) = size[s] + SumFunctionOnSet(size, A)
  BY <1>2, <1>3, SumJoins
<1>5. SumFunctionOnSet(size, A) \in Nat
  <2>1. IsFiniteSet(A) /\ \A x \in A : size[x] \in Nat
    BY <1>2, <1>3, SendersFinite
  <2>2. QED
    BY ONLY <2>1, SumType
<1>6. QED
  BY <1>2, <1>4, <1>5 DEF Added, InAdds

-----------------------------------------------------------------------------
(* The steps, one part of the invariant at a time. *)

\* The other goroutines' steps and the read loop's do not touch what is counted.
Uncounted == UNCHANGED <<senders, send, queued, writing>>

\* A step of Next is one that counts nothing, or one of seven.
LEMMA Steps ==
    ASSUME [Next]_vars
    PROVE  \/ Uncounted
           \/ \E s \in Sender : \/ \E n \in Sizes : Check(s, n)
                                \/ Add(s) \/ Return(s) \/ TestOpen(s) \/ Accept(s)
           \/ Take \/ Wrote
<1>1. CASE UNCHANGED vars
  BY <1>1 DEF vars, Uncounted, senders
<1>2. ASSUME NEW s \in Sender, NEW n \in Sizes, Shed(s, n) PROVE Uncounted
  BY <1>2 DEF Shed, Uncounted, pumping
<1>3. WriteFails \/ SeesClosed \/ TakeReject \/ WroteReject \/ PingFails => Uncounted
  BY DEF WriteFails, SeesClosed, TakeReject, WroteReject, PingFails, Uncounted
<1>4. HandOver \/ EndReject \/ Deregister \/ Reject \/ ReadFails \/ Evict => Uncounted
  BY DEF HandOver, EndReject, Deregister, Reject, ReadFails, Evict, Uncounted, pumping
<1>5. QED
  BY <1>1, <1>2, <1>3, <1>4 DEF Next, Sending, Pump, ReadLoop

\* Types, but for the counter's sign.
LEMMA StepTypes ==
    ASSUME TypeOK, HoldsFrame, [Next]_vars
    PROVE  /\ at' \in [Sender -> {"idle", "add", "test", "select"}]
           /\ size' \in [Sender -> Sizes \cup {0}]
           /\ send' \in Seq(Sizes) /\ Len(send') <= SendBuffer
           /\ closed' \in BOOLEAN
           /\ dropper' \in Droppers \cup {"nobody"}
           /\ pump' \in {"select", "write", "reject", "gone"}
           /\ writing' \in Sizes \cup {0}
           /\ pending' \in BOOLEAN
           /\ loop' \in {"read", "reject", "await", "dereg", "done"}
<1> USE DEF TypeOK
<1>1. at' \in [Sender -> {"idle", "add", "test", "select"}] /\ size' \in [Sender -> Sizes \cup {0}]
  BY Steps DEF Uncounted, senders, Check, Add, Return, TestOpen, Accept, Take, Wrote
<1>2. send' \in Seq(Sizes) /\ Len(send') <= SendBuffer /\ writing' \in Sizes \cup {0}
  <2>1. ASSUME NEW s \in Sender, Accept(s)
        PROVE  send' \in Seq(Sizes) /\ Len(send') <= SendBuffer /\ writing' = writing
    <3>1. size[s] \in Sizes /\ send' = Append(send, size[s]) /\ Len(send) < SendBuffer /\ writing' = writing
      BY <2>1 DEF Accept, HoldsFrame, pumping
    <3>2. QED
      BY <3>1, Numbers
  <2>2. ASSUME Take PROVE send' \in Seq(Sizes) /\ Len(send') <= SendBuffer /\ writing' \in Sizes
    BY <2>2, Numbers DEF Take
  <2>3. ASSUME NEW s \in Sender, NEW n \in Sizes, Check(s, n) \/ Add(s) \/ Return(s) \/ TestOpen(s)
        PROVE  send' = send /\ writing' = writing
    BY <2>3 DEF Check, Add, Return, TestOpen, pumping
  <2>4. ASSUME Uncounted \/ Wrote PROVE send' = send /\ writing' \in Sizes \cup {0}
    BY <2>4 DEF Uncounted, Wrote
  <2>5. PICK n \in Sizes : TRUE
    BY LongestSize
  <2>6. QED
    BY <2>1, <2>2, <2>3, <2>4, <2>5, Steps
<1>3. closed' \in BOOLEAN /\ dropper' \in Droppers \cup {"nobody"}
  BY DEF Next, vars, Sending, Pump, ReadLoop, Check, Add, Return, TestOpen, Accept, Shed, Take, Wrote,
         WriteFails, SeesClosed, TakeReject, WroteReject, PingFails, HandOver, EndReject,
         Deregister, Reject, ReadFails, Evict, Drop, Exit, conn, Droppers
<1>4. /\ pump' \in {"select", "write", "reject", "gone"} /\ pending' \in BOOLEAN
      /\ loop' \in {"read", "reject", "await", "dereg", "done"}
  BY DEF Next, vars, Sending, Pump, ReadLoop, Check, Add, Return, TestOpen, Accept, Shed, Take, Wrote,
         WriteFails, SeesClosed, TakeReject, WroteReject, PingFails, HandOver, EndReject,
         Deregister, Reject, ReadFails, Evict, pumping, reader
<1>5. QED
  BY <1>1, <1>2, <1>3, <1>4

\* The waiting that protects the error frame.
LEMMA StepRejectWaits ==
    ASSUME TypeOK, RejectWaits, [Next]_vars
    PROVE  RejectWaits'
<1> USE DEF RejectWaits, RejectIsNotCutShort
<1>1. CASE UNCHANGED vars
  BY <1>1 DEF vars
<1>2. CASE \E s \in Sender : Sending(s) \/ \E n \in Sizes : Shed(s, n) \/ Check(s, n)
  BY <1>2 DEF Sending, Check, Add, Return, TestOpen, Accept, Shed, Drop, conn, pumping, reader
<1>3. CASE Pump \/ PingFails
  BY <1>3 DEF Pump, Take, Wrote, WriteFails, SeesClosed, TakeReject, WroteReject, PingFails,
              Exit, Drop, conn, pumping, reader
<1>4. CASE ReadLoop \/ Reject \/ ReadFails
  BY <1>4 DEF TypeOK, ReadLoop, HandOver, EndReject, RejectDone, Deregister, Reject, ReadFails,
              Drop, conn, pumping
<1>5. CASE Evict
  BY <1>5 DEF Evict, Drop, pumping, reader
<1>6. QED
  BY <1>1, <1>2, <1>3, <1>4, <1>5 DEF Next

\* Whoever holds a frame.
LEMMA StepHoldsFrame ==
    ASSUME TypeOK, HoldsFrame, [Next]_vars
    PROVE  HoldsFrame'
<1>1. \A s \in Sender : at'[s] # "idle" => size'[s] \in Sizes
  <2> USE DEF TypeOK, HoldsFrame
  <2>1. CASE Uncounted \/ Take \/ Wrote
    BY <2>1 DEF Uncounted, senders, Take, Wrote
  <2>2. ASSUME NEW s \in Sender, NEW n \in Sizes, Check(s, n)
        PROVE  \A x \in Sender : at'[x] # "idle" => size'[x] \in Sizes
    BY <2>2 DEF Check
  <2>3. ASSUME NEW s \in Sender, Add(s) \/ Return(s) \/ TestOpen(s) \/ Accept(s)
        PROVE  \A x \in Sender : at'[x] # "idle" => size'[x] \in Sizes
    BY <2>3 DEF Add, Return, TestOpen, Accept
  <2>4. QED
    BY <2>1, <2>2, <2>3, Steps
<1>2. pump' \in {"select", "reject"} => writing' = 0
  BY DEF HoldsFrame, Next, vars, Sending, Pump, ReadLoop, Check, Add, Return, TestOpen, Accept, Shed,
         Take, Wrote, WriteFails, SeesClosed, TakeReject, WroteReject, PingFails, HandOver, EndReject,
         Deregister, Reject, ReadFails, Evict, pumping, reader
<1>3. QED
  BY <1>1, <1>2 DEF HoldsFrame

\* A sequence over a set is one over any larger set.
LEMMA SeqOfMore ==
    ASSUME NEW S, NEW T, S \subseteq T, NEW q \in Seq(S)
    PROVE  q \in Seq(T)
OBVIOUS

\* The counter, in the terms of this module.
LEMMA ExactIs == QueuedIsExact <=> queued = SumFunction(send) + writing + Added
BY DEF QueuedIsExact, Added, Inside

\* Both sums at once: the counter follows every frame through the buffer and the
\* pump, and no step but a check adds to what may overshoot.
LEMMA StepCounter ==
    ASSUME WriteInv, [Next]_vars
    PROVE  /\ queued' = SumFunction(send') + writing' + Added'
           /\ queued' + InAdds' <= MaxQueued + SumFunction(Most) - MaxSize
<1> DEFINE buf == SumFunction(send)
           most == SumFunction(Most)
           bound == MaxQueued + most - MaxSize
<1>1. /\ queued = buf + writing + Added
      /\ queued + InAdds <= bound
  BY ExactIs DEF WriteInv, Overshoot
<1>2. /\ send \in Seq(Nat) /\ \A s \in Sender : size[s] \in Nat
      /\ queued \in Nat /\ writing \in Nat /\ Added \in Nat /\ InAdds \in Nat
  <2>1. TypeOK
    BY DEF WriteInv
  <2>2. send \in Seq(Nat) /\ writing \in Nat /\ queued \in Nat
    <3>1. send \in Seq(Sizes) /\ writing \in Sizes \cup {0} /\ queued \in Nat
      BY <2>1 DEF TypeOK
    <3>2. Sizes \cup {0} \subseteq Nat /\ Sizes \subseteq Nat
      BY ONLY Numbers
    <3>3. writing \in Nat
      BY ONLY <3>1, <3>2
    <3>4. send \in Seq(Nat)
      BY ONLY <3>1, <3>2, SeqOfMore
    <3>5. QED
      BY <3>1, <3>3, <3>4
  <2>3. QED
    BY <2>1, <2>2, SendersFinite
<1>3. buf \in Nat /\ most \in Nat /\ MaxSize \in Nat /\ MaxQueued \in Nat /\ bound \in Int
  <2>1. buf \in Nat
    BY <1>2, SumOfBuffer
  <2>2. most \in Nat /\ MaxSize \in Nat /\ MaxQueued \in Nat
    BY MostIsSum, LongestSize, Numbers
  <2> HIDE DEF buf, most
  <2>3. QED
    BY <2>1, <2>2
<1>n. queued \in Nat /\ writing \in Nat /\ Added \in Nat /\ InAdds \in Nat
  BY <1>2
<1>4. CASE Uncounted
  BY <1>1, <1>4, SumsKept DEF Uncounted
<1>5. CASE Take
  <2>1. /\ UNCHANGED senders /\ queued' = queued /\ writing = 0
        /\ send # << >> /\ writing' = Head(send) /\ send' = Tail(send)
    BY <1>5 DEF Take, WriteInv, HoldsFrame
  <2>2. buf = Head(send) + SumFunction(Tail(send))
    BY <1>2, <2>1, SumOfBuffer
  <2>3. Added' = Added /\ InAdds' = InAdds
    BY <2>1, SumsKept
  <2> DEFINE tail == SumFunction(Tail(send))
             h == Head(send)
  <2>4. tail \in Nat /\ h \in Nat
    <3>1. Tail(send) \in Seq(Nat) /\ h \in Nat
      BY <1>2, <2>1
    <3>2. QED
      BY <3>1, SumOfBuffer
  <2>5. SumFunction(send') = tail /\ writing' = h /\ buf = h + tail
    BY <2>1, <2>2
  <2> HIDE DEF buf, tail, h, bound
  <2>6. QED
    BY <1>1, <1>2, <1>3, <2>1, <2>3, <2>4, <2>5 DEF bound
<1>6. CASE Wrote
  <2>1. UNCHANGED senders /\ queued' = queued - writing /\ writing' = 0 /\ send' = send
    BY <1>6 DEF Wrote
  <2>2. Added' = Added /\ InAdds' = InAdds /\ SumFunction(send') = buf
    BY <2>1, SumsKept
  <2> HIDE DEF buf, bound
  <2>3. queued' = SumFunction(send') + writing' + Added'
    BY ONLY <1>1, <1>n, <1>3, <2>1, <2>2
  <2>4. queued' + InAdds' <= bound
    BY ONLY <1>1, <1>n, <1>3, <2>1, <2>2
  <2>5. QED
    BY <2>3, <2>4 DEF bound
<1>7. ASSUME NEW s \in Sender, NEW n \in Sizes, Check(s, n)
      PROVE  /\ queued' = SumFunction(send') + writing' + Added'
             /\ queued' + InAdds' <= bound
  <2>1. /\ queued' = queued /\ writing' = writing /\ send' = send
        /\ queued + n <= MaxQueued /\ n \in Nat
    BY <1>7, Numbers DEF Check, Fits, pumping
  <2> DEFINE rest == SumFunctionOnSet(Most, Sender \ {s})
  <2>2. Added' = Added /\ InAdds' = InAdds + n /\ InAdds <= rest
    BY <1>7, SumsOfCheck DEF WriteInv
  <2>3. rest \in Nat /\ most = MaxSize + rest /\ SumFunction(send') = buf
    BY <2>1, MostIsSum
  <2> HIDE DEF buf, most, rest
  <2>4. queued' = SumFunction(send') + writing' + Added'
    BY ONLY <1>1, <1>n, <1>3, <2>1, <2>2, <2>3
  <2>5. queued' + InAdds' <= bound
    BY ONLY <1>1, <1>n, <1>3, <2>1, <2>2, <2>3
  <2>6. QED
    BY <2>4, <2>5
<1>8. ASSUME NEW s \in Sender, Add(s)
      PROVE  /\ queued' = SumFunction(send') + writing' + Added'
             /\ queued' + InAdds' <= bound
  <2> DEFINE z == size[s]
  <2>1. queued' = queued + z /\ writing' = writing /\ send' = send /\ z \in Nat
    BY <1>2, <1>8 DEF Add, pumping
  <2>2. Added' = z + Added /\ InAdds = z + InAdds' /\ InAdds' \in Nat
    BY <1>8, SumsOfAdd DEF WriteInv
  <2>3. SumFunction(send') = buf
    BY <2>1
  <2> HIDE DEF buf, bound, z
  <2>4. queued' = SumFunction(send') + writing' + Added'
    BY ONLY <1>1, <1>n, <1>3, <2>1, <2>2, <2>3
  <2>5. queued' + InAdds' <= bound
    <3>1. queued + InAdds <= bound /\ bound \in Int
      BY ONLY <1>1, <1>3
    <3> DEFINE r == InAdds'
    <3>2. r \in Nat /\ InAdds = z + r
      BY <2>2
    <3> HIDE DEF r
    <3>3. queued + (z + r) <= bound /\ queued \in Nat /\ z \in Nat
      BY ONLY <1>n, <2>1, <3>1, <3>2
    <3>4. (queued + z) + r <= bound
      BY ONLY <3>1, <3>2, <3>3
    <3>5. QED
      BY <2>1, <3>4 DEF r
  <2>6. QED
    BY <2>4, <2>5
<1>9. ASSUME NEW s \in Sender, Return(s)
      PROVE  /\ queued' = SumFunction(send') + writing' + Added'
             /\ queued' + InAdds' <= bound
  <2> DEFINE z == size[s]
  <2>1. queued' = queued - z /\ writing' = writing /\ send' = send /\ z \in Nat
    BY <1>2, <1>9 DEF Return, Undo, pumping
  <2>2. Added = z + Added' /\ InAdds' = InAdds /\ Added' \in Nat
    BY <1>9, SumsOfLeave DEF WriteInv, Return
  <2>3. SumFunction(send') = buf
    BY <2>1
  <2> HIDE DEF buf, bound, z
  <2>4. queued' = SumFunction(send') + writing' + Added'
    BY ONLY <1>1, <1>n, <1>3, <2>1, <2>2, <2>3
  <2>5. queued' + InAdds' <= bound
    <3>1. queued + InAdds <= bound /\ bound \in Int
      BY ONLY <1>1, <1>3
    <3>2. QED
      BY ONLY <1>n, <2>1, <2>2, <3>1
  <2>6. QED
    BY <2>4, <2>5
<1>10. ASSUME NEW s \in Sender, Accept(s)
      PROVE  /\ queued' = SumFunction(send') + writing' + Added'
             /\ queued' + InAdds' <= bound
  <2> DEFINE z == size[s]
  <2>1. queued' = queued /\ writing' = writing /\ send' = Append(send, z) /\ z \in Nat
    BY <1>2, <1>10 DEF Accept, pumping
  <2>2. Added = z + Added' /\ InAdds' = InAdds /\ Added' \in Nat
    BY <1>10, SumsOfLeave DEF WriteInv, Accept
  <2>3. SumFunction(send') = buf + z
    BY <1>2, <2>1, SumOfBuffer
  <2> HIDE DEF buf, bound, z
  <2>4. queued' = SumFunction(send') + writing' + Added'
    BY ONLY <1>1, <1>n, <1>3, <2>1, <2>2, <2>3
  <2>5. queued' + InAdds' <= bound
    BY ONLY <1>1, <1>n, <1>3, <2>1, <2>2, <2>3
  <2>6. QED
    BY <2>4, <2>5
<1>11. ASSUME NEW s \in Sender, TestOpen(s)
      PROVE  /\ queued' = SumFunction(send') + writing' + Added'
             /\ queued' + InAdds' <= bound
  <2>1. /\ at[s] = "test" /\ at' = [at EXCEPT ![s] = "select"] /\ size' = size /\ queued' = queued
        /\ writing' = writing /\ send' = send /\ at \in [Sender -> {"idle", "add", "test", "select"}]
    BY <1>11 DEF TestOpen, pumping, WriteInv, TypeOK
  <2>2. Inside' = Inside /\ Adding' = Adding
    BY <2>1 DEF Inside, Adding
  <2>3. Added' = Added /\ InAdds' = InAdds
    BY <2>1, <2>2 DEF Added, InAdds
  <2>4. QED
    BY <1>1, <2>1, <2>3
<1>12. QED
  BY <1>4, <1>5, <1>6, <1>7, <1>8, <1>9, <1>10, <1>11, Steps

\* Every step keeps the invariant.
LEMMA StepWriteInv == WriteInv /\ [Next]_vars => WriteInv'
<1> SUFFICES ASSUME WriteInv, [Next]_vars PROVE WriteInv'
  OBVIOUS
<1>1. TypeOK /\ HoldsFrame /\ RejectWaits
  BY DEF WriteInv
<1>2. HoldsFrame' /\ RejectWaits'
  BY <1>1, StepHoldsFrame, StepRejectWaits
<1>3. QueuedIsExact'
  BY StepCounter DEF QueuedIsExact, Added, Inside
<1>4. Overshoot'
  <2>1. Most' = Most /\ MaxSize' = MaxSize
    BY DEF Most, MaxSize
  <2>2. QED
    BY <2>1, StepCounter DEF Overshoot
<1>5. queued' \in Nat
  <2>1. send' \in Seq(Nat) /\ writing' \in Nat /\ \A s \in Sender : size'[s] \in Nat
    <3>1. send' \in Seq(Sizes) /\ writing' \in Sizes \cup {0} /\ size' \in [Sender -> Sizes \cup {0}]
      BY <1>1, StepTypes
    <3>2. Sizes \cup {0} \subseteq Nat /\ Sizes \subseteq Nat
      BY ONLY Numbers
    <3>3. send' \in Seq(Nat)
      BY ONLY <3>1, <3>2, SeqOfMore
    <3>4. writing' \in Nat /\ \A s \in Sender : size'[s] \in Nat
      BY ONLY <3>1, <3>2
    <3>5. QED
      BY <3>3, <3>4
  <2>2. SumFunction(send') \in Nat
    BY <2>1, SumOfBuffer
  <2>3. IsFiniteSet(Inside') /\ \A s \in Inside' : size'[s] \in Nat
    <3>1. Inside' \in SUBSET Sender
      BY DEF Inside
    <3>2. QED
      BY <2>1, <3>1, WritePathConstants, FS_Subset
  <2>4. Added' \in Nat
    BY <2>3, SumType DEF Added
  <2>5. QED
    BY <2>1, <2>2, <2>4, StepCounter
<1>6. TypeOK'
  BY <1>1, <1>5, StepTypes DEF TypeOK
<1>7. QED
  BY <1>2, <1>3, <1>4, <1>6 DEF WriteInv

\* All of it holds in every reachable state.
LEMMA WriteInvariant == Spec => []WriteInv
<1>1. Init => WriteInv
  BY InitWriteInv
<1>2. WriteInv /\ [Next]_vars => WriteInv'
  BY StepWriteInv
<1>3. QED
  BY <1>1, <1>2, PTL DEF Spec

-----------------------------------------------------------------------------
(* The theorems. *)

\* client.queued is exact: for any number of goroutines, any interleaving of
\* their loads, adds and selects, and any way the pump ends, no byte is counted
\* twice or forgotten.
THEOREM CounterIsExact == Spec => []QueuedIsExact
<1>1. WriteInv => QueuedIsExact
  BY DEF WriteInv
<1>2. QED
  BY <1>1, WriteInvariant, PTL

\* The cap on queued bytes: check-then-add lets the goroutines inside sendFrame
\* together exceed it, by less than one frame for each of them.
THEOREM CapHolds == Spec => []OvershootIsBounded
<1>1. ASSUME WriteInv PROVE OvershootIsBounded
  <2> DEFINE bound == MaxQueued + SumFunction(Most) - MaxSize
  <2>1. queued + InAdds <= bound /\ queued \in Nat /\ InAdds \in Nat
    BY <1>1, SendersFinite DEF WriteInv, Overshoot, TypeOK
  <2>2. bound \in Int
    BY MostIsSum, LongestSize, Numbers
  <2> HIDE DEF bound
  <2>3. queued <= bound
    BY ONLY <2>1, <2>2
  <2>4. QED
    BY <2>3 DEF bound, OvershootIsBounded, Most
<1>2. QED
  BY <1>1, WriteInvariant, PTL

\* A refused hello: the read loop's own deregister never closes the connection
\* while the error frame is with the pump.
THEOREM ErrorFrameIsNotCut == Spec => []RejectIsNotCutShort
<1>1. WriteInv => RejectIsNotCutShort
  BY DEF WriteInv, RejectWaits
<1>2. QED
  BY <1>1, WriteInvariant, PTL
=============================================================================
