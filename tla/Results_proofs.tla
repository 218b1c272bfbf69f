-------------------------- MODULE Results_proofs --------------------------
(***************************************************************************)
(* Theorems about Results.  The laws of sums come first: a sum over a      *)
(* finite set is a recursive function on its subsets.  Induction is        *)
(* stated for a set of subsets, from which a smallest one is taken that    *)
(* is not as it should be.                                                 *)
(***************************************************************************)
EXTENDS Results, FiniteSetTheorems, FunctionTheorems, SequenceTheorems, WellFoundedInduction, TLAPS

LEMMA SmallestSubset ==
  ASSUME NEW S, IsFiniteSet(S), NEW B, B \subseteq SUBSET S, B # {}
  PROVE  \E T \in B : \A U \in B : U \subseteq T => U = T
  <1>1. IsWellFoundedOn(StrictSubsetOrdering(S), SUBSET S)
    BY FS_StrictSubsetOrderingWellFounded, FS_FiniteSubsetsOfFinite
  <1>2. PICK T \in B : \A U \in B : <<U, T>> \notin StrictSubsetOrdering(S)
    BY <1>1, WFMin
  <1> QED
    BY <1>2 DEF StrictSubsetOrdering

LEMMA SetInduction ==
  ASSUME NEW S, IsFiniteSet(S), NEW G, {} \in G,
         \A T \in SUBSET S : \A x \in S \ T : T \in G => T \cup {x} \in G
  PROVE  S \in G
  <1> DEFINE B == {T \in SUBSET S : T \notin G}
  <1> SUFFICES ASSUME B # {} PROVE FALSE
    OBVIOUS
  <1>1. B \subseteq SUBSET S
    OBVIOUS
  <1>2. PICK T \in B : \A U \in B : U \subseteq T => U = T
    <2> HIDE DEF B
    <2> QED
      BY <1>1, SmallestSubset
  <1>3. PICK x \in T : TRUE
    OBVIOUS
  <1>4. T \ {x} \in G
    BY <1>2
  <1>5. (T \ {x}) \cup {x} = T /\ x \in S \ (T \ {x})
    OBVIOUS
  <1> QED
    BY <1>4, <1>5

\* What SumFunctionOnSet says of its recursion: it is not known beforehand that such a
\* function exists, nor that it does not depend on the set it is a function on.
Recurses(f, S, g) ==
    g = [s \in SUBSET S |-> IF s = {} THEN 0
                            ELSE f[CHOOSE x \in s : TRUE] + g[s \ {CHOOSE x \in s : TRUE}]]

LEMMA RecursionUnique ==
  ASSUME NEW f, NEW S, IsFiniteSet(S), NEW U, S \subseteq U,
         NEW g, Recurses(f, S, g), NEW h, Recurses(f, U, h)
  PROVE  g[S] = h[S]
  <1> DEFINE B == {T \in SUBSET S : g[T] # h[T]}
  <1> SUFFICES ASSUME B # {} PROVE FALSE
    OBVIOUS
  <1>1. B \subseteq SUBSET S
    OBVIOUS
  <1>2. PICK T \in B : \A V \in B : V \subseteq T => V = T
    <2> HIDE DEF B
    <2> QED
      BY <1>1, SmallestSubset
  <1> DEFINE x == CHOOSE x \in T : TRUE
  <1>3. CASE T = {}
    BY <1>3 DEF Recurses
  <1>4. CASE T # {}
    <2>1. x \in T
      BY <1>4
    <2>2. g[T] = f[x] + g[T \ {x}]
      BY <1>4, Zenon DEF Recurses
    <2>3. h[T] = f[x] + h[T \ {x}]
      BY <1>4, Zenon DEF Recurses
    <2> HIDE DEF x
    <2>4. T \ {x} \in SUBSET S /\ T \ {x} # T /\ T \ {x} \notin B
      BY <1>2, <2>1
    <2>5. g[T \ {x}] = h[T \ {x}]
      BY <2>4
    <2> QED
      BY <2>2, <2>3, <2>5
  <1> QED
    BY <1>3, <1>4

LEMMA RecursionExists ==
  ASSUME NEW f, NEW S, IsFiniteSet(S)
  PROVE  \E g : Recurses(f, S, g)
  <1> DEFINE B == {T \in SUBSET S : \A g : ~Recurses(f, T, g)}
  <1> SUFFICES ASSUME B # {} PROVE FALSE
    OBVIOUS
  <1>1. PICK T \in B : \A V \in B : V \subseteq T => V = T
    <2>1. B \subseteq SUBSET S
      OBVIOUS
    <2> HIDE DEF B
    <2> QED
      BY <2>1, SmallestSubset
  <1> DEFINE h(U) == CHOOSE g : Recurses(f, U, g)
             x == CHOOSE x \in T : TRUE
             k == [U \in SUBSET T |-> IF U # T THEN h(U)[U]
                                      ELSE IF T = {} THEN 0 ELSE f[x] + h(T \ {x})[T \ {x}]]
  <1>2. \A U \in SUBSET T : U # T => Recurses(f, U, h(U))
    BY <1>1
  <1>3. ASSUME NEW U \in SUBSET T
        PROVE  k[U] = IF U = {} THEN 0
                      ELSE f[CHOOSE y \in U : TRUE] + k[U \ {CHOOSE y \in U : TRUE}]
    <2> DEFINE y == CHOOSE y \in U : TRUE
    <2>1. CASE U = {} /\ U = T
      BY <2>1
    <2>2. CASE U = {} /\ U # T
      <3>1. Recurses(f, U, h(U)) /\ k[U] = h(U)[U]
        BY <1>2, <2>2
      <3> HIDE DEF h
      <3> QED
        BY <2>2, <3>1 DEF Recurses
    <2>3. CASE U # {}
      <3>1. y \in U /\ U \ {y} \in SUBSET T /\ U \ {y} # T
        BY <2>3
      <3>2. k[U \ {y}] = h(U \ {y})[U \ {y}] /\ Recurses(f, U \ {y}, h(U \ {y}))
        BY <1>2, <3>1
      <3>3. CASE U = T
        <4> HIDE DEF h
        <4> QED
          BY <2>3, <3>2, <3>3
      <3>4. CASE U # T
        <4>1. k[U] = h(U)[U] /\ Recurses(f, U, h(U))
          BY <1>2, <3>4
        <4> HIDE DEF h, k
        <4>2. h(U)[U] = f[y] + h(U)[U \ {y}]
          BY <4>1, <2>3, Zenon DEF Recurses
        <4>3. h(U)[U \ {y}] = h(U \ {y})[U \ {y}]
          <5> HIDE DEF y
          <5>1. IsFiniteSet(U \ {y}) /\ U \ {y} \subseteq U
            BY FS_Subset
          <5> QED
            BY <5>1, <4>1, <3>2, RecursionUnique
        <4> QED
          BY <4>1, <4>2, <4>3, <3>2, <2>3
      <3> QED
        BY <3>3, <3>4
    <2> QED
      BY <2>1, <2>2, <2>3
  <1>4. Recurses(f, T, k)
    <2>1. k = [U \in SUBSET T |-> k[U]]
      OBVIOUS
    <2> HIDE DEF k
    <2>2. k = [U \in SUBSET T |-> IF U = {} THEN 0
                                  ELSE f[CHOOSE y \in U : TRUE] + k[U \ {CHOOSE y \in U : TRUE}]]
      BY <2>1, <1>3
    <2> QED
      BY <2>2 DEF Recurses
  <1> QED
    BY <1>4

LEMMA SumRecurses ==
  ASSUME NEW f, NEW S, IsFiniteSet(S), NEW T \in SUBSET S
  PROVE  \E g : Recurses(f, S, g) /\ SumFunctionOnSet(f, S) = g[S] /\ SumFunctionOnSet(f, T) = g[T]
  <1> DEFINE it(U) == CHOOSE g : Recurses(f, U, g)
  <1>1. IsFiniteSet(T)
    BY FS_Subset
  <1>2. Recurses(f, S, it(S)) /\ Recurses(f, T, it(T))
    BY <1>1, RecursionExists
  <1>3. SumFunctionOnSet(f, S) = it(S)[S]
    BY Zenon DEF SumFunctionOnSet, FoldFunctionOnSet, MapThenFoldSet, Recurses
  <1>4. SumFunctionOnSet(f, T) = it(T)[T]
    BY Zenon DEF SumFunctionOnSet, FoldFunctionOnSet, MapThenFoldSet, Recurses
  <1> HIDE DEF it
  <1>5. it(T)[T] = it(S)[T]
    BY <1>1, <1>2, RecursionUnique
  <1> QED
    BY <1>2, <1>3, <1>4, <1>5

\* The law by which the sum is defined.
LEMMA SumChoice ==
  ASSUME NEW f, NEW S, IsFiniteSet(S)
  PROVE  /\ SumFunctionOnSet(f, {}) = 0
         /\ S # {} => \E x \in S : SumFunctionOnSet(f, S) = f[x] + SumFunctionOnSet(f, S \ {x})
  <1>1. SumFunctionOnSet(f, {}) = 0
    <2>1. IsFiniteSet({})
      BY FS_EmptySet
    <2>2. PICK g : Recurses(f, {}, g) /\ SumFunctionOnSet(f, {}) = g[{}]
      BY <2>1, SumRecurses
    <2> QED
      BY <2>2 DEF Recurses
  <1>2. ASSUME S # {}
        PROVE  \E x \in S : SumFunctionOnSet(f, S) = f[x] + SumFunctionOnSet(f, S \ {x})
    <2> DEFINE x == CHOOSE x \in S : TRUE
    <2>1. PICK g : /\ Recurses(f, S, g) /\ SumFunctionOnSet(f, S) = g[S]
                   /\ SumFunctionOnSet(f, S \ {x}) = g[S \ {x}]
      <3> HIDE DEF x
      <3>1. S \ {x} \in SUBSET S
        OBVIOUS
      <3> QED
        BY <3>1, SumRecurses
    <2>2. g[S] = f[x] + g[S \ {x}]
      BY <1>2, <2>1, Zenon DEF Recurses
    <2>3. x \in S
      BY <1>2
    <2> HIDE DEF x
    <2> QED
      BY <2>1, <2>2, <2>3
  <1> QED
    BY <1>1, <1>2

LEMMA SumInt ==
  ASSUME NEW f, NEW S, IsFiniteSet(S), \A x \in S : f[x] \in Int
  PROVE  SumFunctionOnSet(f, S) \in Int
  <1> DEFINE B == {T \in SUBSET S : SumFunctionOnSet(f, T) \notin Int}
  <1> SUFFICES ASSUME B # {} PROVE FALSE
    OBVIOUS
  <1>1. PICK T \in B : \A U \in B : U \subseteq T => U = T
    <2>1. B \subseteq SUBSET S
      OBVIOUS
    <2> HIDE DEF B
    <2> QED
      BY <2>1, SmallestSubset
  <1>2. IsFiniteSet(T)
    BY FS_Subset
  <1>3. T # {}
    <2>1. SumFunctionOnSet(f, {}) = 0
      BY <1>2, SumChoice
    <2> QED
      BY <2>1
  <1>4. PICK y \in T : SumFunctionOnSet(f, T) = f[y] + SumFunctionOnSet(f, T \ {y})
    BY <1>2, <1>3, SumChoice
  <1>5. SumFunctionOnSet(f, T \ {y}) \in Int
    BY <1>1
  <1> QED
    BY <1>4, <1>5

LEMMA SumRemove ==
  ASSUME NEW f, NEW S, IsFiniteSet(S), \A x \in S : f[x] \in Int, NEW x \in S
  PROVE  SumFunctionOnSet(f, S) = f[x] + SumFunctionOnSet(f, S \ {x})
  <1> DEFINE Sum(T) == SumFunctionOnSet(f, T)
             B == {T \in SUBSET S : \E y \in T : Sum(T) # f[y] + Sum(T \ {y})}
  <1> SUFFICES ASSUME B # {} PROVE FALSE
    OBVIOUS
  <1>1. PICK T \in B : \A U \in B : U \subseteq T => U = T
    <2>1. B \subseteq SUBSET S
      OBVIOUS
    <2> HIDE DEF B
    <2> QED
      BY <2>1, SmallestSubset
  <1>2. PICK y \in T : Sum(T) # f[y] + Sum(T \ {y})
    OBVIOUS
  <1>3. \A U \in SUBSET T : IsFiniteSet(U) /\ Sum(U) \in Int
    BY FS_Subset, SumInt
  <1>4. PICK z \in T : Sum(T) = f[z] + Sum(T \ {z})
    BY <1>2, <1>3, SumChoice
  <1>5. y # z
    BY <1>2, <1>4
  <1>6. T \ {y} \notin B /\ T \ {z} \notin B
    BY <1>1, <1>4
  <1>7. Sum(T \ {z}) = f[y] + Sum((T \ {z}) \ {y}) /\ Sum(T \ {y}) = f[z] + Sum((T \ {y}) \ {z})
    BY <1>5, <1>6
  <1>8. (T \ {z}) \ {y} = (T \ {y}) \ {z}
    OBVIOUS
  <1>9. PICK r \in Int : r = Sum((T \ {y}) \ {z})
    BY <1>3
  <1>10. f[y] \in Int /\ f[z] \in Int
    OBVIOUS
  <1>11. Sum(T) = f[z] + (f[y] + r) /\ f[y] + Sum(T \ {y}) = f[y] + (f[z] + r)
    BY <1>4, <1>7, <1>8, <1>9
  <1> HIDE DEF Sum
  <1> QED
    BY <1>2, <1>10, <1>11

LEMMA SumInsert ==
  ASSUME NEW f, NEW S, IsFiniteSet(S), NEW T \in SUBSET S, NEW x \in S \ T,
         \A y \in S : f[y] \in Int
  PROVE  /\ SumFunctionOnSet(f, T) \in Int
         /\ SumFunctionOnSet(f, T \cup {x}) = f[x] + SumFunctionOnSet(f, T)
  <1>1. IsFiniteSet(T) /\ IsFiniteSet(T \cup {x})
    BY FS_Subset
  <1>2. (T \cup {x}) \ {x} = T
    OBVIOUS
  <1> QED
    BY <1>1, <1>2, SumInt, SumRemove

\* Sums are compared term by term.
LEMMA SumMonotone ==
  ASSUME NEW S, IsFiniteSet(S), NEW f, NEW g,
         \A x \in S : f[x] \in Int /\ g[x] \in Int /\ f[x] <= g[x]
  PROVE  /\ SumFunctionOnSet(f, S) <= SumFunctionOnSet(g, S)
         /\ SumFunctionOnSet(f, S) = SumFunctionOnSet(g, S) <=> \A x \in S : f[x] = g[x]
  <1> DEFINE F(T) == SumFunctionOnSet(f, T)
             G(T) == SumFunctionOnSet(g, T)
             A == {T \in SUBSET S : F(T) <= G(T) /\ (F(T) = G(T) <=> \A x \in T : f[x] = g[x])}
  <1>1. {} \in A
    BY FS_EmptySet, SumChoice
  <1>2. ASSUME NEW T \in SUBSET S, NEW x \in S \ T, T \in A
        PROVE  T \cup {x} \in A
    <2>1. F(T) \in Int /\ F(T \cup {x}) = f[x] + F(T)
      BY SumInsert
    <2>2. G(T) \in Int /\ G(T \cup {x}) = g[x] + G(T)
      BY SumInsert
    <2>3. F(T) <= G(T) /\ (F(T) = G(T) <=> \A y \in T : f[y] = g[y])
      BY <1>2
    <2> HIDE DEF F, G
    <2>4. F(T \cup {x}) <= G(T \cup {x})
      BY <2>1, <2>2, <2>3
    <2>5. F(T \cup {x}) = G(T \cup {x}) <=> F(T) = G(T) /\ f[x] = g[x]
      BY <2>1, <2>2, <2>3
    <2> QED
      BY <2>3, <2>4, <2>5
  <1>3. S \in A
    <2> HIDE DEF A
    <2> QED
      BY <1>1, <1>2, SetInduction
  <1> QED
    BY <1>3

LEMMA SumEqual ==
  ASSUME NEW S, IsFiniteSet(S), NEW f, NEW g, \A x \in S : f[x] \in Int /\ f[x] = g[x]
  PROVE  SumFunctionOnSet(f, S) = SumFunctionOnSet(g, S)
  BY SumMonotone

\* What is nothing need not be counted.
LEMMA SumZeros ==
  ASSUME NEW S, IsFiniteSet(S), NEW T \in SUBSET S, NEW f,
         \A x \in S : f[x] \in Int, \A x \in S \ T : f[x] = 0
  PROVE  SumFunctionOnSet(f, S) = SumFunctionOnSet(f, T)
  <1> DEFINE A == {U \in SUBSET S : SumFunctionOnSet(f, U) = SumFunctionOnSet(f, U \cap T)}
  <1>1. {} \in A
    OBVIOUS
  <1>2. ASSUME NEW U \in SUBSET S, NEW x \in S \ U, U \in A
        PROVE  U \cup {x} \in A
    <2>1. SumFunctionOnSet(f, U) \in Int /\ SumFunctionOnSet(f, U \cup {x}) = f[x] + SumFunctionOnSet(f, U)
      BY SumInsert
    <2>2. CASE x \in T
      <3>1. SumFunctionOnSet(f, (U \cap T) \cup {x}) = f[x] + SumFunctionOnSet(f, U \cap T)
        BY SumInsert
      <3>2. (U \cup {x}) \cap T = (U \cap T) \cup {x}
        BY <2>2
      <3> QED
        BY <1>2, <2>1, <3>1, <3>2
    <2>3. CASE x \notin T
      <3>1. (U \cup {x}) \cap T = U \cap T /\ f[x] = 0
        BY <2>3
      <3>2. SumFunctionOnSet(f, U \cup {x}) = SumFunctionOnSet(f, U)
        BY <2>1, <3>1
      <3> QED
        BY <1>2, <3>1, <3>2
    <2> QED
      BY <2>2, <2>3
  <1>3. S \in A
    <2> HIDE DEF A
    <2> QED
      BY <1>1, <1>2, SetInduction
  <1>4. S \cap T = T
    OBVIOUS
  <1> QED
    BY <1>3, <1>4

\* A sum by parts: h says to which part an element belongs.
LEMMA SumParts ==
  ASSUME NEW S, IsFiniteSet(S), NEW P, IsFiniteSet(P), NEW f, \A x \in S : f[x] \in Int,
         NEW h, \A x \in S : h[x] \in P,
         NEW g, \A p \in P : g[p] = SumFunctionOnSet(f, {x \in S : h[x] = p})
  PROVE  SumFunctionOnSet(g, P) = SumFunctionOnSet(f, S)
  <1> DEFINE Part(T) == [p \in P |-> SumFunctionOnSet(f, {x \in T : h[x] = p})]
             A == {T \in SUBSET S : SumFunctionOnSet(Part(T), P) = SumFunctionOnSet(f, T)}
  <1>t. \A T \in SUBSET S : \A p \in P : Part(T)[p] \in Int
    <2> SUFFICES ASSUME NEW T \in SUBSET S, NEW p \in P PROVE Part(T)[p] \in Int
      OBVIOUS
    <2>1. IsFiniteSet({x \in T : h[x] = p})
      BY FS_Subset
    <2> QED
      BY <2>1, SumInt
  <1>1. {} \in A
    <2> DEFINE z == [p \in P |-> 0]
               N == {Q \in SUBSET P : SumFunctionOnSet(z, Q) = 0}
    <2>1. {} \in N
      BY FS_EmptySet, SumChoice
    <2>2. ASSUME NEW Q \in SUBSET P, NEW p \in P \ Q, Q \in N PROVE Q \cup {p} \in N
      BY <2>2, SumInsert
    <2>3. P \in N
      <3> HIDE DEF N
      <3> QED
        BY <2>1, <2>2, SetInduction
    <2>4. \A p \in P : {x \in {} : h[x] = p} = {} /\ Part({})[p] = 0
      BY FS_EmptySet, SumChoice
    <2>5. SumFunctionOnSet(Part({}), P) = SumFunctionOnSet(z, P)
      <3> HIDE DEF Part
      <3> QED
        BY <2>4, SumEqual
    <2> QED
      BY <2>3, <2>5, FS_EmptySet, SumChoice
  <1>2. ASSUME NEW T \in SUBSET S, NEW x \in S \ T, T \in A
        PROVE  T \cup {x} \in A
    <2> DEFINE a == Part(T)
               b == Part(T \cup {x})
    <2>1. SumFunctionOnSet(f, T) \in Int /\ SumFunctionOnSet(f, T \cup {x}) = f[x] + SumFunctionOnSet(f, T)
      BY SumInsert
    <2>2. b[h[x]] = f[x] + a[h[x]]
      <3> DEFINE U == {y \in T : h[y] = h[x]}
      <3>1. {y \in T \cup {x} : h[y] = h[x]} = U \cup {x} /\ U \in SUBSET S /\ x \in S \ U
        OBVIOUS
      <3>2. SumFunctionOnSet(f, U \cup {x}) = f[x] + SumFunctionOnSet(f, U)
        <4> HIDE DEF U
        <4> QED
          BY <3>1, SumInsert
      <3> QED
        BY <3>1, <3>2
    <2>3. \A p \in P \ {h[x]} : b[p] = a[p]
      <3> SUFFICES ASSUME NEW p \in P \ {h[x]} PROVE b[p] = a[p]
        OBVIOUS
      <3>1. {y \in T \cup {x} : h[y] = p} = {y \in T : h[y] = p}
        OBVIOUS
      <3> QED
        BY <3>1
    <2>4. \A p \in P : a[p] \in Int /\ b[p] \in Int
      BY <1>t
    <2>5. SumFunctionOnSet(a, P) = f[x] * 0 + SumFunctionOnSet(f, T)
      BY <1>2, <2>1
    <2> HIDE DEF a, b
    <2>6. SumFunctionOnSet(a, P) = a[h[x]] + SumFunctionOnSet(a, P \ {h[x]})
      BY <2>4, SumRemove
    <2>7. SumFunctionOnSet(b, P) = b[h[x]] + SumFunctionOnSet(b, P \ {h[x]})
      BY <2>4, SumRemove
    <2>8. IsFiniteSet(P \ {h[x]})
      BY FS_Subset
    <2>9. SumFunctionOnSet(a, P \ {h[x]}) = SumFunctionOnSet(b, P \ {h[x]})
      BY <2>3, <2>4, <2>8, SumEqual
    <2>10. SumFunctionOnSet(a, P \ {h[x]}) \in Int
      BY <2>4, <2>8, SumInt
    <2>11. SumFunctionOnSet(b, P) = f[x] + SumFunctionOnSet(f, T)
      BY <2>1, <2>2, <2>4, <2>5, <2>6, <2>7, <2>9, <2>10
    <2> QED
      BY <2>1, <2>11 DEF b
  <1>3. S \in A
    <2> HIDE DEF A
    <2> QED
      BY <1>1, <1>2, SetInduction
  <1>4. SumFunctionOnSet(g, P) = SumFunctionOnSet(Part(S), P)
    <2>1. \A p \in P : Part(S)[p] \in Int /\ Part(S)[p] = g[p]
      BY <1>t
    <2> HIDE DEF Part
    <2> QED
      BY <2>1, SumEqual
  <1> QED
    BY <1>3, <1>4

\* A sum of ones counts.
LEMMA SumOnes ==
  ASSUME NEW S, IsFiniteSet(S), NEW f, \A x \in S : f[x] = 1
  PROVE  SumFunctionOnSet(f, S) = Cardinality(S)
  <1> DEFINE A == {T \in SUBSET S : SumFunctionOnSet(f, T) = Cardinality(T)}
  <1>1. {} \in A
    BY FS_EmptySet, SumChoice
  <1>2. ASSUME NEW T \in SUBSET S, NEW x \in S \ T, T \in A
        PROVE  T \cup {x} \in A
    <2>1. SumFunctionOnSet(f, T \cup {x}) = 1 + SumFunctionOnSet(f, T)
      BY SumInsert
    <2>2. IsFiniteSet(T)
      BY FS_Subset
    <2>3. Cardinality(T \cup {x}) = Cardinality(T) + 1 /\ Cardinality(T) \in Nat
      BY <2>2, FS_AddElement, FS_CardinalityType
    <2> QED
      BY <1>2, <2>1, <2>3
  <1>3. S \in A
    <2> HIDE DEF A
    <2> QED
      BY <1>1, <1>2, SetInduction
  <1> QED
    BY <1>3

LEMMA CountParts ==
  ASSUME NEW S, IsFiniteSet(S), NEW P, IsFiniteSet(P), NEW h, \A x \in S : h[x] \in P
  PROVE  SumFunctionOnSet([p \in P |-> Cardinality({x \in S : h[x] = p})], P) = Cardinality(S)
  <1> DEFINE f == [x \in S |-> 1]
             g == [p \in P |-> Cardinality({x \in S : h[x] = p})]
  <1>1. SumFunctionOnSet(f, S) = Cardinality(S)
    BY SumOnes
  <1>2. \A p \in P : g[p] = SumFunctionOnSet(f, {x \in S : h[x] = p})
    <2> SUFFICES ASSUME NEW p \in P PROVE g[p] = SumFunctionOnSet(f, {x \in S : h[x] = p})
      OBVIOUS
    <2>1. IsFiniteSet({x \in S : h[x] = p})
      BY FS_Subset
    <2> QED
      BY <2>1, SumOnes
  <1>3. \A x \in S : f[x] \in Int
    OBVIOUS
  <1> HIDE DEF f, g
  <1>4. SumFunctionOnSet(g, P) = Cardinality(S)
    BY <1>1, <1>2, <1>3, SumParts
  <1> QED
    BY <1>4 DEF g

\* Terms that are near give sums that are near.
LEMMA SumNear ==
  ASSUME NEW S, IsFiniteSet(S), NEW d \in Nat, NEW f, NEW g,
         \A x \in S : f[x] \in Int /\ g[x] \in Int /\ f[x] - g[x] \in (-d) .. d
  PROVE  SumFunctionOnSet(f, S) - SumFunctionOnSet(g, S) \in (-d * Cardinality(S)) .. (d * Cardinality(S))
  <1> DEFINE D(T) == SumFunctionOnSet(f, T) - SumFunctionOnSet(g, T)
             A == {T \in SUBSET S : D(T) \in (-d * Cardinality(T)) .. (d * Cardinality(T))}
  <1>1. {} \in A
    <2>1. D({}) = 0 /\ Cardinality({}) = 0
      BY FS_EmptySet, SumChoice
    <2> QED
      BY <2>1
  <1>2. ASSUME NEW T \in SUBSET S, NEW x \in S \ T, T \in A
        PROVE  T \cup {x} \in A
    <2> DEFINE c == Cardinality(T)
    <2>1. SumFunctionOnSet(f, T) \in Int /\ SumFunctionOnSet(f, T \cup {x}) = f[x] + SumFunctionOnSet(f, T)
      BY SumInsert
    <2>2. SumFunctionOnSet(g, T) \in Int /\ SumFunctionOnSet(g, T \cup {x}) = g[x] + SumFunctionOnSet(g, T)
      BY SumInsert
    <2>3. IsFiniteSet(T)
      BY FS_Subset
    <2>4. Cardinality(T \cup {x}) = c + 1 /\ c \in Nat
      BY <2>3, FS_AddElement, FS_CardinalityType
    <2>5. D(T \cup {x}) = (f[x] - g[x]) + D(T) /\ D(T) \in Int
      BY <2>1, <2>2
    <2>6. D(T) \in (-d * c) .. (d * c)
      BY <1>2
    <2> HIDE DEF D, c
    <2>7. d * (c + 1) = d * c + d /\ -d * (c + 1) = -d * c - d
      BY <2>4
    <2>8. d * c \in Int /\ -d * c \in Int
      BY <2>4
    <2>9. D(T \cup {x}) \in (-d * (c + 1)) .. (d * (c + 1))
      BY <2>5, <2>6, <2>7, <2>8
    <2> QED
      BY <2>4, <2>9 DEF D
  <1>3. S \in A
    <2> HIDE DEF A
    <2> QED
      BY <1>1, <1>2, SetInduction
  <1> QED
    BY <1>3

-----------------------------------------------------------------------------
\* Weights and partial credit.

LEMMA WeightInt ==
  ASSUME NEW T \in SUBSET Cases
  PROVE  IsFiniteSet(T) /\ WeightOf(T) \in Int /\ \A c \in T : Weight[c] \in Nat \ {0}
  <1>1. IsFiniteSet(T) /\ \A c \in T : Weight[c] \in Nat \ {0}
    BY ResultsAssumption, FS_Subset
  <1>2. \A c \in T : Weight[c] \in Int
    BY <1>1
  <1> QED
    BY <1>1, <1>2, SumInt DEF WeightOf

LEMMA WeightOfMore ==
  ASSUME NEW T \in SUBSET Cases
  PROVE  WeightOf(T) <= WeightOf(Cases)
  <1> DEFINE f == [c \in Cases |-> IF c \in T THEN Weight[c] ELSE 0]
  <1>1. IsFiniteSet(Cases) /\ IsFiniteSet(T) /\ \A c \in Cases : Weight[c] \in Nat
    BY WeightInt
  <1>2. \A c \in Cases : f[c] \in Int /\ Weight[c] \in Int /\ f[c] <= Weight[c]
    BY <1>1
  <1>3. \A c \in Cases \ T : f[c] = 0
    OBVIOUS
  <1>4. \A c \in T : f[c] \in Int /\ f[c] = Weight[c]
    BY <1>1
  <1> HIDE DEF f
  <1>5. SumFunctionOnSet(f, Cases) = SumFunctionOnSet(f, T)
    BY <1>1, <1>2, <1>3, SumZeros
  <1>6. SumFunctionOnSet(f, T) = SumFunctionOnSet(Weight, T)
    BY <1>1, <1>4, SumEqual
  <1>7. SumFunctionOnSet(f, Cases) <= SumFunctionOnSet(Weight, Cases)
    BY <1>1, <1>2, SumMonotone
  <1> QED
    BY <1>5, <1>6, <1>7 DEF WeightOf

LEMMA WeightBounds ==
  ASSUME NEW T \in SUBSET Cases
  PROVE  /\ WeightOf(T) \in Nat /\ WeightOf(Cases) \in Nat \ {0}
         /\ WeightOf({}) = 0 /\ WeightOf(T) <= WeightOf(Cases)
         /\ \A c \in Cases \ T : WeightOf(T) + Weight[c] <= WeightOf(Cases)
  <1>1. WeightOf({}) = 0
    BY WeightInt, SumChoice DEF WeightOf
  <1>2. \A U \in SUBSET Cases, c \in Cases :
           c \notin U => WeightOf(U \cup {c}) = Weight[c] + WeightOf(U)
    <2> SUFFICES ASSUME NEW U \in SUBSET Cases, NEW c \in Cases \ U
                 PROVE  WeightOf(U \cup {c}) = Weight[c] + WeightOf(U)
      OBVIOUS
    <2>1. IsFiniteSet(Cases) /\ \A d \in Cases : Weight[d] \in Int
      BY WeightInt
    <2> QED
      BY <2>1, SumInsert DEF WeightOf
  <1>3. \A U \in SUBSET Cases : WeightOf(U) \in Nat
    <2> DEFINE A == {U \in SUBSET Cases : WeightOf(U) \in Nat}
    <2> SUFFICES ASSUME NEW U \in SUBSET Cases PROVE U \in A
      OBVIOUS
    <2>1. {} \in A
      BY <1>1
    <2>2. ASSUME NEW V \in SUBSET U, NEW c \in U \ V, V \in A PROVE V \cup {c} \in A
      <3>1. WeightOf(V \cup {c}) = Weight[c] + WeightOf(V) /\ Weight[c] \in Nat
        BY <1>2, WeightInt
      <3> QED
        BY <2>2, <3>1
    <2>3. IsFiniteSet(U)
      BY WeightInt
    <2> HIDE DEF A
    <2> QED
      BY <2>1, <2>2, <2>3, SetInduction
  <1>4. PICK c \in Cases : TRUE
    BY ResultsAssumption
  <1>5. WeightOf({c}) = Weight[c] + WeightOf({})
    BY <1>2
  <1>6. WeightOf({c}) > 0 /\ WeightOf({c}) <= WeightOf(Cases) /\ WeightOf({c}) \in Nat
    BY <1>1, <1>3, <1>5, WeightInt, WeightOfMore
  <1>7. \A d \in Cases \ T : WeightOf(T) + Weight[d] <= WeightOf(Cases)
    <2> SUFFICES ASSUME NEW d \in Cases \ T PROVE WeightOf(T) + Weight[d] <= WeightOf(Cases)
      OBVIOUS
    <2>1. WeightOf(T \cup {d}) = Weight[d] + WeightOf(T) /\ Weight[d] \in Nat /\ WeightOf(T) \in Nat
      BY <1>2, <1>3, WeightInt
    <2>2. WeightOf(T \cup {d}) <= WeightOf(Cases)
      BY WeightOfMore
    <2> QED
      BY <2>1, <2>2
  <1>8. WeightOf(T) <= WeightOf(Cases) /\ WeightOf(T) \in Nat /\ WeightOf(Cases) \in Nat
    BY <1>3, WeightOfMore
  <1> QED
    BY <1>1, <1>6, <1>7, <1>8

\* The division that rounds.
LEMMA Quotient ==
  ASSUME NEW a \in Int, NEW b \in Nat \ {0}
  PROVE  a \div b \in Int /\ b * (a \div b) <= a /\ a < b * (a \div b) + b
  OBVIOUS

\* Full credit is the most, and is had for all cases only; none passed, none earned.
LEMMA PartialBounds ==
  ASSUME NEW q, Marks(q) \in Int, NEW right \in SUBSET Cases
  PROVE  /\ Partial(q, right) \in Int
         /\ Partial(q, {}) = 0
         /\ q \in Coding /\ Worthwhile(q) =>
              Partial(q, right) <= Marks(q) /\ (Partial(q, right) = Marks(q) <=> right = Cases)
  <1> DEFINE m == Marks(q)
             w == WeightOf(right)
             W == WeightOf(Cases)
             p == Partial(q, right)
             a == 2 * m * w + W
  <1>1. w \in Nat /\ W \in Nat \ {0} /\ w <= W /\ WeightOf({}) = 0
    BY WeightBounds
  <1>2. m \in Int /\ p = a \div (2 * W)
    BY DEF Partial
  <1>3. Partial(q, {}) = (2 * m * 0 + W) \div (2 * W)
    BY <1>1 DEF Partial
  <1>4. \A c \in Cases \ right : Weight[c] \in Nat \ {0} /\ w + Weight[c] <= W
    BY WeightBounds, WeightInt
  <1>5. q \in Coding /\ Worthwhile(q) => m > 0 /\ \A c \in Cases : W < 2 * m * Weight[c]
    BY DEF Worthwhile
  <1>6. right = Cases => w = W
    OBVIOUS
  <1> HIDE DEF m, w, W, p
  <1>7. m * w \in Int /\ a = 2 * (m * w) + W /\ a \in Int /\ 2 * W \in Nat \ {0}
    BY <1>1, <1>2
  <1>8. p \in Int /\ (2 * W) * p <= a /\ a < (2 * W) * p + 2 * W
    BY <1>2, <1>7, Quotient
  <1>9. Partial(q, {}) = 0
    <2>1. 2 * m * 0 + W = W
      BY <1>1, <1>2
    <2>2. W \div (2 * W) \in Int /\ (2 * W) * (W \div (2 * W)) <= W /\ W < (2 * W) * (W \div (2 * W)) + 2 * W
      BY <1>1, <1>7, Quotient
    <2> DEFINE z == W \div (2 * W)
    <2> HIDE DEF z
    <2>3. z \in Int /\ (2 * W) * z <= W /\ W < (2 * W) * z + 2 * W
      BY <2>2 DEF z
    <2>4. z < 1
      <3> SUFFICES ASSUME z >= 1 PROVE FALSE
        BY <2>3
      <3>1. (2 * W) * z >= 2 * W
        BY <1>1, <2>3
      <3> QED
        BY <1>1, <2>3, <3>1
    <2>5. z > -1
      <3> SUFFICES ASSUME z <= -1 PROVE FALSE
        BY <2>3
      <3>1. (2 * W) * z <= -(2 * W)
        BY <1>1, <2>3
      <3> QED
        BY <1>1, <2>3, <3>1
    <2> QED
      BY <1>3, <2>1, <2>3, <2>4, <2>5 DEF z
  <1>10. ASSUME q \in Coding, Worthwhile(q)
         PROVE  p <= m /\ (p = m <=> right = Cases)
    <2>1. m > 0 /\ m \in Int
      BY <1>2, <1>5, <1>10
    <2>2. m * w <= m * W /\ m * W \in Int
      BY <1>1, <2>1
    <2>3. p <= m
      <3> SUFFICES ASSUME p >= m + 1 PROVE FALSE
        BY <1>8, <2>1
      <3>1. (2 * W) * p >= (2 * W) * (m + 1)
        BY <1>1, <1>8, <2>1
      <3>2. (2 * W) * (m + 1) = 2 * (m * W) + 2 * W
        BY <1>1, <2>1
      <3> QED
        BY <1>1, <1>7, <1>8, <2>2, <3>1, <3>2
    <2>4. right = Cases => p = m
      <3> SUFFICES ASSUME right = Cases, p <= m - 1 PROVE FALSE
        BY <1>8, <2>1, <2>3
      <3>1. a = 2 * (m * W) + W
        BY <1>6, <1>7
      <3>2. (2 * W) * p <= (2 * W) * (m - 1)
        BY <1>1, <1>8, <2>1
      <3>3. (2 * W) * (m - 1) = 2 * (m * W) - 2 * W
        BY <1>1, <2>1
      <3> QED
        BY <1>1, <1>7, <1>8, <2>2, <3>1, <3>2, <3>3
    <2>5. p = m => right = Cases
      <3> SUFFICES ASSUME p = m, NEW c \in Cases \ right PROVE FALSE
        OBVIOUS
      <3>1. PICK v \in Nat \ {0} : v = Weight[c]
        BY <1>4
      <3>2. w + v <= W /\ W < 2 * m * v
        BY <1>4, <1>5, <1>10, <3>1
      <3>3. m * (w + v) <= m * W
        BY <1>1, <2>1, <3>1, <3>2
      <3>4. m * (w + v) = m * w + m * v /\ m * v \in Int /\ 2 * m * v = 2 * (m * v)
        BY <1>1, <2>1, <3>1
      <3>5. (2 * W) * p = 2 * (m * W)
        BY <1>1, <2>1
      <3> QED
        BY <1>1, <1>7, <1>8, <2>2, <3>2, <3>3, <3>4, <3>5
    <2> QED
      BY <2>3, <2>4, <2>5
  <1> QED
    BY <1>8, <1>9, <1>10 DEF m, p

-----------------------------------------------------------------------------
\* Types.

LEMMA PaperType ==
  ASSUME IsPaper(exam), NEW q \in Questions
  PROVE  Marks(q) \in Int /\ Negative(q) \in Int /\ exam.section[q] \in Sections
  <1>1. exam.section[q] \in DOMAIN exam.default
    BY DEF IsPaper
  <1>2. exam.marks[q] \in Int \cup {None} /\ exam.negative[q] \in Int \cup {None}
    BY DEF IsPaper
  <1>3. exam.default[exam.section[q]].marks \in Int /\ exam.default[exam.section[q]].negative \in Int
    BY <1>1 DEF IsPaper
  <1> QED
    BY <1>1, <1>2, <1>3 DEF Marks, Negative, Sections

LEMMA CreditType ==
  ASSUME IsPaper(exam), NEW q \in Questions, NEW right \in SUBSET Cases
  PROVE  Credit(q, right) \in Int
  <1>1. Marks(q) \in Int /\ Negative(q) \in Int
    BY PaperType
  <1>2. Partial(q, right) \in Int
    BY <1>1, PartialBounds
  <1> QED
    BY <1>1, <1>2 DEF Credit

LEMMA EarnedType ==
  ASSUME NEW rows, \A q \in Questions : rows[q] = None \/ rows[q] \in AnswerRow,
         NEW Q \in SUBSET Questions
  PROVE  /\ IsFiniteSet(Q) /\ \A q \in Questions : Score(rows[q]) \in Int
         /\ Earned(rows, Q) = SumFunctionOnSet([q \in Q |-> Score(rows[q])], Q)
         /\ Earned(rows, Q) \in Int
  <1>1. IsFiniteSet(Q)
    BY ResultsAssumption, FS_Subset
  <1>2. \A q \in Questions : Score(rows[q]) \in Int
    BY DEF Score, AnswerRow
  <1>3. Earned(rows, Q) = SumFunctionOnSet([q \in Q |-> Score(rows[q])], Q)
    BY DEF Earned, SumFunction
  <1>4. \A q \in Q : [x \in Q |-> Score(rows[x])][q] \in Int
    BY <1>2
  <1>5. SumFunctionOnSet([q \in Q |-> Score(rows[q])], Q) \in Int
    BY <1>1, <1>4, SumInt
  <1> QED
    BY <1>1, <1>2, <1>3, <1>5

LEMMA MaximumType ==
  ASSUME IsPaper(exam), NEW Q \in SUBSET Questions
  PROVE  /\ Maximum(Q) = SumFunctionOnSet([q \in Q |-> Marks(q)], Q)
         /\ Maximum(Q) \in Int
  <1>1. IsFiniteSet(Q)
    BY ResultsAssumption, FS_Subset
  <1>2. \A q \in Q : [x \in Q |-> Marks(x)][q] \in Int
    BY PaperType
  <1>3. Maximum(Q) = SumFunctionOnSet([q \in Q |-> Marks(q)], Q)
    BY DEF Maximum, SumFunction
  <1> QED
    BY <1>1, <1>2, <1>3, SumInt

LEMMA GradedType ==
  ASSUME TypeOK, NEW s \in Students
  PROVE  /\ Graded(s) \in [Questions -> {None} \cup AnswerRow]
         /\ Judged(s) \in [Questions -> {None} \cup AnswerRow]
  <1> SUFFICES ASSUME NEW q \in Questions
               PROVE  Graded(s)[q] \in {None} \cup AnswerRow /\ Judged(s)[q] \in {None} \cup AnswerRow
    BY DEF Graded, Judged
  <1>1. answer[s][q] \in {None} \cup AnswerRow
    BY DEF TypeOK
  <1>2. Marks(q) \in Int /\ Negative(q) \in Int
    BY PaperType DEF TypeOK
  <1>3. \A row \in {None} \cup AnswerRow : Objective(q, row) \in {None} \cup AnswerRow
    <2>1. \A row \in AnswerRow : \A score \in Int, correct \in BOOLEAN :
             [row EXCEPT !.correct = correct, !.score = score] \in AnswerRow
      BY DEF AnswerRow
    <2>2. SUFFICES ASSUME NEW row \in {None} \cup AnswerRow, Objective(q, row) # row
                   PROVE  Objective(q, row) \in {None} \cup AnswerRow
      OBVIOUS
    <2>3. row \in AnswerRow
      BY <2>2 DEF Objective
    <2>4. (row.right = Cases) \in BOOLEAN
             /\ (IF row.right = Cases THEN Marks(q) ELSE -Negative(q)) \in Int
      BY <1>2
    <2>5. [row EXCEPT !.correct = row.right = Cases,
                      !.score = IF row.right = Cases THEN Marks(q) ELSE -Negative(q)] \in AnswerRow
      BY <2>1, <2>3, <2>4
    <2> QED
      BY <2>2, <2>5 DEF Objective
  <1>4. \A row \in AnswerRow : Partial(q, row.right) \in Int /\ Passed(row.right) \in BOOLEAN
    BY <1>2, PartialBounds DEF AnswerRow, Passed
  <1>5. \A row \in AnswerRow :
           [row EXCEPT !.score = Partial(q, row.right), !.correct = Passed(row.right)] \in AnswerRow
    BY <1>4 DEF AnswerRow
  <1> QED
    BY <1>1, <1>3, <1>5 DEF Graded, Judged

LEMMA TypeInit ==
  Init => TypeOK
  <1> SUFFICES ASSUME Init PROVE TypeOK
    OBVIOUS
  <1>1. IsPaper(exam) /\ edited \in BOOLEAN
    BY ResultsAssumption DEF Init
  <1>2. attempt \in [Students -> {None} \cup AttemptRow]
    BY DEF Init
  <1>3. answer \in [Students -> [Questions -> {None} \cup AnswerRow]]
    BY DEF Init
  <1> QED
    BY <1>1, <1>2, <1>3 DEF TypeOK

LEMMA TypeNext ==
  ASSUME TypeOK, [Next]_vars
  PROVE  TypeOK'
  <1>0. /\ attempt \in [Students -> {None} \cup AttemptRow]
        /\ answer \in [Students -> [Questions -> {None} \cup AnswerRow]]
        /\ IsPaper(exam) /\ edited \in BOOLEAN
    BY DEF TypeOK
  <1>1. ASSUME attempt' \in [Students -> {None} \cup AttemptRow],
               answer' \in [Students -> [Questions -> {None} \cup AnswerRow]],
               exam' = exam, edited' \in BOOLEAN
        PROVE  TypeOK'
    BY <1>0, <1>1 DEF TypeOK, IsPaper
  <1>2. CASE UNCHANGED vars
    BY <1>0, <1>1, <1>2 DEF vars
  <1>3. ASSUME NEW s \in Students, Start(s) PROVE TypeOK'
    <2>1. Attempt("in_progress", None, None, FALSE) \in AttemptRow
      BY DEF Attempt, AttemptRow
    <2> QED
      BY <1>0, <1>1, <1>3, <2>1 DEF Start
  <1>4. ASSUME NEW s \in Students, NEW q \in Questions, NEW given \in {"none", "code", "some"},
               NEW right \in SUBSET Cases, Save(s, q, given, right)
        PROVE  TypeOK'
    <2> DEFINE new == IF answer[s][q] = None THEN Answer(given, right, 0, None)
                      ELSE Answer(given, right, answer[s][q].score, answer[s][q].correct)
    <2>1. new \in AnswerRow
      BY <1>0 DEF Answer, AnswerRow
    <2>2. answer' = [answer EXCEPT ![s][q] = new] /\ UNCHANGED <<exam, edited, attempt>>
      BY <1>4 DEF Save
    <2> HIDE DEF new
    <2> QED
      BY <1>0, <1>1, <2>1, <2>2
  <1>5. ASSUME NEW s \in Students, Submit(s) PROVE TypeOK'
    <2>1. Graded(s) \in [Questions -> {None} \cup AnswerRow]
      BY GradedType
    <2>2. Earned(Graded(s), Counted(Graded(s))) \in Int
      BY <2>1, EarnedType DEF Counted
    <2>3. Maximum(Questions) \in Int
      BY <1>0, MaximumType
    <2>4. Pending(s) \in BOOLEAN
      BY DEF Pending
    <2>5. Attempt("submitted", Earned(Graded(s), Counted(Graded(s))), Maximum(Questions), ~Pending(s))
             \in AttemptRow
      BY <2>2, <2>3, <2>4 DEF Attempt, AttemptRow
    <2> QED
      BY <1>0, <1>1, <1>5, <2>1, <2>5 DEF Submit
  <1>6. ASSUME NEW s \in Students, Judge(s) PROVE TypeOK'
    <2>1. Judged(s) \in [Questions -> {None} \cup AnswerRow]
      BY GradedType
    <2>2. Earned(Judged(s), Questions) \in Int
      BY <2>1, EarnedType
    <2>3. attempt[s] \in AttemptRow
      BY <1>0, <1>6 DEF Judge, Finished
    <2>4. [attempt[s] EXCEPT !.total = Earned(Judged(s), Questions), !.complete = TRUE] \in AttemptRow
      BY <2>2, <2>3 DEF AttemptRow
    <2>5. attempt' = [attempt EXCEPT ![s] =
                         [attempt[s] EXCEPT !.total = Earned(Judged(s), Questions), !.complete = TRUE]]
      BY <1>0, <1>6 DEF Judge
    <2> QED
      BY <1>0, <1>1, <1>6, <2>1, <2>4, <2>5 DEF Judge
  <1>7. ASSUME NEW q \in Edits, NEW m \in NewMarks, NEW kept \in BOOLEAN, UpdateQuestion(q, m, kept)
        PROVE  TypeOK'
    <2>1. q \in Questions /\ m \in Int
      BY ResultsAssumption
    <2>2. exam' = [exam EXCEPT !.marks[q] = m] /\ edited' = TRUE /\ attempt' = attempt
      BY <1>7 DEF UpdateQuestion
    <2>3. IsPaper(exam')
      <3>1. /\ exam' = [section |-> exam.section, marks |-> [exam.marks EXCEPT ![q] = m],
                        negative |-> exam.negative, default |-> exam.default]
        BY <1>0, <2>2 DEF IsPaper
      <3>2. [exam.marks EXCEPT ![q] = m] \in [Questions -> Int \cup {None}]
        BY <1>0, <2>1 DEF IsPaper
      <3> QED
        BY <1>0, <3>1, <3>2 DEF IsPaper
    <2>4. \A s \in Students : answer'[s] \in [Questions -> {None} \cup AnswerRow]
      <3> SUFFICES ASSUME NEW s \in Students PROVE answer'[s] \in [Questions -> {None} \cup AnswerRow]
        OBVIOUS
      <3>1. answer'[s] = [answer[s] EXCEPT ![q] = Outdated(answer[s][q], kept)]
        BY <1>7 DEF UpdateQuestion
      <3>2. answer[s] \in [Questions -> {None} \cup AnswerRow]
        BY <1>0
      <3>3. answer[s][q] = None \/ answer[s][q] \in AnswerRow
        BY <2>1, <3>2
      <3>4. \A row \in AnswerRow : [row EXCEPT !.right = {}] \in AnswerRow
        BY DEF AnswerRow
      <3>5. Outdated(answer[s][q], kept) \in {None} \cup AnswerRow
        BY <3>3, <3>4 DEF Outdated
      <3> QED
        BY <2>1, <3>1, <3>2, <3>5
    <2>5. answer' \in [Students -> [Questions -> {None} \cup AnswerRow]]
      <3>1. answer' = [s \in Students |-> answer'[s]]
        BY <1>7 DEF UpdateQuestion
      <3> QED
        BY <2>4, <3>1
    <2>6. IsPaper(exam)'
      BY <2>3 DEF IsPaper
    <2> QED
      BY <1>0, <2>2, <2>5, <2>6 DEF TypeOK
  <1> QED
    BY <1>2, <1>3, <1>4, <1>5, <1>6, <1>7 DEF Next

\* Every number a report uses has its type: the paper's, a row's, a sum's.
THEOREM ResultsTyped == Spec => []TypeOK
  <1>1. Init => TypeOK
    BY TypeInit
  <1>2. TypeOK /\ [Next]_vars => TypeOK'
    BY TypeNext
  <1> QED
    BY <1>1, <1>2, PTL DEF Spec

-----------------------------------------------------------------------------
\* What the reports rest on.

LEMMA GradedFrame ==
  ASSUME NEW s \in Students, TotalInv(s), \A q \in Questions : RowInv(s, q),
         attempt'[s] = attempt[s], answer'[s] = answer[s], UNCHANGED <<exam, edited>>
  PROVE  TotalInv(s)' /\ \A q \in Questions : RowInv(s, q)'
  <1>1. Maximum(Questions)' = Maximum(Questions)
    BY DEF Maximum, Marks
  <1>2. Finished(s)' = Finished(s)
    BY DEF Finished
  <1>3. TotalInv(s)'
    BY <1>1, <1>2 DEF TotalInv
  <1>4. \A q, right : Credit(q, right)' = Credit(q, right)
    BY DEF Credit, Partial, Marks, Negative
  <1>5. \A q \in Questions : RowInv(s, q)'
    BY <1>2, <1>4 DEF RowInv
  <1> QED
    BY <1>3, <1>5

LEMMA GradedStart ==
  ASSUME TypeOK, GradedInv, NEW s \in Students, Start(s)
  PROVE  GradedInv'
  <1>1. attempt' = [attempt EXCEPT ![s] = Attempt("in_progress", None, None, FALSE)]
           /\ UNCHANGED <<exam, edited, answer>> /\ attempt[s] = None
    BY DEF Start
  <1>2. attempt'[s] = Attempt("in_progress", None, None, FALSE)
           /\ \A t \in Students \ {s} : attempt'[t] = attempt[t]
    BY <1>1 DEF TypeOK
  <1>3. ~Finished(s) /\ ~Finished(s)'
    BY <1>1, <1>2 DEF Finished, Attempt
  <1>4. TotalInv(s)'
    BY <1>2, <1>3 DEF TotalInv, Attempt
  <1>5. \A q \in Questions : RowInv(s, q)'
    BY <1>1, <1>3 DEF RowInv, GradedInv
  <1>6. \A t \in Students \ {s} : TotalInv(t)' /\ \A q \in Questions : RowInv(t, q)'
    BY <1>1, <1>2, GradedFrame DEF GradedInv
  <1> QED
    BY <1>4, <1>5, <1>6 DEF GradedInv

LEMMA GradedSave ==
  ASSUME TypeOK, GradedInv, NEW s \in Students, NEW q \in Questions,
         NEW given \in {"none", "code", "some"}, NEW right \in SUBSET Cases, Save(s, q, given, right)
  PROVE  GradedInv'
  <1> DEFINE new == IF answer[s][q] = None THEN Answer(given, right, 0, None)
                    ELSE Answer(given, right, answer[s][q].score, answer[s][q].correct)
  <1>1. answer' = [answer EXCEPT ![s][q] = new] /\ UNCHANGED <<exam, edited, attempt>>
           /\ attempt[s] # None /\ ~Finished(s)
    BY DEF Save
  <1>2. /\ answer'[s][q] = new
        /\ \A r \in Questions \ {q} : answer'[s][r] = answer[s][r]
        /\ \A t \in Students \ {s} : answer'[t] = answer[t]
    BY <1>1 DEF TypeOK
  <1>3. ~Finished(s)' /\ attempt'[s] = attempt[s]
    BY <1>1 DEF Finished
  <1>4. TotalInv(s)'
    BY <1>1, <1>3 DEF TotalInv, GradedInv
  <1>5. \A r \in Questions \ {q} : RowInv(s, r)'
    BY <1>1, <1>2, <1>3 DEF RowInv, GradedInv
  <1>6. new.correct = None /\ new.score = 0 /\ new.given = given /\ new.right = right
    BY <1>1 DEF Answer, RowInv, GradedInv
  <1>7. given # "some" => right = {}
    BY DEF Save
  <1>8. given = "code" => q \in Coding
    BY DEF Save
  <1>9. RowInv(s, q)'
    <2> HIDE DEF new
    <2>1. None \notin BOOLEAN
      BY ResultsAssumption
    <2> QED
      BY <1>2, <1>3, <1>6, <1>7, <1>8, <2>1 DEF RowInv
  <1>10. \A t \in Students \ {s} : TotalInv(t)' /\ \A r \in Questions : RowInv(t, r)'
    BY <1>1, <1>2, GradedFrame DEF GradedInv
  <1> QED
    BY <1>4, <1>5, <1>9, <1>10 DEF GradedInv

LEMMA GradedSubmit ==
  ASSUME TypeOK, GradedInv, NEW s \in Students, Submit(s)
  PROVE  GradedInv'
  <1>1. /\ answer' = [answer EXCEPT ![s] = Graded(s)]
        /\ attempt' = [attempt EXCEPT ![s] =
              Attempt("submitted", Earned(Graded(s), Counted(Graded(s))), Maximum(Questions), ~Pending(s))]
        /\ UNCHANGED <<exam, edited>> /\ attempt[s] # None /\ ~Finished(s)
    BY DEF Submit
  <1>2. /\ answer'[s] = Graded(s)
        /\ attempt'[s] =
              Attempt("submitted", Earned(Graded(s), Counted(Graded(s))), Maximum(Questions), ~Pending(s))
        /\ \A t \in Students \ {s} : attempt'[t] = attempt[t] /\ answer'[t] = answer[t]
    BY <1>1 DEF TypeOK
  <1>3. None \notin BOOLEAN /\ None \notin Int
    BY ResultsAssumption
  <1>4. attempt'[s] # None /\ Finished(s)'
    <2>1. TypeOK'
      BY TypeNext DEF Next
    <2>2. attempt'[s] \in {None} \cup AttemptRow
      BY <2>1 DEF TypeOK
    <2>3. Earned(Graded(s), Counted(Graded(s))) \in Int /\ Maximum(Questions) \in Int
      BY GradedType, EarnedType, MaximumType DEF Counted, TypeOK
    <2>4. attempt'[s] \in AttemptRow
      BY <1>2, <2>3 DEF Attempt, AttemptRow, Pending
    <2> QED
      BY <1>2, <2>4, ResultsAssumption DEF Attempt, Finished
  <1>5. \A q \in Questions : RowInv(s, q)'
    <2> SUFFICES ASSUME NEW q \in Questions PROVE RowInv(s, q)'
      OBVIOUS
    <2>1. answer[s][q] = None \/ answer[s][q] \in AnswerRow
      BY DEF TypeOK
    <2>2. answer'[s][q] = IF q \in Coding THEN answer[s][q] ELSE Objective(q, answer[s][q])
      BY <1>2 DEF Graded
    <2>3. RowInv(s, q)
      BY DEF GradedInv
    <2>4. CASE answer[s][q] = None \/ answer[s][q].given = "none"
      <3>1. answer'[s][q] = answer[s][q]
        BY <2>2, <2>4 DEF Objective
      <3> QED
        BY <1>1, <1>3, <2>3, <2>4, <3>1 DEF RowInv
    <2>5. CASE answer[s][q] # None /\ answer[s][q].given # "none" /\ q \in Coding
      <3>1. answer'[s][q] = answer[s][q]
        BY <2>2, <2>5
      <3>2. attempt'[s].complete /\ answer[s][q].given = "some" => answer[s][q].correct # None
        <4>1. attempt'[s].complete = ~Pending(s)
          BY <1>2 DEF Attempt
        <4>2. answer[s][q].given = "some" /\ answer[s][q].correct = None => Pending(s)
          BY <2>5 DEF Pending
        <4>3. Pending(s) \in BOOLEAN
          BY DEF Pending
        <4> QED
          BY <4>1, <4>2, <4>3
      <3> QED
        BY <1>1, <1>3, <2>3, <2>5, <3>1, <3>2 DEF RowInv
    <2>6. CASE answer[s][q] # None /\ answer[s][q].given # "none" /\ q \notin Coding
      <3> DEFINE row == answer[s][q]
                 correct == row.right = Cases
                 score == IF correct THEN Marks(q) ELSE -Negative(q)
      <3>1. answer'[s][q] = [[row EXCEPT !.correct = correct] EXCEPT !.score = score]
        BY <2>2, <2>6 DEF Objective
      <3>2. row \in AnswerRow
        BY <2>1, <2>6
      <3>r. PICK right : right = row.right
        OBVIOUS
      <3>3. /\ answer'[s][q].correct = correct /\ answer'[s][q].score = score
            /\ answer'[s][q].given = row.given /\ answer'[s][q].right = right
        <4> HIDE DEF row, correct, score
        <4> QED
          BY <3>r, <3>1, <3>2 DEF AnswerRow
      <3>4. row.given = "some"
        BY <2>3, <2>6, <3>2 DEF RowInv, AnswerRow
      <3>5. score = Credit(q, right)' /\ correct = (right = Cases) /\ correct \in BOOLEAN
        BY <1>1, <2>6, <3>r DEF Credit, Marks, Negative
      <3> HIDE DEF row, correct, score
      <3> QED
        BY <1>3, <1>4, <2>6, <3>3, <3>4, <3>5 DEF RowInv
    <2> QED
      BY <2>4, <2>5, <2>6
  <1>6. TotalInv(s)'
    <2> DEFINE f == [q \in Questions |-> Score(Graded(s)[q])]
               C == Counted(Graded(s))
               g == [q \in C |-> Score(Graded(s)[q])]
    <2>1. /\ IsFiniteSet(Questions) /\ IsFiniteSet(C) /\ C \subseteq Questions
          /\ \A q \in Questions : Score(Graded(s)[q]) \in Int
          /\ Earned(Graded(s), Questions) = SumFunctionOnSet(f, Questions)
          /\ Earned(Graded(s), C) = SumFunctionOnSet(g, C)
      BY GradedType, EarnedType DEF Counted
    <2>2. \A q \in Questions \ C : Score(Graded(s)[q]) = 0
      <3> SUFFICES ASSUME NEW q \in Questions \ C, Graded(s)[q] # None
                   PROVE  Score(Graded(s)[q]) = 0
        BY DEF Score
      <3>1. q \notin Coding /\ Graded(s)[q].given = "none"
        BY DEF Counted
      <3>2. RowInv(s, q)'
        BY <1>5
      <3> QED
        BY <1>2, <3>1, <3>2 DEF RowInv, Score
    <2>3. SumFunctionOnSet(f, Questions) = SumFunctionOnSet(f, C)
      <3> HIDE DEF C
      <3>1. \A q \in Questions : f[q] \in Int
        BY <2>1
      <3>2. \A q \in Questions \ C : f[q] = 0
        BY <2>2
      <3> HIDE DEF f
      <3> QED
        BY <2>1, <3>1, <3>2, SumZeros
    <2>4. SumFunctionOnSet(f, C) = SumFunctionOnSet(g, C)
      <3>1. \A q \in C : f[q] \in Int /\ f[q] = g[q]
        BY <2>1
      <3> HIDE DEF f, g, C
      <3> QED
        BY <2>1, <3>1, SumEqual
    <2>5. Earned(Graded(s), C) = Earned(answer'[s], Questions)
      BY <1>2, <2>1, <2>3, <2>4
    <2>6. Maximum(Questions) \in Int /\ Maximum(Questions)' = Maximum(Questions)
      BY <1>1, MaximumType DEF TypeOK, Maximum, Marks
    <2> HIDE DEF C
    <2> QED
      BY <1>2, <1>4, <2>5, <2>6 DEF TotalInv, Attempt, C
  <1>7. \A t \in Students \ {s} : TotalInv(t)' /\ \A q \in Questions : RowInv(t, q)'
    BY <1>1, <1>2, GradedFrame DEF GradedInv
  <1> QED
    BY <1>5, <1>6, <1>7 DEF GradedInv

LEMMA GradedJudge ==
  ASSUME TypeOK, GradedInv, NEW s \in Students, Judge(s)
  PROVE  GradedInv'
  <1> DEFINE judged == [attempt[s] EXCEPT !.total = Earned(Judged(s), Questions), !.complete = TRUE]
  <1>1. /\ answer' = [answer EXCEPT ![s] = Judged(s)] /\ attempt' = [attempt EXCEPT ![s] = judged]
        /\ UNCHANGED <<exam, edited>> /\ Finished(s)
    BY DEF Judge
  <1>2. /\ answer'[s] = Judged(s) /\ attempt'[s] = judged
        /\ \A t \in Students \ {s} : attempt'[t] = attempt[t] /\ answer'[t] = answer[t]
    BY <1>1 DEF TypeOK
  <1>3. None \notin BOOLEAN /\ None \notin Int /\ {} # Cases
    BY ResultsAssumption
  <1>4. /\ Finished(s)' /\ attempt'[s] # None /\ attempt'[s].total = Earned(Judged(s), Questions)
        /\ attempt'[s].complete = TRUE /\ attempt'[s].max = attempt[s].max
    <2>1. attempt[s] \in AttemptRow /\ attempt[s].status = "submitted"
      BY <1>1 DEF TypeOK, Finished
    <2>2. Earned(Judged(s), Questions) \in Int
      BY GradedType, EarnedType
    <2>3. \A total \in Int : LET row == [attempt[s] EXCEPT !.total = total, !.complete = TRUE]
                             IN  /\ row \in AttemptRow /\ row.status = attempt[s].status
                                 /\ row.total = total /\ row.complete = TRUE /\ row.max = attempt[s].max
      BY <2>1 DEF AttemptRow
    <2>4. /\ judged \in AttemptRow /\ judged.status = "submitted" /\ judged.complete = TRUE
          /\ judged.total = Earned(Judged(s), Questions) /\ judged.max = attempt[s].max
      BY <2>1, <2>2, <2>3
    <2> HIDE DEF judged
    <2> QED
      BY <1>2, <2>4, ResultsAssumption DEF Finished
  <1>5. \A q \in Questions : RowInv(s, q)'
    <2> SUFFICES ASSUME NEW q \in Questions PROVE RowInv(s, q)'
      OBVIOUS
    <2>1. answer[s][q] = None \/ answer[s][q] \in AnswerRow
      BY DEF TypeOK
    <2>2. RowInv(s, q)
      BY DEF GradedInv
    <2>3. \A right : Credit(q, right)' = Credit(q, right)
      BY <1>1 DEF Credit, Partial, Marks, Negative
    <2>4. CASE q \in Coding /\ answer[s][q] # None /\ answer[s][q].given # "none"
      <3> DEFINE row == answer[s][q]
                 score == Partial(q, row.right)
                 correct == Passed(row.right)
      <3>1. answer'[s][q] = [[row EXCEPT !.score = score] EXCEPT !.correct = correct]
        BY <1>2, <2>4 DEF Judged
      <3>2. row \in AnswerRow
        BY <2>1, <2>4
      <3>r. PICK right : right = row.right
        OBVIOUS
      <3>3. /\ answer'[s][q].correct = correct /\ answer'[s][q].score = score
            /\ answer'[s][q].given = row.given /\ answer'[s][q].right = right
        <4> HIDE DEF row, correct, score
        <4> QED
          BY <3>r, <3>1, <3>2 DEF AnswerRow
      <3>4. score = Credit(q, right)' /\ correct \in BOOLEAN
        BY <2>3, <2>4, <3>r DEF Credit, Passed
      <3>5. correct = TRUE => row.given = "some"
        BY <1>3, <2>2, <2>4 DEF RowInv, Passed
      <3>6. (row.given # "some" => right = {}) /\ row.given # "none"
        BY <2>2, <2>4, <3>r DEF RowInv
      <3>7. correct = (right = Cases)
        BY <3>r DEF Passed
      <3> HIDE DEF row, correct, score
      <3> QED
        BY <1>3, <1>4, <2>4, <3>3, <3>4, <3>5, <3>6, <3>7 DEF RowInv
    <2>5. CASE ~(q \in Coding /\ answer[s][q] # None /\ answer[s][q].given # "none")
      <3>1. answer'[s][q] = answer[s][q]
        BY <1>2, <2>5 DEF Judged
      <3> QED
        BY <1>1, <1>3, <1>4, <2>2, <2>3, <2>5, <3>1 DEF RowInv
    <2> QED
      BY <2>4, <2>5
  <1>6. TotalInv(s)'
    <2>1. Maximum(Questions)' = Maximum(Questions)
      BY <1>1 DEF Maximum, Marks
    <2>2. attempt[s] # None /\ TotalInv(s)
      BY <1>1 DEF Finished, GradedInv
    <2> QED
      BY <1>1, <1>2, <1>4, <2>1, <2>2 DEF TotalInv
  <1>7. \A t \in Students \ {s} : TotalInv(t)' /\ \A q \in Questions : RowInv(t, q)'
    BY <1>1, <1>2, GradedFrame DEF GradedInv
  <1> QED
    BY <1>5, <1>6, <1>7 DEF GradedInv

LEMMA GradedUpdate ==
  ASSUME TypeOK, GradedInv, NEW q \in Edits, NEW m \in NewMarks, NEW kept \in BOOLEAN,
         UpdateQuestion(q, m, kept)
  PROVE  GradedInv'
  <1>1. /\ answer' = [s \in Students |-> [answer[s] EXCEPT ![q] = Outdated(answer[s][q], kept)]]
        /\ edited' = TRUE /\ attempt' = attempt
    BY DEF UpdateQuestion
  <1>2. \A s \in Students : Finished(s)' = Finished(s)
    BY <1>1 DEF Finished
  <1> SUFFICES ASSUME NEW s \in Students
               PROVE  TotalInv(s)' /\ \A r \in Questions : RowInv(s, r)'
    BY DEF GradedInv
  <1>3. ASSUME NEW r \in Questions
        PROVE  IF answer[s][r] = None THEN answer'[s][r] = None
               ELSE /\ answer'[s][r] # None
                    /\ answer'[s][r].given = answer[s][r].given
                    /\ answer'[s][r].score = answer[s][r].score
                    /\ answer'[s][r].correct = answer[s][r].correct
                    /\ answer[s][r].right = {} => answer'[s][r].right = {}
    <2>1. answer[s][r] = None \/ answer[s][r] \in AnswerRow
      BY DEF TypeOK
    <2>2. answer'[s][r] = answer[s][r] \/ answer'[s][r] = Outdated(answer[s][r], kept)
      BY <1>1 DEF TypeOK
    <2>3. \A row \in AnswerRow : LET new == [row EXCEPT !.right = {}]
                                 IN  /\ new \in AnswerRow /\ new.given = row.given /\ new.score = row.score
                                     /\ new.correct = row.correct /\ new.right = {}
      BY DEF AnswerRow
    <2>4. None \notin AnswerRow
      BY ResultsAssumption
    <2> QED
      BY <2>1, <2>2, <2>3, <2>4 DEF Outdated
  <1>4. \A r \in Questions : RowInv(s, r)'
    BY <1>1, <1>2, <1>3 DEF RowInv, GradedInv
  <1>5. Earned(answer'[s], Questions) = Earned(answer[s], Questions)
    <2>1. [r \in Questions |-> Score(answer'[s][r])] = [r \in Questions |-> Score(answer[s][r])]
      BY <1>3 DEF Score
    <2> QED
      BY <2>1 DEF Earned
  <1>6. TotalInv(s)'
    BY <1>1, <1>2, <1>5 DEF TotalInv, GradedInv
  <1> QED
    BY <1>4, <1>6

LEMMA GradedNext ==
  ASSUME TypeOK, GradedInv, [Next]_vars
  PROVE  GradedInv'
  <1>1. CASE UNCHANGED vars
    <2>1. \A s \in Students : TotalInv(s)' /\ \A q \in Questions : RowInv(s, q)'
      BY <1>1, GradedFrame DEF vars, GradedInv
    <2> QED
      BY <2>1 DEF GradedInv
  <1>2. CASE Next
    BY <1>2, GradedStart, GradedSave, GradedSubmit, GradedJudge, GradedUpdate DEF Next
  <1> QED
    BY <1>1, <1>2

\* An answer has a score only once it was graded, by the paper it was given on, and the total
\* of a finished attempt is the sum of its scores, whatever was saved, cleared, submitted,
\* judged or edited in between.
THEOREM ScoresAddUp == Spec => [](TypeOK /\ GradedInv)
  <1>1. Init => TypeOK /\ GradedInv
    <2> SUFFICES ASSUME Init PROVE TypeOK /\ GradedInv
      OBVIOUS
    <2>1. TypeOK
      BY TypeInit
    <2>2. \A s \in Students : attempt[s] = None /\ \A q \in Questions : answer[s][q] = None
      BY DEF Init
    <2> QED
      BY <2>1, <2>2 DEF GradedInv, TotalInv, RowInv
  <1>2. TypeOK /\ GradedInv /\ [Next]_vars => TypeOK' /\ GradedInv'
    BY TypeNext, GradedNext
  <1> QED
    BY <1>1, <1>2, PTL DEF Spec

-----------------------------------------------------------------------------
\* Full marks.

LEMMA FullStep ==
  ASSUME TypeOK, GradedInv
  PROVE  FullIffCorrect
  <1> SUFFICES ASSUME NEW s \in Completed, ~edited, \A q \in Questions : Worthwhile(q)
               PROVE  /\ attempt[s].total <= attempt[s].max
                      /\ attempt[s].total = attempt[s].max
                           <=> \A q \in Questions : answer[s][q] # None /\ answer[s][q].correct = TRUE
    BY DEF FullIffCorrect
  <1> DEFINE f == [q \in Questions |-> Score(answer[s][q])]
             g == [q \in Questions |-> Marks(q)]
  <1>1. s \in Students /\ Finished(s) /\ attempt[s] # None
    BY DEF Completed, Attempts
  <1>2. answer[s] \in [Questions -> {None} \cup AnswerRow]
    BY <1>1 DEF TypeOK
  <1>3. attempt[s].total = SumFunctionOnSet(f, Questions)
    <2>1. attempt[s].total = Earned(answer[s], Questions)
      BY <1>1 DEF GradedInv, TotalInv
    <2> QED
      BY <1>2, <2>1, EarnedType
  <1>4. attempt[s].max = SumFunctionOnSet(g, Questions)
    <2>1. attempt[s].max = Maximum(Questions)
      BY <1>1 DEF GradedInv, TotalInv
    <2> QED
      BY <2>1, MaximumType DEF TypeOK
  <1>5. ASSUME NEW q \in Questions
        PROVE  /\ f[q] \in Int /\ g[q] \in Int /\ f[q] <= g[q]
               /\ f[q] = g[q] <=> answer[s][q] # None /\ answer[s][q].correct = TRUE
    <2>1. Marks(q) \in Int /\ Negative(q) \in Int /\ Marks(q) > 0 /\ Negative(q) >= 0
      BY PaperType DEF TypeOK, Worthwhile
    <2>2. CASE answer[s][q] = None
      BY <2>1, <2>2 DEF Score
    <2>3. CASE answer[s][q] # None /\ answer[s][q].correct = None
      <3>1. Score(answer[s][q]) = 0
        BY <1>1, <2>3 DEF Score, GradedInv, RowInv
      <3>2. answer[s][q].correct # TRUE
        BY <2>3, ResultsAssumption
      <3>3. f[q] = 0 /\ f[q] \in Int /\ g[q] \in Int /\ f[q] <= g[q] /\ f[q] # g[q]
        BY <2>1, <3>1
      <3> HIDE DEF f, g
      <3> QED
        BY <3>2, <3>3
    <2>4. CASE answer[s][q] # None /\ answer[s][q].correct # None
      <3> DEFINE row == answer[s][q]
      <3>1. row.correct = (row.right = Cases) /\ row.score = Credit(q, row.right)
        BY <1>1, <2>4 DEF GradedInv, RowInv
      <3>2. row.right \in SUBSET Cases
        BY <1>2, <2>4 DEF AnswerRow
      <3>3. /\ Credit(q, row.right) \in Int /\ Credit(q, row.right) <= Marks(q)
            /\ Credit(q, row.right) = Marks(q) <=> row.right = Cases
        <4> HIDE DEF row
        <4>1. CASE q \in Coding
          BY <2>1, <3>2, <4>1, PartialBounds DEF Credit
        <4>2. CASE q \notin Coding
          BY <2>1, <4>2 DEF Credit
        <4> QED
          BY <4>1, <4>2
      <3>4. f[q] = Credit(q, row.right)
        BY <2>4, <3>1 DEF Score
      <3> QED
        BY <2>1, <2>4, <3>1, <3>3, <3>4
    <2> QED
      BY <2>2, <2>3, <2>4
  <1> HIDE DEF f, g
  <1>6. /\ SumFunctionOnSet(f, Questions) <= SumFunctionOnSet(g, Questions)
        /\ SumFunctionOnSet(f, Questions) = SumFunctionOnSet(g, Questions)
             <=> \A q \in Questions : f[q] = g[q]
    <2>1. IsFiniteSet(Questions)
      BY ResultsAssumption
    <2>2. \A q \in Questions : f[q] \in Int /\ g[q] \in Int /\ f[q] <= g[q]
      BY <1>5
    <2> QED
      BY <2>1, <2>2, SumMonotone
  <1> QED
    BY <1>3, <1>4, <1>5, <1>6

\* Partial credit never pays more than full marks: for any number of students, questions and
\* weighted cases, nobody's total is above the maximum, and it is reached exactly by those
\* who have every answer right, as long as every question and case is worth something.
THEOREM FullMarks == Spec => []FullIffCorrect
  <1>1. TypeOK /\ GradedInv => FullIffCorrect
    BY FullStep
  <1> QED
    BY <1>1, ScoresAddUp, PTL

-----------------------------------------------------------------------------
\* The overview of an attempt.

LEMMA RoundedNear ==
  ASSUME NEW x \in Int
  PROVE  Rounded(x, 100) \in Int /\ Rounded(x, 100) - x \in (-50) .. 50
  <1> DEFINE k == (2 * x + 100) \div 200
  <1>1. k \in Int /\ 200 * k <= 2 * x + 100 /\ 2 * x + 100 < 200 * k + 200
    BY Quotient
  <1>2. Rounded(x, 100) = k * 100
    BY DEF Rounded
  <1> HIDE DEF k
  <1> QED
    BY <1>1, <1>2

\* The sections part the questions: what is summed by section and rounded there is near
\* what is summed at once.
LEMMA SectionsNear ==
  ASSUME IsPaper(exam), NEW f, \A q \in Questions : f[q] \in Int,
         NEW part, \A sec \in Sections : part[sec] = SumFunctionOnSet(f, InSection(sec)),
         NEW shown, \A sec \in Sections : shown[sec] = Rounded(part[sec], 100)
  PROVE  SumFunctionOnSet(shown, Sections) - SumFunctionOnSet(f, Questions)
            \in (-50 * Cardinality(Sections)) .. (50 * Cardinality(Sections))
  <1>1. IsFiniteSet(Sections) /\ IsFiniteSet(Questions)
    BY ResultsAssumption DEF IsPaper, Sections
  <1>2. \A q \in Questions : exam.section[q] \in Sections
    BY PaperType
  <1>3. SumFunctionOnSet(part, Sections) = SumFunctionOnSet(f, Questions)
    <2> DEFINE h == [q \in Questions |-> exam.section[q]]
    <2>1. \A sec \in Sections : part[sec] = SumFunctionOnSet(f, {q \in Questions : h[q] = sec})
      <3> SUFFICES ASSUME NEW sec \in Sections
                   PROVE  part[sec] = SumFunctionOnSet(f, {q \in Questions : h[q] = sec})
        OBVIOUS
      <3>1. {q \in Questions : h[q] = sec} = InSection(sec)
        BY DEF InSection
      <3> QED
        BY <3>1
    <2>2. \A q \in Questions : h[q] \in Sections
      BY <1>2
    <2> HIDE DEF h
    <2> QED
      BY <1>1, <2>1, <2>2, SumParts
  <1>4. \A sec \in Sections : part[sec] \in Int
    <2> SUFFICES ASSUME NEW sec \in Sections PROVE part[sec] \in Int
      OBVIOUS
    <2>1. IsFiniteSet(InSection(sec)) /\ \A q \in InSection(sec) : f[q] \in Int
      BY <1>1, FS_Subset DEF InSection
    <2> QED
      BY <2>1, SumInt
  <1>5. \A sec \in Sections : shown[sec] \in Int /\ shown[sec] - part[sec] \in (-50) .. 50
    BY <1>4, RoundedNear
  <1> QED
    BY <1>1, <1>3, <1>4, <1>5, SumNear

LEMMA OverviewStep ==
  ASSUME TypeOK, GradedInv
  PROVE  OverviewAddsUp
  <1> SUFFICES ASSUME NEW s \in Students, Finished(s)
               PROVE  LET w == 50 * Cardinality(Sections)
                          v == -50 * Cardinality(Sections)
                      IN  /\ SumFunction([sec \in Sections |-> SectionScore(s, sec)]) - attempt[s].total \in v .. w
                          /\ ~edited =>
                               SumFunction([sec \in Sections |-> SectionMax(sec)]) - attempt[s].max \in v .. w
    BY DEF OverviewAddsUp
  <1>1. /\ attempt[s].total = Earned(answer[s], Questions)
        /\ ~edited => attempt[s].max = Maximum(Questions)
    BY DEF GradedInv, TotalInv, Finished
  <1>2. IsPaper(exam) /\ answer[s] \in [Questions -> {None} \cup AnswerRow]
    BY DEF TypeOK
  <1>3. \A sec \in Sections : InSection(sec) \in SUBSET Questions /\ IsFiniteSet(InSection(sec))
    BY ResultsAssumption, FS_Subset DEF InSection
  <1>4. SumFunction([sec \in Sections |-> SectionScore(s, sec)]) - attempt[s].total
           \in (-50 * Cardinality(Sections)) .. (50 * Cardinality(Sections))
    <2> DEFINE f == [q \in Questions |-> Score(answer[s][q])]
               part == [sec \in Sections |-> Earned(answer[s], InSection(sec))]
               shown == [sec \in Sections |-> SectionScore(s, sec)]
    <2>1. \A q \in Questions : f[q] \in Int
      BY <1>2, EarnedType
    <2>2. attempt[s].total = SumFunctionOnSet(f, Questions)
      BY <1>1, <1>2, EarnedType
    <2>3. ASSUME NEW sec \in Sections
          PROVE  part[sec] = SumFunctionOnSet(f, InSection(sec))
      <3> DEFINE g == [q \in InSection(sec) |-> Score(answer[s][q])]
      <3>1. part[sec] = SumFunctionOnSet(g, InSection(sec))
        BY <1>2, <1>3, EarnedType
      <3>2. \A q \in InSection(sec) : g[q] \in Int /\ g[q] = f[q]
        BY <1>3, <2>1
      <3> HIDE DEF f, g
      <3>3. SumFunctionOnSet(g, InSection(sec)) = SumFunctionOnSet(f, InSection(sec))
        BY <1>3, <3>2, SumEqual
      <3> QED
        BY <3>1, <3>3
    <2>4. \A sec \in Sections : shown[sec] = Rounded(part[sec], 100)
      BY DEF SectionScore
    <2>5. SumFunction(shown) = SumFunctionOnSet(shown, Sections)
      BY DEF SumFunction
    <2> HIDE DEF f, part, shown
    <2>6. SumFunctionOnSet(shown, Sections) - SumFunctionOnSet(f, Questions)
             \in (-50 * Cardinality(Sections)) .. (50 * Cardinality(Sections))
      BY <1>2, <2>1, <2>3, <2>4, SectionsNear
    <2> QED
      BY <2>2, <2>5, <2>6 DEF shown
  <1>5. ~edited => SumFunction([sec \in Sections |-> SectionMax(sec)]) - attempt[s].max
           \in (-50 * Cardinality(Sections)) .. (50 * Cardinality(Sections))
    <2> DEFINE f == [q \in Questions |-> Marks(q)]
               part == [sec \in Sections |-> Maximum(InSection(sec))]
               shown == [sec \in Sections |-> SectionMax(sec)]
    <2>1. \A q \in Questions : f[q] \in Int
      BY <1>2, PaperType
    <2>2. ~edited => attempt[s].max = SumFunctionOnSet(f, Questions)
      BY <1>1, <1>2, MaximumType
    <2>3. ASSUME NEW sec \in Sections
          PROVE  part[sec] = SumFunctionOnSet(f, InSection(sec))
      <3> DEFINE g == [q \in InSection(sec) |-> Marks(q)]
      <3>1. part[sec] = SumFunctionOnSet(g, InSection(sec))
        BY <1>2, <1>3, MaximumType
      <3>2. \A q \in InSection(sec) : g[q] \in Int /\ g[q] = f[q]
        BY <1>3, <2>1
      <3> HIDE DEF f, g
      <3>3. SumFunctionOnSet(g, InSection(sec)) = SumFunctionOnSet(f, InSection(sec))
        BY <1>3, <3>2, SumEqual
      <3> QED
        BY <3>1, <3>3
    <2>4. \A sec \in Sections : shown[sec] = Rounded(part[sec], 100)
      BY DEF SectionMax
    <2>5. SumFunction(shown) = SumFunctionOnSet(shown, Sections)
      BY DEF SumFunction
    <2> HIDE DEF f, part, shown
    <2>6. SumFunctionOnSet(shown, Sections) - SumFunctionOnSet(f, Questions)
             \in (-50 * Cardinality(Sections)) .. (50 * Cardinality(Sections))
      BY <1>2, <2>1, <2>3, <2>4, SectionsNear
    <2> QED
      BY <2>2, <2>5, <2>6 DEF shown
  <1> QED
    BY <1>4, <1>5

\* Rounding to two decimals section by section moves the sum by less than a unit a section:
\* the overview of any attempt shows scores and maxima that add up to its total and maximum.
THEOREM Overview == Spec => []OverviewAddsUp
  <1>1. TypeOK /\ GradedInv => OverviewAddsUp
    BY OverviewStep
  <1> QED
    BY <1>1, ScoresAddUp, PTL

-----------------------------------------------------------------------------
\* The counts of the reports.

LEMMA MaxMin ==
  ASSUME NEW a \in Int, NEW b \in Int
  PROVE  /\ Max({a, b}) = IF a >= b THEN a ELSE b
         /\ Min({a, b}) = IF a <= b THEN a ELSE b
  <1>1. \E x \in {a, b} : \A y \in {a, b} : x >= y
    OBVIOUS
  <1>2. Max({a, b}) \in {a, b} /\ \A y \in {a, b} : Max({a, b}) >= y
    BY <1>1 DEF Max
  <1>3. \E x \in {a, b} : \A y \in {a, b} : x <= y
    OBVIOUS
  <1>4. Min({a, b}) \in {a, b} /\ \A y \in {a, b} : Min({a, b}) <= y
    BY <1>3 DEF Min
  <1> QED
    BY <1>2, <1>4

LEMMA BucketType ==
  ASSUME TypeOK, GradedInv, NEW s \in Submissions, NEW max \in Maxima, max > 0
  PROVE  Bucket(s, max) \in 0 .. 4
  <1>1. max \in Int
    BY DEF GradedInv, TotalInv, Submissions, Attempts, Maxima
  <1>2. attempt[s].total \in Int
    <2>1. attempt[s].total = Earned(answer[s], Questions)
      BY DEF GradedInv, TotalInv, Submissions, Attempts
    <2>2. answer[s] \in [Questions -> {None} \cup AnswerRow]
      BY DEF TypeOK, Submissions, Attempts
    <2> QED
      BY <2>1, <2>2, EarnedType
  <1> DEFINE x == (attempt[s].total * 100) \div max
             p == Percentage(s, max)
  <1>3. x \in Int
    <2>1. attempt[s].total * 100 \in Int /\ max \in Nat \ {0}
      BY <1>1, <1>2
    <2> QED
      BY <2>1, Quotient
  <1>4. p = Max({0, Min({100, x})})
    BY DEF Percentage
  <1> HIDE DEF x, p
  <1>5. Min({100, x}) \in Int /\ Min({100, x}) <= 100
    <2>1. 100 \in Int
      OBVIOUS
    <2>2. Min({100, x}) = IF 100 <= x THEN 100 ELSE x
      BY <1>3, <2>1, MaxMin
    <2> QED
      BY <1>3, <2>2
  <1>6. p \in 0 .. 100
    <2> DEFINE y == Min({100, x})
    <2>1. 0 \in Int
      OBVIOUS
    <2>2. Max({0, y}) = IF 0 >= y THEN 0 ELSE y
      BY <1>5, <2>1, MaxMin
    <2> QED
      BY <1>4, <1>5, <2>2
  <1>7. p \div 20 \in 0 .. 5
    BY <1>6
  <1>8. Min({p \div 20, 4}) \in 0 .. 4
    <2>1. 4 \in Int /\ p \div 20 \in Int
      BY <1>7
    <2>2. Min({p \div 20, 4}) = IF p \div 20 <= 4 THEN p \div 20 ELSE 4
      BY <2>1, MaxMin
    <2> QED
      BY <1>7, <2>2
  <1> QED
    BY <1>8 DEF Bucket, p

LEMMA ReportsStep ==
  ASSUME TypeOK, GradedInv
  PROVE  ReportsAgree
  <1> SUFFICES ASSUME \A s \in Attempts : Finished(s) /\ attempt[s].complete
               PROVE  /\ \A q \in Questions :
                            CorrectAnswers(q) = Cardinality({s \in Attempts : Review(s, q) = "correct"})
                      /\ \A s \in Attempts :
                            /\ CorrectOf(s) = Cardinality({q \in Questions : Review(s, q) = "correct"})
                            /\ WrongOf(s) >= Cardinality({q \in Questions : Review(s, q) = "incorrect"})
                      /\ \A max \in Maxima : max > 0 => SumFunction(Buckets(max)) = Cardinality(Submissions)
    BY DEF ReportsAgree
  <1>1. ASSUME NEW s \in Attempts, NEW q \in Questions
        PROVE  /\ Review(s, q) = "correct" <=> answer[s][q] # None /\ answer[s][q].correct = TRUE
               /\ Review(s, q) = "incorrect" => answer[s][q] # None /\ answer[s][q].correct = FALSE
    <2>1. RowInv(s, q) /\ Finished(s) /\ attempt[s].complete
      BY DEF GradedInv, Attempts
    <2>2. answer[s][q] = None \/ answer[s][q] \in AnswerRow
      BY DEF TypeOK, Attempts
    <2>3. CASE answer[s][q] = None
      BY <2>3 DEF Review
    <2>4. CASE answer[s][q] # None
      <3>1. answer[s][q].correct \in BOOLEAN \cup {None}
        BY <2>2, <2>4 DEF AnswerRow
      <3>2. answer[s][q].correct = TRUE => answer[s][q].given = "some"
        BY <2>1, <2>4 DEF RowInv
      <3>3. answer[s][q].given = "some" => answer[s][q].correct # None
        BY <2>1, <2>4 DEF RowInv
      <3> QED
        BY <2>4, <3>1, <3>2, <3>3 DEF Review
    <2> QED
      BY <2>3, <2>4
  <1>2. \A q \in Questions :
           CorrectAnswers(q) = Cardinality({s \in Attempts : Review(s, q) = "correct"})
    <2> SUFFICES ASSUME NEW q \in Questions
                 PROVE  CorrectAnswers(q) = Cardinality({s \in Attempts : Review(s, q) = "correct"})
      OBVIOUS
    <2>1. {s \in Attempts : answer[s][q] # None /\ answer[s][q].correct = TRUE}
             = {s \in Attempts : Review(s, q) = "correct"}
      BY <1>1
    <2> QED
      BY <2>1 DEF CorrectAnswers
  <1>3. ASSUME NEW s \in Attempts
        PROVE  /\ CorrectOf(s) = Cardinality({q \in Questions : Review(s, q) = "correct"})
               /\ WrongOf(s) >= Cardinality({q \in Questions : Review(s, q) = "incorrect"})
    <2> DEFINE wrong == {q \in Questions : answer[s][q] # None /\ answer[s][q].correct = FALSE}
               shown == {q \in Questions : Review(s, q) = "incorrect"}
    <2>1. {q \in Questions : answer[s][q] # None /\ answer[s][q].correct = TRUE}
             = {q \in Questions : Review(s, q) = "correct"}
      BY <1>1
    <2>2. shown \in SUBSET wrong
      BY <1>1
    <2>3. IsFiniteSet(wrong)
      BY ResultsAssumption, FS_Subset
    <2>4. Cardinality(shown) <= Cardinality(wrong)
      <3> HIDE DEF shown, wrong
      <3> QED
        BY <2>2, <2>3, FS_Subset
    <2>5. Cardinality(shown) \in Nat /\ Cardinality(wrong) \in Nat
      BY <2>2, <2>3, FS_Subset, FS_CardinalityType
    <2> QED
      BY <2>1, <2>4, <2>5 DEF CorrectOf, WrongOf
  <1>4. ASSUME NEW max \in Maxima, max > 0
        PROVE  SumFunction(Buckets(max)) = Cardinality(Submissions)
    <2> DEFINE h == [s \in Submissions |-> Bucket(s, max)]
               g == Buckets(max)
    <2>p. PICK P : P = 0 .. 4
      OBVIOUS
    <2>1. IsFiniteSet(Submissions) /\ IsFiniteSet(P)
      <3>1. Submissions \in SUBSET Students /\ IsFiniteSet(Students)
        BY ResultsAssumption DEF Submissions, Attempts
      <3>2. IsFiniteSet(Submissions)
        BY <3>1, FS_Subset
      <3>3. 0 \in Int /\ 4 \in Int
        OBVIOUS
      <3>4. IsFiniteSet(0 .. 4)
        BY <3>3, FS_Interval
      <3> QED
        BY <2>p, <3>2, <3>4
    <2>2. \A s \in Submissions : h[s] \in P
      BY <1>4, <2>p, BucketType
    <2>3. g = [b \in P |-> Cardinality({s \in Submissions : h[s] = b})]
      <3>1. \A b \in P : {s \in Submissions : h[s] = b} = {s \in Submissions : Bucket(s, max) = b}
        OBVIOUS
      <3> QED
        BY <2>p, <3>1 DEF Buckets
    <2>4. SumFunction(g) = SumFunctionOnSet(g, P)
      BY <2>p DEF SumFunction, Buckets
    <2> HIDE DEF h
    <2>5. SumFunctionOnSet([b \in P |-> Cardinality({s \in Submissions : h[s] = b})], P) = Cardinality(Submissions)
      BY <2>1, <2>2, CountParts
    <2> HIDE DEF g
    <2> QED
      BY <2>3, <2>4, <2>5 DEF g
  <1> QED
    BY <1>2, <1>3, <1>4

\* When every attempt is graded, review, analytics and workbook count the same answers right,
\* and every submission falls in one of the five buckets.
THEOREM Reports == Spec => []ReportsAgree
  <1>1. TypeOK /\ GradedInv => ReportsAgree
    BY ReportsStep
  <1> QED
    BY <1>1, ScoresAddUp, PTL

-----------------------------------------------------------------------------
\* Places in a list.

\* A list of everybody once has as many places for a group as the group has members.
LEMMA Enumerates ==
  ASSUME NEW S, IsFiniteSet(S), NEW b \in SetToSeqs(S)
  PROVE  /\ Cardinality(S) \in Nat /\ b \in Seq(S) /\ Len(b) = Cardinality(S)
         /\ DOMAIN b = 1 .. Cardinality(S)
         /\ \A x \in S : \E i \in DOMAIN b : b[i] = x
         /\ \A i, j \in DOMAIN b : b[i] = b[j] => i = j
  <1> DEFINE D == 1 .. Cardinality(S)
  <1>1. Cardinality(S) \in Nat
    BY FS_CardinalityType
  <1>2. b \in [D -> S] /\ \A i, j \in D : i # j => b[i] # b[j]
    BY DEF SetToSeqs
  <1>3. b \in Injection(D, S)
    BY <1>2, Fun_IsInj
  <1>4. Cardinality(D) = Cardinality(S)
    BY <1>1, FS_Interval
  <1>5. b \in Surjection(D, S)
    BY <1>3, <1>4, FS_Injection
  <1>6. \A x \in S : \E i \in D : b[i] = x
    BY <1>5 DEF Surjection
  <1>7. b \in Seq(S) /\ Len(b) = Cardinality(S)
    BY <1>1, <1>2
  <1> QED
    BY <1>1, <1>2, <1>6, <1>7

LEMMA PlacesOf ==
  ASSUME NEW S, IsFiniteSet(S), NEW b \in SetToSeqs(S), NEW G \in SUBSET S
  PROVE  LET J == {j \in DOMAIN b : b[j] \in G}
         IN  IsFiniteSet(J) /\ Cardinality(J) = Cardinality(G) /\ Cardinality(G) \in Nat
  <1> DEFINE J == {j \in DOMAIN b : b[j] \in G}
             f == [j \in J |-> b[j]]
  <1>1. IsFiniteSet(G) /\ Cardinality(G) \in Nat
    BY FS_Subset, FS_CardinalityType
  <1>2. f \in [J -> G] /\ \A i, j \in J : f[i] = f[j] => i = j
    BY Enumerates
  <1>3. \A x \in G : \E j \in J : f[j] = x
    BY Enumerates
  <1> HIDE DEF f, J
  <1>4. f \in Injection(J, G) /\ f \in Surjection(J, G)
    BY <1>2, <1>3, Fun_IsInj, Fun_IsSurj
  <1>5. IsFiniteSet(J) /\ Cardinality(J) = Cardinality(G)
    BY <1>1, <1>4, FS_Injection
  <1> QED
    BY <1>1, <1>5 DEF J

\* Whoever lists all who finished, and others who did not after them by Before, has each
\* finisher at a place of its rank.
LEMMA ListedPlaces ==
  ASSUME TypeOK, GradedInv, NEW S \in SUBSET Attempts, Completed \subseteq S,
         NEW b \in Listed(S), NEW i \in DOMAIN b, Finished(b[i])
  PROVE  i \in Places(b[i])
  <1> DEFINE s == b[i]
             G == {t \in Students : Finished(t) /\ attempt[t].total > attempt[s].total}
             E == {t \in Completed : attempt[t].total = attempt[s].total}
             n == Cardinality(S)
  <1>1. IsFiniteSet(S) /\ S \subseteq Students
    <2>1. Attempts \subseteq Students
      BY DEF Attempts
    <2> QED
      BY <2>1, ResultsAssumption, FS_Subset
  <1>2. /\ b \in SetToSeqs(S)
        /\ \A j, k \in DOMAIN b : j < k => Before(b[j], b[k])
    BY DEF Listed
  <1>3. /\ n \in Nat /\ DOMAIN b = 1 .. n /\ \A j \in DOMAIN b : b[j] \in S
        /\ \A j, k \in DOMAIN b : b[j] = b[k] => j = k
    BY <1>1, <1>2, Enumerates
  <1>4. \A t \in Students : Finished(t) => attempt[t] # None /\ attempt[t].total \in Int /\ attempt[t].total # None
    <2> SUFFICES ASSUME NEW t \in Students, Finished(t)
                 PROVE  attempt[t] # None /\ attempt[t].total \in Int /\ attempt[t].total # None
      OBVIOUS
    <2>1. attempt[t] # None /\ attempt[t].total = Earned(answer[t], Questions)
      BY DEF Finished, GradedInv, TotalInv
    <2>2. answer[t] \in [Questions -> {None} \cup AnswerRow]
      BY DEF TypeOK
    <2>3. Earned(answer[t], Questions) \in Int
      BY <2>2, EarnedType
    <2> QED
      BY <2>1, <2>3, ResultsAssumption
  <1>5. \A t \in S : attempt[t].total # None => Finished(t)
    BY <1>1 DEF GradedInv, TotalInv, Attempts
  <1>6. s \in S /\ s \in Students /\ Finished(s) /\ attempt[s].total \in Int /\ attempt[s].total # None
    BY <1>1, <1>3, <1>4
  <1>7. G \subseteq S /\ E \subseteq S /\ G \cap E = {} /\ s \in E
    BY <1>1, <1>4, <1>6 DEF Completed, Attempts
  <1>8. IsFiniteSet(G) /\ IsFiniteSet(E) /\ Cardinality(G) \in Nat /\ Cardinality(E) \in Nat
    BY <1>1, <1>7, FS_Subset, FS_CardinalityType
  <1> DEFINE J == {j \in DOMAIN b : b[j] \in G}
  <1>9. Cardinality(G) <= i - 1
    <2>1. J \subseteq 1 .. (i - 1)
      <3> SUFFICES ASSUME NEW j \in J PROVE j < i
        BY <1>3
      <3>1. attempt[b[j]].total > attempt[s].total /\ attempt[b[j]].total \in Int /\ attempt[b[j]].total # None
        BY <1>4
      <3>2. j # i
        BY <1>6, <3>1
      <3>3. ~(i < j)
        <4> SUFFICES ASSUME i < j PROVE FALSE
          OBVIOUS
        <4>1. Before(s, b[j])
          BY <1>2
        <4>2. attempt[s].total >= attempt[b[j]].total
          BY <3>1, <4>1 DEF Before
        <4> QED
          BY <1>6, <3>1, <4>2
      <3> QED
        BY <1>3, <3>2, <3>3
    <2>2. IsFiniteSet(1 .. (i - 1)) /\ Cardinality(1 .. (i - 1)) = i - 1
      <3>1. 1 \in Int /\ i - 1 \in Int /\ i - 1 >= 0
        BY <1>3
      <3>2. IsFiniteSet(1 .. (i - 1)) /\ Cardinality(1 .. (i - 1)) = IF 1 > i - 1 THEN 0 ELSE i - 1 - 1 + 1
        BY <3>1, FS_Interval
      <3> QED
        BY <3>1, <3>2
    <2>3. Cardinality(J) = Cardinality(G)
      BY <1>1, <1>2, <1>7, PlacesOf
    <2> HIDE DEF J
    <2>4. Cardinality(J) <= Cardinality(1 .. (i - 1))
      BY <2>1, <2>2, FS_Subset
    <2> QED
      BY <2>2, <2>3, <2>4
  <1> DEFINE K == {j \in DOMAIN b : b[j] \in G \cup E}
  <1>10. i <= Cardinality(G) + Cardinality(E)
    <2>1. 1 .. i \subseteq K
      <3> SUFFICES ASSUME NEW j \in 1 .. i PROVE b[j] \in G \cup E
        BY <1>3
      <3>1. CASE j = i
        BY <1>7, <3>1
      <3>2. CASE j # i
        <4>1. j \in DOMAIN b /\ j < i
          BY <1>3, <3>2
        <4>2. Before(b[j], s)
          BY <1>2, <4>1
        <4>3. attempt[b[j]].total # None /\ attempt[b[j]].total >= attempt[s].total
          BY <1>6, <4>2 DEF Before
        <4>4. b[j] \in S /\ b[j] \in Students /\ Finished(b[j])
          BY <1>1, <1>3, <1>5, <4>1, <4>3
        <4>5. attempt[b[j]].total \in Int /\ b[j] \in Completed
          BY <1>4, <4>4 DEF Completed, Attempts
        <4> QED
          BY <1>6, <4>3, <4>4, <4>5
      <3> QED
        BY <3>1, <3>2
    <2>2. Cardinality(1 .. i) = i
      <3>1. 1 \in Int /\ i \in Int /\ i >= 1
        BY <1>3
      <3>2. Cardinality(1 .. i) = IF 1 > i THEN 0 ELSE i - 1 + 1
        BY <3>1, FS_Interval
      <3> QED
        BY <3>1, <3>2
    <2>3. (G \cup E) \in SUBSET S
      BY <1>7
    <2>4. IsFiniteSet(K) /\ Cardinality(K) = Cardinality(G \cup E)
      <3> HIDE DEF G, E
      <3>1. PICK H \in SUBSET S : H = G \cup E
        BY <2>3
      <3> DEFINE L == {j \in DOMAIN b : b[j] \in H}
      <3>2. IsFiniteSet(L) /\ Cardinality(L) = Cardinality(H)
        BY <1>1, <1>2, PlacesOf
      <3>3. L = K
        BY <3>1
      <3> HIDE DEF L, K
      <3> QED
        BY <3>1, <3>2, <3>3
    <2>5. Cardinality(G \cup E) = Cardinality(G) + Cardinality(E) - Cardinality({})
      <3> HIDE DEF G, E
      <3> QED
        BY <1>7, <1>8, FS_Union
    <2> HIDE DEF K, G, E
    <2>6. Cardinality(1 .. i) <= Cardinality(K)
      BY <2>1, <2>4, FS_Subset
    <2> QED
      BY <1>8, <2>2, <2>4, <2>5, <2>6, FS_EmptySet
  <1>11. Rank(s) = 1 + Cardinality(G)
    BY DEF Rank
  <1>12. Places(s) = Rank(s) .. (Rank(s) + Cardinality(E) - 1)
    BY DEF Places
  <1> HIDE DEF G, E
  <1>13. i \in Int
    BY <1>3
  <1> QED
    BY <1>8, <1>9, <1>10, <1>11, <1>12, <1>13

LEMMA SizeType ==
  ASSUME NEW asked \in PageSizes
  PROVE  Size(asked) \in Nat \ {0}
  <1>1. asked \in Int /\ 1 \in Int /\ PageLimit \in Nat \ {0}
    BY ResultsAssumption
  <1>2. Max({asked, 1}) = IF asked >= 1 THEN asked ELSE 1
    BY <1>1, MaxMin
  <1>3. Max({asked, 1}) \in Nat \ {0}
    BY <1>1, <1>2
  <1>4. Size(asked) = IF Max({asked, 1}) <= PageLimit THEN Max({asked, 1}) ELSE PageLimit
    <2>1. Max({asked, 1}) \in Int /\ PageLimit \in Int
      BY <1>1, <1>3
    <2> QED
      BY <2>1, MaxMin DEF Size
  <1> QED
    BY <1>1, <1>3, <1>4

\* Read page by page, every row is on a page, at its place.
LEMMA PagesCover ==
  ASSUME NEW S, NEW b \in Seq(S), NEW asked \in PageSizes, NEW k \in DOMAIN b
  PROVE  \E n \in DOMAIN b : \E i \in DOMAIN Page(b, n, asked) :
            Page(b, n, asked)[i] = b[k] /\ (n - 1) * Size(asked) + i = k
  <1>1. PICK z \in Nat \ {0} : z = Size(asked)
    BY SizeType
  <1>2. k \in Nat \ {0} /\ k <= Len(b) /\ Len(b) \in Nat /\ DOMAIN b = 1 .. Len(b)
    OBVIOUS
  <1> DEFINE d == (k - 1) \div z
             n == d + 1
             i == k - d * z
  <1>3. d \in Int /\ z * d <= k - 1 /\ k - 1 < z * d + z
    <2>1. k - 1 \in Int
      BY <1>2
    <2> QED
      BY <2>1, Quotient
  <1> HIDE DEF d
  <1>4. d >= 0
    <2> SUFFICES ASSUME d <= -1 PROVE FALSE
      BY <1>3
    <2>1. z * d <= z * (-1)
      BY <1>3
    <2> QED
      BY <1>2, <1>3, <2>1
  <1>5. d <= k - 1
    <2>1. 1 * d <= z * d
      BY <1>3, <1>4
    <2> QED
      BY <1>2, <1>3, <2>1
  <1>6. PICK w \in Nat : w = d * z
    BY <1>3, <1>4
  <1>7. n \in DOMAIN b /\ i \in 1 .. z /\ w + i = k /\ (n - 1) * z = w /\ n * z = w + z /\ z * d = w
    BY <1>2, <1>3, <1>4, <1>5, <1>6
  <1> DEFINE m == Min({w + z, Len(b)})
  <1>8. m = IF w + z <= Len(b) THEN w + z ELSE Len(b)
    <2>1. w + z \in Int /\ Len(b) \in Int
      BY <1>2
    <2> QED
      BY <2>1, MaxMin
  <1>9. Page(b, n, asked) = SubSeq(b, w + 1, m)
    <2>1. Max({n, 1}) = n
      <3>1. n \in Int /\ 1 \in Int /\ n >= 1
        BY <1>2, <1>7
      <3> QED
        BY <3>1, MaxMin
    <2> QED
      BY <1>1, <1>7, <2>1 DEF Page
  <1> HIDE DEF m, n, i
  <1>10. m \in Int /\ k <= m /\ m <= Len(b) /\ w + 1 \in Int /\ w + 1 <= m
    <2>1. w < k /\ k <= w + z
      BY <1>2, <1>7
    <2>2. PICK l \in Nat : l = Len(b)
      BY <1>2
    <2>3. m = IF w + z <= l THEN w + z ELSE l
      BY <1>8, <2>2, Zenon
    <2>5. k \in Int /\ k <= l
      BY <1>2, <2>2
    <2>4. m \in Int /\ k <= m /\ m <= l /\ w + 1 <= m
      BY <2>1, <2>3, <2>5
    <2> QED
      BY <2>2, <2>4
  <1>11. \A j \in (w + 1) .. m : b[j] \in S
    BY <1>2, <1>10
  <1>12. /\ SubSeq(b, w + 1, m) \in Seq(S) /\ Len(SubSeq(b, w + 1, m)) = m - (w + 1) + 1
         /\ \A j \in 1 .. m - (w + 1) + 1 : SubSeq(b, w + 1, m)[j] = b[(w + 1) + j - 1]
    BY <1>10, <1>11, SubSeqProperties
  <1>13. i \in 1 .. m - (w + 1) + 1 /\ (w + 1) + i - 1 = k
    BY <1>2, <1>7, <1>10
  <1>14. i \in DOMAIN Page(b, n, asked) /\ Page(b, n, asked)[i] = b[k]
    BY <1>9, <1>12, <1>13
  <1>15. (n - 1) * Size(asked) + i = k
    BY <1>1, <1>7
  <1> QED
    BY <1>7, <1>14, <1>15

LEMMA RanksStep ==
  ASSUME TypeOK, GradedInv
  PROVE  RanksAgree
  <1>1. Completed \subseteq Attempts /\ Completed \subseteq Students
    BY DEF Completed, Attempts
  <1>2. \A b \in Listed(Attempts) : \A i \in DOMAIN b : Finished(b[i]) => i \in Places(b[i])
    BY <1>1, ListedPlaces
  <1>3. ASSUME NEW b \in Listed(Completed), NEW asked \in PageSizes, NEW s \in Completed
        PROVE  \E n \in DOMAIN b : \E i \in DOMAIN Page(b, n, asked) :
                  Page(b, n, asked)[i] = s /\ (n - 1) * Size(asked) + i \in Places(s)
    <2>1. IsFiniteSet(Completed)
      BY <1>1, ResultsAssumption, FS_Subset
    <2>2. b \in SetToSeqs(Completed)
      BY DEF Listed
    <2>3. b \in Seq(Completed) /\ \E k \in DOMAIN b : b[k] = s
      BY <2>1, <2>2, Enumerates
    <2>4. PICK k \in DOMAIN b : b[k] = s
      BY <2>3
    <2>5. k \in Places(s)
      BY <1>1, <2>4, ListedPlaces DEF Completed
    <2>6. PICK n \in DOMAIN b : \E i \in DOMAIN Page(b, n, asked) :
             Page(b, n, asked)[i] = b[k] /\ (n - 1) * Size(asked) + i = k
      BY <2>3, PagesCover
    <2> QED
      BY <2>4, <2>5, <2>6
  <1> QED
    BY <1>2, <1>3 DEF RanksAgree

\* The rank an attempt's overview shows, its row in the workbook and the page and place where
\* the list has it agree, whatever page size is asked for and however equals are ordered.
THEOREM Ranks == Spec => []RanksAgree
  <1>1. TypeOK /\ GradedInv => RanksAgree
    BY RanksStep
  <1> QED
    BY <1>1, ScoresAddUp, PTL
=============================================================================
