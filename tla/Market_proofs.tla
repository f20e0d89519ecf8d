---------------------------- MODULE Market_proofs ----------------------------
(***************************************************************************)
(* Proofs about MarketScan, for any number of issuers, sessions and plans, *)
(* about Portfolio, for any investors, assets and providers, about         *)
(* NewsPipeline, for any articles and issuers, about KnowledgeIndex, for   *)
(* any texts and models, and about PriceHistory, for any number of bars    *)
(* and of ingestions.                                                      *)
(***************************************************************************)
EXTENDS MarketScan, Portfolio, NewsPipeline, KnowledgeIndex, PriceHistory,
        FiniteSetTheorems, SequenceTheorems, WellFoundedInduction, TLAPS

-----------------------------------------------------------------------------
(* Sums over finite sets. Their folds are defined by recursion through     *)
(* CHOOSE; what is said of them for every set is proved by induction over  *)
(* the set's subsets.                                                      *)

OneOf(S) == CHOOSE x \in S : TRUE

Adds(g, f, S) ==
  g = [s \in SUBSET S |-> IF s = {} THEN 0 ELSE f[OneOf(s)] + g[s \ {OneOf(s)}]]

(* Induction over a finite set's subsets, the class being the set G of      *)
(* those that have the property.                                           *)
LEMMA SubsetInduction ==
  ASSUME NEW S, IsFiniteSet(S), NEW G,
         \A T \in SUBSET S : (\A U \in SUBSET T : U # T => U \in G) => T \in G
  PROVE  SUBSET S \subseteq G
  <1> DEFINE R == StrictSubsetOrdering(S)
             Bad == (SUBSET S) \ G
  <1> SUFFICES ASSUME Bad # {} PROVE FALSE
    OBVIOUS
  <1>1. IsWellFoundedOn(R, SUBSET S)
    <2>1. FiniteSubsetsOf(S) = SUBSET S
      BY FS_FiniteSubsetsOfFinite
    <2>2. IsWellFoundedOn(R, FiniteSubsetsOf(S))
      BY FS_StrictSubsetOrderingWellFounded
    <2> QED
      BY <2>1, <2>2
  <1>2. Bad \subseteq SUBSET S
    OBVIOUS
  <1> HIDE DEF Bad, R
  <1>3. PICK T \in Bad : \A U \in Bad : ~ (<<U, T>> \in R)
    BY <1>1, <1>2, WFMin
  <1>4. ASSUME NEW U \in SUBSET T, U # T PROVE U \in G
    <2>1. <<U, T>> \in R
      BY <1>2, <1>4 DEF R, StrictSubsetOrdering
    <2> QED
      BY <1>2, <1>3, <2>1 DEF Bad
  <1>5. T \in SUBSET S /\ T \notin G
    BY DEF Bad
  <1> QED
    BY <1>4, <1>5

(* What the fold of the community modules says of a sum: it is the value   *)
(* at the whole set of a function that adds an element at a time.          *)
LEMMA SumIsChosen ==
  ASSUME NEW f, NEW S
  PROVE  SumFunctionOnSet(f, S) = (CHOOSE g : Adds(g, f, S))[S]
  BY DEF SumFunctionOnSet, FoldFunctionOnSet, MapThenFoldSet, Adds, OneOf

(* Such a function, unfolded once. *)
LEMMA AddsIs ==
  ASSUME NEW f, NEW S, NEW g, Adds(g, f, S), NEW T \in SUBSET S
  PROVE  /\ T = {} => g[T] = 0
         /\ T # {} => g[T] = f[OneOf(T)] + g[T \ {OneOf(T)}]
  BY DEF Adds

(* There is one such function at the most ... *)
LEMMA AddsOnce ==
  ASSUME NEW f, NEW S, NEW T \in SUBSET S, IsFiniteSet(T), NEW g, NEW h,
         Adds(g, f, S), Adds(h, f, T)
  PROVE  g[T] = h[T]
  <1> DEFINE G == {U \in SUBSET T : g[U] = h[U]}
  <1>1. ASSUME NEW U \in SUBSET T, \A V \in SUBSET U : V # U => V \in G
        PROVE  U \in G
    <2>1. CASE U = {}
      <3>1. U \in SUBSET S /\ U \in SUBSET T
        OBVIOUS
      <3>2. g[U] = 0 /\ h[U] = 0
        BY <2>1, <3>1, AddsIs
      <3> QED
        BY <3>2
    <2>2. CASE U # {}
      <3>1. OneOf(U) \in U
        BY <2>2 DEF OneOf
      <3>2. U \ {OneOf(U)} \in G
        BY <1>1, <3>1
      <3> QED
        BY <2>2, <3>2, AddsIs
    <2> QED
      BY <2>1, <2>2
  <1>2. SUBSET T \subseteq G
    <2> HIDE DEF G
    <2> QED
      BY <1>1, SubsetInduction
  <1> QED
    BY <1>2

(* ... and there is one: the union of those on the smaller subsets. *)
LEMMA AddsExists ==
  ASSUME NEW f, NEW S, IsFiniteSet(S)
  PROVE  \E g : Adds(g, f, S)
  <1> DEFINE G == {T \in SUBSET S : \E g : Adds(g, f, T)}
  <1>1. ASSUME NEW T \in SUBSET S, \A U \in SUBSET T : U # T => U \in G
        PROVE  T \in G
    <2> DEFINE V(s) == SumFunctionOnSet(f, s)
               g == [s \in SUBSET T |-> IF s = {} THEN 0 ELSE f[OneOf(s)] + V(s \ {OneOf(s)})]
    <2>1. ASSUME NEW U \in SUBSET T, U # T, U # {}
          PROVE  V(U) = f[OneOf(U)] + V(U \ {OneOf(U)})
      <3> DEFINE W == U \ {OneOf(U)}
      <3>1. OneOf(U) \in U
        BY <2>1 DEF OneOf
      <3>2. U \in G /\ W \in G
        BY <1>1, <2>1, <3>1
      <3>3. PICK h : Adds(h, f, U) /\ V(U) = h[U]
        BY <3>2, SumIsChosen
      <3>4. PICK k : Adds(k, f, W) /\ V(W) = k[W]
        BY <3>2, SumIsChosen
      <3>5. h[W] = k[W]
        <4>1. IsFiniteSet(W) /\ W \in SUBSET U
          BY FS_Subset
        <4> QED
          BY <3>3, <3>4, <4>1, AddsOnce
      <3> HIDE DEF W
      <3>6. h[U] = f[OneOf(U)] + h[W]
        BY <2>1, <3>3, AddsIs DEF W
      <3> QED
        BY <3>3, <3>4, <3>5, <3>6 DEF W
    <2>2. V({}) = 0 \/ T = {}
      <3> SUFFICES ASSUME T # {} PROVE V({}) = 0
        OBVIOUS
      <3>1. PICK h : Adds(h, f, {}) /\ V({}) = h[{}]
        BY <1>1, SumIsChosen
      <3> QED
        BY <3>1, AddsIs
    <2> HIDE DEF V
    <2>3. \A U \in SUBSET T : U # T => g[U] = V(U)
      BY <2>1, <2>2
    <2>4. \A U \in SUBSET T : U # {} => OneOf(U) \in U
      BY DEF OneOf
    <2>5. Adds(g, f, T)
      <3> DEFINE h == [s \in SUBSET T |-> IF s = {} THEN 0 ELSE f[OneOf(s)] + g[s \ {OneOf(s)}]]
      <3>1. ASSUME NEW U \in SUBSET T PROVE g[U] = h[U]
        <4>1. CASE U = {}
          BY <4>1
        <4>2. CASE U # {}
          <5>1. g[U \ {OneOf(U)}] = V(U \ {OneOf(U)})
            <6>1. U \ {OneOf(U)} # T
              BY <2>4, <4>2
            <6> HIDE DEF g
            <6> QED
              BY <2>3, <6>1
          <5> QED
            BY <4>2, <5>1
        <4> QED
          BY <4>1, <4>2
      <3>2. g = h
        BY <3>1
      <3> QED
        BY <3>2 DEF Adds
    <2> HIDE DEF g
    <2> QED
      BY <2>5
  <1>2. SUBSET S \subseteq G
    <2> HIDE DEF G
    <2> QED
      BY <1>1, SubsetInduction
  <1> QED
    BY <1>2

(* The sum of a set is its chosen element and the sum of the others, *)
LEMMA SumStep ==
  ASSUME NEW f, NEW S, IsFiniteSet(S)
  PROVE  /\ S = {} => SumFunctionOnSet(f, S) = 0
         /\ S # {} => SumFunctionOnSet(f, S) = f[OneOf(S)] + SumFunctionOnSet(f, S \ {OneOf(S)})
  <1> DEFINE W == S \ {OneOf(S)}
  <1>1. IsFiniteSet(W) /\ W \in SUBSET S
    BY FS_Subset
  <1>2. PICK h : Adds(h, f, S) /\ SumFunctionOnSet(f, S) = h[S]
    BY AddsExists, SumIsChosen
  <1>3. PICK k : Adds(k, f, W) /\ SumFunctionOnSet(f, W) = k[W]
    BY <1>1, AddsExists, SumIsChosen
  <1>4. h[W] = k[W]
    BY <1>1, <1>2, <1>3, AddsOnce
  <1> HIDE DEF W
  <1>5. (S = {} => h[S] = 0) /\ (S # {} => h[S] = f[OneOf(S)] + h[W])
    <2>1. S \in SUBSET S
      OBVIOUS
    <2> QED
      BY <1>2, <2>1, AddsIs DEF W
  <1> QED
    BY <1>2, <1>3, <1>4, <1>5 DEF W

(* and any other element could have been the chosen one. *)
LEMMA SumWithout ==
  ASSUME NEW f, NEW S, IsFiniteSet(S), \A x \in S : f[x] \in Nat, NEW T \in SUBSET S
  PROVE  /\ SumFunctionOnSet(f, T) \in Nat
         /\ \A x \in T : SumFunctionOnSet(f, T) = f[x] + SumFunctionOnSet(f, T \ {x})
  <1> DEFINE G == {U \in SUBSET S : /\ SumFunctionOnSet(f, U) \in Nat
                                   /\ \A x \in U : SumFunctionOnSet(f, U) = f[x] + SumFunctionOnSet(f, U \ {x})}
  <1>1. ASSUME NEW U \in SUBSET S, \A V \in SUBSET U : V # U => V \in G
        PROVE  U \in G
    <2>1. IsFiniteSet(U) /\ \A V \in SUBSET U : IsFiniteSet(V)
      BY FS_Subset
    <2>2. CASE U = {}
      <3>1. SumFunctionOnSet(f, U) = 0
        BY <2>1, <2>2, SumStep
      <3> QED
        BY <2>2, <3>1
    <2>3. CASE U # {}
      <3> DEFINE c == OneOf(U)
      <3>1. c \in U
        BY <2>3 DEF OneOf
      <3> HIDE DEF c
      <3>2. SumFunctionOnSet(f, U) = f[c] + SumFunctionOnSet(f, U \ {c})
        BY <2>1, <2>3, SumStep DEF c
      <3>3. U \ {c} \in G
        BY <1>1, <3>1
      <3>4. SumFunctionOnSet(f, U) \in Nat
        BY <3>1, <3>2, <3>3
      <3>5. ASSUME NEW x \in U, x # c
            PROVE  SumFunctionOnSet(f, U) = f[x] + SumFunctionOnSet(f, U \ {x})
        <4>1. SumFunctionOnSet(f, U \ {c}) = f[x] + SumFunctionOnSet(f, (U \ {c}) \ {x})
          BY <3>3, <3>5
        <4>2. U \ {x} \in G
          BY <1>1, <3>5
        <4>3. SumFunctionOnSet(f, U \ {x}) = f[c] + SumFunctionOnSet(f, (U \ {x}) \ {c})
          BY <3>1, <3>5, <4>2
        <4>4. (U \ {c}) \ {x} = (U \ {x}) \ {c} /\ (U \ {c}) \ {x} \in G
          <5>1. (U \ {c}) \ {x} = (U \ {x}) \ {c}
            OBVIOUS
          <5>2. (U \ {c}) \ {x} \in SUBSET U /\ (U \ {c}) \ {x} # U
            BY <3>1
          <5> HIDE DEF G
          <5> QED
            BY <1>1, <5>1, <5>2
        <4> DEFINE rest == SumFunctionOnSet(f, (U \ {c}) \ {x})
        <4>5. f[x] \in Nat /\ f[c] \in Nat /\ rest \in Nat
          BY <3>1, <4>4
        <4>6. SumFunctionOnSet(f, U \ {x}) = f[c] + rest /\ SumFunctionOnSet(f, U \ {c}) = f[x] + rest
          BY <4>1, <4>3, <4>4
        <4> HIDE DEF rest
        <4> QED
          BY <3>2, <4>5, <4>6
      <3> QED
        BY <3>2, <3>4, <3>5
    <2> QED
      BY <2>2, <2>3
  <1>2. SUBSET S \subseteq G
    <2> HIDE DEF G
    <2> QED
      BY <1>1, SubsetInduction
  <1> QED
    BY <1>2

(* Nothing adds up to nothing. *)
LEMMA SumOfNone == ASSUME NEW f PROVE SumFunctionOnSet(f, {}) = 0
  BY SumStep, FS_EmptySet

(* Two sets without a common element add up together. *)
LEMMA SumOfTwo ==
  ASSUME NEW f, NEW S, IsFiniteSet(S), \A x \in S : f[x] \in Nat,
         NEW A \in SUBSET S, NEW B \in SUBSET S, A \cap B = {}
  PROVE  SumFunctionOnSet(f, A \cup B) = SumFunctionOnSet(f, A) + SumFunctionOnSet(f, B)
  <1> DEFINE G == {U \in SUBSET B : SumFunctionOnSet(f, A \cup U) = SumFunctionOnSet(f, A) + SumFunctionOnSet(f, U)}
  <1>1. ASSUME NEW U \in SUBSET B, \A V \in SUBSET U : V # U => V \in G
        PROVE  U \in G
    <2>1. CASE U = {}
      <3>1. SumFunctionOnSet(f, A) \in Nat /\ A \cup U = A
        BY <2>1, SumWithout
      <3> QED
        BY <2>1, <3>1, SumOfNone
    <2>2. CASE U # {}
      <3>1. PICK x \in U : TRUE
        BY <2>2
      <3>2. SumFunctionOnSet(f, A \cup (U \ {x})) = SumFunctionOnSet(f, A) + SumFunctionOnSet(f, U \ {x})
        BY <1>1, <3>1
      <3>3. SumFunctionOnSet(f, A \cup U) = f[x] + SumFunctionOnSet(f, (A \cup U) \ {x})
        <4>1. A \cup U \in SUBSET S /\ x \in A \cup U
          BY <3>1
        <4> QED
          BY <4>1, SumWithout
      <3>4. (A \cup U) \ {x} = A \cup (U \ {x})
        BY <3>1
      <3>5. SumFunctionOnSet(f, U) = f[x] + SumFunctionOnSet(f, U \ {x})
        <4>1. U \in SUBSET S
          OBVIOUS
        <4> QED
          BY <3>1, <4>1, SumWithout
      <3>6. f[x] \in Nat /\ SumFunctionOnSet(f, A) \in Nat /\ SumFunctionOnSet(f, U \ {x}) \in Nat
        <4>1. U \ {x} \in SUBSET S /\ x \in S
          BY <3>1
        <4> QED
          BY <4>1, SumWithout
      <3> QED
        BY <3>2, <3>3, <3>4, <3>5, <3>6
    <2> QED
      BY <2>1, <2>2
  <1>2. SUBSET B \subseteq G
    <2>1. IsFiniteSet(B)
      BY FS_Subset
    <2> HIDE DEF G
    <2> QED
      BY <1>1, <2>1, SubsetInduction
  <1> QED
    BY <1>2

(* Leaving out an element that counts makes the sum smaller. *)
LEMMA SumOfFewer ==
  ASSUME NEW f, NEW S, IsFiniteSet(S), \A x \in S : f[x] \in Nat \ {0},
         NEW B \in SUBSET S, NEW A \in SUBSET B
  PROVE  SumFunctionOnSet(f, A) = SumFunctionOnSet(f, B) <=> A = B
  <1> SUFFICES ASSUME A # B PROVE SumFunctionOnSet(f, A) # SumFunctionOnSet(f, B)
    OBVIOUS
  <1>1. PICK x \in B : x \notin A
    OBVIOUS
  <1>2. A \in SUBSET S /\ B \ A \in SUBSET S /\ x \in B \ A /\ (B \ A) \ {x} \in SUBSET S
    BY <1>1
  <1>3. SumFunctionOnSet(f, B) = SumFunctionOnSet(f, A) + SumFunctionOnSet(f, B \ A)
    <2>1. A \cup (B \ A) = B /\ A \cap (B \ A) = {}
      OBVIOUS
    <2> QED
      BY <1>2, <2>1, SumOfTwo
  <1>4. SumFunctionOnSet(f, B \ A) = f[x] + SumFunctionOnSet(f, (B \ A) \ {x})
    BY <1>2, SumWithout
  <1>5. f[x] \in Nat \ {0} /\ SumFunctionOnSet(f, A) \in Nat /\ SumFunctionOnSet(f, (B \ A) \ {x}) \in Nat
    BY <1>2, SumWithout
  <1> QED
    BY <1>3, <1>4, <1>5

(* Two weightings that agree on a set give it one sum. *)
LEMMA SumOfSame ==
  ASSUME NEW S, IsFiniteSet(S), NEW f, NEW g,
         \A x \in S : f[x] \in Nat /\ f[x] = g[x], NEW A \in SUBSET S
  PROVE  SumFunctionOnSet(f, A) = SumFunctionOnSet(g, A)
  <1> DEFINE G == {U \in SUBSET S : SumFunctionOnSet(f, U) = SumFunctionOnSet(g, U)}
  <1>1. ASSUME NEW U \in SUBSET S, \A V \in SUBSET U : V # U => V \in G
        PROVE  U \in G
    <2>1. CASE U = {}
      BY <2>1, SumOfNone
    <2>2. CASE U # {}
      <3>1. PICK x \in U : TRUE
        BY <2>2
      <3>2. U \ {x} \in G
        BY <1>1, <3>1
      <3>3. SumFunctionOnSet(f, U) = f[x] + SumFunctionOnSet(f, U \ {x})
        BY <3>1, SumWithout
      <3>4. SumFunctionOnSet(g, U) = g[x] + SumFunctionOnSet(g, U \ {x})
        BY <3>1, SumWithout
      <3> QED
        BY <3>1, <3>2, <3>3, <3>4
    <2> QED
      BY <2>1, <2>2
  <1>2. SUBSET S \subseteq G
    <2> HIDE DEF G
    <2> QED
      BY <1>1, SubsetInduction
  <1> QED
    BY <1>2

(* Summing over what the elements are called. *)
LEMMA SumRenamed ==
  ASSUME NEW S, IsFiniteSet(S), NEW f, NEW g, NEW h,
         \A x \in S : f[x] \in Nat /\ g[h[x]] = f[x],
         \A x, y \in S : h[x] = h[y] => x = y
  PROVE  SumFunctionOnSet(g, {h[x] : x \in S}) = SumFunctionOnSet(f, S)
  <1> DEFINE H(U) == {h[x] : x \in U}
             G == {U \in SUBSET S : SumFunctionOnSet(g, H(U)) = SumFunctionOnSet(f, U)}
  <1>0. IsFiniteSet(H(S))
    <2> DEFINE k == [x \in S |-> h[x]]
    <2>1. k \in Surjection(S, H(S))
      BY DEF Surjection
    <2> HIDE DEF H
    <2> QED
      BY <2>1, FS_Surjection
  <1>1. ASSUME NEW U \in SUBSET S, \A V \in SUBSET U : V # U => V \in G
        PROVE  U \in G
    <2>1. CASE U = {}
      BY <2>1, SumOfNone
    <2>2. CASE U # {}
      <3>1. PICK x \in U : TRUE
        BY <2>2
      <3>2. SumFunctionOnSet(g, H(U \ {x})) = SumFunctionOnSet(f, U \ {x})
        BY <1>1, <3>1
      <3>3. SumFunctionOnSet(f, U) = f[x] + SumFunctionOnSet(f, U \ {x})
        BY <3>1, SumWithout
      <3>4. H(U \ {x}) = H(U) \ {h[x]} /\ h[x] \in H(U) /\ H(U) \in SUBSET H(S)
        BY <3>1
      <3>5. \A y \in H(S) : g[y] \in Nat
        OBVIOUS
      <3> HIDE DEF H
      <3>6. SumFunctionOnSet(g, H(U)) = g[h[x]] + SumFunctionOnSet(g, H(U) \ {h[x]})
        BY <1>0, <3>4, <3>5, SumWithout
      <3> QED
        BY <3>1, <3>2, <3>3, <3>4, <3>6
    <2> QED
      BY <2>1, <2>2
  <1>2. SUBSET S \subseteq G
    <2> HIDE DEF G
    <2> QED
      BY <1>1, SubsetInduction
  <1> QED
    BY <1>2

(* Summing class by class, C[k] being the class k of those in K.           *)
LEMMA SumByClass ==
  ASSUME NEW S, IsFiniteSet(S), NEW f, \A x \in S : f[x] \in Nat,
         NEW K, IsFiniteSet(K), NEW C, NEW F,
         \A k \in K : C[k] \in SUBSET S /\ F[k] = SumFunctionOnSet(f, C[k]),
         \A x \in S : \E k \in K : x \in C[k],
         \A k, j \in K : k # j => C[k] \cap C[j] = {}
  PROVE  SumFunctionOnSet(F, K) = SumFunctionOnSet(f, S)
  <1> DEFINE In(U) == {x \in S : \E k \in U : x \in C[k]}
             G == {U \in SUBSET K : SumFunctionOnSet(F, U) = SumFunctionOnSet(f, In(U))}
  <1>1. \A k \in K : F[k] \in Nat
    BY SumWithout
  <1>2. ASSUME NEW U \in SUBSET K, \A V \in SUBSET U : V # U => V \in G
        PROVE  U \in G
    <2>1. CASE U = {}
      <3>1. In(U) = {}
        BY <2>1
      <3> QED
        BY <2>1, <3>1, SumOfNone
    <2>2. CASE U # {}
      <3>1. PICK k \in U : TRUE
        BY <2>2
      <3>2. SumFunctionOnSet(F, U \ {k}) = SumFunctionOnSet(f, In(U \ {k}))
        BY <1>2, <3>1
      <3>3. SumFunctionOnSet(F, U) = F[k] + SumFunctionOnSet(F, U \ {k})
        BY <1>1, <3>1, SumWithout
      <3> DEFINE A == C[k]
                 B == In(U \ {k})
      <3>4. /\ In(U) = A \cup B /\ A \cap B = {} /\ F[k] = SumFunctionOnSet(f, A)
            /\ A \in SUBSET S /\ B \in SUBSET S
        BY <3>1
      <3> HIDE DEF In, A, B
      <3>5. SumFunctionOnSet(f, A \cup B) = SumFunctionOnSet(f, A) + SumFunctionOnSet(f, B)
        BY <3>4, SumOfTwo
      <3> QED
        BY <3>2, <3>3, <3>4, <3>5 DEF B
    <2> QED
      BY <2>1, <2>2
  <1>3. SUBSET K \subseteq G
    <2> HIDE DEF G
    <2> QED
      BY <1>2, SubsetInduction
  <1>4. In(K) = S
    OBVIOUS
  <1> QED
    BY <1>3, <1>4

(* One more term: between the two bounds of a sum of squares.              *)
LEMMA OneMoreSquare ==
  ASSUME NEW n \in Nat, NEW s \in Nat, NEW q \in Nat, NEW x \in Nat,
         q <= s * s, s * s <= n * q
  PROVE  /\ x * x + q <= (x + s) * (x + s)
         /\ (x + s) * (x + s) <= (n + 1) * (x * x + q)
  <1>1. (x + s) * (x + s) = x * x + 2 * (x * s) + s * s /\ x * s >= 0
    OBVIOUS
  <1>2. 2 * (x * s) <= q + n * (x * x)
    <2>1. CASE n = 0
      <3>1. s * s = 0
        BY <2>1
      <3>2. s = 0
        BY <3>1
      <3> QED
        BY <2>1, <3>2
    <2>2. CASE n > 0
      <3> DEFINE d == s - n * x
      <3>1. d * d >= 0 /\ d * d = s * s - 2 * (n * (x * s)) + n * (n * (x * x))
        OBVIOUS
      <3>2. n * q - 2 * (n * (x * s)) + n * (n * (x * x)) >= 0
        BY <3>1
      <3>3. n * (q - 2 * (x * s) + n * (x * x)) = n * q - 2 * (n * (x * s)) + n * (n * (x * x))
        OBVIOUS
      <3> DEFINE e == q - 2 * (x * s) + n * (x * x)
      <3>4. n * e >= 0 /\ e \in Int
        BY <3>2, <3>3
      <3> HIDE DEF e
      <3>5. e >= 0
        BY <2>2, <3>4
      <3> QED
        BY <3>5 DEF e
    <2> QED
      BY <2>1, <2>2
  <1>3. (n + 1) * (x * x + q) = n * (x * x) + n * q + x * x + q
    OBVIOUS
  <1> QED
    BY <1>1, <1>2, <1>3

(* Squaring a sum gives no less than the sum of the squares, and no more   *)
(* than that many times over.                                              *)
LEMMA SquaresBounded ==
  ASSUME NEW S, IsFiniteSet(S), NEW w, NEW v, \A x \in S : w[x] \in Nat /\ v[x] = w[x] * w[x]
  PROVE  /\ SumFunctionOnSet(v, S) <= SumFunctionOnSet(w, S) * SumFunctionOnSet(w, S)
         /\ SumFunctionOnSet(w, S) * SumFunctionOnSet(w, S) <= Cardinality(S) * SumFunctionOnSet(v, S)
  <1> DEFINE W(U) == SumFunctionOnSet(w, U)
             V(U) == SumFunctionOnSet(v, U)
             G == {U \in SUBSET S : V(U) <= W(U) * W(U) /\ W(U) * W(U) <= Cardinality(U) * V(U)}
  <1>1. \A x \in S : w[x] \in Nat /\ v[x] \in Nat
    OBVIOUS
  <1>2. ASSUME NEW U \in SUBSET S, \A T \in SUBSET U : T # U => T \in G
        PROVE  U \in G
    <2>1. CASE U = {}
      <3>1. W(U) = 0 /\ V(U) = 0 /\ Cardinality(U) = 0
        BY <2>1, SumOfNone, FS_EmptySet
      <3> HIDE DEF W, V
      <3> QED
        BY <3>1
    <2>2. CASE U # {}
      <3>1. PICK x \in U : TRUE
        BY <2>2
      <3>2. W(U) = w[x] + W(U \ {x}) /\ W(U \ {x}) \in Nat
        BY <1>1, <3>1, SumWithout
      <3>3. V(U) = v[x] + V(U \ {x}) /\ V(U \ {x}) \in Nat
        BY <1>1, <3>1, SumWithout
      <3>4. Cardinality(U \ {x}) \in Nat /\ Cardinality(U) = Cardinality(U \ {x}) + 1
        <4>1. IsFiniteSet(U)
          BY FS_Subset
        <4>2. IsFiniteSet(U \ {x}) /\ Cardinality(U \ {x}) = Cardinality(U) - 1 /\ Cardinality(U) \in Nat
          BY <3>1, <4>1, FS_RemoveElement, FS_CardinalityType
        <4>3. Cardinality(U \ {x}) \in Nat
          BY <4>2, FS_CardinalityType
        <4> QED
          BY <4>2, <4>3
      <3>5. /\ V(U \ {x}) <= W(U \ {x}) * W(U \ {x})
            /\ W(U \ {x}) * W(U \ {x}) <= Cardinality(U \ {x}) * V(U \ {x})
        BY <1>2, <3>1
      <3> DEFINE n == Cardinality(U \ {x})
                 s == W(U \ {x})
                 q == V(U \ {x})
      <3>6. n \in Nat /\ s \in Nat /\ q \in Nat /\ w[x] \in Nat /\ q <= s * s /\ s * s <= n * q
        BY <1>1, <3>1, <3>2, <3>3, <3>4, <3>5
      <3>7. W(U) = w[x] + s /\ V(U) = w[x] * w[x] + q /\ Cardinality(U) = n + 1
        BY <3>1, <3>2, <3>3, <3>4
      <3> HIDE DEF W, V, n, s, q
      <3>8. /\ w[x] * w[x] + q <= (w[x] + s) * (w[x] + s)
            /\ (w[x] + s) * (w[x] + s) <= (n + 1) * (w[x] * w[x] + q)
        BY <3>6, OneMoreSquare
      <3> QED
        BY <3>7, <3>8
    <2> QED
      BY <2>1, <2>2
  <1>3. SUBSET S \subseteq G
    <2> HIDE DEF G
    <2> QED
      BY <1>2, SubsetInduction
  <1> QED
    BY <1>3

(* Some numbers have a least. *)
LEMMA LeastOfSome ==
  ASSUME NEW S \in SUBSET Nat, S # {}
  PROVE  \E i \in S : \A j \in S : i <= j
  <1> DEFINE R == OpToRel(<, Nat)
  <1> HIDE DEF R
  <1>1. PICK x \in S : \A y \in S : ~ (<<y, x>> \in R)
    <2>1. IsWellFoundedOn(R, Nat)
      BY NatLessThanWellFounded DEF R
    <2> QED
      BY <2>1, WFMin
  <1>2. ASSUME NEW j \in S PROVE x <= j
    <2>1. ~ (j < x) /\ j \in Nat /\ x \in Nat
      BY <1>1 DEF R, OpToRel
    <2> QED
      BY <2>1
  <1> QED
    BY <1>2

(* Counting up to n: what holds of 0 and is handed on holds of all.        *)
LEMMA CountingUp ==
  ASSUME NEW n \in Nat, NEW G, 0 \in G, \A k \in 1..n : k - 1 \in G => k \in G
  PROVE  \A k \in 0..n : k \in G
  <1> DEFINE Bad == {k \in 0..n : k \notin G}
  <1> SUFFICES ASSUME Bad # {} PROVE FALSE
    OBVIOUS
  <1>1. PICK k \in Bad : \A j \in Bad : k <= j
    <2>1. Bad \in SUBSET Nat
      OBVIOUS
    <2> HIDE DEF Bad
    <2> QED
      BY <2>1, LeastOfSome
  <1>2. k \in 1..n /\ k - 1 \in 0..n
    OBVIOUS
  <1>3. k - 1 \in G
    BY <1>1, <1>2
  <1> QED
    BY <1>2, <1>3

(* What a loop has after each of its n passes, of which the k-th turns v   *)
(* into F[k][v].                                                           *)
Passes(g, n, R, b, F) ==
    g \in [0..n -> R] /\ g[0] = b /\ \A k \in 1..n : g[k] = F[k][g[k - 1]]

(* A loop of n passes, each of which turns one value into another, has a   *)
(* value after each pass.                                                  *)
LEMMA PassesExist ==
  ASSUME NEW n \in Nat, NEW R, NEW b \in R, NEW F \in [1..n -> [R -> R]]
  PROVE  \E g : Passes(g, n, R, b, F)
  <1> DEFINE G == {m \in 0..n : \E g : Passes(g, m, R, b, F)}
  <1>1. 0 \in G
    <2> DEFINE g == [k \in 0..0 |-> b]
    <2>1. Passes(g, 0, R, b, F)
      BY DEF Passes
    <2>2. 0 \in 0..n
      OBVIOUS
    <2> HIDE DEF g
    <2> QED
      BY <2>1, <2>2
  <1>2. ASSUME NEW m \in 1..n, m - 1 \in G PROVE m \in G
    <2>1. PICK g : Passes(g, m - 1, R, b, F)
      BY <1>2
    <2> DEFINE v == F[m][g[m - 1]]
               h == [k \in 0..m |-> IF k = m THEN v ELSE g[k]]
    <2>2. m - 1 \in 0..(m - 1) /\ 0..m = 0..(m - 1) \cup {m} /\ m \notin 0..(m - 1)
      OBVIOUS
    <2>3. v \in R
      BY <2>1, <2>2 DEF Passes
    <2>4. h \in [0..m -> R] /\ h[0] = b
      BY <2>1, <2>2, <2>3 DEF Passes
    <2>5. ASSUME NEW k \in 1..m PROVE h[k] = F[k][h[k - 1]]
      <3>1. k - 1 \in 0..(m - 1) /\ k \in 0..m /\ k - 1 # m
        OBVIOUS
      <3>2. h[k - 1] = g[k - 1]
        BY <3>1
      <3>3. CASE k = m
        <4>1. h[m] = v
          OBVIOUS
        <4> QED
          BY <3>2, <3>3, <4>1
      <3>4. CASE k # m
        <4>1. k \in 1..(m - 1)
          BY <3>4
        <4>2. h[k] = g[k]
          BY <3>1, <3>4
        <4> QED
          BY <2>1, <3>2, <4>1, <4>2 DEF Passes
      <3> QED
        BY <3>3, <3>4
    <2> HIDE DEF h
    <2>6. Passes(h, m, R, b, F)
      BY <2>4, <2>5 DEF Passes
    <2> QED
      BY <2>6
  <1> HIDE DEF G
  <1>3. \A k \in 0..n : k \in G
    BY <1>1, <1>2, CountingUp
  <1>4. n \in G
    BY <1>3
  <1> QED
    BY <1>4 DEF G

(* A finite set with a strict order in which any two are comparable can be *)
(* listed in that order: each goes to the place that leaves room for what  *)
(* is before it.                                                           *)
LEMMA ListedInOrder ==
  ASSUME NEW S, IsFiniteSet(S), NEW R,
         \A x \in S : ~ (<<x, x>> \in R),
         \A x, y \in S : x # y => <<x, y>> \in R \/ <<y, x>> \in R,
         \A x, y, z \in S : <<x, y>> \in R /\ <<y, z>> \in R => <<x, z>> \in R
  PROVE  \E s \in [1..Cardinality(S) -> S] :
            \A i, j \in DOMAIN s : i < j => <<s[i], s[j]>> \in R
  <1> DEFINE n == Cardinality(S)
             Before(x) == {y \in S : <<y, x>> \in R}
             place == [x \in S |-> Cardinality(Before(x)) + 1]
  <1>1. n \in Nat /\ IsFiniteSet(1..n) /\ Cardinality(1..n) = n
    <2>1. n \in Nat
      BY FS_CardinalityType
    <2> QED
      BY <2>1, FS_Interval
  <1>2. ASSUME NEW x \in S
        PROVE  IsFiniteSet(Before(x)) /\ Cardinality(Before(x)) \in Nat /\ Cardinality(Before(x)) < n
    <2>1. Before(x) \in SUBSET S /\ Before(x) # S
      OBVIOUS
    <2> HIDE DEF Before
    <2>2. IsFiniteSet(Before(x)) /\ Cardinality(Before(x)) <= n /\ Cardinality(Before(x)) # n
      BY <2>1, FS_Subset
    <2>3. Cardinality(Before(x)) \in Nat
      BY <2>2, FS_CardinalityType
    <2> QED
      BY <1>1, <2>2, <2>3
  <1>3. ASSUME NEW x \in S, NEW y \in S, <<x, y>> \in R
        PROVE  place[x] < place[y]
    <2>1. Before(x) \in SUBSET Before(y) /\ x \in Before(y) /\ x \notin Before(x)
      BY <1>3
    <2> HIDE DEF Before
    <2>2. /\ Cardinality(Before(x)) <= Cardinality(Before(y))
          /\ Cardinality(Before(x)) # Cardinality(Before(y))
      BY <1>2, <2>1, FS_Subset
    <2> QED
      BY <1>2, <2>2
  <1>4. place \in [S -> 1..n]
    <2> HIDE DEF Before
    <2> QED
      BY <1>1, <1>2
  <1> HIDE DEF place
  <1>5. \A x, y \in S : place[x] = place[y] => x = y
    <2> SUFFICES ASSUME NEW x \in S, NEW y \in S, place[x] = place[y], x # y PROVE FALSE
      OBVIOUS
    <2>1. place[x] \in Nat /\ place[y] \in Nat
      BY <1>1, <1>4
    <2>2. place[x] < place[y] \/ place[y] < place[x]
      BY <1>3
    <2> QED
      BY <2>1, <2>2
  <1>6. \A i \in 1..n : \E x \in S : place[x] = i
    <2>1. place \in Injection(S, 1..n)
      BY <1>4, <1>5 DEF Injection, IsInjective
    <2>2. place \in Surjection(S, 1..n)
      BY <1>1, <2>1, FS_Injection
    <2> QED
      BY <2>2 DEF Surjection
  <1> DEFINE s == [i \in 1..n |-> CHOOSE x \in S : place[x] = i]
  <1>7. \A i \in 1..n : s[i] \in S /\ place[s[i]] = i
    BY <1>6
  <1>8. s \in [1..n -> S]
    BY <1>7
  <1> HIDE DEF s
  <1>9. ASSUME NEW i \in 1..n, NEW j \in 1..n, i < j PROVE <<s[i], s[j]>> \in R
    <2>1. s[i] # s[j]
      BY <1>7, <1>9
    <2>2. ~ (<<s[j], s[i]>> \in R)
      <3> SUFFICES ASSUME <<s[j], s[i]>> \in R PROVE FALSE
        OBVIOUS
      <3>1. j < i
        BY <1>3, <1>7
      <3> QED
        BY <1>9, <3>1
    <2> QED
      BY <1>7, <2>1, <2>2
  <1> QED
    BY <1>8, <1>9

-----------------------------------------------------------------------------
(* MarketScan: sessions and their number *)

LEMMA DayOfMinute ==
  ASSUME NEW n \in Nat \ {0}, NEW a \in Nat, NEW b \in Nat, a <= b
  PROVE  a \div n \in Nat /\ b \div n \in Nat /\ a \div n <= b \div n
  <1> DEFINE q == a \div n  p == b \div n
  <1>1. q \in Int /\ p \in Int /\ n * q <= a /\ a < n * q + n /\ n * p <= b /\ b < n * p + n
    OBVIOUS
  <1> HIDE DEF q, p
  <1>2. q >= 0 /\ p >= 0
    <2>1. SUFFICES ASSUME NEW z \in Int, NEW m \in Nat, z < 0, m < n * z + n PROVE FALSE
      BY <1>1
    <2>2. z + 1 <= 0
      BY <2>1
    <2>3. n * (z + 1) <= 0
      BY <2>1, <2>2
    <2> QED
      BY <2>1, <2>3
  <1>3. q <= p
    <2>1. SUFFICES ASSUME p + 1 <= q PROVE FALSE
      BY <1>1
    <2>2. n * (p + 1) <= n * q
      BY <1>1, <2>1
    <2> QED
      BY <1>1, <2>2
  <1> QED
    BY <1>1, <1>2, <1>3 DEF q, p

(* Days are finitely many, so what they are counted by are numbers.        *)
LEMMA DaysCount ==
  ASSUME NEW A \in SUBSET Days, NEW B \in SUBSET Days, A \subseteq B
  PROVE  Cardinality(A) \in Nat /\ Cardinality(B) \in Nat /\ Cardinality(A) <= Cardinality(B)
  <1>1. IsFiniteSet(Days)
    <2>1. LastMinute \div Minutes \in Int
      BY ScanAssumption
    <2> QED
      BY <2>1, FS_Interval DEF Days
  <1>2. IsFiniteSet(B)
    BY <1>1, FS_Subset
  <1>3. A \in SUBSET B
    OBVIOUS
  <1>4. IsFiniteSet(A) /\ Cardinality(A) <= Cardinality(B)
    BY <1>2, <1>3, FS_Subset
  <1> QED
    BY <1>2, <1>4, FS_CardinalityType

Plans == [stamp : Nat, wanted : SUBSET Tickers, whole : BOOLEAN, revised : SUBSET Tickers]

RecordsTyped == summaries \in [Tickers -> [Days -> RecordKinds \cup {"none"}]]

(* A plan is of the past, and whom it wanted had the history, and has it   *)
(* unless that was revised.                                                *)
PlansSound ==
    /\ plans \subseteq Plans
    /\ \A p \in plans :
        /\ p.stamp <= minute
        /\ \A t \in p.wanted \ p.revised :
              Cardinality(TradedOn(t, SessionsOf(t))) >= MinSessions

(* Whom a plan of today wanted is in a chunk that is queued, or has a row. *)
PlansCovered ==
    \A p \in plans :
        p.whole /\ p.stamp \notin buried /\ p.stamp \div Minutes = Today =>
            \A t \in p.wanted \ p.revised :
                \/ \E c \in queued : c.stamp = p.stamp /\ t \in c.batch
                \/ Covered(t) \/ Dormant(t)

ScanInv == minute \in Nat /\ RecordsTyped /\ PlansSound /\ PlansCovered

LEMMA ScanInitially == ScanInit => ScanInv
  BY DEF ScanInit, ScanInv, RecordsTyped, PlansSound, PlansCovered

(* An issuer none of whose records is revised keeps its sessions, and what *)
(* a scan could not read of them.                                          *)
LEMMA HistoryStays ==
  ASSUME NEW t, \A d \in Days : summaries[t][d] # "none" => summaries'[t][d] = summaries[t][d]
  PROVE  /\ Cardinality(TradedOn(t, SessionsOf(t))) \in Nat
         /\ Cardinality(TradedOn(t, SessionsOf(t)))' \in Nat
         /\ Cardinality(TradedOn(t, SessionsOf(t))) <= Cardinality(TradedOn(t, SessionsOf(t)))'
         /\ Dormant(t) => Dormant(t)'
  <1>1. SessionsOf(t) \subseteq SessionsOf(t)' /\ SessionsOf(t)' \subseteq Days
    BY DEF SessionsOf
  <1>2. \A A \in SUBSET SessionsOf(t) :
          /\ TradedOn(t, A)' = TradedOn(t, A) /\ BarsOn(t, A)' = BarsOn(t, A)
          /\ NewestOf(A)' = NewestOf(A) /\ NewestOf(A) \in SUBSET SessionsOf(t)
    BY DEF TradedOn, BarsOn, NewestOf, SessionsOf
  <1>3. /\ TradedOn(t, SessionsOf(t)) \subseteq TradedOn(t, SessionsOf(t))'
        /\ TradedOn(t, SessionsOf(t))' \subseteq Days
    BY <1>1 DEF TradedOn, SessionsOf
  <1>4. Dormant(t) => Dormant(t)'
    <2> SUFFICES ASSUME NEW days \in SUBSET SessionsOf(t),
                        Cardinality(TradedOn(t, days)) >= MinSessions,
                        Cardinality(BarsOn(t, NewestOf(days))) < MinSessions
                 PROVE  Dormant(t)'
      BY DEF Dormant
    <2>1. /\ TradedOn(t, days)' = TradedOn(t, days)
          /\ BarsOn(t, NewestOf(days))' = BarsOn(t, NewestOf(days))
      BY <1>2
    <2>2. days \in SUBSET SessionsOf(t)'
      BY <1>1
    <2> QED
      BY <2>1, <2>2 DEF Dormant
  <1> QED
    BY <1>3, <1>4, DaysCount

LEMMA ImportStep ==
  ASSUME ScanInv, NEW d \in Days, NEW report \in Reports[d], Import(d, report) PROVE ScanInv'
  <1> DEFINE revised == {t \in DOMAIN report : summaries[t][d] \notin {"none", report[t]}}
             Later(p) == [p EXCEPT !.revised = @ \cup (revised \cap p.wanted)]
  <1>1. /\ plans' = {Later(p) : p \in plans} /\ Today' = Today
        /\ UNCHANGED <<minute, queued, rows, buried>>
    BY DEF Import, Today
  <1>2. /\ \A t \in Tickers : \A e \in Days : summaries'[t][e] =
              IF e = d /\ t \in DOMAIN report THEN report[t] ELSE summaries[t][e]
        /\ RecordsTyped'
    <2>1. \A t \in DOMAIN report : report[t] \in RecordKinds
      BY ReportAssumption
    <2>2. summaries' = [t \in Tickers |-> [summaries[t] EXCEPT
                            ![d] = IF t \in DOMAIN report THEN report[t] ELSE @]]
      BY DEF Import
    <2> QED
      BY <2>1, <2>2 DEF ScanInv, RecordsTyped
  <1>3. ASSUME NEW p \in plans
        PROVE  /\ Later(p) \in Plans /\ Later(p).stamp = p.stamp /\ Later(p).whole = p.whole
               /\ Later(p).wanted = p.wanted
               /\ Later(p).revised = p.revised \cup (revised \cap p.wanted)
               /\ p.wanted \subseteq Tickers
    BY DEF ScanInv, PlansSound, Plans
  <1>4. ASSUME NEW t \in Tickers \ revised
        PROVE  \A e \in Days : summaries[t][e] # "none" => summaries'[t][e] = summaries[t][e]
    BY <1>2
  <1> HIDE DEF revised, Later
  <1>5. ASSUME NEW p \in plans, NEW t \in Later(p).wanted \ Later(p).revised
        PROVE  t \in p.wanted \ p.revised /\ t \in Tickers \ revised
    BY <1>3
  <1>6. PlansSound'
    <2> SUFFICES ASSUME NEW p \in plans, NEW t \in Later(p).wanted \ Later(p).revised
                 PROVE  Cardinality(TradedOn(t, SessionsOf(t)))' >= MinSessions
      BY <1>1, <1>3 DEF ScanInv, PlansSound
    <2>1. Cardinality(TradedOn(t, SessionsOf(t))) >= MinSessions
      BY <1>5 DEF ScanInv, PlansSound
    <2>2. /\ Cardinality(TradedOn(t, SessionsOf(t))) \in Nat
          /\ Cardinality(TradedOn(t, SessionsOf(t)))' \in Nat
          /\ Cardinality(TradedOn(t, SessionsOf(t))) <= Cardinality(TradedOn(t, SessionsOf(t)))'
      BY <1>4, <1>5, HistoryStays
    <2> QED
      BY <2>1, <2>2, ScanAssumption
  <1>7. PlansCovered'
    <2> SUFFICES ASSUME NEW p \in plans, NEW t \in Later(p).wanted \ Later(p).revised,
                        p.whole, p.stamp \notin buried, p.stamp \div Minutes = Today
                 PROVE  \/ \E c \in queued : c.stamp = p.stamp /\ t \in c.batch
                        \/ Covered(t) \/ Dormant(t)'
      BY <1>1, <1>3 DEF PlansCovered, Covered
    <2> QED
      BY <1>4, <1>5, HistoryStays DEF ScanInv, PlansCovered
  <1> QED
    BY <1>1, <1>2, <1>6, <1>7 DEF ScanInv

(* Every planned issuer is in one of the plan's chunks.                    *)
LEMMA BatchesCover ==
  ASSUME NEW S, NEW t \in S PROVE \E b \in Batches(S) : t \in b
  <1> DEFINE Same(v) == {u \in S : ChunkOf(S, u) = ChunkOf(S, v)}
  <1>1. Same(t) \in Batches(S)
    BY DEF Batches
  <1> QED
    BY <1>1

LEMMA PlanStep == ASSUME ScanInv, PlanScan PROVE ScanInv'
  <1>1. PICK new \in SUBSET Batches(Scannable) :
          /\ queued' = queued \cup {[stamp |-> minute, batch |-> b] : b \in new}
          /\ plans' = plans \cup {[stamp |-> minute, wanted |-> Scannable,
                                  whole |-> new = Batches(Scannable), revised |-> {}]}
    BY DEF PlanScan
  <1>2. UNCHANGED <<minute, summaries, rows, buried>>
    BY DEF PlanScan
  <1>3. Today' = Today /\ \A t : SessionsOf(t)' = SessionsOf(t) /\ Dormant(t)' = Dormant(t)
    BY <1>2 DEF Today, SessionsOf, Dormant, TradedOn, BarsOn, NewestOf
  <1>4. PlansSound'
    <2> DEFINE made == [stamp |-> minute, wanted |-> Scannable,
                        whole |-> new = Batches(Scannable), revised |-> {}]
    <2>1. \A t \in Scannable : Cardinality(TradedOn(t, SessionsOf(t))) >= MinSessions
      BY DEF Scannable
    <2>2. made \in Plans /\ made.stamp = minute /\ made.wanted = Scannable
      BY DEF ScanInv, Plans, Scannable
    <2>3. plans' = plans \cup {made}
      BY <1>1
    <2>4. minute \in Nat /\ minute' = minute
      BY <1>2 DEF ScanInv
    <2> HIDE DEF made
    <2> QED
      BY <1>2, <1>3, <2>1, <2>2, <2>3, <2>4 DEF ScanInv, PlansSound, TradedOn
  <1>5. PlansCovered'
    <2> SUFFICES ASSUME NEW p \in plans', p.whole, p.stamp \notin buried,
                        p.stamp \div Minutes = Today, NEW t \in p.wanted \ p.revised
                 PROVE  \/ \E c \in queued' : c.stamp = p.stamp /\ t \in c.batch
                        \/ Covered(t) \/ Dormant(t)
      BY <1>2, <1>3 DEF PlansCovered, Covered
    <2>1. CASE p \in plans
      BY <1>1, <2>1 DEF ScanInv, PlansCovered
    <2>2. CASE p \notin plans
      <3>1. p.stamp = minute /\ t \in Scannable /\ new = Batches(Scannable)
        <4>1. p = [stamp |-> minute, wanted |-> Scannable,
                   whole |-> new = Batches(Scannable), revised |-> {}]
          BY <1>1, <2>2
        <4>2. p.whole = (new = Batches(Scannable))
          BY <4>1, Zenon
        <4> QED
          BY <4>1, <4>2
      <3>2. PICK b \in new : t \in b
        BY <3>1, BatchesCover
      <3>3. [stamp |-> minute, batch |-> b] \in queued'
        BY <1>1
      <3> QED
        BY <3>1, <3>2, <3>3
    <2> QED
      BY <2>1, <2>2
  <1> QED
    BY <1>2, <1>4, <1>5 DEF ScanInv, RecordsTyped

LEMMA ChunkStep ==
  ASSUME ScanInv, NEW chunk \in queued, ScanChunk(chunk) PROVE ScanInv'
  <1>1. PICK read : /\ read = {t \in chunk.batch : Cardinality(Bars(t)) >= MinSessions}
                    /\ rows' = {r \in rows : ~(r.ticker \in read /\ r.date = Today)}
                                 \cup {RowOf(t) : t \in read}
    BY DEF ScanChunk
  <1>2. queued' = queued \ {chunk} /\ UNCHANGED <<minute, summaries, plans, buried>>
    BY DEF ScanChunk
  <1>3. Today' = Today /\ \A t : SessionsOf(t)' = SessionsOf(t) /\ Dormant(t)' = Dormant(t)
    BY <1>2 DEF Today, SessionsOf, Dormant, TradedOn, BarsOn, NewestOf
  <1>4. PlansSound'
    BY <1>2, <1>3 DEF ScanInv, PlansSound, TradedOn
  <1>5. PlansCovered'
    <2> SUFFICES ASSUME NEW p \in plans, p.whole, p.stamp \notin buried,
                        p.stamp \div Minutes = Today, NEW t \in p.wanted \ p.revised,
                        ~Dormant(t)
                 PROVE  \/ \E c \in queued' : c.stamp = p.stamp /\ t \in c.batch
                        \/ \E r \in rows' : r.ticker = t /\ r.date = Today
      BY <1>2, <1>3 DEF PlansCovered, Covered
    <2>1. \A u \in read : RowOf(u) \in rows' /\ RowOf(u).ticker = u /\ RowOf(u).date = Today
      BY <1>1 DEF RowOf
    <2>2. CASE t \in read
      BY <2>1, <2>2
    <2>3. CASE t \notin read
      <3>1. t \notin chunk.batch
        <4> SUFFICES ASSUME t \in chunk.batch PROVE FALSE
          OBVIOUS
        <4>1. SessionsOf(t) \in SUBSET Days
          BY DEF SessionsOf
        <4>2. Cardinality(BarsOn(t, NewestOf(SessionsOf(t)))) \in Nat
          <5>1. BarsOn(t, NewestOf(SessionsOf(t))) \in SUBSET Days
            BY <4>1 DEF BarsOn, NewestOf
          <5> QED
            BY <5>1, DaysCount
        <4>3. Cardinality(BarsOn(t, NewestOf(SessionsOf(t)))) < MinSessions
          BY <1>1, <2>3, <4>2, ScanAssumption DEF Bars
        <4>4. Cardinality(TradedOn(t, SessionsOf(t))) >= MinSessions
          BY DEF ScanInv, PlansSound
        <4> QED
          BY <4>3, <4>4 DEF Dormant
      <3> QED
        BY <1>1, <1>2, <2>3, <3>1 DEF ScanInv, PlansCovered, Covered
    <2> QED
      BY <2>2, <2>3
  <1> QED
    BY <1>2, <1>4, <1>5 DEF ScanInv, RecordsTyped

LEMMA ScanTickStep == ASSUME ScanInv, ScanTick PROVE ScanInv'
  <1>1. minute' = minute + 1 /\ UNCHANGED <<summaries, plans, queued, rows, buried>>
    BY DEF ScanTick
  <1>2. \A t : SessionsOf(t)' = SessionsOf(t) /\ Dormant(t)' = Dormant(t)
    BY <1>1 DEF SessionsOf, Dormant, TradedOn, BarsOn, NewestOf
  <1>3. PlansSound'
    <2>1. \A p \in plans : p.stamp \in Nat
      BY DEF ScanInv, PlansSound, Plans
    <2>2. \A p \in plans : p.stamp <= minute'
      BY <1>1, <2>1 DEF ScanInv, PlansSound
    <2> QED
      BY <1>1, <1>2, <2>2 DEF ScanInv, PlansSound, TradedOn
  <1>4. PlansCovered'
    <2> SUFFICES ASSUME NEW p \in plans, p.stamp \div Minutes = Today'
                 PROVE  Today' = Today
      BY <1>1, <1>2 DEF PlansCovered, ScanInv, Covered
    <2>1. p.stamp \in Nat /\ minute \in Nat /\ p.stamp <= minute /\ Minutes \in Nat \ {0}
      BY ScanAssumption DEF ScanInv, PlansSound, Plans
    <2>2. /\ p.stamp \div Minutes \in Nat /\ minute \div Minutes \in Nat
          /\ p.stamp \div Minutes <= minute \div Minutes
      BY <2>1, DayOfMinute
    <2>3. minute \div Minutes <= (minute + 1) \div Minutes /\ (minute + 1) \div Minutes \in Nat
      BY <2>1, DayOfMinute
    <2> QED
      BY <1>1, <2>2, <2>3 DEF Today
  <1> QED
    BY <1>1, <1>3, <1>4 DEF ScanInv, RecordsTyped

LEMMA ScanStep == ScanInv /\ [ScanNext]_scanVars => ScanInv'
  <1> SUFFICES ASSUME ScanInv, [ScanNext]_scanVars PROVE ScanInv'
    OBVIOUS
  <1>1. ASSUME UNCHANGED <<minute, summaries, plans, queued, rows>>, buried \subseteq buried'
        PROVE  ScanInv'
    <2>1. Today' = Today /\ \A t : SessionsOf(t)' = SessionsOf(t) /\ Dormant(t)' = Dormant(t)
      BY <1>1 DEF Today, SessionsOf, Dormant, TradedOn, BarsOn, NewestOf
    <2> QED
      BY <1>1, <2>1 DEF ScanInv, RecordsTyped, PlansSound, PlansCovered, TradedOn, Covered
  <1>2. CASE RequestScan \/ UNCHANGED scanVars
    BY <1>1, <1>2 DEF RequestScan, scanVars
  <1>3. CASE PlanScan
    BY <1>3, PlanStep
  <1>4. CASE ScanTick
    BY <1>4, ScanTickStep
  <1>5. CASE \E d \in Days : \E report \in Reports[d] : Import(d, report)
    BY <1>5, ImportStep
  <1>6. ASSUME NEW chunk \in queued, ScanChunk(chunk) PROVE ScanInv'
    BY <1>6, ChunkStep
  <1>7. ASSUME NEW chunk \in queued, BuryChunk(chunk) PROVE ScanInv'
    <2>1. /\ queued' = queued \ {chunk} /\ buried' = buried \cup {chunk.stamp}
          /\ UNCHANGED <<minute, summaries, plans, rows>>
      BY <1>7 DEF BuryChunk
    <2>2. Today' = Today /\ \A t : SessionsOf(t)' = SessionsOf(t) /\ Dormant(t)' = Dormant(t)
      BY <2>1 DEF Today, SessionsOf, Dormant, TradedOn, BarsOn, NewestOf
    <2>3. PlansSound'
      BY <2>1, <2>2 DEF ScanInv, PlansSound, TradedOn
    <2>4. PlansCovered'
      BY <2>1, <2>2 DEF ScanInv, PlansCovered, Covered
    <2> QED
      BY <2>1, <2>3, <2>4 DEF ScanInv, RecordsTyped
  <1> QED
    BY <1>2, <1>3, <1>4, <1>5, <1>6, <1>7 DEF ScanNext

(* However chunks interleave with imports and with other plans: a plan all *)
(* of whose chunks ran on its day left nobody out but whose records a scan *)
(* cannot read as the plan counted them, or were revised since.            *)
THEOREM NobodyIsSkipped == ScanSpec => []NobodySkipped
  <1>1. ScanInv => NobodySkipped
    BY DEF ScanInv, PlansCovered, NobodySkipped, RanToday
  <1>2. ScanInit => ScanInv
    BY ScanInitially
  <1>3. ScanInv /\ [ScanNext]_scanVars => ScanInv'
    BY ScanStep
  <1> QED
    BY <1>1, <1>2, <1>3, PTL DEF ScanSpec

-----------------------------------------------------------------------------
(* MarketScan: the screen *)

LEMMA CriteriaAdd ==
  ASSUME NEW B \in SUBSET Criteria, NEW A \in SUBSET B
  PROVE  Sum(A) \in Nat /\ (Sum(A) = Sum(B) <=> A = B)
  <1>1. \A S : Sum(S) = SumFunctionOnSet(WeightOf, S)
    BY DEF Sum
  <1>2. IsFiniteSet(Criteria) /\ \A c \in Criteria : WeightOf[c] \in Nat \ {0}
    BY ScanAssumption
  <1>3. SumFunctionOnSet(WeightOf, A) \in Nat
    BY <1>2, SumWithout
  <1> QED
    BY <1>1, <1>2, <1>3, SumOfFewer

(* Chunks are of known issuers, of which a date has one row at the most,   *)
(* and a row's scores are those of the bars it counts.                     *)
RowsSound ==
    /\ \A c \in queued : c.batch \subseteq Tickers
    /\ IsFiniteSet(rows)
    /\ \A r \in rows : r.ticker \in Tickers /\ r.scores = HorizonScores(r.ticker, r.bars)
    /\ \A r, s \in rows : r.ticker = s.ticker /\ r.date = s.date => r = s

LEMMA RowFound ==
  ASSUME NEW t
  PROVE  /\ RowOf(t).ticker = t /\ RowOf(t).date = Today
         /\ RowOf(t).scores = HorizonScores(t, RowOf(t).bars)
  BY DEF RowOf

LEMMA RowsStep == RowsSound /\ [ScanNext]_scanVars => RowsSound'
  <1> SUFFICES ASSUME RowsSound, [ScanNext]_scanVars PROVE RowsSound'
    OBVIOUS
  <1>1. ASSUME rows' = rows, queued' \subseteq queued PROVE RowsSound'
    BY <1>1 DEF RowsSound, HorizonScores, Outcome
  <1>2. CASE RequestScan \/ ScanTick \/ UNCHANGED scanVars
    BY <1>1, <1>2 DEF RequestScan, ScanTick, scanVars
  <1>3. CASE \E d \in Days : \E report \in Reports[d] : Import(d, report)
    BY <1>1, <1>3 DEF Import
  <1>4. CASE \E chunk \in queued : BuryChunk(chunk)
    BY <1>1, <1>4 DEF BuryChunk
  <1>5. CASE PlanScan
    <2>1. PICK new \in SUBSET Batches(Scannable) :
            rows' = rows /\ queued' = queued \cup {[stamp |-> minute, batch |-> b] : b \in new}
      BY <1>5 DEF PlanScan
    <2>2. \A b \in Batches(Scannable) : b \subseteq Tickers
      BY DEF Batches, Scannable
    <2>3. \A c \in queued' : c \in queued \/ \E b \in new : c.batch = b
      BY <2>1
    <2>4. \A c \in queued' : c.batch \subseteq Tickers
      BY <2>2, <2>3 DEF RowsSound
    <2> QED
      BY <2>1, <2>4 DEF RowsSound, HorizonScores, Outcome
  <1>6. ASSUME NEW chunk \in queued, ScanChunk(chunk) PROVE RowsSound'
    <2>1. PICK read \in SUBSET chunk.batch :
            rows' = {r \in rows : ~(r.ticker \in read /\ r.date = Today)} \cup {RowOf(t) : t \in read}
      BY <1>6 DEF ScanChunk
    <2> DEFINE kept == {r \in rows : ~(r.ticker \in read /\ r.date = Today)}
               new == {RowOf(t) : t \in read}
    <2>2. queued' \subseteq queued /\ read \subseteq Tickers
      BY <1>6, <2>1 DEF ScanChunk, RowsSound
    <2>3. \A r \in new : \E t \in read : r = RowOf(t)
      OBVIOUS
    <2>4. \A r \in new : /\ r.ticker \in read /\ r.date = Today /\ r = RowOf(r.ticker)
                         /\ r.scores = HorizonScores(r.ticker, r.bars)
      BY <2>3, RowFound
    <2>5. IsFiniteSet(new)
      <3> DEFINE f == [t \in read |-> RowOf(t)]
      <3>1. f \in Surjection(read, new)
        BY DEF Surjection
      <3>2. IsFiniteSet(read)
        BY <2>2, ScanAssumption, FS_Subset
      <3> QED
        BY <3>1, <3>2, FS_Surjection
    <2>6. IsFiniteSet(rows') /\ rows' = kept \cup new
      <3>1. kept \in SUBSET rows
        OBVIOUS
      <3>2. IsFiniteSet(kept)
        BY <3>1, FS_Subset DEF RowsSound
      <3> QED
        BY <2>1, <2>5, <3>2, FS_Union
    <2>7. \A r \in kept : r \in rows /\ ~(r.ticker \in read /\ r.date = Today)
      OBVIOUS
    <2> HIDE DEF kept, new
    <2>8. \A r \in rows' : r.ticker \in Tickers /\ r.scores = HorizonScores(r.ticker, r.bars)
      BY <2>2, <2>4, <2>6, <2>7 DEF RowsSound
    <2>9. \A r, s \in rows' : r.ticker = s.ticker /\ r.date = s.date => r = s
      BY <2>4, <2>6, <2>7 DEF RowsSound
    <2> QED
      BY <2>2, <2>6, <2>8, <2>9 DEF RowsSound, HorizonScores, Outcome
  <1> QED
    BY <1>2, <1>3, <1>4, <1>5, <1>6 DEF ScanNext

(* The scores of an issuer, criterion by criterion.                        *)
LEMMA ScoresSplit ==
  ASSUME NEW t, NEW bars
  PROVE  LET scores == HorizonScores(t, bars) IN
         /\ scores.met \subseteq Criteria /\ scores.blind \subseteq Criteria
         /\ scores.met \cap scores.blind = {}
         /\ \A c \in Criteria \ (scores.met \cup scores.blind) :
               \E k \in DOMAIN Tests[c] : Measured(bars, Tests[c][k]) /\ ~Meets(t, Tests[c][k])
  <1> DEFINE scores == HorizonScores(t, bars)
  <1>1. /\ scores.met = {c \in Criteria : Outcome(t, bars, c) = "met"}
        /\ scores.blind = {c \in Criteria : Outcome(t, bars, c) = "unevaluable"}
    BY DEF HorizonScores
  <1>2. ASSUME NEW c \in Criteria, Outcome(t, bars, c) \notin {"met", "unevaluable"}
        PROVE  \E k \in DOMAIN Tests[c] : Measured(bars, Tests[c][k]) /\ ~Meets(t, Tests[c][k])
    <2> DEFINE failing == {i \in DOMAIN Tests[c] : ~Measured(bars, Tests[c][i]) \/ ~Meets(t, Tests[c][i])}
               first == CHOOSE i \in failing : \A j \in failing : i <= j
    <2>1. failing # {} /\ Measured(bars, Tests[c][first])
      BY <1>2 DEF Outcome
    <2>2. failing \in SUBSET Nat
      BY ScanAssumption
    <2>3. first \in failing
      <3> HIDE DEF failing
      <3>1. \E i \in failing : \A j \in failing : i <= j
        BY <2>1, <2>2, LeastOfSome
      <3> QED
        BY <3>1
    <2> QED
      BY <2>1, <2>3
  <1> HIDE DEF scores
  <1> QED
    BY <1>1, <1>2 DEF scores

LEMMA PicksListed ==
  ASSUME RowsSound
  PROVE  Screen \in [1..Cardinality(Picks) -> Picks]
  <1> DEFINE R == {p \in Picks \X Picks : Outranks(p[1], p[2])}
             latest == {r \in rows : r.date = LatestDate}
  <1>1. \A p \in Picks : \E r \in latest : p = Pick(r)
    BY DEF Picks
  <1>2. IsFiniteSet(Picks)
    <2> DEFINE f == [r \in latest |-> Pick(r)]
    <2>1. f \in Surjection(latest, Picks)
      BY DEF Surjection, Picks
    <2>2. latest \in SUBSET rows
      OBVIOUS
    <2> HIDE DEF latest
    <2>3. IsFiniteSet(latest)
      BY <2>2, FS_Subset DEF RowsSound
    <2> QED
      BY <2>1, <2>3, FS_Surjection
  <1>3. \A r \in latest : /\ Pick(r).ticker = r.ticker /\ r.ticker \in Nat
                          /\ Pick(r).score = Sum(r.scores.met) /\ Sum(r.scores.met) \in Nat
    <2> SUFFICES ASSUME NEW r \in latest PROVE r.ticker \in Nat /\ Sum(r.scores.met) \in Nat
      BY DEF Pick
    <2>1. r.ticker \in Nat /\ r.scores = HorizonScores(r.ticker, r.bars)
      BY ScanAssumption DEF RowsSound
    <2>2. r.scores.met \in SUBSET Criteria
      BY <2>1, ScoresSplit
    <2> QED
      BY <2>1, <2>2, CriteriaAdd
  <1>4. \A p \in Picks : p.ticker \in Nat /\ p.score \in Nat
    BY <1>1, <1>3
  <1>5. \A p, q \in Picks : p.ticker = q.ticker => p = q
    BY <1>1, <1>3 DEF RowsSound
  <1>6. \A p, q \in Picks : <<p, q>> \in R <=> Outranks(p, q)
    OBVIOUS
  <1> HIDE DEF R
  <1>7. \E s \in [1..Cardinality(Picks) -> Picks] :
            \A i, j \in DOMAIN s : i < j => <<s[i], s[j]>> \in R
    <2>1. \A p \in Picks : ~ (<<p, p>> \in R)
      BY <1>4, <1>6 DEF Outranks
    <2>2. \A p, q \in Picks : p # q => <<p, q>> \in R \/ <<q, p>> \in R
      BY <1>4, <1>5, <1>6 DEF Outranks
    <2>3. \A p, q, r \in Picks : <<p, q>> \in R /\ <<q, r>> \in R => <<p, r>> \in R
      BY <1>4, <1>6 DEF Outranks
    <2> QED
      BY <1>2, <2>1, <2>2, <2>3, ListedInOrder
  <1>8. \E s \in [1..Cardinality(Picks) -> Picks] :
            \A i, j \in DOMAIN s : i < j => Outranks(s[i], s[j])
    BY <1>6, <1>7
  <1> QED
    BY <1>8 DEF Screen

(* However the tests fall and whatever the weights: a screen says a        *)
(* criterion is not met only where bars show it, and a pick has all the    *)
(* points there are to have just when it misses nothing (screen_stored).   *)
THEOREM PicksAreHonestAlways == ScanSpec => []PicksAreHonest
  <1>1. ScanInit => RowsSound
    BY FS_EmptySet DEF ScanInit, RowsSound
  <1>2. RowsSound => PicksAreHonest
    <2> SUFFICES ASSUME RowsSound, NEW i \in DOMAIN Screen
                 PROVE  LET pick == Screen[i]
                            row == CHOOSE r \in rows : r.ticker = pick.ticker /\ r.date = LatestDate
                        IN /\ pick.unmet = {} <=> pick.score = pick.outOf
                           /\ \A c \in pick.unmet : \E k \in DOMAIN Tests[c] :
                                 Measured(row.bars, Tests[c][k]) /\ ~Meets(pick.ticker, Tests[c][k])
      BY DEF PicksAreHonest
    <2> DEFINE pick == Screen[i]
               row == CHOOSE r \in rows : r.ticker = pick.ticker /\ r.date = LatestDate
    <2>1. pick \in Picks
      BY PicksListed
    <2>2. PICK r \in rows : r.date = LatestDate /\ pick = Pick(r)
      BY <2>1 DEF Picks
    <2>3. /\ pick.ticker = r.ticker /\ pick.score = Sum(r.scores.met) /\ pick.outOf = Sum(Reachable(r))
          /\ pick.unmet = Criteria \ (r.scores.met \cup r.scores.blind)
      BY <2>2 DEF Pick
    <2>4. row = r
      BY <2>2, <2>3 DEF RowsSound
    <2> HIDE DEF pick, row
    <2> DEFINE scores == r.scores
    <2>5. scores = HorizonScores(r.ticker, r.bars)
      BY DEF RowsSound
    <2> HIDE DEF scores
    <2>6. /\ scores.met \subseteq Criteria /\ scores.met \cap scores.blind = {}
          /\ \A c \in Criteria \ (scores.met \cup scores.blind) : \E k \in DOMAIN Tests[c] :
                Measured(r.bars, Tests[c][k]) /\ ~Meets(r.ticker, Tests[c][k])
      BY <2>5, ScoresSplit
    <2>7. Sum(scores.met) = Sum(Criteria \ scores.blind) <=> scores.met = Criteria \ scores.blind
      <3>1. scores.met \in SUBSET (Criteria \ scores.blind)
        BY <2>6
      <3> QED
        BY <3>1, CriteriaAdd
    <2>8. pick.unmet = {} <=> pick.score = pick.outOf
      BY <2>3, <2>6, <2>7 DEF Reachable, scores
    <2> QED
      BY <2>3, <2>4, <2>6, <2>8 DEF pick, row, scores
  <1> QED
    BY <1>1, <1>2, RowsStep, PTL DEF ScanSpec

-----------------------------------------------------------------------------
(* Portfolio: requests and rows *)

Amounts == Quantities \cup {0}
Paids == PaidPrices \cup {0}
HoldingFigures == [quantity : Amounts, paid : Paids]
HoldingRows == [quantity : Amounts, paid : Paids, id : Nat]
Asked == [op : {"upsert", "delete", "look"}, asset : Assets, quantity : Amounts, paid : Paids,
          portfolio : BOOLEAN, read : HoldingRows]

PortfolioTyped ==
    /\ portfolios \in [Owners -> Nat]
    /\ holdings \in [Owners -> [Assets -> HoldingRows]]
    /\ lastId \in Nat
    /\ request \in [Owners -> [Requests -> Asked \cup {Nothing}]]
    /\ entered \in [Owners -> [Assets -> HoldingFigures]]

PortfolioInv == PortfolioTyped /\ HoldingsAsEntered /\ PersonalStaysHome

LEMMA ReplacedEntry ==
  ASSUME NEW I, NEW A, NEW V, NEW f \in [I -> [A -> V]], NEW i \in I, NEW a \in A, NEW v \in V
  PROVE  /\ Replace(f, i, a, v) \in [I -> [A -> V]]
         /\ Replace(f, i, a, v)[i][a] = v
         /\ \A j \in I, b \in A : <<j, b>> # <<i, a>> => Replace(f, i, a, v)[j][b] = f[j][b]
  BY DEF Replace

(* A row and what was acknowledged of it are written together.             *)
LEMMA WrittenTogether ==
  ASSUME PortfolioTyped, HoldingsAsEntered, NEW i \in Owners, NEW a \in Assets,
         NEW row \in HoldingRows, NEW said \in HoldingFigures,
         row.quantity = said.quantity, row.paid = said.paid,
         holdings' = Replace(holdings, i, a, row), entered' = Replace(entered, i, a, said)
  PROVE  /\ holdings' \in [Owners -> [Assets -> HoldingRows]]
         /\ entered' \in [Owners -> [Assets -> HoldingFigures]]
         /\ HoldingsAsEntered'
  <1>1. /\ holdings \in [Owners -> [Assets -> HoldingRows]]
        /\ entered \in [Owners -> [Assets -> HoldingFigures]]
    BY DEF PortfolioTyped
  <1>2. /\ holdings' \in [Owners -> [Assets -> HoldingRows]] /\ holdings'[i][a] = row
        /\ \A j \in Owners, b \in Assets : <<j, b>> # <<i, a>> => holdings'[j][b] = holdings[j][b]
    BY <1>1 DEF Replace
  <1>3. /\ entered' \in [Owners -> [Assets -> HoldingFigures]] /\ entered'[i][a] = said
        /\ \A j \in Owners, b \in Assets : <<j, b>> # <<i, a>> => entered'[j][b] = entered[j][b]
    BY <1>1 DEF Replace
  <1>4. HoldingsAsEntered'
    BY <1>2, <1>3 DEF HoldingsAsEntered
  <1> QED
    BY <1>2, <1>3, <1>4

(* An accepted upsert leaves the figures that it is acknowledged for: all  *)
(* of its own over the row that it read, what differs from that row over   *)
(* one that was changed since, and nothing of it, for nothing differs,     *)
(* where the row is gone.                                                  *)
LEMMA UpsertedAsSaid ==
  ASSUME NEW q \in Asked, NEW row \in HoldingRows, NEW was \in HoldingFigures, NEW newId \in Nat,
         row.quantity = was.quantity, row.paid = was.paid, Alters(q) => row.id = q.read.id
  PROVE  LET left == Upserted(q, row, newId)
             said == IF row = q.read THEN [quantity |-> q.quantity, paid |-> q.paid]
                     ELSE Over(q, was)
         IN  left \in HoldingRows /\ said \in HoldingFigures
             /\ left.quantity = said.quantity /\ left.paid = said.paid
  <1> DEFINE said == IF row = q.read THEN [quantity |-> q.quantity, paid |-> q.paid]
                     ELSE Over(q, was)
             left == Upserted(q, row, newId)
  <1>1. /\ q.quantity \in Amounts /\ q.paid \in Paids /\ q.read \in HoldingRows
        /\ row.quantity \in Amounts /\ row.paid \in Paids /\ row.id \in Nat
        /\ was.quantity \in Amounts /\ was.paid \in Paids
    BY DEF Asked, HoldingRows, HoldingFigures
  <1>2. said \in HoldingFigures
    BY <1>1 DEF Over, HoldingFigures
  <1>3. CASE row.id # q.read.id
    <2>1. left = row /\ q.quantity = q.read.quantity /\ q.paid = q.read.paid /\ row # q.read
      BY <1>3 DEF Upserted, Alters
    <2>2. said.quantity = was.quantity /\ said.paid = was.paid
      BY <2>1 DEF Over
    <2> QED
      BY <1>2, <2>1, <2>2
  <1>4. CASE row.id = q.read.id
    <2>1. /\ left = [quantity |-> Over(q, row).quantity, paid |-> Over(q, row).paid,
                     id |-> IF row.id = 0 THEN newId ELSE row.id]
          /\ left.quantity = IF q.quantity = q.read.quantity THEN row.quantity ELSE q.quantity
          /\ left.paid = IF q.paid = q.read.paid THEN row.paid ELSE q.paid
      BY <1>4 DEF Upserted, Over
    <2>2. left \in HoldingRows
      BY <1>1, <2>1 DEF HoldingRows, Over
    <2>3. said.quantity = left.quantity /\ said.paid = left.paid
      BY <2>1 DEF Over
    <2> QED
      BY <1>2, <2>2, <2>3
  <1> QED
    BY <1>3, <1>4

LEMMA AskedFields ==
  ASSUME NEW q \in Asked \cup {Nothing}, q # Nothing PROVE q \in Asked
  OBVIOUS

LEMMA PortfolioInitially == PortfolioInit => PortfolioInv
  <1> SUFFICES ASSUME PortfolioInit PROVE PortfolioInv
    OBVIOUS
  <1>1. /\ NoRow \in HoldingRows /\ NoFigures \in HoldingFigures
        /\ NoRow.quantity = NoFigures.quantity /\ NoRow.paid = NoFigures.paid
    BY DEF NoRow, NoFigures, HoldingRows, HoldingFigures, Amounts, Paids
  <1>2. PortfolioTyped
    BY <1>1 DEF PortfolioInit, PortfolioTyped
  <1>3. HoldingsAsEntered
    BY <1>1 DEF PortfolioInit, HoldingsAsEntered
  <1>4. PersonalStaysHome
    BY DEF PortfolioInit, PersonalStaysHome
  <1> QED
    BY <1>2, <1>3, <1>4 DEF PortfolioInv

LEMMA BeginKeeps ==
  ASSUME PortfolioInv, NEW i \in Owners, NEW r \in Requests,
         NEW order \in Orders, Begin(i, r, order)
  PROVE  PortfolioInv'
  <1>1. /\ order.op \in {"upsert", "delete", "look"} /\ order.asset \in Assets
        /\ order.quantity \in Amounts /\ order.paid \in Paids
    BY PortfolioAssumption DEF Orders, Amounts, Paids
  <1>2. [op |-> order.op, asset |-> order.asset, quantity |-> order.quantity, paid |-> order.paid,
         portfolio |-> portfolios[i] > 0, read |-> holdings[i][order.asset]] \in Asked
    BY <1>1 DEF PortfolioInv, PortfolioTyped, Asked
  <1>3. request' \in [Owners -> [Requests -> Asked \cup {Nothing}]]
    <2> DEFINE kinds == Asked \cup {Nothing}
               asking == [op |-> order.op, asset |-> order.asset, quantity |-> order.quantity,
                          paid |-> order.paid, portfolio |-> portfolios[i] > 0,
                          read |-> holdings[i][order.asset]]
    <2>1. request' = Replace(request, i, r, asking)
      BY DEF Begin
    <2>2. asking \in kinds /\ request \in [Owners -> [Requests -> kinds]]
      BY <1>2 DEF PortfolioInv, PortfolioTyped
    <2> HIDE DEF kinds, asking
    <2>3. request' \in [Owners -> [Requests -> kinds]]
      BY <2>1, <2>2, ReplacedEntry
    <2> QED
      BY <2>3 DEF kinds
  <1>4. UNCHANGED <<portfolios, holdings, lastId, entered, sent>>
    BY DEF Begin
  <1> QED
    BY <1>3, <1>4 DEF PortfolioInv, PortfolioTyped, HoldingsAsEntered, PersonalStaysHome

(* A commit that is accepted leaves the row the portfolio page reads with  *)
(* what it is acknowledged for.                                            *)
LEMMA CommitKeeps ==
  ASSUME PortfolioInv, NEW i \in Owners, NEW r \in Requests, Commit(i, r)
  PROVE  PortfolioInv'
  <1> DEFINE q == request[i][r]
             row == holdings[i][q.asset]
  <1>1. q \in Asked /\ q # Nothing /\ Accepts(i, q)
    BY AskedFields DEF Commit, PortfolioInv, PortfolioTyped
  <1>2. q.asset \in Assets
    BY <1>1 DEF Asked
  <1>3. /\ row \in HoldingRows /\ entered[i][q.asset] \in HoldingFigures
        /\ row.quantity = entered[i][q.asset].quantity /\ row.paid = entered[i][q.asset].paid
    BY <1>2 DEF PortfolioInv, PortfolioTyped, HoldingsAsEntered
  <1>4. request' \in [Owners -> [Requests -> Asked \cup {Nothing}]] /\ sent' = sent
    BY ReplacedEntry DEF Commit, PortfolioInv, PortfolioTyped
  <1>5. portfolios' \in [Owners -> Nat]
    BY DEF Commit, PortfolioInv, PortfolioTyped
  <1>6. lastId' \in Nat
    BY DEF Commit, PortfolioInv, PortfolioTyped
  <1>7. CASE q.op = "upsert"
    <2> DEFINE left == Upserted(q, row, lastId')
               said == IF row = q.read THEN [quantity |-> q.quantity, paid |-> q.paid]
                       ELSE Over(q, entered[i][q.asset])
    <2>1. holdings' = Replace(holdings, i, q.asset, left)
          /\ entered' = Replace(entered, i, q.asset, said)
      BY <1>7 DEF Commit
    <2>2. Alters(q) => row.id = q.read.id
      BY <1>1, <1>7 DEF Accepts
    <2>3. left \in HoldingRows /\ said \in HoldingFigures /\ left.quantity = said.quantity /\ left.paid = said.paid
      BY <1>1, <1>3, <1>6, <2>2, UpsertedAsSaid
    <2> HIDE DEF left, said, q
    <2> QED
      BY <1>2, <1>4, <1>5, <1>6, <2>1, <2>3, WrittenTogether
      DEF PortfolioInv, PortfolioTyped, PersonalStaysHome
  <1>8. CASE q.op # "upsert" /\ holdings' = Replace(holdings, i, q.asset, NoRow)
                            /\ entered' = Replace(entered, i, q.asset, NoFigures)
    <2>1. /\ NoRow \in HoldingRows /\ NoFigures \in HoldingFigures
          /\ NoRow.quantity = NoFigures.quantity /\ NoRow.paid = NoFigures.paid
      BY DEF NoRow, NoFigures, HoldingRows, HoldingFigures, Amounts, Paids
    <2> HIDE DEF q
    <2> QED
      BY <1>2, <1>4, <1>5, <1>6, <1>8, <2>1, WrittenTogether
      DEF PortfolioInv, PortfolioTyped, PersonalStaysHome
  <1>9. CASE q.op # "upsert" /\ UNCHANGED <<holdings, entered>>
    BY <1>4, <1>5, <1>6, <1>9
    DEF PortfolioInv, PortfolioTyped, HoldingsAsEntered, PersonalStaysHome
  <1> QED
    BY <1>7, <1>8, <1>9 DEF Commit

(* An agent that is given holdings or journal is sensitive by itself, so   *)
(* whatever the mode only a provider at home serves it.                    *)
LEMMA AskingKeeps ==
  ASSUME PortfolioInv, NEW i \in Owners, NEW agent, NEW content, NEW highPrivacy,
         AskAgent(i, agent, content, highPrivacy),
         content \in {"holdings", "journal"} => Sensitive(agent, highPrivacy)
  PROVE  PortfolioInv'
  <1>1. PersonalStaysHome'
    BY DEF AskAgent, CanServe, PersonalStaysHome
  <1>2. UNCHANGED <<portfolios, holdings, lastId, request, entered>>
    BY DEF AskAgent
  <1> QED
    BY <1>1, <1>2 DEF PortfolioInv, PortfolioTyped, HoldingsAsEntered

LEMMA PortfolioStep ==
  PortfolioInv /\ [PortfolioNext]_portfolioVars => PortfolioInv'
  <1> SUFFICES ASSUME PortfolioInv, [PortfolioNext]_portfolioVars PROVE PortfolioInv'
    OBVIOUS
  <1>1. ASSUME NEW i \in Owners, NEW r \in Requests, NEW order \in Orders, Begin(i, r, order)
        PROVE  PortfolioInv'
    BY <1>1, BeginKeeps
  <1>2. ASSUME NEW i \in Owners, NEW r \in Requests, Commit(i, r) PROVE PortfolioInv'
    BY <1>2, CommitKeeps
  <1>3. ASSUME NEW i \in Owners, NEW r \in Requests, Fail(i, r) PROVE PortfolioInv'
    <2>1. request' \in [Owners -> [Requests -> Asked \cup {Nothing}]]
      BY <1>3, ReplacedEntry DEF Fail, PortfolioInv, PortfolioTyped
    <2> QED
      BY <1>3, <2>1 DEF Fail, PortfolioInv, PortfolioTyped, HoldingsAsEntered, PersonalStaysHome
  <1>4. ASSUME NEW i \in Owners, NEW agent \in {"portfolio_analyzer", "risk_analyzer"},
               Analyse(i, agent)
        PROVE  PortfolioInv'
    BY <1>4, AskingKeeps DEF Analyse, Sensitive
  <1>5. ASSUME NEW i \in Owners, Reflect(i) \/ Chat(i) PROVE PortfolioInv'
    BY <1>5, AskingKeeps DEF Reflect, Chat, Sensitive
  <1>6. CASE UNCHANGED <<portfolios, holdings, lastId, request, entered, sent>>
    BY <1>6 DEF PortfolioInv, PortfolioTyped, HoldingsAsEntered, PersonalStaysHome
  <1> QED
    BY <1>1, <1>2, <1>3, <1>4, <1>5, <1>6
    DEF PortfolioNext, WriteJournal, SetPrivacy, Ingest, portfolioVars

(* Whatever the requests of one investor found on the way, the page shows  *)
(* the figures acknowledged last: no request that was acknowledged loses a *)
(* figure it changed, and none that failed leaves one.                     *)
THEOREM PageShowsWhatWasEntered ==
  PortfolioSpec => []HoldingsAsEntered
  <1>1. PortfolioInv => HoldingsAsEntered
    BY DEF PortfolioInv
  <1> QED
    BY <1>1, PortfolioInitially, PortfolioStep, PTL DEF PortfolioSpec

(* Whatever providers are configured and in whichever mode, holdings and   *)
(* journal entries reach only those marked as self-hosted.                 *)
THEOREM PersonalDataStaysHome ==
  PortfolioSpec => []PersonalStaysHome
  <1>1. PortfolioInv => PersonalStaysHome
    BY DEF PortfolioInv
  <1> QED
    BY <1>1, PortfolioInitially, PortfolioStep, PTL DEF PortfolioSpec

(* Every holding of an investor has a value, and its ticker that weight.   *)
LEMMA ValuesOfHeld ==
  ASSUME NEW i \in Owners, PortfolioTyped, close \in [Assets -> Nat], OneExchangeEach(i),
         TotalValue(i) > 0
  PROVE  /\ IsFiniteSet(Held(i)) /\ Values(i) = [a \in Held(i) |-> Values(i)[a]]
         /\ \A a \in Held(i) : Values(i)[a] \in Nat /\ Weights(i)[TickerOf[a]] = Values(i)[a]
         /\ DOMAIN Weights(i) = {TickerOf[a] : a \in Held(i)} /\ Weighed(i) = Held(i)
         /\ \A a, b \in Held(i) : TickerOf[a] = TickerOf[b] => a = b
  <1>1. IsFiniteSet(Held(i)) /\ Held(i) \subseteq Assets
    <2>1. Held(i) \in SUBSET Assets
      BY DEF Held
    <2> QED
      BY <2>1, PortfolioAssumption, FS_Subset
  <1>2. \A a \in Held(i) : MarketValue(i, a) \in Nat
    <2> SUFFICES ASSUME NEW a \in Held(i) PROVE MarketValue(i, a) \in Nat
      OBVIOUS
    <2>1. holdings[i][a].quantity \in Nat /\ holdings[i][a].paid \in Nat
      <3>1. holdings[i] \in [Assets -> HoldingRows] /\ a \in Assets
        BY <1>1 DEF PortfolioTyped
      <3>2. holdings[i][a] \in HoldingRows
        BY <3>1
      <3>3. holdings[i][a].quantity \in Amounts /\ holdings[i][a].paid \in Paids
        BY <3>2 DEF HoldingRows
      <3>4. Amounts \subseteq Nat /\ Paids \subseteq Nat
        BY PortfolioAssumption DEF Amounts, Paids
      <3> QED
        BY <3>3, <3>4
    <2> DEFINE price == IF close[a] = 0 THEN holdings[i][a].paid ELSE close[a]
    <2>2. price \in Nat
      BY <1>1, <2>1
    <2> HIDE DEF price
    <2>3. holdings[i][a].quantity * price \in Nat
      BY <2>1, <2>2
    <2> QED
      BY <2>3 DEF MarketValue, price
  <1>3. \A a, b \in Held(i) : TickerOf[a] = TickerOf[b] => a = b
    BY DEF OneExchangeEach
  <1>4. DOMAIN Weights(i) = {TickerOf[a] : a \in Held(i)} /\ Weighed(i) = Held(i)
    <2>1. Weighed(i) = Held(i)
      BY DEF Weighed
    <2> QED
      BY <2>1 DEF Weights
  <1>5. ASSUME NEW a \in Held(i) PROVE Weights(i)[TickerOf[a]] = MarketValue(i, a)
    <2>1. (CHOOSE b \in Held(i) : TickerOf[b] = TickerOf[a]) = a
      BY <1>3
    <2>2. Weights(i)[TickerOf[a]] = MarketValue(i, CHOOSE b \in Held(i) : TickerOf[b] = TickerOf[a])
      BY <1>4 DEF Weights
    <2> QED
      BY <2>1, <2>2
  <1>6. /\ Values(i) = [a \in Held(i) |-> Values(i)[a]]
        /\ \A a \in Held(i) : Values(i)[a] = MarketValue(i, a)
    BY DEF Values
  <1> QED
    BY <1>1, <1>2, <1>3, <1>4, <1>5, <1>6

LEMMA WeightsOfOwner ==
  ASSUME NEW i \in Owners, PortfolioTyped, close \in [Assets -> Nat], OneExchangeEach(i),
         TotalValue(i) > 0
  PROVE  WeightsCoverPortfolio(i)
  <1> DEFINE H == Held(i)
             v == Values(i)
             w == Weights(i)
             D == DOMAIN w
             all == SumFunctionOnSet(v, H)
  <1>1. /\ IsFiniteSet(H) /\ DOMAIN v = H
        /\ \A a \in H : v[a] \in Nat /\ w[TickerOf[a]] = v[a]
        /\ D = {TickerOf[a] : a \in H} /\ Weighed(i) = H
        /\ \A a, b \in H : TickerOf[a] = TickerOf[b] => a = b
    BY ValuesOfHeld
  <1>2. TotalValue(i) = all /\ all \in Nat
    <2>1. TotalValue(i) = all
      BY <1>1 DEF TotalValue, SumFunction
    <2> HIDE DEF H, v
    <2>2. SumFunctionOnSet(v, H) \in Nat
      BY <1>1, SumWithout
    <2> QED
      BY <2>1, <2>2
  <1>3. SectorWeights(i) = [s \in {SectorOf[a] : a \in H} |-> SumFunction(Shares(i, s))]
    BY DEF SectorWeights
  <1>4. \A s : Shares(i, s) = [a \in {h \in H : SectorOf[h] = s} |-> w[TickerOf[a]]]
    BY <1>1 DEF Shares
  <1> HIDE DEF H, v, w, all
  <1>5. SumFunctionOnSet(w, D) = all
    <2>1. SumFunctionOnSet(w, {TickerOf[a] : a \in H}) = SumFunctionOnSet(v, H)
      BY <1>1, SumRenamed
    <2> HIDE DEF D
    <2> QED
      BY <1>1, <2>1 DEF all
  <1>6. Total(SectorWeights(i)) = all
    <2> DEFINE F == SectorWeights(i)
               Class(s) == {a \in H : SectorOf[a] = s}
    <2>1. ASSUME NEW s \in {SectorOf[a] : a \in H}
          PROVE  F[s] = SumFunctionOnSet(v, Class(s))
      <3> DEFINE shares == Shares(i, s)
      <3>1. /\ F[s] = SumFunctionOnSet(shares, DOMAIN shares)
        BY <1>3 DEF SumFunction
      <3>2. DOMAIN shares = Class(s) /\ \A a \in Class(s) : v[a] \in Nat /\ v[a] = shares[a]
        <4>1. shares = [a \in {h \in H : SectorOf[h] = s} |-> w[TickerOf[a]]]
          BY <1>4
        <4> HIDE DEF shares
        <4>2. \A a \in Class(s) : a \in H /\ shares[a] = w[TickerOf[a]]
          BY <4>1
        <4> QED
          BY <1>1, <4>1, <4>2
      <3>3. IsFiniteSet(Class(s))
        <4>1. Class(s) \in SUBSET H
          OBVIOUS
        <4> HIDE DEF Class
        <4> QED
          BY <1>1, <4>1, FS_Subset
      <3> HIDE DEF F, Class, shares
      <3>4. SumFunctionOnSet(v, Class(s)) = SumFunctionOnSet(shares, Class(s))
        <4>1. Class(s) \in SUBSET Class(s)
          OBVIOUS
        <4> QED
          BY <3>2, <3>3, <4>1, SumOfSame
      <3> QED
        BY <3>1, <3>2, <3>4
    <2>2. DOMAIN F = {SectorOf[a] : a \in H}
      BY <1>3
    <2> DEFINE K == {SectorOf[a] : a \in H}
               C == [s \in K |-> Class(s)]
    <2>3. /\ \A a \in H : v[a] \in Nat
          /\ \A s \in K : C[s] \in SUBSET H /\ F[s] = SumFunctionOnSet(v, C[s])
          /\ \A a \in H : \E s \in K : a \in C[s]
          /\ \A s, t \in K : s # t => C[s] \cap C[t] = {}
      <3>1. \A s \in K : C[s] = {a \in H : SectorOf[a] = s}
        OBVIOUS
      <3>2. \A s \in K : F[s] = SumFunctionOnSet(v, C[s])
        <4> HIDE DEF F
        <4> QED
          BY <2>1
      <3>3. \A a \in H : SectorOf[a] \in K
        OBVIOUS
      <3>4. \A a \in H : v[a] \in Nat
        BY <1>1
      <3> HIDE DEF C, F, K, Class
      <3> QED
        BY <3>1, <3>2, <3>3, <3>4
    <2>4. IsFiniteSet(H) /\ IsFiniteSet(K)
      <3> DEFINE g == [a \in H |-> SectorOf[a]]
      <3>1. g \in Surjection(H, K)
        BY DEF Surjection
      <3> HIDE DEF K
      <3> QED
        BY <1>1, <3>1, FS_Surjection
    <2> HIDE DEF F, C, K
    <2>5. SumFunctionOnSet(F, K) = SumFunctionOnSet(v, H)
      BY <2>3, <2>4, SumByClass
    <2> QED
      BY <2>2, <2>5 DEF Total, SumFunction, F, K, all
  <1>7. IsFiniteSet(D) /\ Cardinality(D) = Cardinality(H)
    <2> DEFINE f == [a \in H |-> TickerOf[a]]
    <2>1. f \in Bijection(H, D)
      BY <1>1 DEF Bijection, Injection, Surjection, IsInjective
    <2>2. ExistsBijection(H, D)
      BY <2>1 DEF ExistsBijection
    <2> HIDE DEF D
    <2> QED
      BY <1>1, <2>2, FS_Bijection
  <1>8. /\ Squares(w) <= all * all
        /\ all * all <= Cardinality(H) * Squares(w)
    <2> DEFINE q == [k \in D |-> w[k] * w[k]]
    <2>1. \A k \in D : w[k] \in Nat /\ q[k] = w[k] * w[k]
      BY <1>1
    <2>2. Squares(w) = SumFunctionOnSet(q, D)
      BY DEF Squares, SumFunction
    <2> HIDE DEF q, D
    <2>3. /\ SumFunctionOnSet(q, D) <= SumFunctionOnSet(w, D) * SumFunctionOnSet(w, D)
          /\ SumFunctionOnSet(w, D) * SumFunctionOnSet(w, D) <= Cardinality(D) * SumFunctionOnSet(q, D)
      BY <1>7, <2>1, SquaresBounded
    <2> QED
      BY <1>5, <1>7, <2>2, <2>3
  <1>9. Total(w) = all
    BY <1>5 DEF Total, SumFunction
  <1> QED
    BY <1>2, <1>6, <1>7, <1>8, <1>9 DEF WeightsCoverPortfolio, w, H

(* Whatever is held in however many assets, sectors and prices, as long as *)
(* no ticker trades on two exchanges (compute_portfolio_metrics).          *)
THEOREM WeightsAlwaysCover == PortfolioSpec => []WeightsAddUp
  <1> DEFINE I == PortfolioInv /\ close \in [Assets -> Nat]
  <1>1. PortfolioInit => I
    BY PortfolioInitially DEF PortfolioInit
  <1>2. I /\ [PortfolioNext]_portfolioVars => I'
    <2> SUFFICES ASSUME I, [PortfolioNext]_portfolioVars PROVE close' \in [Assets -> Nat]
      BY PortfolioStep
    <2>1. CASE \E a \in Assets, price \in MarketPrices : Ingest(a, price)
      BY <2>1, PortfolioAssumption DEF Ingest
    <2>2. CASE UNCHANGED close
      BY <2>2
    <2>3. CASE \E i \in Owners, r \in Requests :
                  (\E order \in Orders : Begin(i, r, order)) \/ Commit(i, r) \/ Fail(i, r)
      <3>1. ASSUME NEW i \in Owners, NEW r \in Requests
            PROVE  Commit(i, r) \/ Fail(i, r) => UNCHANGED close
        BY DEF Commit, Fail
      <3>2. ASSUME NEW i \in Owners, NEW r \in Requests, NEW order \in Orders
            PROVE  Begin(i, r, order) => UNCHANGED close
        BY DEF Begin
      <3> QED
        BY <2>2, <2>3, <3>1, <3>2
    <2>4. CASE \E i \in Owners :
                  \/ \E agent \in {"portfolio_analyzer", "risk_analyzer"} : Analyse(i, agent)
                  \/ Reflect(i) \/ Chat(i)
                  \/ \E count \in 0..MinEntries : WriteJournal(i, count)
                  \/ \E mode \in {"standard", "high"} : SetPrivacy(i, mode)
      BY <2>2, <2>4 DEF Analyse, Reflect, Chat, AskAgent, WriteJournal, SetPrivacy
    <2>5. CASE UNCHANGED portfolioVars
      BY <2>2, <2>5 DEF portfolioVars
    <2> QED
      BY <2>1, <2>3, <2>4, <2>5 DEF PortfolioNext
  <1>3. I => WeightsAddUp
    BY WeightsOfOwner DEF WeightsAddUp, PortfolioInv
  <1> QED
    BY <1>1, <1>2, <1>3, PTL DEF PortfolioSpec

-----------------------------------------------------------------------------
(* Portfolio: simulations of any length                                    *)

(* Among the first k changes: the tickers named, and the last for one.     *)
NamedBy(asked, k) == {asked[j].ticker : j \in 1..k}
Those(asked, k, t) == {j \in 1..k : asked[j].ticker = t}
WantedBy(asked, k, t) == asked[Max(Those(asked, k, t))].quantity

(* What the first k changes come to.                                       *)
HeldAfter(before, asked, k) ==
    [t \in {t \in DOMAIN before :
                t \in NamedBy(asked, k) => WantedBy(asked, k, t) > 0} |->
        IF t \in NamedBy(asked, k) THEN WantedBy(asked, k, t) ELSE before[t]]

ResultAfter(before, asked, k) ==
    IF NamedBy(asked, k) \subseteq DOMAIN before
    THEN Simulated(HeldAfter(before, asked, k)) ELSE Refused

(* One more change decides for its ticker and for no other.                *)
LEMMA OneMoreChange ==
  ASSUME NEW T, NEW asked \in Seq([ticker : T, quantity : Nat]),
         NEW k \in 1..Len(asked), NEW t
  PROVE  /\ NamedBy(asked, k) = NamedBy(asked, k - 1) \cup {asked[k].ticker}
         /\ t = asked[k].ticker => WantedBy(asked, k, t) = asked[k].quantity
         /\ t # asked[k].ticker => WantedBy(asked, k, t) = WantedBy(asked, k - 1, t)
  <1>0. k \in Nat \ {0} /\ 1..k = 1..(k - 1) \cup {k}
    BY LenProperties
  <1>1. NamedBy(asked, k) = NamedBy(asked, k - 1) \cup {asked[k].ticker}
    BY <1>0 DEF NamedBy
  <1>2. ASSUME t = asked[k].ticker PROVE WantedBy(asked, k, t) = asked[k].quantity
    <2> DEFINE S == Those(asked, k, t)
    <2>1. k \in S /\ S \subseteq 1..k
      BY <1>0, <1>2 DEF Those
    <2> HIDE DEF S
    <2>2. Max(S) = k
      <3>1. \A j \in S : k >= j
        BY <1>0, <2>1
      <3>2. \A x \in S : (\A j \in S : x >= j) => x = k
        BY <1>0, <2>1
      <3> QED
        BY <2>1, <3>1, <3>2 DEF Max
    <2> QED
      BY <2>2 DEF WantedBy, S
  <1>3. ASSUME t # asked[k].ticker
        PROVE  Those(asked, k, t) = Those(asked, k - 1, t)
    BY <1>0, <1>3 DEF Those
  <1> QED
    BY <1>1, <1>2, <1>3 DEF WantedBy

(* A pass of the loop turns what the changes before it come to into what   *)
(* they come to with it.                                                   *)
LEMMA ChangeApplied ==
  ASSUME NEW T, NEW asked \in Seq([ticker : T, quantity : Nat]), NEW before,
         NEW k \in 1..Len(asked)
  PROVE  ApplyChange(before, ResultAfter(before, asked, k - 1), asked[k])
            = ResultAfter(before, asked, k)
  <1> DEFINE D == DOMAIN before
             t == asked[k].ticker
             q == asked[k].quantity
             early == NamedBy(asked, k - 1)
             all == NamedBy(asked, k)
             old == HeldAfter(before, asked, k - 1)
             new == HeldAfter(before, asked, k)
  <1>1. all = early \cup {t} /\ q \in Nat
    <2>1. asked[k] \in [ticker : T, quantity : Nat]
      BY LenProperties
    <2> QED
      BY <2>1, OneMoreChange
  <1>2. CASE ~ (early \subseteq D)
    <2>1. ~ (all \subseteq D)
      BY <1>1, <1>2
    <2>2. ResultAfter(before, asked, k - 1) = Refused /\ ResultAfter(before, asked, k) = Refused
      BY <1>2, <2>1 DEF ResultAfter
    <2> QED
      BY <2>2 DEF ApplyChange, Refused
  <1>3. CASE early \subseteq D /\ t \notin D
    <2>1. ~ (all \subseteq D)
      BY <1>1, <1>3
    <2>2. ResultAfter(before, asked, k) = Refused
      BY <2>1 DEF ResultAfter
    <2> QED
      BY <1>3, <2>2 DEF ApplyChange
  <1>4. CASE early \subseteq D /\ t \in D
    <2>1. all \subseteq D
      BY <1>1, <1>4
    <2>2. /\ ResultAfter(before, asked, k - 1) = Simulated(old)
          /\ ResultAfter(before, asked, k) = Simulated(new)
      BY <1>4, <2>1 DEF ResultAfter
    <2>3. /\ ~ Simulated(old).refused /\ Simulated(old).held = old
      BY DEF Simulated
    <2> DEFINE W(s) == WantedBy(asked, k - 1, s)
               V(s) == WantedBy(asked, k, s)
    <2>4. V(t) = q /\ \A s : s # t => V(s) = W(s)
      BY OneMoreChange
    <2>5. /\ old = [s \in {s \in D : s \in early => W(s) > 0} |-> IF s \in early THEN W(s) ELSE before[s]]
          /\ new = [s \in {s \in D : s \in all => V(s) > 0} |-> IF s \in all THEN V(s) ELSE before[s]]
      BY DEF HeldAfter
    <2> HIDE DEF old, new, W, V, D, early, all, t, q
    <2>6. /\ DOMAIN old = {s \in D : s \in early => W(s) > 0}
          /\ \A s \in DOMAIN old : old[s] = IF s \in early THEN W(s) ELSE before[s]
      BY <2>5
    <2>7. CASE q = 0
      <3>1. {s \in D : s \in all => V(s) > 0} = DOMAIN old \ {t}
        BY <1>1, <2>4, <2>6, <2>7
      <3>2. \A s \in DOMAIN old \ {t} : (IF s \in all THEN V(s) ELSE before[s]) = old[s]
        BY <1>1, <2>4, <2>6
      <3>3. new = [s \in DOMAIN old \ {t} |-> old[s]]
        BY <2>5, <3>1, <3>2
      <3> QED
        BY <1>4, <2>2, <2>3, <2>7, <3>3 DEF ApplyChange, D, t, q
    <2>8. CASE q # 0
      <3>1. {s \in D : s \in all => V(s) > 0} = DOMAIN old \cup {t}
        BY <1>1, <1>4, <2>4, <2>6, <2>8
      <3>2. \A s \in DOMAIN old \cup {t} :
               (IF s \in all THEN V(s) ELSE before[s]) = IF s = t THEN q ELSE old[s]
        BY <1>1, <2>4, <2>6
      <3>3. new = [s \in DOMAIN old \cup {t} |-> IF s = t THEN q ELSE old[s]]
        BY <2>5, <3>1, <3>2
      <3> QED
        BY <1>4, <2>2, <2>3, <2>8, <3>3 DEF ApplyChange, D, t, q
    <2> QED
      BY <2>7, <2>8
  <1> QED
    BY <1>2, <1>3, <1>4

(* The results of a loop, change by change.                                *)
LoopOf(result, before, asked) ==
    result = [k \in 0..Len(asked) |->
                 IF k = 0 THEN Simulated(before)
                 ELSE ApplyChange(before, result[k - 1], asked[k])]

(* The loop of simulate comes to what its changes come to.                 *)
LEMMA ResultFound ==
  ASSUME NEW T, NEW asked \in Seq([ticker : T, quantity : Nat]), NEW D, NEW Q,
         NEW before \in [D -> Q], NEW result,
         LoopOf(result, before, asked)
  PROVE  result[Len(asked)] = ResultAfter(before, asked, Len(asked))
  <1> DEFINE n == Len(asked)
             G == {k \in 0..n : result[k] = ResultAfter(before, asked, k)}
  <1>0. n \in Nat
    BY LenProperties
  <1>1. 0 \in G
    <2>1. NamedBy(asked, 0) = {}
      BY DEF NamedBy
    <2>2. HeldAfter(before, asked, 0) = before
      BY <2>1 DEF HeldAfter
    <2>3. ResultAfter(before, asked, 0) = Simulated(before)
      BY <2>1, <2>2 DEF ResultAfter
    <2>4. result[0] = Simulated(before)
      BY <1>0 DEF LoopOf
    <2> QED
      BY <1>0, <2>3, <2>4
  <1>2. ASSUME NEW k \in 1..n, k - 1 \in G PROVE k \in G
    <2>1. result[k] = ApplyChange(before, result[k - 1], asked[k])
      BY <1>0 DEF LoopOf
    <2>2. result[k - 1] = ResultAfter(before, asked, k - 1)
      BY <1>2
    <2>3. ApplyChange(before, ResultAfter(before, asked, k - 1), asked[k])
             = ResultAfter(before, asked, k)
      BY ChangeApplied
    <2> QED
      BY <1>0, <2>1, <2>2, <2>3
  <1> HIDE DEF G
  <1>3. \A k \in 0..n : k \in G
    BY <1>0, <1>1, <1>2, CountingUp
  <1>4. n \in 0..n
    BY <1>0
  <1> QED
    BY <1>3, <1>4 DEF G

(* There is such a loop: the closed form is one.                           *)
LEMMA ResultExists ==
  ASSUME NEW T, NEW asked \in Seq([ticker : T, quantity : Nat]), NEW D, NEW Q,
         NEW before \in [D -> Q]
  PROVE  \E result : LoopOf(result, before, asked)
  <1> DEFINE n == Len(asked)
             step(r, k) == IF k = 0 THEN Simulated(before)
                           ELSE ApplyChange(before, r[k - 1], asked[k])
             r == [k \in 0..n |-> ResultAfter(before, asked, k)]
  <1>0. n \in Nat
    BY LenProperties
  <1>1. r[0] = Simulated(before)
    <2>1. NamedBy(asked, 0) = {}
      BY DEF NamedBy
    <2>2. HeldAfter(before, asked, 0) = before
      BY <2>1 DEF HeldAfter
    <2> QED
      BY <1>0, <2>1, <2>2 DEF ResultAfter
  <1>2. ASSUME NEW k \in 1..n
        PROVE  r[k] = ApplyChange(before, r[k - 1], asked[k])
    <2>1. r[k] = ResultAfter(before, asked, k) /\ r[k - 1] = ResultAfter(before, asked, k - 1)
      BY <1>0
    <2> QED
      BY <2>1, ChangeApplied
  <1>3. ASSUME NEW k \in 0..n PROVE r[k] = step(r, k)
    <2> HIDE DEF r
    <2>1. CASE k = 0
      BY <1>1, <2>1
    <2>2. CASE k # 0
      <3>1. k \in 1..n
        BY <1>0, <2>2
      <3> QED
        BY <1>2, <2>2, <3>1
    <2> QED
      BY <2>1, <2>2
  <1>4. r = [k \in 0..n |-> r[k]]
    OBVIOUS
  <1> HIDE DEF r
  <1>5. r = [k \in 0..n |-> step(r, k)]
    BY <1>3, <1>4
  <1> QED
    BY <1>5 DEF LoopOf

(* Whatever is held and whichever changes are asked for, in any number and *)
(* of any quantities, named once or several times, a simulation answers    *)
(* the question asked (apply_changes, simulate).                           *)
THEOREM SimulationsAnswer ==
  ASSUME NEW D, NEW Q, NEW before \in [D -> Q],
         NEW T, NEW asked \in Seq([ticker : T, quantity : Nat])
  PROVE  AnswersAsked(before, asked)
  <1> DEFINE n == Len(asked)
             result == CHOOSE r : LoopOf(r, before, asked)
             after == result[n]
             named == NamedBy(asked, n)
             held == HeldAfter(before, asked, n)
  <1>0. n \in Nat /\ DOMAIN asked = 1..n /\ (asked = <<>> <=> n = 0)
    BY LenProperties, EmptySeq
  <1>1. LoopOf(result, before, asked)
    BY ResultExists
  <1>2. after = ResultAfter(before, asked, n)
    <2> HIDE DEF result
    <2> QED
      BY <1>1, ResultFound
  <1>3. Simulate(before, asked) =
          IF DOMAIN before = {} \/ asked = <<>> \/ after.refused \/ DOMAIN after.held = {}
          THEN Refused ELSE after
    BY DEF Simulate, LoopOf
  <1> HIDE DEF result, after
  <1>4. Simulate(before, asked) =
          IF named # {} /\ named \subseteq DOMAIN before /\ DOMAIN held # {}
          THEN Simulated(held) ELSE Refused
    <2>1. CASE ~ (named \subseteq DOMAIN before)
      <3>1. after = Refused
        BY <1>2, <2>1 DEF ResultAfter
      <3> QED
        BY <1>3, <2>1, <3>1 DEF Refused
    <2>2. CASE named \subseteq DOMAIN before
      <3>1. after = Simulated(held)
        BY <1>2, <2>2 DEF ResultAfter
      <3>2. ~ after.refused /\ after.held = held
        BY <3>1 DEF Simulated
      <3>3. DOMAIN held # {} => DOMAIN before # {}
        BY DEF HeldAfter
      <3>4. asked = <<>> <=> named = {}
        <4>1. CASE n = 0
          BY <1>0, <4>1 DEF NamedBy
        <4>2. CASE n # 0
          <5>1. 1 \in 1..n
            BY <1>0, <4>2
          <5>2. asked[1].ticker \in named
            BY <5>1 DEF NamedBy
          <5> QED
            BY <1>0, <4>2, <5>2
        <4> QED
          BY <4>1, <4>2
      <3> QED
        BY <1>3, <2>2, <3>1, <3>2, <3>3, <3>4
    <2> QED
      BY <2>1, <2>2
  <1> QED
    BY <1>0, <1>4 DEF AnswersAsked, NamedBy, HeldAfter, WantedBy, Those

(* So does every simulation of what an investor holds.                     *)
THEOREM SimulationsAreAsAsked == PortfolioSpec => []SimulationAsAsked
  <1>1. PortfolioTyped => SimulationAsAsked
    <2> SUFFICES ASSUME PortfolioTyped, NEW i \in Owners, NEW n \in 0..2,
                        NEW asked \in [1..n -> Changes]
                 PROVE  AnswersAsked(
                            [t \in {TickerOf[a] : a \in Held(i)} |->
                                holdings[i][CHOOSE a \in Held(i) : TickerOf[a] = t].quantity],
                            asked)
      BY DEF SimulationAsAsked, ChangeLists
    <2> DEFINE D == {TickerOf[a] : a \in Held(i)}
               before == [t \in D |-> holdings[i][CHOOSE a \in Held(i) : TickerOf[a] = t].quantity]
               U == {TickerOf[a] : a \in Assets}
    <2>1. before \in [D -> {before[t] : t \in D}]
      OBVIOUS
    <2>2. asked \in Seq([ticker : U, quantity : Nat])
      <3>1. asked \in [1..n -> [ticker : U, quantity : Nat]]
        BY DEF Changes
      <3>2. n \in Nat
        OBVIOUS
      <3> DEFINE S == [ticker : U, quantity : Nat]
      <3> HIDE DEF S, U
      <3>3. \E m \in Nat : asked \in [1..m -> S]
        BY <3>1, <3>2 DEF S
      <3>4. asked \in UNION {[1..m -> S] : m \in Nat}
        BY <3>3
      <3> QED
        BY <3>4, SeqDef DEF S
    <2> HIDE DEF D, before, U
    <2>3. AnswersAsked(before, asked)
      BY <2>1, <2>2, SimulationsAnswer
    <2> QED
      BY <2>3 DEF before, D
  <1>2. PortfolioInv => PortfolioTyped
    BY DEF PortfolioInv
  <1> QED
    BY <1>1, <1>2, PortfolioInitially, PortfolioStep, PTL DEF PortfolioSpec

(* The pages, the weights and the simulations together: whatever two open  *)
(* requests of an investor find on the way, what is shown is what was last *)
(* acknowledged, and the figures account for all of it.                    *)
THEOREM PagesAreAlwaysRight == PortfolioSpec => []PagesAreRight
  <1>1. HoldingsAsEntered /\ WeightsAddUp /\ SimulationAsAsked => PagesAreRight
    BY DEF PagesAreRight
  <1> QED
    BY <1>1, PageShowsWhatWasEntered, WeightsAlwaysCover, SimulationsAreAsAsked, PTL

-----------------------------------------------------------------------------
(* NewsPipeline: the dates of a story *)

(* What the extractor has read of a story is the one date the story has,   *)
(* which depends on when it was published and not on when it was read.     *)
StatedOnce ==
    \A s \in stated : Cardinality(DatesOf(s[1])) = 1 /\ \E r \in DatesOf(s[1]) : s[2] = r[2]

DatesInv == stored \subseteq Articles /\ sweep.new \subseteq Articles
              /\ (\A s \in stated : s[1] \in Articles) /\ StatedOnce

LEMMA OnlyDate ==
  ASSUME NEW a \in Articles, Cardinality(DatesOf(a)) = 1
  PROVE  \A r, q \in DatesOf(a) : r = q
  <1> DEFINE window == (Published[a] - MaxDaysBehind)..(Published[a] + MaxDaysAhead)
  <1>1. IsFiniteSet(DOMAIN Says[a]) /\ IsFiniteSet(window)
    <2>1. Published[a] - MaxDaysBehind \in Int /\ Published[a] + MaxDaysAhead \in Int
      BY PipelineAssumption
    <2> QED
      BY <2>1, FS_Interval, PipelineAssumption
  <1>2. IsFiniteSet((DOMAIN Says[a]) \X window)
    BY <1>1, FS_Product
  <1>3. DatesOf(a) \in SUBSET ((DOMAIN Says[a]) \X window)
    BY DEF DatesOf, Readings
  <1>4. IsFiniteSet(DatesOf(a))
    BY <1>2, <1>3, FS_Subset
  <1>5. PICK r : DatesOf(a) = {r}
    BY <1>4, FS_Singleton
  <1> QED
    BY <1>5

LEMMA ExtractKeeps == ASSUME DatesInv, NEW read, Extract(read) PROVE DatesInv'
  <1> DEFINE Issued(a) == {t[2] : t \in {u \in read : u[1] = a}}
  <1>1. /\ stated' = stated \cup {<<e.story, e.date>> : e \in UNION {EntriesFrom(a, Issued(a)) : a \in stored}}
        /\ UNCHANGED <<stored, sweep>>
    BY DEF Extract
  <1> HIDE DEF Issued
  <1>2. ASSUME NEW a \in stored, NEW e \in EntriesFrom(a, Issued(a))
        PROVE  /\ e.story = a /\ Cardinality(DatesOf(a)) = 1
               /\ \E r \in DatesOf(a) : e.date = r[2]
    BY <1>2 DEF EntriesFrom
  <1>3. ASSUME NEW s \in stated', s \notin stated
        PROVE  /\ s[1] \in Articles /\ Cardinality(DatesOf(s[1])) = 1
               /\ \E r \in DatesOf(s[1]) : s[2] = r[2]
    <2>1. PICK a \in stored : \E e \in EntriesFrom(a, Issued(a)) : s = <<e.story, e.date>>
      BY <1>1, <1>3
    <2>2. PICK e \in EntriesFrom(a, Issued(a)) : s = <<e.story, e.date>>
      BY <2>1
    <2> QED
      BY <1>2, <2>2 DEF DatesInv
  <1> QED
    BY <1>1, <1>3 DEF DatesInv, StatedOnce, DatesOf, Readings

(* However late and however often a story is read again, it states one     *)
(* date.                                                                   *)
THEOREM AStoryHasOneDate == PipelineSpec => []OneDatePerStory
  <1>1. DatesInv => OneDatePerStory
    BY OnlyDate DEF DatesInv, StatedOnce, OneDatePerStory
  <1>2. PipelineInit => DatesInv
    BY DEF PipelineInit, NoSweep, DatesInv, StatedOnce
  <1>3. DatesInv /\ [PipelineNext]_pipelineVars => DatesInv'
    <2> SUFFICES ASSUME DatesInv, [PipelineNext]_pipelineVars PROVE DatesInv'
      OBVIOUS
    <2>1. ASSUME stored' \subseteq Articles, sweep'.new \subseteq Articles, stated' = stated
          PROVE  DatesInv'
      BY <2>1 DEF DatesInv, StatedOnce, DatesOf, Readings
    <2>2. ASSUME NEW failed \in SUBSET Feeds, SweepReads(failed) PROVE DatesInv'
      BY <2>1, <2>2 DEF SweepReads, DatesInv, Newest
    <2>3. CASE SweepCommits \/ SweepFails
      BY <2>1, <2>3 DEF SweepCommits, SweepFails, NoSweep, DatesInv
    <2>4. ASSUME NEW i \in Issuers, ScheduleStores(i) PROVE DatesInv'
      BY <2>1, <2>4 DEF ScheduleStores, DatesInv
    <2>5. ASSUME NEW read \in SUBSET tags, Extract(read) PROVE DatesInv'
      BY <2>5, ExtractKeeps
    <2>6. CASE UNCHANGED <<stored, sweep, stated>>
      BY <2>1, <2>6 DEF DatesInv
    <2> QED
      BY <2>2, <2>3, <2>4, <2>5, <2>6
      DEF PipelineNext, pipelineVars, BackfillTags, RaiseNotices, DayPasses, EditAliases
  <1> QED
    BY <1>1, <1>2, <1>3, PTL DEF PipelineSpec

-----------------------------------------------------------------------------
(* KnowledgeIndex: fusing two rankings                                     *)

(* Two ranks within the depth outweigh any single one: 2/121 > 1/61.       *)
LEMMA TwoOutweighOne ==
  ASSUME NEW a \in 61..121, NEW b \in 61..121, NEW c \in Int, c >= 61
  PROVE  (a + b) * c > 1 * (a * b)
  <1>1. a * b <= 121 * a /\ a * b <= 121 * b
    <2>1. a * (121 - b) >= 0 /\ (121 - a) * b >= 0
      OBVIOUS
    <2> QED
      BY <2>1
  <1>2. (a + b) * c >= (a + b) * 61
    <2>1. (a + b) * (c - 61) >= 0
      OBVIOUS
    <2> QED
      BY <2>1
  <1> QED
    BY <1>1, <1>2

(* A rank is a place in the ranking. *)
LEMMA RankIsAPlace ==
  ASSUME NEW S, NEW o \in Rankings(S), NEW r \in Range(o)
  PROVE  Rank(o, r) \in Int /\ Rank(o, r) >= 1
  <1>1. \E i \in DOMAIN o : o[i] = r
    BY DEF Range
  <1>2. Rank(o, r) \in DOMAIN o
    BY <1>1 DEF Rank
  <1>3. DOMAIN o = 1..Cardinality(S)
    BY DEF Rankings
  <1> QED
    BY <1>2, <1>3

(* What a question's two rankings hold, and what they fuse to.             *)
LEMMA RankingsOfReach ==
  ASSUME NEW S, NEW vec \in VectorRankings(S)
  PROVE  /\ \A r \in Range(vec) : r \in S /\ r.vector
         /\ \A r \in Range(vec) : Rank(vec, r) \in Int /\ Rank(vec, r) >= 1
  <1>1. CASE vec = <<>>
    BY <1>1 DEF Range
  <1>2. CASE vec # <<>>
    <2>1. PICK near \in SUBSET {r \in S : r.vector} : vec \in Rankings(near)
      BY <1>2 DEF VectorRankings
    <2>2. \A r \in Range(vec) : r \in near
      BY <2>1 DEF Rankings, Range
    <2> QED
      BY <2>1, <2>2, RankIsAPlace
  <1> QED
    BY <1>1, <1>2

LEMMA FusionAgrees ==
  ASSUME NEW lex, NEW vec,
         \A r \in Range(lex) : Rank(lex, r) \in Int /\ Rank(lex, r) >= 1,
         \A r \in Range(vec) : Rank(vec, r) \in Int /\ Rank(vec, r) >= 1,
         NEW r \in Range(lex) \cap Range(vec),
         Rank(lex, r) <= AgreementDepth, Rank(vec, r) <= AgreementDepth,
         NEW q \in (Range(lex) \cup Range(vec)) \ (Range(lex) \cap Range(vec))
  PROVE  Above(Fused(lex, vec, r), Fused(lex, vec, q))
  <1> DEFINE a == RrfK + Rank(lex, r)
             b == RrfK + Rank(vec, r)
  <1>1. a \in 61..121 /\ b \in 61..121
    BY DEF RrfK, AgreementDepth
  <1>2. Fused(lex, vec, r) = [num |-> a + b, den |-> a * b]
    BY DEF Fused
  <1>3. PICK c \in Int : c >= 61 /\ Fused(lex, vec, q) = [num |-> 1, den |-> c]
    <2>1. CASE q \notin Range(vec)
      <3>1. Fused(lex, vec, q) = [num |-> 1, den |-> RrfK + Rank(lex, q)]
        BY <2>1 DEF Fused
      <3> QED
        BY <2>1, <3>1 DEF RrfK
    <2>2. CASE q \in Range(vec)
      <3>1. Fused(lex, vec, q) = [num |-> 1, den |-> RrfK + Rank(vec, q)]
        BY <2>2 DEF Fused
      <3> QED
        BY <2>2, <3>1 DEF RrfK
    <2> QED
      BY <2>1, <2>2
  <1> HIDE DEF a, b
  <1>4. (a + b) * c > 1 * (a * b)
    BY <1>1, <1>3, TwoOutweighOne
  <1> QED
    BY <1>2, <1>3, <1>4 DEF Above

(* A question is answered soundly, whatever the index holds.               *)
LEMMA SearchStep ==
  ASSUME NEW where, NEW d, NEW p, Search(where, d, p)
  PROVE  OneSpaceStep /\ AgreementWins'
  <1> DEFINE S == Comparable(InReach(where))
  <1>1. PICK lex \in Rankings(Matches(S, d, p)), vec \in VectorRankings(S) :
          answer' = [asked |-> d, for |-> p, where |-> where, lex |-> lex, vec |-> vec,
                     score |-> [r \in Range(lex) \cup Range(vec) |-> Fused(lex, vec, r)]]
    BY DEF Search
  <1>2. \A r \in Range(lex) : r \in S
    <2>1. \A r \in Range(lex) : r \in Matches(S, d, p)
      BY <1>1 DEF Rankings, Range
    <2> QED
      BY <2>1 DEF Matches
  <1>3. \A r \in Range(lex) : Rank(lex, r) \in Int /\ Rank(lex, r) >= 1
    BY <1>1, RankIsAPlace
  <1>4. /\ \A r \in Range(vec) : r \in S /\ r.vector
        /\ \A r \in Range(vec) : Rank(vec, r) \in Int /\ Rank(vec, r) >= 1
    BY <1>1, RankingsOfReach
  <1>5. /\ answer'.lex = lex /\ answer'.vec = vec /\ answer'.where = where
        /\ answer'.score = [r \in Range(lex) \cup Range(vec) |-> Fused(lex, vec, r)]
    BY <1>1
  <1>6. OneSpaceStep
    <2>1. \A r \in S : r.model = model /\ r \in InReach(where)
      BY DEF Comparable
    <2> HIDE DEF S
    <2> QED
      BY <1>2, <1>4, <1>5, <2>1 DEF OneSpaceStep
  <1>7. AgreementWins'
    <2>1. ASSUME NEW r \in Range(lex) \cap Range(vec),
                 Rank(lex, r) <= AgreementDepth, Rank(vec, r) <= AgreementDepth,
                 NEW q \in (Range(lex) \cup Range(vec)) \ (Range(lex) \cap Range(vec))
          PROVE  Above(Fused(lex, vec, r), Fused(lex, vec, q))
      BY <1>3, <1>4, <2>1, FusionAgrees
    <2> QED
      BY <1>5, <2>1 DEF AgreementWins
  <1> QED
    BY <1>6, <1>7

(* A retrieval answer is sound in every index, of any size and however the *)
(* model and its endpoint change: it compares vectors of the configured    *)
(* model only, keeps within what was asked about, and puts what both       *)
(* rankers found among their first 61 above what one of them found         *)
(* (rag/engine.py _rank, rag/fusion.py reciprocal_rank_fusion).            *)
THEOREM RetrievalIsSound == RagSpec => RankingsSound
  <1>1. RagInit => AgreementWins
    BY DEF RagInit, AgreementWins
  <1>2. AgreementWins /\ [RagNext]_ragVars
          => /\ AgreementWins'
             /\ [OneSpaceStep /\ AgreementWins']_ragVars
    <2> SUFFICES ASSUME AgreementWins, [RagNext]_ragVars
                 PROVE  AgreementWins' /\ [OneSpaceStep /\ AgreementWins']_ragVars
      OBVIOUS
    <2>1. ASSUME answer' = answer
          PROVE  AgreementWins' /\ OneSpaceStep
      BY <2>1 DEF AgreementWins, OneSpaceStep
    <2>2. CASE \E where \in SearchPlaces, d \in docs : \E p \in Positions(d) : Search(where, d, p)
      BY <2>2, SearchStep
    <2>3. CASE UNCHANGED ragVars
      BY <2>1, <2>3 DEF ragVars
    <2>4. CASE \/ \E d \in Documents : CreateDocument(d)
               \/ \E n \in News : IndexNews(n)
               \/ ProviderTurns
               \/ \E m \in Models \cup {NoModel} : Configure(m)
      BY <2>1, <2>4 DEF CreateDocument, IndexNews, ProviderTurns, Configure
    <2> QED
      BY <2>2, <2>3, <2>4 DEF RagNext
  <1> QED
    BY <1>1, <1>2, PTL DEF RagSpec, RankingsSound

-----------------------------------------------------------------------------
(* KnowledgeIndex: every paragraph can be read                             *)

(* What a chunk's size does when a paragraph joins it, and that a part of  *)
(* a chunk is no longer than the chunk.                                    *)
LEMMA SizesAdd ==
  ASSUME NEW text \in Seq(Nat), NEW c \in SUBSET (1..Len(text))
  PROVE  /\ SizeOf(text, c) \in Int /\ (c # {} => SizeOf(text, c) \in Nat)
         /\ \A k \in (1..Len(text)) \ c :
               /\ c # {} => SizeOf(text, c \cup {k}) >= SizeOf(text, c)
               /\ c # {} => SizeOf(text, c \cup {k}) =
                               SizeOf(text, c) + Separator + SizeOf(text, {k})
         /\ \A d \in SUBSET c : SizeOf(text, d) <= SizeOf(text, c)
  <1> DEFINE P == 1..Len(text)
             sum(s) == SumFunctionOnSet(text, s)
             num(s) == Cardinality(s)
  <1>0. IsFiniteSet(P) /\ \A p \in P : text[p] \in Nat
    <2>1. Len(text) \in Nat /\ 1 \in Int /\ Len(text) \in Int
      OBVIOUS
    <2>2. IsFiniteSet(P)
      BY <2>1, FS_Interval
    <2> QED
      BY <2>2
  <1>1. \A s \in SUBSET P : sum(s) \in Nat
    <2> HIDE DEF P
    <2> QED
      BY <1>0, SumWithout
  <1>2. \A s, t \in SUBSET P : s \cap t = {} => sum(s \cup t) = sum(s) + sum(t)
    <2> HIDE DEF P
    <2> QED
      BY <1>0, SumOfTwo
  <1>3. \A s \in SUBSET P : num(s) \in Nat /\ (s # {} => num(s) >= 1)
    <2> SUFFICES ASSUME NEW s \in SUBSET P
                 PROVE  num(s) \in Nat /\ (s # {} => num(s) >= 1)
      OBVIOUS
    <2>1. IsFiniteSet(s)
      BY <1>0, FS_Subset
    <2>2. num(s) \in Nat /\ (num(s) = 0 <=> s = {})
      BY <2>1, FS_CardinalityType, FS_EmptySet
    <2> DEFINE n == num(s)
    <2>3. n \in Nat /\ (n = 0 <=> s = {})
      BY <2>2
    <2> HIDE DEF n
    <2>4. n \in Nat /\ (n >= 1 \/ n = 0)
      BY <2>3
    <2>5. s # {} => n >= 1
      BY <2>3, <2>4, Zenon
    <2> QED
      BY <2>3, <2>5 DEF n
  <1>4. \A s, t \in SUBSET P : s \cap t = {} => num(s \cup t) = num(s) + num(t)
    <2> SUFFICES ASSUME NEW s \in SUBSET P, NEW t \in SUBSET P, s \cap t = {}
                 PROVE  num(s \cup t) = num(s) + num(t)
      OBVIOUS
    <2>1. IsFiniteSet(s) /\ IsFiniteSet(t)
      BY <1>0, FS_Subset
    <2>2. num(s \cup t) = num(s) + num(t) - num(s \cap t)
      BY <2>1, FS_Union
    <2>3. num(s \cap t) = 0
      BY FS_EmptySet
    <2> QED
      BY <1>3, <2>2, <2>3
  <1>5. Separator \in Nat
    BY RagAssumption
  <1>6. \A s : SizeOf(text, s) = sum(s) + Separator * (num(s) - 1)
    BY DEF SizeOf
  <1> HIDE DEF sum, num, P
  <1>7. \A s \in SUBSET P :
           /\ SizeOf(text, s) \in Int /\ Separator * num(s) \in Nat
           /\ SizeOf(text, s) = sum(s) + Separator * num(s) - Separator
           /\ s # {} => Separator * num(s) >= Separator
    <2> SUFFICES ASSUME NEW s \in SUBSET P
                 PROVE  /\ SizeOf(text, s) \in Int /\ Separator * num(s) \in Nat
                        /\ SizeOf(text, s) = sum(s) + Separator * num(s) - Separator
                        /\ s # {} => Separator * num(s) >= Separator
      OBVIOUS
    <2> DEFINE n == num(s)  S == sum(s)
    <2>1. n \in Nat /\ S \in Nat /\ (s # {} => n >= 1)
      BY <1>1, <1>3
    <2>2. SizeOf(text, s) = S + Separator * (n - 1)
      BY <1>6
    <2> HIDE DEF n, S
    <2>3. Separator * (n - 1) = Separator * n - Separator /\ Separator * n \in Nat
      BY <1>5, <2>1
    <2>4. n >= 1 => Separator * n >= Separator
      BY <1>5, <2>1
    <2> QED
      BY <1>5, <2>1, <2>2, <2>3, <2>4 DEF n, S
  <1>8. \A s, t \in SUBSET P : s \cap t = {} =>
           SizeOf(text, s \cup t) = SizeOf(text, s) + Separator + SizeOf(text, t)
    <2> SUFFICES ASSUME NEW s \in SUBSET P, NEW t \in SUBSET P, s \cap t = {}
                 PROVE  SizeOf(text, s \cup t) = SizeOf(text, s) + Separator + SizeOf(text, t)
      OBVIOUS
    <2> DEFINE u == s \cup t
               x == num(s)
               y == num(t)
    <2>1. /\ u \in SUBSET P /\ sum(u) = sum(s) + sum(t) /\ num(u) = x + y
          /\ x \in Nat /\ y \in Nat /\ sum(s) \in Nat /\ sum(t) \in Nat
      BY <1>1, <1>2, <1>3, <1>4
    <2>2. /\ SizeOf(text, u) = sum(u) + Separator * num(u) - Separator
          /\ SizeOf(text, s) = sum(s) + Separator * x - Separator
          /\ SizeOf(text, t) = sum(t) + Separator * y - Separator
      BY <1>7, <2>1
    <2> HIDE DEF u, x, y
    <2>3. Separator * (x + y) = Separator * x + Separator * y
          /\ Separator * x \in Nat /\ Separator * y \in Nat
      BY <1>5, <2>1
    <2>4. SizeOf(text, u) = SizeOf(text, s) + Separator + SizeOf(text, t)
      BY <1>5, <2>1, <2>2, <2>3
    <2> QED
      BY <2>4 DEF u
  <1>9. \A s \in SUBSET P : s # {} => SizeOf(text, s) \in Nat
    BY <1>1, <1>5, <1>7
  <1>10. ASSUME NEW d \in SUBSET c PROVE SizeOf(text, d) <= SizeOf(text, c)
    <2> DEFINE e == c \ d
    <2>1. d \in SUBSET P /\ e \in SUBSET P /\ d \cap e = {} /\ d \cup e = c
      BY DEF P
    <2> HIDE DEF e
    <2>2. CASE e = {}
      BY <1>7, <2>1, <2>2
    <2>3. CASE e # {}
      <3>1. SizeOf(text, c) = SizeOf(text, d) + Separator + SizeOf(text, e)
        BY <1>8, <2>1
      <3>2. SizeOf(text, d) \in Int /\ SizeOf(text, e) \in Nat
        BY <1>7, <1>9, <2>1, <2>3
      <3> QED
        BY <1>5, <3>1, <3>2
    <2> QED
      BY <2>2, <2>3
  <1>11. ASSUME NEW k \in P \ c, c # {}
         PROVE  /\ SizeOf(text, c \cup {k}) >= SizeOf(text, c)
                /\ SizeOf(text, c \cup {k}) = SizeOf(text, c) + Separator + SizeOf(text, {k})
    <2>1. {k} \in SUBSET P /\ {k} # {} /\ c \cap {k} = {} /\ c \in SUBSET P
      BY DEF P
    <2>2. SizeOf(text, c \cup {k}) = SizeOf(text, c) + Separator + SizeOf(text, {k})
      BY <1>8, <2>1
    <2>3. SizeOf(text, c) \in Int /\ SizeOf(text, {k}) \in Nat
      BY <1>7, <1>9, <2>1
    <2> QED
      BY <1>5, <2>2, <2>3
  <1> QED
    BY <1>7, <1>9, <1>10, <1>11 DEF P

(* The chunks of the first k paragraphs: none is empty, every paragraph is *)
(* in one, and two neighbours would not have fitted in a chunk.            *)
PackedSoFar(text, early, k) ==
    /\ early \in Seq((SUBSET (1..k)) \ {{}})
    /\ \A p \in 1..k : \E i \in 1..Len(early) : p \in early[i]
    /\ \A i \in 2..Len(early) :
          SizeOf(text, early[i - 1]) + Separator + SizeOf(text, early[i]) > ChunkLength

LEMMA OneMorePacked ==
  ASSUME NEW text \in Seq(Nat), NEW k \in 1..Len(text), NEW early,
         PackedSoFar(text, early, k - 1)
  PROVE  PackedSoFar(text, Pack(text, early, k), k)
  <1> DEFINE last == Len(early)
             C == (SUBSET (1..k)) \ {{}}
             new == Pack(text, early, k)
  <1>0. /\ k \in Nat \ {0} /\ 1..k = 1..(k - 1) \cup {k} /\ k \notin 1..(k - 1)
        /\ 1..k \subseteq 1..Len(text) /\ Len(text) \in Nat
    OBVIOUS
  <1>1. last \in Nat /\ early \in [1..last -> (SUBSET (1..(k - 1))) \ {{}}]
    <2> DEFINE A == (SUBSET (1..(k - 1))) \ {{}}
    <2>1. early \in Seq(A)
      BY DEF PackedSoFar
    <2> HIDE DEF A
    <2>2. last \in Nat /\ early \in [1..last -> A]
      BY <2>1, LenProperties
    <2> QED
      BY <2>2 DEF A
  <1>2. early \in Seq(C) /\ DOMAIN early = 1..last
    <2>1. early \in [1..last -> C]
      BY <1>0, <1>1
    <2>2. last \in Nat
      BY <1>1
    <2> HIDE DEF C, last
    <2> QED
      BY <2>1, <2>2
  <1>3. /\ \A p \in 1..(k - 1) : \E i \in 1..last : p \in early[i]
        /\ \A i \in 2..last :
              SizeOf(text, early[i - 1]) + Separator + SizeOf(text, early[i]) > ChunkLength
    BY DEF PackedSoFar
  <1>4. Separator \in Nat /\ ChunkLength \in Nat
    BY RagAssumption
  <1>5. \A i \in 1..last :
           /\ early[i] \in SUBSET (1..Len(text)) /\ early[i] # {} /\ k \notin early[i]
           /\ SizeOf(text, early[i]) \in Nat
           /\ SizeOf(text, early[i] \cup {k}) \in Nat
           /\ SizeOf(text, early[i] \cup {k}) >= SizeOf(text, early[i])
           /\ SizeOf(text, early[i] \cup {k}) =
                 SizeOf(text, early[i]) + Separator + SizeOf(text, {k})
    <2> SUFFICES ASSUME NEW i \in 1..last
                 PROVE  /\ early[i] \in SUBSET (1..Len(text)) /\ early[i] # {} /\ k \notin early[i]
                        /\ SizeOf(text, early[i]) \in Nat
                        /\ SizeOf(text, early[i] \cup {k}) \in Nat
                        /\ SizeOf(text, early[i] \cup {k}) >= SizeOf(text, early[i])
                        /\ SizeOf(text, early[i] \cup {k}) =
                              SizeOf(text, early[i]) + Separator + SizeOf(text, {k})
      OBVIOUS
    <2> DEFINE c == early[i]
               d == c \cup {k}
    <2>1. c \in SUBSET (1..Len(text)) /\ c # {} /\ k \notin c /\ k \in (1..Len(text)) \ c
      BY <1>0, <1>1
    <2>2. d \in SUBSET (1..Len(text)) /\ d # {}
      BY <2>1
    <2> HIDE DEF c, d
    <2>3. SizeOf(text, c) \in Nat /\ SizeOf(text, d) \in Nat
      BY <2>1, <2>2, SizesAdd
    <2>4. /\ SizeOf(text, c \cup {k}) >= SizeOf(text, c)
          /\ SizeOf(text, c \cup {k}) = SizeOf(text, c) + Separator + SizeOf(text, {k})
      BY <2>1, SizesAdd
    <2> QED
      BY <2>1, <2>3, <2>4 DEF c, d
  <1>6. CASE last > 0 /\ SizeOf(text, early[last] \cup {k}) <= ChunkLength
    <2>1. new = [early EXCEPT ![last] = early[last] \cup {k}]
      BY <1>6 DEF Pack
    <2>2. early[last] \cup {k} \in C /\ last \in 1..last
      BY <1>0, <1>1, <1>6
    <2> HIDE DEF C, new
    <2>3. /\ new \in Seq(C) /\ Len(new) = last
          /\ \A i \in 1..last : new[i] = IF i = last THEN early[last] \cup {k} ELSE early[i]
      BY <1>2, <2>1, <2>2
    <2>4. \A p \in 1..k : \E i \in 1..last : p \in new[i]
      <3> SUFFICES ASSUME NEW p \in 1..k PROVE \E i \in 1..last : p \in new[i]
        OBVIOUS
      <3>1. CASE p = k
        BY <2>2, <2>3, <3>1
      <3>2. CASE p \in 1..(k - 1)
        <4>1. PICK i \in 1..last : p \in early[i]
          BY <1>3, <3>2
        <4> QED
          BY <2>3, <4>1
      <3> QED
        BY <1>0, <3>1, <3>2
    <2>5. ASSUME NEW i \in 2..last
          PROVE  SizeOf(text, new[i - 1]) + Separator + SizeOf(text, new[i]) > ChunkLength
      <3>1. i - 1 \in 1..last /\ i \in 1..last /\ i - 1 # last
        BY <1>1
      <3>2. new[i - 1] = early[i - 1]
        BY <2>3, <3>1
      <3>3. SizeOf(text, new[i]) >= SizeOf(text, early[i]) /\ SizeOf(text, new[i]) \in Nat
        <4>1. SizeOf(text, early[i]) \in Nat /\ SizeOf(text, early[i] \cup {k}) \in Nat
              /\ SizeOf(text, early[i] \cup {k}) >= SizeOf(text, early[i])
          BY <1>5, <3>1
        <4>2. new[i] = early[i] \/ new[i] = early[i] \cup {k}
          BY <2>3, <3>1
        <4>3. CASE new[i] = early[i]
          BY <4>1, <4>3
        <4>4. CASE new[i] = early[i] \cup {k}
          BY <4>1, <4>4
        <4> QED
          BY <4>2, <4>3, <4>4
      <3>4. SizeOf(text, early[i - 1]) + Separator + SizeOf(text, early[i]) > ChunkLength
        BY <1>3
      <3>5. SizeOf(text, early[i - 1]) \in Nat /\ SizeOf(text, early[i]) \in Nat
        BY <1>5, <3>1
      <3> DEFINE a == SizeOf(text, early[i - 1])
                 b == SizeOf(text, early[i])
                 d == SizeOf(text, new[i])
      <3>6. a + Separator + b > ChunkLength /\ a \in Nat /\ b \in Nat /\ d \in Nat /\ d >= b
        BY <3>3, <3>4, <3>5
      <3> HIDE DEF a, b, d
      <3>7. a + Separator + d > ChunkLength
        BY <1>4, <3>6
      <3> QED
        BY <3>2, <3>7 DEF a, d
    <2> QED
      BY <2>3, <2>4, <2>5 DEF PackedSoFar, C, new
  <1>7. CASE ~ (last > 0 /\ SizeOf(text, early[last] \cup {k}) <= ChunkLength)
    <2>1. new = Append(early, {k})
      BY <1>7 DEF Pack
    <2>2. {k} \in C
      BY <1>0
    <2> HIDE DEF C, new, last
    <2>3. /\ new \in Seq(C) /\ Len(new) = last + 1
          /\ new[last + 1] = {k} /\ \A i \in 1..last : new[i] = early[i]
      BY <1>1, <1>2, <2>1, <2>2 DEF last
    <2>4. \A p \in 1..k : \E i \in 1..(last + 1) : p \in new[i]
      <3> SUFFICES ASSUME NEW p \in 1..k PROVE \E i \in 1..(last + 1) : p \in new[i]
        OBVIOUS
      <3>1. CASE p = k
        <4>1. last + 1 \in 1..(last + 1)
          BY <1>1
        <4> QED
          BY <2>3, <3>1, <4>1
      <3>2. CASE p \in 1..(k - 1)
        <4>1. PICK i \in 1..last : p \in early[i]
          BY <1>3, <3>2
        <4>2. i \in 1..(last + 1)
          BY <1>1
        <4> QED
          BY <2>3, <4>1, <4>2
      <3> QED
        BY <1>0, <3>1, <3>2
    <2>5. ASSUME NEW i \in 2..(last + 1)
          PROVE  SizeOf(text, new[i - 1]) + Separator + SizeOf(text, new[i]) > ChunkLength
      <3>1. i - 1 \in 1..last
        BY <1>1
      <3>2. new[i - 1] = early[i - 1]
        BY <2>3, <3>1
      <3>3. CASE i = last + 1
        <4>1. i - 1 = last /\ last > 0 /\ last \in 1..last
          BY <1>1, <3>1, <3>3
        <4>2. ~ (SizeOf(text, early[last] \cup {k}) <= ChunkLength)
          BY <1>7, <4>1
        <4>3. SizeOf(text, early[last]) + Separator + SizeOf(text, {k}) > ChunkLength
          <5>1. SizeOf(text, early[last] \cup {k}) \in Nat
                /\ SizeOf(text, early[last] \cup {k}) =
                      SizeOf(text, early[last]) + Separator + SizeOf(text, {k})
            BY <1>5, <4>1
          <5> QED
            BY <1>4, <4>2, <5>1
        <4> QED
          BY <2>3, <3>2, <3>3, <4>1, <4>3
      <3>4. CASE i # last + 1
        <4>1. i \in 1..last /\ i \in 2..last
          BY <1>1, <3>4
        <4> QED
          BY <1>3, <2>3, <3>2, <4>1
      <3> QED
        BY <3>3, <3>4
    <2> QED
      BY <2>3, <2>4, <2>5 DEF PackedSoFar, C, new
  <1> QED
    BY <1>6, <1>7

LEMMA PackedWhole ==
  ASSUME NEW text \in Seq(Nat)
  PROVE  PackedSoFar(text, Packed(text), Len(text))
  <1> DEFINE n == Len(text)
             Chunks == Seq((SUBSET (1..n)) \ {{}})
             good(k) == {c \in Chunks : PackedSoFar(text, c, k)}
             is(g) == g = [k \in 0..n |-> IF k = 0 THEN <<>> ELSE Pack(text, g[k - 1], k)]
  <1>0. n \in Nat
    OBVIOUS
  <1>1. PackedSoFar(text, <<>>, 0)
    <2>1. <<>> \in Seq((SUBSET (1..0)) \ {{}}) /\ Len(<<>>) = 0
      BY EmptySeq
    <2> QED
      BY <2>1 DEF PackedSoFar
  <1>2. ASSUME NEW k \in 0..n, NEW c, PackedSoFar(text, c, k) PROVE c \in Chunks
    <2>1. (SUBSET (1..k)) \ {{}} \subseteq (SUBSET (1..n)) \ {{}}
      BY <1>0
    <2> DEFINE A == (SUBSET (1..k)) \ {{}}
               B == (SUBSET (1..n)) \ {{}}
    <2>2. c \in Seq(A) /\ A \subseteq B
      BY <1>2, <2>1 DEF PackedSoFar
    <2> HIDE DEF A, B
    <2>3. c \in Seq(B)
      BY <2>2
    <2> QED
      BY <2>3 DEF B
  <1> HIDE DEF Chunks
  <1>3. \E g : is(g)
    <2> DEFINE next(c, k) == IF Pack(text, c, k) \in Chunks THEN Pack(text, c, k) ELSE <<>>
               F == [k \in 1..n |-> [c \in Chunks |-> next(c, k)]]
               none == <<>>
    <2>1. none \in Chunks
      BY <1>0, <1>1, <1>2
    <2>2. F \in [1..n -> [Chunks -> Chunks]] /\ \A k \in 1..n, c \in Chunks : F[k][c] = next(c, k)
      BY <2>1
    <2> HIDE DEF F, none, next, n
    <2>3. PICK g : Passes(g, n, Chunks, none, F)
      BY <1>0, <2>1, <2>2, PassesExist
    <2>4. g \in [0..n -> Chunks] /\ g[0] = none /\ \A k \in 1..n : g[k] = F[k][g[k - 1]]
      BY <2>3 DEF Passes
    <2> DEFINE G == {k \in 0..n : PackedSoFar(text, g[k], k)}
    <2>5. 0 \in G
      BY <1>0, <1>1, <2>4 DEF none
    <2>6. ASSUME NEW k \in 1..n, k - 1 \in G
          PROVE  k \in G /\ g[k] = Pack(text, g[k - 1], k)
      <3>1. PackedSoFar(text, Pack(text, g[k - 1], k), k)
        BY <2>6, OneMorePacked DEF n
      <3>2. k \in 0..n /\ k - 1 \in 0..n
        BY <1>0
      <3>3. Pack(text, g[k - 1], k) \in Chunks
        BY <1>2, <3>1, <3>2
      <3>4. g[k] = next(g[k - 1], k)
        BY <2>2, <2>4, <3>2
      <3>5. g[k] = Pack(text, g[k - 1], k)
        BY <3>3, <3>4 DEF next
      <3> QED
        BY <3>1, <3>2, <3>5
    <2>7. \A k \in 0..n : k \in G
      <3> HIDE DEF G
      <3> QED
        BY <1>0, <2>5, <2>6, CountingUp
    <2>8. ASSUME NEW k \in 0..n
          PROVE  g[k] = IF k = 0 THEN <<>> ELSE Pack(text, g[k - 1], k)
      <3>1. CASE k = 0
        BY <2>4, <3>1 DEF none
      <3>2. CASE k # 0
        <4>1. k \in 1..n /\ k - 1 \in 0..n
          BY <1>0, <3>2
        <4>2. k - 1 \in G
          BY <2>7, <4>1
        <4> QED
          BY <2>6, <3>2, <4>1, <4>2
      <3> QED
        BY <3>1, <3>2
    <2>9. g = [k \in 0..n |-> g[k]]
      BY <2>4
    <2>10. is(g)
      BY <2>8, <2>9
    <2> QED
      BY <2>10
  <1> DEFINE packed == CHOOSE g : is(g)
  <1>4. is(packed)
    <2> HIDE DEF is
    <2> QED
      BY <1>3
  <1>5. Packed(text) = packed[n]
    BY DEF Packed
  <1> HIDE DEF packed
  <1> DEFINE G == {k \in 0..n : PackedSoFar(text, packed[k], k)}
  <1>6. \A k \in 0..n : packed[k] = IF k = 0 THEN <<>> ELSE Pack(text, packed[k - 1], k)
    BY <1>4
  <1> HIDE DEF n, is
  <1>7. 0 \in G
    <2>1. 0 \in 0..n /\ packed[0] = <<>>
      BY <1>0, <1>6
    <2> QED
      BY <1>1, <2>1
  <1>8. ASSUME NEW k \in 1..n, k - 1 \in G PROVE k \in G
    <2>1. k \in 0..n /\ k # 0
      BY <1>0
    <2>2. packed[k] = Pack(text, packed[k - 1], k)
      BY <1>6, <2>1
    <2>3. PackedSoFar(text, Pack(text, packed[k - 1], k), k)
      BY <1>8, OneMorePacked DEF n
    <2> QED
      BY <2>1, <2>2, <2>3
  <1>9. n \in G
    <2> HIDE DEF G
    <2>1. \A k \in 0..n : k \in G
      BY <1>0, <1>7, <1>8, CountingUp
    <2> QED
      BY <1>0, <2>1
  <1> QED
    BY <1>5, <1>9 DEF n

(* However long the paragraphs of a text are, each is in a chunk that is   *)
(* kept: only the first can be a scrap, and the second repeats it.         *)
LEMMA EveryParagraphKept ==
  ASSUME NEW text \in Seq(Nat), NEW p \in 1..Len(text)
  PROVE  \E c \in ChunksOf(text) : p \in c
  <1> DEFINE early == Packed(text)
             m == Len(early)
             size(i) == SizeOf(text, early[i])
  <1>1. /\ early \in Seq((SUBSET (1..Len(text))) \ {{}})
        /\ \A q \in 1..Len(text) : \E i \in 1..m : q \in early[i]
        /\ \A i \in 2..m : size(i - 1) + Separator + size(i) > ChunkLength
    BY PackedWhole DEF PackedSoFar
  <1>2. /\ m \in Nat /\ DOMAIN early = 1..m
        /\ \A i \in 1..m : early[i] \in SUBSET (1..Len(text)) /\ early[i] # {}
    <2> DEFINE C == (SUBSET (1..Len(text))) \ {{}}
    <2>1. early \in Seq(C)
      BY <1>1
    <2> HIDE DEF C, early
    <2>2. m \in Nat /\ DOMAIN early = 1..m /\ \A i \in 1..m : early[i] \in C
      BY <2>1
    <2> QED
      BY <2>2 DEF C
  <1> HIDE DEF early
  <1>3. \A i \in 1..m : size(i) \in Nat
    BY <1>2, SizesAdd
  <1>4. /\ Separator \in Nat /\ MinSize \in Nat /\ Overlap \in Nat /\ MinSize <= Overlap
        /\ ChunkLength \in Nat /\ Overlap < ChunkLength
    BY RagAssumption
  <1>5. \A i \in 1..m : BodySize(text, i) =
           size(i) + (IF i = 1 THEN 0 ELSE Smaller(Overlap, size(i - 1)) + Separator)
    BY DEF BodySize, BareSize, early
  <1>6. Kept(text) = {i \in 1..m : BodySize(text, i) >= MinSize \/ m = 1}
    BY <1>2 DEF Kept, early
  <1>7. ChunksOf(text) =
           {early[i] \cup (IF i = 1 THEN {} ELSE TailOf(text, early[i - 1])) : i \in Kept(text)}
    BY DEF ChunksOf, early
  <1> HIDE DEF m
  <1>8. ASSUME NEW i \in 2..m PROVE i \in Kept(text)
    <2>1. i \in 1..m /\ i - 1 \in 1..m /\ i # 1
      <3>1. m \in Nat
        BY <1>2
      <3> QED
        BY <3>1
    <2>2. BodySize(text, i) = size(i) + Smaller(Overlap, size(i - 1)) + Separator
      BY <1>3, <1>4, <1>5, <2>1 DEF Smaller
    <2>3. size(i) \in Nat /\ size(i - 1) \in Nat
          /\ size(i - 1) + Separator + size(i) > ChunkLength
      BY <1>1, <1>3, <2>1
    <2>4. BodySize(text, i) >= MinSize
      <3> DEFINE a == size(i)
                 b == size(i - 1)
      <3>1. a \in Nat /\ b \in Nat /\ b + Separator + a > ChunkLength
        BY <2>3
      <3> HIDE DEF a, b
      <3>2. a + Smaller(Overlap, b) + Separator >= MinSize
        <4>1. CASE Overlap < b
          BY <1>4, <3>1, <4>1 DEF Smaller
        <4>2. CASE ~ (Overlap < b)
          BY <1>4, <3>1, <4>2 DEF Smaller
        <4> QED
          BY <4>1, <4>2
      <3> QED
        BY <2>2, <3>2 DEF a, b
    <2> QED
      BY <1>6, <2>1, <2>4
  <1>9. PICK i \in 1..m : p \in early[i]
    BY <1>1
  <1>10. CASE i \in Kept(text)
    <2>1. early[i] \cup (IF i = 1 THEN {} ELSE TailOf(text, early[i - 1])) \in ChunksOf(text)
      BY <1>7, <1>10
    <2> QED
      BY <1>9, <2>1
  <1>11. CASE i \notin Kept(text)
    <2>1. i = 1 /\ m # 1 /\ ~ (BodySize(text, 1) >= MinSize)
      BY <1>2, <1>6, <1>8, <1>11
    <2>2. 1 \in 1..m /\ 2 \in 1..m /\ 2 \in 2..m
      BY <1>2, <2>1
    <2>3. size(1) < MinSize
      BY <1>3, <1>4, <1>5, <2>1, <2>2
    <2>4. p \in TailOf(text, early[1])
      <3> DEFINE c == early[1]
                 d == {q \in c : p <= q}
      <3>1. p \in c /\ c \in SUBSET (1..Len(text)) /\ d \in SUBSET c /\ d \in SUBSET (1..Len(text))
        BY <1>2, <1>9, <2>1, <2>2
      <3>2. SizeOf(text, c) \in Int /\ SizeOf(text, d) \in Int /\ SizeOf(text, d) <= SizeOf(text, c)
        <4> HIDE DEF c, d
        <4> QED
          BY <3>1, SizesAdd
      <3>3. SizeOf(text, d) <= Overlap
        BY <1>4, <2>3, <3>2
      <3> QED
        BY <3>1, <3>3 DEF TailOf
    <2>5. 2 \in Kept(text)
      BY <1>8, <2>2
    <2>6. early[2] \cup TailOf(text, early[1]) \in ChunksOf(text)
      <3>1. early[2] \cup (IF 2 = 1 THEN {} ELSE TailOf(text, early[2 - 1])) \in ChunksOf(text)
        BY <1>7, <2>5
      <3>2. 2 # 1 /\ 2 - 1 = 1
        OBVIOUS
      <3> QED
        BY <3>1, <3>2
    <2> QED
      BY <2>4, <2>6
  <1> QED
    BY <1>10, <1>11

(* Whatever documents are indexed, however the provider and the            *)
(* configuration change meanwhile (chunk_text, index_document).            *)
THEOREM NoWordIsLost == RagSpec => []NoWordLost
  <1> DEFINE I == \A d \in docs \cap Documents : \A c \in ChunksOf(Text[d]) :
                      \E r \in chunks : r.doc = d /\ r.text = c
  <1>1. RagInit => I
    BY DEF RagInit
  <1>2. I /\ [RagNext]_ragVars => I'
    <2> SUFFICES ASSUME I, [RagNext]_ragVars PROVE I'
      OBVIOUS
    <2>1. CASE UNCHANGED <<docs, chunks>>
      BY <2>1
    <2>2. ASSUME NEW e \in Documents, CreateDocument(e) PROVE I'
      <3> SUFFICES ASSUME NEW d \in docs' \cap Documents, NEW c \in ChunksOf(Text[d])
                   PROVE  \E r \in chunks' : r.doc = d /\ r.text = c
        OBVIOUS
      <3>1. /\ docs' = docs \cup {e}
            /\ chunks' = chunks \cup {Row(e, x) : x \in ChunksOf(Text[e])}
        BY <2>2 DEF CreateDocument
      <3>2. CASE d = e
        <4>1. Row(e, c) \in chunks' /\ Row(e, c).doc = e /\ Row(e, c).text = c
          BY <3>1, <3>2 DEF Row
        <4> QED
          BY <3>2, <4>1
      <3>3. CASE d # e
        BY <3>1, <3>3
      <3> QED
        BY <3>2, <3>3
    <2>3. ASSUME NEW n \in News, IndexNews(n) PROVE I'
      <3> SUFFICES ASSUME NEW d \in docs' \cap Documents, NEW c \in ChunksOf(Text[d])
                   PROVE  \E r \in chunks' : r.doc = d /\ r.text = c
        OBVIOUS
      <3>1. docs' = docs \cup {n} /\ chunks \subseteq chunks'
        BY <2>3 DEF IndexNews
      <3>2. d \in docs
        BY <3>1, RagAssumption
      <3> QED
        BY <3>1, <3>2
    <2> QED
      BY <2>1, <2>2, <2>3 DEF RagNext, ProviderTurns, Configure, Search, ragVars
  <1>3. I => NoWordLost
    <2> SUFFICES ASSUME I, NEW d \in docs \cap Documents, NEW p \in DOMAIN Text[d]
                 PROVE  Matches(chunks, d, p) # {}
      BY DEF NoWordLost
    <2>1. Text[d] \in Seq(Nat) /\ p \in 1..Len(Text[d])
      BY RagAssumption
    <2>2. PICK c \in ChunksOf(Text[d]) : p \in c
      BY <2>1, EveryParagraphKept
    <2>3. PICK r \in chunks : r.doc = d /\ r.text = c
      BY <2>2
    <2> QED
      BY <2>2, <2>3 DEF Matches
  <1> QED
    BY <1>1, <1>2, <1>3, PTL DEF RagSpec

-----------------------------------------------------------------------------
(* PriceHistory: the largest and the smallest of some numbers              *)

LEMMA MaxOfSome ==
  ASSUME NEW n \in Nat, NEW S \in SUBSET (1..n), S # {}
  PROVE  Max(S) \in S
  <1> DEFINE T == {n - k : k \in S}
             R == OpToRel(<, Nat)
  <1> HIDE DEF R
  <1>1. T # {} /\ T \subseteq Nat
    <2>1. PICK k \in S : TRUE
      OBVIOUS
    <2>2. n - k \in T
      BY <2>1
    <2>3. \A y \in S : n - y \in Nat
      OBVIOUS
    <2> QED
      BY <2>2, <2>3
  <1>2. PICK x \in T : \A y \in T : ~ (<<y, x>> \in R)
    <2> HIDE DEF T
    <2>1. IsWellFoundedOn(R, Nat)
      BY NatLessThanWellFounded DEF R
    <2> QED
      BY <1>1, <2>1, WFMin
  <1>3. PICK k \in S : x = n - k
    OBVIOUS
  <1>4. ASSUME NEW j \in S PROVE k >= j
    <2>1. n - j \in T
      OBVIOUS
    <2> HIDE DEF T
    <2>2. n - j \in Nat /\ x \in Nat
      BY <1>1, <2>1
    <2>3. ~ (<<n - j, x>> \in R)
      BY <1>2, <2>1
    <2>4. ~ (n - j < x)
      BY <2>2, <2>3 DEF R, OpToRel
    <2>5. j \in Nat /\ k \in Nat
      OBVIOUS
    <2> QED
      BY <1>3, <2>4, <2>5
  <1> QED
    BY <1>3, <1>4 DEF Max

LEMMA MinOfSome ==
  ASSUME NEW S \in SUBSET Nat, S # {}
  PROVE  Min(S) \in S
  BY LeastOfSome DEF Min

-----------------------------------------------------------------------------
(* PriceHistory: what reaches the rows                                     *)

SentBars == [slot : Slots, close : Int, slipped : BOOLEAN]

LEMMA RangeInOrder ==
  ASSUME feed \in [Slots -> Closes], NEW first \in Slots
  PROVE  \E n \in Nat \ {0} : InOrder(first) \in [1..n -> SentBars]
  <1> DEFINE n == LastSlot - first + 1
  <1>1. n \in Nat \ {0} /\ LastSlot \in Nat
    BY HistoryAssumption DEF Slots
  <1>2. \A k \in 1..n : first + k - 1 \in Slots
    BY <1>1 DEF Slots
  <1>3. \A b \in Slots : Bar(b, feed[b], FALSE) \in SentBars
    <2> SUFFICES ASSUME NEW b \in Slots PROVE Bar(b, feed[b], FALSE) \in SentBars
      OBVIOUS
    <2>1. feed[b] \in Nat
      BY HistoryAssumption
    <2> QED
      BY <2>1 DEF SentBars, Bar
  <1>4. InOrder(first) = [k \in 1..n |-> Bar(first + k - 1, feed[first + k - 1], FALSE)]
    BY DEF InOrder
  <1>5. \A k \in 1..n : Bar(first + k - 1, feed[first + k - 1], FALSE) \in SentBars
    BY <1>2, <1>3
  <1> HIDE DEF n
  <1> QED
    BY <1>1, <1>4, <1>5

LEMMA PrintsAreBars ==
  ASSUME NEW n \in Nat \ {0}, NEW range \in [1..n -> SentBars], NEW c \in Closes
  PROVE  PrintedTwice(range, c) \in Seq(SentBars)
  <1> DEFINE early == [range EXCEPT ![n] = [range[n] EXCEPT !.close = c]]
             last == range[n]
  <1>1. PrintedTwice(range, c) = Append(early, last)
    BY DEF PrintedTwice, Last
  <1>2. last \in SentBars /\ [last EXCEPT !.close = c] \in SentBars
    BY HistoryAssumption DEF SentBars
  <1>3. early \in [1..n -> SentBars]
    BY <1>2
  <1> HIDE DEF early, last
  <1>4. early \in Seq(SentBars)
    BY <1>3
  <1> QED
    BY <1>1, <1>2, <1>4

LEMMA AnswersAreBars ==
  ASSUME feed \in [Slots -> Closes], NEW first \in Slots, NEW reply \in Replies(first)
  PROVE  reply \in Seq(SentBars)
  <1>1. PICK n \in Nat \ {0} : InOrder(first) \in [1..n -> SentBars]
    BY RangeInOrder
  <1>2. Slips \subseteq SentBars
    <2> SUFFICES ASSUME NEW b \in Slots, NEW c \in {0, 10 * feed[b]} PROVE Bar(b, c, TRUE) \in SentBars
      BY DEF Slips
    <2>1. feed[b] \in Nat
      BY HistoryAssumption
    <2>2. c \in Int
      BY <2>1
    <2> QED
      BY <2>2 DEF Bar, SentBars
  <1>3. CASE reply = InOrder(first)
    BY <1>1, <1>3
  <1>4. CASE \E c \in Closes : reply = PrintedTwice(InOrder(first), c)
    BY <1>1, <1>4, PrintsAreBars
  <1>5. CASE \E k \in DOMAIN InOrder(first), s \in Slips : reply = [InOrder(first) EXCEPT ![k] = s]
    <2>1. reply \in [1..n -> SentBars]
      BY <1>1, <1>2, <1>5
    <2> QED
      BY <2>1
  <1> QED
    BY <1>3, <1>4, <1>5 DEF Replies

(* Rows to be written, of which none is without a close.                   *)
Writes == UNION {[S -> Nat \ {0}] : S \in SUBSET Slots}

LEMMA OnlyClosesAreWritten ==
  ASSUME NEW reply \in Seq(SentBars)
  PROVE  normalize_candles(reply) \in Writes
  <1> DEFINE of(b) == {k \in validate_candles(reply) : reply[k].slot = b}
             D == {c \in Slots : of(c) # {}}
  <1>1. \A b \in D : reply[Max(of(b))].close \in Nat \ {0}
    <2> SUFFICES ASSUME NEW b \in D PROVE reply[Max(of(b))].close \in Nat \ {0}
      OBVIOUS
    <2>1. of(b) \in SUBSET (1..Len(reply)) /\ of(b) # {} /\ Len(reply) \in Nat
      BY DEF validate_candles
    <2>2. Max(of(b)) \in of(b)
      <3> HIDE DEF of
      <3> QED
        BY <2>1, MaxOfSome
    <2>3. PICK k \in 1..Len(reply) : k = Max(of(b)) /\ ~Impossible(reply[k])
      BY <2>1, <2>2 DEF validate_candles
    <2>4. reply[k] \in SentBars
      OBVIOUS
    <2>5. reply[k].close \in Int /\ ~(reply[k].close <= 0)
      BY <2>3, <2>4 DEF SentBars, Impossible
    <2> QED
      BY <2>3, <2>5
  <1>2. normalize_candles(reply) = [b \in D |-> reply[Max(of(b))].close]
    BY DEF normalize_candles
  <1> HIDE DEF of
  <1>3. [b \in D |-> reply[Max(of(b))].close] \in [D -> Nat \ {0}]
    BY <1>1
  <1> QED
    BY <1>2, <1>3 DEF Writes

-----------------------------------------------------------------------------
(* PriceHistory: what is stored stays computable                           *)

LEMMA MoreComputable ==
  ASSUME NEW s, NEW t, Stored(s) \subseteq Stored(t)
  PROVE  Computable(s) \subseteq Computable(t)
  <1> SUFFICES ASSUME NEW b \in Computable(s) PROVE b \in Computable(t)
    OBVIOUS
  <1> DEFINE upTo(x) == {v \in Stored(x) : v <= b}
  <1>1. upTo(s) \in SUBSET upTo(t) /\ upTo(t) \in SUBSET Slots
    BY DEF Stored
  <1>2. IsFiniteSet(Slots)
    BY HistoryAssumption, FS_Interval DEF Slots
  <1> HIDE DEF upTo
  <1>3. IsFiniteSet(upTo(t))
    BY <1>1, <1>2, FS_Subset
  <1>4. /\ Cardinality(upTo(s)) \in Nat /\ Cardinality(upTo(t)) \in Nat
        /\ Cardinality(upTo(s)) <= Cardinality(upTo(t))
    BY <1>1, <1>3, FS_Subset, FS_CardinalityType
  <1>5. b \in Stored(s) /\ Cardinality(upTo(s)) >= Period
    BY DEF Computable, upTo
  <1>6. Cardinality(upTo(t)) >= Period
    BY <1>4, <1>5, HistoryAssumption
  <1> QED
    BY <1>5, <1>6 DEF Computable, upTo

-----------------------------------------------------------------------------
(* PriceHistory: the inductive invariant                                   *)

HistoryTypes ==
    /\ feed \in [Slots -> Closes]
    /\ prices \in [Slots -> Nat]
    /\ DOMAIN indicators = Slots /\ DOMAIN features = Slots
    /\ DOMAIN ingestion = Ingestions
    /\ mixed \in BOOLEAN

(* A run that is alone still has nobody beside it.                         *)
AloneIsAlone ==
    \A i \in Ingestions : ingestion[i] # NotIngesting /\ ingestion[i].alone =>
        \A j \in Ingestions \ {i} : ingestion[j] = NotIngesting

(* What a run holds at each of its stages: rows with a close, and when it  *)
(* computed, figures of bars that enough stored bars precede; those of a   *)
(* run that is alone are the ones of what it would store.                  *)
Holds(i) ==
    \/ ingestion[i] = NotIngesting
    \/ /\ ingestion[i].alone \in BOOLEAN
       /\ \/ /\ DOMAIN ingestion[i] = {"at", "first", "alone"}
             /\ ingestion[i].at = "asking" /\ ingestion[i].first \in Ranges
          \/ /\ DOMAIN ingestion[i] = {"at", "alone", "insert", "write"}
             /\ ingestion[i].at = "read" /\ ingestion[i].write \in Writes
          \/ /\ DOMAIN ingestion[i] = {"at", "alone", "write"}
             /\ ingestion[i].at = "stored" /\ ingestion[i].write \in Writes
          \/ /\ DOMAIN ingestion[i] = {"at", "alone", "write", "figures", "feature"}
             /\ ingestion[i].at = "computed" /\ ingestion[i].write \in Writes
             /\ DOMAIN ingestion[i].figures.write \subseteq Computable(Series(i))
             /\ ingestion[i].alone => /\ ingestion[i].figures = Figures(Series(i))
                                      /\ ingestion[i].feature = Feature(Series(i))

RowsAreComputable == \A b \in Slots : indicators[b] # NoFigure => b \in Computable(prices)

HistoryInv ==
    /\ HistoryTypes
    /\ AloneIsAlone
    /\ \A i \in Ingestions : Holds(i)
    /\ RowsAreComputable
    /\ DerivedFollowsPrices

LEMMA HistoryInitially == HistoryInit => HistoryInv
  <1> SUFFICES ASSUME HistoryInit PROVE HistoryInv
    OBVIOUS
  <1>1. Min(Closes) \in Closes
    BY HistoryAssumption, MinOfSome
  <1>2. HistoryTypes
    BY <1>1 DEF HistoryInit, HistoryTypes
  <1>3. Stored(prices) = {}
    BY DEF HistoryInit, Stored
  <1>4. \A b \in Slots : indicators[b] = NoFigure /\ indicators[b] = compute(prices, b)
    BY <1>3 DEF HistoryInit, compute, Computable
  <1> QED
    BY <1>2, <1>3, <1>4 DEF HistoryInit, HistoryInv, AloneIsAlone, Holds, RowsAreComputable,
                            DerivedFollowsPrices

(* Prices only come to be.                                                 *)
LEMMA SeriesGrows ==
  ASSUME HistoryTypes, NEW w \in Writes
  PROVE  /\ Written(prices, w) \in [Slots -> Nat]
         /\ Stored(prices) \subseteq Stored(Written(prices, w))
  <1>1. \A b \in DOMAIN w : w[b] \in Nat \ {0}
    BY DEF Writes
  <1>2. \A b \in Slots : prices[b] \in Nat
    BY DEF HistoryTypes
  <1> QED
    BY <1>1, <1>2 DEF Written, Stored

-----------------------------------------------------------------------------
(* PriceHistory: the steps                                                 *)

(* While no run commits, another run's step leaves what this one holds.    *)
LEMMA StillHolds ==
  ASSUME UNCHANGED <<prices, indicators, features>>, NEW j \in Ingestions, Holds(j),
         \/ ingestion'[j] = ingestion[j]
         \/ ingestion[j] # NotIngesting /\ ingestion'[j] = [ingestion[j] EXCEPT !.alone = FALSE]
  PROVE  Holds(j)'
  <1>1. CASE ingestion'[j] = ingestion[j]
    <2>1. Series(j)' = Series(j)
      BY <1>1 DEF Series, Written
    <2>2. Figures(Series(j))' = Figures(Series(j)) /\ Feature(Series(j))' = Feature(Series(j))
      BY <2>1 DEF Figures, Feature
    <2>3. Computable(Series(j))' = Computable(Series(j))
      BY <2>1 DEF Computable, Stored
    <2> QED
      BY <1>1, <2>2, <2>3 DEF Holds
  <1>2. CASE ingestion[j] # NotIngesting /\ ingestion'[j] = [ingestion[j] EXCEPT !.alone = FALSE]
    <2> DEFINE r == ingestion[j]
               q == ingestion'[j]
    <2>1. DOMAIN q = DOMAIN r /\ "at" \in DOMAIN r /\ "alone" \in DOMAIN r
      BY <1>2 DEF Holds
    <2>2. q.at = r.at /\ q.alone = FALSE
      BY <1>2, <2>1
    <2>3. \A f \in DOMAIN r \ {"alone"} : q[f] = r[f]
      BY <1>2, <2>1
    <2>4. "write" \in DOMAIN r => q.write = r.write
      BY <2>3
    <2>5. "first" \in DOMAIN r => q.first = r.first
      BY <2>3
    <2>6. "figures" \in DOMAIN r => q.figures = r.figures
      BY <2>3
    <2>7. "write" \in DOMAIN r => Series(j)' = Series(j)
      BY <2>4 DEF Series, Written
    <2>8. Computable(Series(j))' = Computable(Series(j)) \/ "write" \notin DOMAIN r
      BY <2>7 DEF Computable, Stored
    <2> QED
      BY <1>2, <2>1, <2>2, <2>4, <2>5, <2>6, <2>8 DEF Holds
  <1> QED
    BY <1>1, <1>2

LEMMA QuietStep ==
  ASSUME HistoryInv, UNCHANGED <<prices, indicators, features, mixed>>,
         feed' \in [Slots -> Closes], DOMAIN ingestion' = Ingestions,
         \A i \in Ingestions : Holds(i)', AloneIsAlone'
  PROVE  HistoryInv'
  BY DEF HistoryInv, HistoryTypes, RowsAreComputable, DerivedFollowsPrices

(* A run that goes on, or ends, leaves whoever was alone alone.            *)
LEMMA GoingOn ==
  ASSUME HistoryInv, NEW i \in Ingestions, NEW next,
         ingestion' = [ingestion EXCEPT ![i] = next],
         next = NotIngesting \/ (ingestion[i] # NotIngesting /\ next.alone = ingestion[i].alone)
  PROVE  AloneIsAlone' /\ DOMAIN ingestion' = Ingestions
         /\ \A j \in Ingestions \ {i} : ingestion'[j] = ingestion[j]
  BY DEF HistoryInv, HistoryTypes, AloneIsAlone

LEMMA StartStep ==
  ASSUME HistoryInv, NEW i \in Ingestions, NEW first \in Ranges, Start(i, first)
  PROVE  HistoryInv'
  <1>1. ASSUME NEW j \in Ingestions \ {i}
        PROVE  ingestion'[j] = IF j \in Flying THEN [ingestion[j] EXCEPT !.alone = FALSE] ELSE NotIngesting
    BY DEF Start
  <1>2. ingestion'[i] = [at |-> "asking", first |-> first, alone |-> (Flying = {})]
    BY DEF Start
  <1>3. \A j \in Ingestions : Holds(j)'
    <2>1. Holds(i)'
      BY <1>2 DEF Holds
    <2>2. ASSUME NEW j \in Ingestions \ {i} PROVE Holds(j)'
      <3>1. Holds(j)
        BY DEF HistoryInv
      <3>2. CASE j \in Flying
        BY <1>1, <3>1, <3>2, StillHolds DEF Flying, Start
      <3>3. CASE j \notin Flying
        BY <1>1, <3>3 DEF Holds
      <3> QED
        BY <3>2, <3>3
    <2> QED
      BY <2>1, <2>2
  <1>4. AloneIsAlone'
    <2> SUFFICES ASSUME NEW k \in Ingestions, ingestion'[k] # NotIngesting, ingestion'[k].alone,
                        NEW j \in Ingestions \ {k}
                 PROVE  ingestion'[j] = NotIngesting
      BY DEF AloneIsAlone
    <2>1. k = i
      <3> SUFFICES ASSUME k # i PROVE FALSE
        OBVIOUS
      <3>1. k \in Flying /\ ingestion'[k] = [ingestion[k] EXCEPT !.alone = FALSE]
        BY <1>1
      <3>2. "alone" \in DOMAIN ingestion[k]
        BY <3>1 DEF HistoryInv, Holds, Flying
      <3> QED
        BY <3>1, <3>2
    <2>2. Flying = {}
      <3>1. ingestion'[i].alone = (Flying = {})
        BY <1>2
      <3> QED
        BY <2>1, <3>1
    <2> QED
      BY <1>1, <2>1, <2>2
  <1> QED
    BY <1>3, <1>4, QuietStep DEF Start, HistoryInv, HistoryTypes

LEMMA EndStep ==
  ASSUME HistoryInv, NEW i \in Ingestions, Ended(i),
         UNCHANGED <<feed, prices, indicators, features, mixed>>
  PROVE  HistoryInv'
  <1>1. /\ AloneIsAlone' /\ DOMAIN ingestion' = Ingestions
        /\ \A j \in Ingestions \ {i} : ingestion'[j] = ingestion[j]
    BY GoingOn DEF Ended
  <1>2. Holds(i)'
    BY DEF Ended, Holds, HistoryInv, HistoryTypes
  <1>3. \A j \in Ingestions \ {i} : Holds(j)'
    BY <1>1, StillHolds DEF HistoryInv
  <1> QED
    BY <1>1, <1>2, <1>3, QuietStep DEF HistoryInv, HistoryTypes

LEMMA AnswerStep ==
  ASSUME HistoryInv, NEW i \in Ingestions, ingestion[i].at = "asking",
         NEW reply \in Replies(ingestion[i].first), Reply(i, reply)
  PROVE  HistoryInv'
  <1> DEFINE candles == normalize_candles(reply)
             write == [b \in {c \in DOMAIN candles : prices[c] # candles[c]} |-> candles[b]]
             next == [at |-> "read", alone |-> ingestion[i].alone,
                      insert |-> {b \in DOMAIN candles : prices[b] = 0}, write |-> write]
  <1>1. ingestion[i] # NotIngesting /\ ingestion[i].first \in Slots /\ ingestion[i].alone \in BOOLEAN
    BY HistoryAssumption DEF HistoryInv, Holds, NotIngesting
  <1>2. candles \in Writes
    BY <1>1, AnswersAreBars, OnlyClosesAreWritten DEF HistoryInv, HistoryTypes
  <1>3. ingestion' = [ingestion EXCEPT ![i] = next]
    BY DEF Reply
  <1> HIDE DEF candles
  <1>4. write \in Writes
    <2>1. DOMAIN candles \subseteq Slots /\ \A b \in DOMAIN candles : candles[b] \in Nat \ {0}
      BY <1>2 DEF Writes
    <2> DEFINE D == {c \in DOMAIN candles : prices[c] # candles[c]}
    <2>2. D \in SUBSET Slots /\ write \in [D -> Nat \ {0}]
      BY <2>1
    <2> QED
      BY <2>2 DEF Writes
  <1> HIDE DEF write
  <1>5. /\ AloneIsAlone' /\ DOMAIN ingestion' = Ingestions
        /\ \A j \in Ingestions \ {i} : ingestion'[j] = ingestion[j]
    BY <1>1, <1>3, GoingOn
  <1>6. Holds(i)'
    <2>1. ingestion'[i] = next
      BY <1>3 DEF HistoryInv, HistoryTypes
    <2> QED
      BY <1>1, <1>4, <2>1 DEF Holds
  <1>7. \A j \in Ingestions \ {i} : Holds(j)'
    BY <1>5, StillHolds DEF HistoryInv, Reply
  <1> QED
    BY <1>5, <1>6, <1>7, QuietStep DEF HistoryInv, HistoryTypes, Reply

LEMMA StoreStep ==
  ASSUME HistoryInv, NEW i \in Ingestions, Store(i)
  PROVE  HistoryInv'
  <1> DEFINE next == [at |-> "stored", alone |-> ingestion[i].alone, write |-> ingestion[i].write]
  <1>1. ingestion[i] # NotIngesting /\ ingestion[i].alone \in BOOLEAN /\ ingestion[i].write \in Writes
    BY DEF Store, HistoryInv, Holds, NotIngesting
  <1>2. CASE Ended(i)
    BY <1>2, EndStep DEF Store
  <1>3. CASE ingestion' = [ingestion EXCEPT ![i] = next]
    <2>1. /\ AloneIsAlone' /\ DOMAIN ingestion' = Ingestions
          /\ \A j \in Ingestions \ {i} : ingestion'[j] = ingestion[j]
      BY <1>1, <1>3, GoingOn
    <2>2. Holds(i)'
      <3>1. ingestion'[i] = next
        BY <1>3 DEF HistoryInv, HistoryTypes
      <3> QED
        BY <1>1, <3>1 DEF Holds
    <2>3. \A j \in Ingestions \ {i} : Holds(j)'
      BY <2>1, StillHolds DEF HistoryInv, Store
    <2> QED
      BY <2>1, <2>2, <2>3, QuietStep DEF HistoryInv, HistoryTypes, Store
  <1> QED
    BY <1>2, <1>3 DEF Store, Ended

LEMMA ComputeStep ==
  ASSUME HistoryInv, NEW i \in Ingestions, Compute(i)
  PROVE  HistoryInv'
  <1> DEFINE next == [at |-> "computed", alone |-> ingestion[i].alone, write |-> ingestion[i].write,
                      figures |-> Figures(Series(i)), feature |-> Feature(Series(i))]
  <1>1. ingestion[i] # NotIngesting /\ ingestion[i].alone \in BOOLEAN /\ ingestion[i].write \in Writes
    BY DEF Compute, HistoryInv, Holds, NotIngesting
  <1>2. ingestion' = [ingestion EXCEPT ![i] = next]
    BY DEF Compute
  <1>3. /\ AloneIsAlone' /\ DOMAIN ingestion' = Ingestions
        /\ \A j \in Ingestions \ {i} : ingestion'[j] = ingestion[j]
    BY <1>1, <1>2, GoingOn
  <1>4. ingestion'[i] = next
    BY <1>2 DEF HistoryInv, HistoryTypes
  <1>5. /\ Series(i)' = Series(i)
        /\ Figures(Series(i))' = Figures(Series(i)) /\ Feature(Series(i))' = Feature(Series(i))
        /\ Computable(Series(i))' = Computable(Series(i))
    <2>1. ingestion'[i].write = ingestion[i].write
      BY <1>4
    <2>2. Series(i)' = Series(i)
      BY <2>1 DEF Series, Written, Compute
    <2> QED
      BY <2>2 DEF Figures, Feature, Computable, Stored, compute, Window, compute_features, Compute
  <1>6. DOMAIN Figures(Series(i)).write \subseteq Computable(Series(i))
    BY DEF Figures
  <1>7. Holds(i)'
    BY <1>1, <1>4, <1>5, <1>6 DEF Holds
  <1>8. \A j \in Ingestions \ {i} : Holds(j)'
    BY <1>3, StillHolds DEF HistoryInv, Compute
  <1> QED
    BY <1>3, <1>7, <1>8, QuietStep DEF HistoryInv, HistoryTypes, Compute

LEMMA CommitStep ==
  ASSUME HistoryInv, NEW i \in Ingestions, CommitRun(i)
  PROVE  HistoryInv'
  <1> DEFINE f == ingestion[i].figures
             s == ingestion[i].feature
             taken == {b \in f.insert : indicators[b] # NoFigure}
                      \cup {b \in s.insert : features[b] # NoFeature}
  <1>1. /\ ingestion[i] # NotIngesting /\ ingestion[i].alone \in BOOLEAN /\ ingestion[i].write \in Writes
        /\ DOMAIN f.write \subseteq Computable(Series(i))
        /\ ingestion[i].alone => f = Figures(Series(i)) /\ s = Feature(Series(i))
    BY DEF CommitRun, HistoryInv, Holds, NotIngesting
  <1>2. Ended(i)
    BY DEF CommitRun
  <1>3. CASE taken # {}
    BY <1>2, <1>3, EndStep DEF CommitRun
  <1>4. CASE taken = {}
    <2>1. /\ prices' = Series(i)
          /\ indicators' = Written(indicators, f.write)
          /\ features' = Written(features, s.write)
          /\ mixed' = ~ingestion[i].alone
          /\ feed' = feed
      BY <1>4 DEF CommitRun
    <2>2. prices' = Written(prices, ingestion[i].write)
      BY <2>1 DEF Series
    <2>3. prices' \in [Slots -> Nat] /\ Stored(prices) \subseteq Stored(prices')
      BY <1>1, <2>2, SeriesGrows DEF HistoryInv
    <2>4. HistoryTypes'
      BY <1>1, <1>2, <2>1, <2>3 DEF HistoryInv, HistoryTypes, Written, Ended
    <2>5. /\ AloneIsAlone'
          /\ \A j \in Ingestions \ {i} : ingestion'[j] = ingestion[j]
      BY <1>2, GoingOn DEF Ended
    <2>6. ingestion'[i] = NotIngesting
      BY <1>2 DEF Ended, HistoryInv, HistoryTypes
    <2>7. ASSUME NEW j \in Ingestions \ {i} PROVE Holds(j)'
      <3>1. Holds(j) /\ ingestion'[j] = ingestion[j]
        BY <2>5 DEF HistoryInv
      <3>2. ingestion[j] # NotIngesting => ~ingestion[j].alone
        BY <1>1 DEF HistoryInv, AloneIsAlone
      <3>3. ingestion[j] # NotIngesting /\ ingestion[j].at = "computed"
              => Computable(Series(j)) \subseteq Computable(Series(j)')
        <4> SUFFICES ASSUME ingestion[j] # NotIngesting, ingestion[j].at = "computed"
                     PROVE  Computable(Series(j)) \subseteq Computable(Series(j)')
          OBVIOUS
        <4>1. Series(j)' = Written(prices', ingestion[j].write)
          BY <3>1 DEF Series, Written
        <4>2. Stored(Series(j)) \subseteq Stored(Series(j)')
          BY <2>3, <4>1 DEF Stored, Series, Written
        <4> QED
          BY <4>2, MoreComputable
      <3>4. Computable(Series(j))' = Computable(Series(j)')
        BY DEF Computable, Stored
      <3> QED
        BY <3>1, <3>2, <3>3, <3>4 DEF Holds
    <2>8. Holds(i)'
      BY <2>6 DEF Holds
    <2>9. Computable(prices) \subseteq Computable(prices')
      BY <2>3, MoreComputable
    <2>10. RowsAreComputable'
      <3> SUFFICES ASSUME NEW b \in Slots, indicators'[b] # NoFigure PROVE b \in Computable(prices')
        BY DEF RowsAreComputable, Computable, Stored
      <3>1. CASE b \in DOMAIN f.write
        BY <1>1, <2>1, <3>1
      <3>2. CASE b \notin DOMAIN f.write
        <4>1. indicators[b] # NoFigure
          BY <2>1, <3>2 DEF Written
        <4> QED
          BY <2>9, <4>1 DEF HistoryInv, RowsAreComputable
      <3> QED
        BY <3>1, <3>2
    <2>11. DerivedFollowsPrices'
      <3> SUFFICES ASSUME ingestion[i].alone
                   PROVE  /\ \A b \in Slots : indicators'[b] = compute(prices', b)
                          /\ Stored(prices') # {} =>
                                 features'[Max(Stored(prices'))] = compute_features(prices')
        BY <1>1, <2>1 DEF DerivedFollowsPrices, compute, Computable, Window, Stored, compute_features
      <3>1. f = Figures(prices') /\ s = Feature(prices')
        BY <1>1, <2>1
      <3>2. ASSUME NEW b \in Slots PROVE indicators'[b] = compute(prices', b)
        <4>1. indicators'[b] = IF b \in DOMAIN f.write THEN f.write[b] ELSE indicators[b]
          BY <2>1 DEF Written
        <4>2. f.write = [c \in {d \in Computable(prices') : compute(prices', d) # indicators[d]}
                             |-> compute(prices', c)]
          BY <3>1 DEF Figures
        <4>3. CASE b \in Computable(prices')
          BY <4>1, <4>2, <4>3
        <4>4. CASE b \notin Computable(prices')
          <5>1. indicators[b] = NoFigure
            BY <2>9, <4>4 DEF HistoryInv, RowsAreComputable
          <5> QED
            BY <4>1, <4>2, <4>4, <5>1 DEF compute
        <4> QED
          BY <4>3, <4>4
      <3>3. ASSUME Stored(prices') # {}
            PROVE  features'[Max(Stored(prices'))] = compute_features(prices')
        <4>1. Max(Stored(prices')) \in Slots
          <5>1. Stored(prices') \in SUBSET (1..LastSlot) /\ LastSlot \in Nat
            BY HistoryAssumption DEF Stored, Slots
          <5>2. Max(Stored(prices')) \in Stored(prices')
            BY <3>3, <5>1, MaxOfSome
          <5> QED
            BY <5>2 DEF Stored
        <4>2. s.write = [b \in {Max(Stored(prices'))} |-> compute_features(prices')]
          BY <3>1, <3>3 DEF Feature
        <4> QED
          BY <2>1, <4>1, <4>2 DEF Written
      <3> QED
        BY <3>2, <3>3
    <2> QED
      BY <2>4, <2>5, <2>7, <2>8, <2>10, <2>11 DEF HistoryInv
  <1> QED
    BY <1>3, <1>4

LEMMA HistoryStep == HistoryInv /\ [HistoryNext]_historyVars => HistoryInv'
  <1> SUFFICES ASSUME HistoryInv, [HistoryNext]_historyVars PROVE HistoryInv'
    OBVIOUS
  <1>1. CASE UNCHANGED historyVars
    <2>1. \A i \in Ingestions : Holds(i)'
      BY <1>1, StillHolds DEF HistoryInv, historyVars
    <2> QED
      BY <1>1, <2>1, QuietStep DEF HistoryInv, HistoryTypes, AloneIsAlone, historyVars
  <1>2. ASSUME NEW b \in Slots, NEW price \in Closes, Revise(b, price) PROVE HistoryInv'
    <2>1. \A i \in Ingestions : Holds(i)'
      BY <1>2, StillHolds DEF HistoryInv, Revise
    <2>2. feed' \in [Slots -> Closes]
      BY <1>2 DEF Revise, HistoryInv, HistoryTypes
    <2> QED
      BY <1>2, <2>1, <2>2, QuietStep DEF HistoryInv, HistoryTypes, AloneIsAlone, Revise
  <1>3. ASSUME NEW i \in Ingestions,
               \/ \E first \in Ranges : Start(i, first)
               \/ \E caller \in {"job", "route"} : Unavailable(i, caller)
               \/ Store(i) \/ Compute(i) \/ CommitRun(i) \/ Abandon(i)
               \/ /\ ingestion[i].at = "asking"
                  /\ \E reply \in Replies(ingestion[i].first) : Reply(i, reply)
        PROVE  HistoryInv'
    <2>1. CASE \E first \in Ranges : Start(i, first)
      BY <2>1, StartStep
    <2>2. CASE (\E caller \in {"job", "route"} : Unavailable(i, caller)) \/ Abandon(i)
      BY <2>2, EndStep DEF Unavailable, Abandon
    <2> QED
      BY <1>3, <2>1, <2>2, StoreStep, ComputeStep, CommitStep, AnswerStep
  <1> QED
    BY <1>1, <1>2, <1>3 DEF HistoryNext

(* The stored indicators and the features at the newest bar are those of   *)
(* the stored prices, for any length of the history, any look-back and any *)
(* number of overlapping ingestions, from the next one on that has run by  *)
(* itself (jobs/handlers.py backfill_market_data, indicators/engine.py     *)
(* persist).                                                               *)
THEOREM DerivedIsOfStored == HistorySpec => []DerivedFollowsPrices
  <1> QED
    BY HistoryInitially, HistoryStep, PTL DEF HistorySpec, HistoryInv

-----------------------------------------------------------------------------
(* PriceHistory: what validation takes out                                 *)

(* A bar that is right has a price an asset trades at; a slip is an empty  *)
(* one or ten times such a price.                                          *)
Tells(bar) == IF bar.slipped THEN bar.close = 0 \/ \E c \in Closes : bar.close = 10 * c
              ELSE bar.close \in Closes

LEMMA OneSlipAtMost ==
  ASSUME feed \in [Slots -> Closes], NEW first \in Slots, NEW reply \in Replies(first)
  PROVE  /\ \A k \in DOMAIN reply : Tells(reply[k])
         /\ \A j, k \in DOMAIN reply : reply[j].slipped /\ reply[k].slipped => j = k
  <1> DEFINE n == LastSlot - first + 1
             range == InOrder(first)
  <1>1. n \in Nat \ {0}
    BY HistoryAssumption DEF Slots
  <1>2. DOMAIN range = 1..n /\ \A k \in 1..n : range[k].slipped = FALSE /\ range[k].close \in Closes
    <2>1. range = [k \in 1..n |-> Bar(first + k - 1, feed[first + k - 1], FALSE)]
      BY DEF InOrder
    <2>2. \A k \in 1..n : first + k - 1 \in Slots
      BY <1>1, HistoryAssumption DEF Slots
    <2> HIDE DEF n
    <2> QED
      BY <2>1, <2>2 DEF Bar
  <1>3. CASE reply = range
    BY <1>2, <1>3 DEF Tells
  <1>4. CASE \E c \in Closes : reply = PrintedTwice(range, c)
    <2>1. PICK c \in Closes : reply = PrintedTwice(range, c)
      BY <1>4
    <2> DEFINE early == [range EXCEPT ![n] = [range[n] EXCEPT !.close = c]]
    <2>2. PICK m \in Nat \ {0} : range \in [1..m -> SentBars]
      BY RangeInOrder
    <2>3. m = n /\ Len(range) = n
      BY <1>1, <1>2, <2>2
    <2>4. range \in [1..n -> SentBars] /\ [range[n] EXCEPT !.close = c] \in SentBars
      <3>1. range \in [1..n -> SentBars]
        BY <2>2, <2>3
      <3>2. range[n] \in SentBars /\ c \in Int
        BY <1>1, <3>1, HistoryAssumption
      <3> HIDE DEF range, n
      <3> QED
        BY <3>1, <3>2 DEF SentBars
    <2>5. early \in Seq(SentBars) /\ Len(early) = n
      BY <1>1, <2>4
    <2>6. reply = Append(early, range[n])
      BY <2>1, <2>3 DEF PrintedTwice, Last
    <2>7. \A k \in 1..n : early[k].slipped = FALSE /\ early[k].close \in Closes
      <3>1. \A k \in 1..n : early[k] = IF k = n THEN [range[n] EXCEPT !.close = c] ELSE range[k]
        BY <2>4
      <3>2. range[n] \in SentBars
        BY <1>1, <2>4
      <3>3. [range[n] EXCEPT !.close = c].slipped = FALSE /\ [range[n] EXCEPT !.close = c].close = c
        BY <1>1, <1>2, <3>2 DEF SentBars
      <3> HIDE DEF early, range, n
      <3> QED
        BY <1>2, <3>1, <3>3
    <2>8. DOMAIN reply = 1..(n + 1) /\ reply[n + 1] = range[n] /\ \A k \in 1..n : reply[k] = early[k]
      <3> HIDE DEF early, range, n
      <3> QED
        BY <1>1, <2>4, <2>5, <2>6
    <2>9. \A k \in 1..(n + 1) : reply[k].slipped = FALSE /\ reply[k].close \in Closes
      <3>1. \A k \in 1..(n + 1) : k \in 1..n \/ k = n + 1
        BY <1>1
      <3> HIDE DEF early, range, n
      <3> QED
        BY <1>1, <1>2, <2>7, <2>8, <3>1
    <2> QED
      BY <2>8, <2>9 DEF Tells
  <1>5. CASE \E k \in DOMAIN range, s \in Slips : reply = [range EXCEPT ![k] = s]
    <2>1. PICK k \in DOMAIN range, s \in Slips : reply = [range EXCEPT ![k] = s]
      BY <1>5
    <2>2. Tells(s)
      BY DEF Slips, Bar, Tells
    <2>3. DOMAIN reply = DOMAIN range /\ \A j \in DOMAIN range : reply[j] = IF j = k THEN s ELSE range[j]
      BY <1>2, <2>1
    <2> HIDE DEF range
    <2> QED
      BY <1>2, <2>2, <2>3 DEF Tells
  <1> QED
    BY <1>3, <1>4, <1>5 DEF Replies

(* The last accepted close, bar by bar.                                    *)
LEMMA LastValidIs ==
  ASSUME NEW reply \in Seq(SentBars)
  PROVE  /\ LastValid(reply)[0] = 0
         /\ \A k \in 1..Len(reply) :
               LastValid(reply)[k] =
                   IF Impossible(reply[k]) \/ Outlier(LastValid(reply)[k - 1], reply[k])
                   THEN LastValid(reply)[k - 1] ELSE reply[k].close
  <1> DEFINE n == Len(reply)
             next(v, k) == IF Impossible(reply[k]) \/ Outlier(v, reply[k]) THEN v ELSE reply[k].close
             F == [k \in 1..n |-> [v \in Int |-> next(v, k)]]
             is(g) == g = [k \in 0..n |-> IF k = 0 THEN 0 ELSE next(g[k - 1], k)]
  <1>0. n \in Nat /\ \A k \in 1..n : reply[k].close \in Int
    <2>1. \A k \in 1..n : reply[k] \in SentBars
      OBVIOUS
    <2> QED
      BY <2>1 DEF SentBars
  <1>1. F \in [1..n -> [Int -> Int]]
    BY <1>0
  <1>2. \A v \in Int, k \in 1..n : F[k][v] = next(v, k)
    OBVIOUS
  <1>3. \E g : is(g)
    <2> DEFINE z == 0
               R == Int
    <2>1. z \in R /\ F \in [1..n -> [R -> R]]
      BY <1>1
    <2> HIDE DEF F, n, z, R
    <2>0. PICK g : Passes(g, n, R, z, F)
      BY <1>0, <2>1, PassesExist
    <2>2. g \in [0..n -> R] /\ g[0] = z /\ \A k \in 1..n : g[k] = F[k][g[k - 1]]
      BY <2>0 DEF Passes
    <2> HIDE DEF next
    <2>3. ASSUME NEW k \in 1..n PROVE g[k] = next(g[k - 1], k)
      <3>1. k - 1 \in 0..n
        BY <1>0
      <3>2. g[k - 1] \in Int
        BY <2>2, <3>1 DEF R
      <3> QED
        BY <1>2, <2>2, <3>2
    <2>4. ASSUME NEW k \in 0..n PROVE g[k] = IF k = 0 THEN 0 ELSE next(g[k - 1], k)
      <3>1. k = 0 \/ k \in 1..n
        BY <1>0
      <3>2. ~ (0 \in 1..n)
        OBVIOUS
      <3> QED
        BY <2>2, <2>3, <3>1, <3>2 DEF z
    <2>5. g = [k \in 0..n |-> g[k]]
      BY <2>2
    <2>6. is(g)
      BY <2>4, <2>5
    <2> QED
      BY <2>6
  <1>4. LastValid(reply) = CHOOSE g : is(g)
    BY DEF LastValid
  <1>5. is(LastValid(reply))
    <2> HIDE DEF is
    <2> QED
      BY <1>3, <1>4
  <1> DEFINE last == LastValid(reply)
  <1> HIDE DEF last
  <1>6. is(last)
    BY <1>5 DEF last
  <1>7. last[0] = 0 /\ \A k \in 1..n : last[k] = next(last[k - 1], k)
    <2> HIDE DEF next, n
    <2>1. \A k \in 0..n : last[k] = IF k = 0 THEN 0 ELSE next(last[k - 1], k)
      BY <1>6
    <2>2. 0 \in 0..n /\ \A k \in 1..n : k \in 0..n /\ k # 0
      BY <1>0
    <2> QED
      BY <2>1, <2>2
  <1> QED
    BY <1>7 DEF last

(* Prices within half of one another: one that an asset trades at does not *)
(* stand out after another, and ten times one does.                        *)
LEMMA OutliersAreSlips ==
  ASSUME ModestMoves, NEW d \in Closes, NEW bar \in SentBars, Tells(bar), ~Impossible(bar)
  PROVE  Outlier(d, bar) <=> bar.slipped
  <1>1. d \in Nat \ {0}
    BY HistoryAssumption
  <1>2. ASSUME NEW x \in Nat
        PROVE  Max({x, d}) = (IF x >= d THEN x ELSE d) /\ Min({x, d}) = (IF x >= d THEN d ELSE x)
    BY <1>1 DEF Max, Min
  <1>3. CASE ~bar.slipped
    <2>1. bar.close \in Closes
      BY <1>3 DEF Tells
    <2>2. 2 * (Max({bar.close, d}) - Min({bar.close, d})) <= d
      BY <2>1 DEF ModestMoves
    <2>3. bar.close \in Nat
      BY <2>1, HistoryAssumption
    <2>4. Max({bar.close, d}) \in Nat /\ Min({bar.close, d}) \in Nat
      BY <1>1, <1>2, <2>3
    <2>5. ~ (2 * (Max({bar.close, d}) - Min({bar.close, d})) > d)
      BY <1>1, <2>2, <2>4
    <2> QED
      BY <1>3, <2>5 DEF Outlier
  <1>4. CASE bar.slipped
    <2>1. PICK c \in Closes : bar.close = 10 * c
      BY <1>4 DEF Tells, Impossible
    <2>2. c \in Nat \ {0}
      BY HistoryAssumption
    <2>3. 2 * (Max({c, d}) - Min({c, d})) <= c
      <3>1. 2 * (Max({d, c}) - Min({d, c})) <= c
        BY DEF ModestMoves
      <3>2. {d, c} = {c, d}
        OBVIOUS
      <3> QED
        BY <3>1, <3>2
    <2>4. 2 * d <= 3 * c
      BY <1>1, <1>2, <2>2, <2>3
    <2>5. 10 * c \in Nat /\ 10 * c >= d
      BY <1>1, <2>2, <2>4
    <2>6. 2 * (10 * c - d) > d
      BY <1>1, <2>2, <2>4
    <2>7. Max({10 * c, d}) = 10 * c /\ Min({10 * c, d}) = d
      BY <1>2, <2>5
    <2> QED
      BY <1>1, <1>4, <2>1, <2>6, <2>7 DEF Outlier
  <1> QED
    BY <1>3, <1>4

(* Whichever bars are wrong and in whichever way, if a misplaced decimal   *)
(* point is preceded by a bar that is right: those are taken out, and no   *)
(* others are.                                                             *)
LEMMA ValidationIsExact ==
  ASSUME ModestMoves,
         NEW reply \in Seq(SentBars), \A k \in 1..Len(reply) : Tells(reply[k]),
         \A k \in 1..Len(reply) : reply[k].slipped /\ ~Impossible(reply[k]) =>
             \E j \in 1..Len(reply) : j < k /\ ~reply[j].slipped
  PROVE  validate_candles(reply) = {k \in DOMAIN reply : ~reply[k].slipped}
  <1> DEFINE n == Len(reply)
             last == LastValid(reply)
             good(k) == \E j \in 1..k : ~reply[j].slipped
             G == {k \in 0..n : last[k] \in Closes \cup {0} /\ (last[k] = 0 <=> ~good(k))}
             rejected(k) == Impossible(reply[k]) \/ Outlier(last[k - 1], reply[k])
  <1>0. /\ n \in Nat /\ DOMAIN reply = 1..n
        /\ \A k \in 1..n : reply[k] \in SentBars /\ Tells(reply[k])
    OBVIOUS
  <1>1. last[0] = 0 /\ \A k \in 1..n : last[k] = IF rejected(k) THEN last[k - 1] ELSE reply[k].close
    BY LastValidIs
  <1> HIDE DEF last, n
  <1>2. ASSUME NEW k \in 1..n, k - 1 \in G
        PROVE  rejected(k) <=> reply[k].slipped
    <2>1. CASE Impossible(reply[k])
      <3>1. reply[k].slipped
        <4> SUFFICES ASSUME ~reply[k].slipped PROVE FALSE
          OBVIOUS
        <4>1. reply[k].close \in Closes
          BY <1>0 DEF Tells
        <4>2. reply[k].close \in Nat \ {0}
          BY <4>1, HistoryAssumption
        <4> QED
          BY <2>1, <4>2 DEF Impossible
      <3> QED
        BY <2>1, <3>1
    <2>2. CASE ~Impossible(reply[k]) /\ last[k - 1] = 0
      <3>1. ~good(k - 1)
        BY <1>2, <2>2
      <3>2. ~reply[k].slipped
        BY <1>0, <2>2, <3>1 DEF n
      <3> QED
        BY <2>2, <3>2 DEF Outlier
    <2>3. CASE ~Impossible(reply[k]) /\ last[k - 1] # 0
      <3>1. last[k - 1] \in Closes
        BY <1>2, <2>3
      <3> QED
        BY <1>0, <2>3, <3>1, OutliersAreSlips
    <2> QED
      BY <2>1, <2>2, <2>3
  <1>3. 0 \in G
    BY <1>0, <1>1
  <1>4. ASSUME NEW k \in 1..n, k - 1 \in G PROVE k \in G
    <2>1. k \in 0..n /\ k \in Nat /\ 1..k = 1..(k - 1) \cup {k}
      BY <1>0
    <2>2. good(k) <=> good(k - 1) \/ ~reply[k].slipped
      BY <2>1
    <2>3. last[k - 1] \in Closes \cup {0} /\ (last[k - 1] = 0 <=> ~good(k - 1))
      BY <1>4
    <2>4. CASE reply[k].slipped
      <3>1. last[k] = last[k - 1]
        BY <1>1, <1>2, <1>4, <2>4
      <3> HIDE DEF good
      <3> QED
        BY <2>1, <2>2, <2>3, <2>4, <3>1
    <2>5. CASE ~reply[k].slipped
      <3>1. last[k] = reply[k].close
        BY <1>1, <1>2, <1>4, <2>5
      <3>2. reply[k].close \in Closes /\ reply[k].close # 0
        BY <1>0, <2>5, HistoryAssumption DEF Tells
      <3> HIDE DEF good
      <3> QED
        BY <2>1, <2>2, <2>5, <3>1, <3>2
    <2> QED
      BY <2>4, <2>5
  <1>5. \A k \in 1..n : k - 1 \in G
    <2> HIDE DEF G
    <2>1. \A k \in 0..n : k \in G
      BY <1>0, <1>3, <1>4, CountingUp
    <2> QED
      BY <1>0, <2>1
  <1>6. \A k \in 1..n : rejected(k) <=> reply[k].slipped
    BY <1>2, <1>5
  <1>7. validate_candles(reply) = {k \in DOMAIN reply : ~rejected(k)}
    BY DEF validate_candles, last
  <1> HIDE DEF rejected
  <1> QED
    BY <1>0, <1>6, <1>7

(* Whichever bar of a range is wrong, and whatever the asset trades at as  *)
(* long as it does not jump (validate_candles).                            *)
THEOREM OnlySlipsAreRejected ==
  ASSUME ModestMoves PROVE HistorySpec => []OnlySlipsRejected
  <1>1. HistoryInv => OnlySlipsRejected
    <2> SUFFICES ASSUME HistoryInv, NEW i \in Ingestions, ingestion[i].at = "asking",
                        NEW reply \in Replies(ingestion[i].first),
                        reply[1].slipped => Impossible(reply[1])
                 PROVE  validate_candles(reply) = {k \in DOMAIN reply : ~reply[k].slipped}
      BY DEF OnlySlipsRejected
    <2>1. feed \in [Slots -> Closes] /\ ingestion[i].first \in Slots
      <3>1. feed \in [Slots -> Closes] /\ Holds(i)
        BY DEF HistoryInv, HistoryTypes
      <3>2. ingestion[i] # NotIngesting
        BY DEF NotIngesting
      <3>3. ingestion[i].first \in Ranges
        BY <3>1, <3>2 DEF Holds
      <3> QED
        BY <3>1, <3>3, HistoryAssumption
    <2>2. reply \in Seq(SentBars)
      BY <2>1, AnswersAreBars
    <2>3. /\ \A k \in DOMAIN reply : Tells(reply[k])
          /\ \A j, k \in DOMAIN reply : reply[j].slipped /\ reply[k].slipped => j = k
      BY <2>1, OneSlipAtMost
    <2>4. ASSUME NEW k \in 1..Len(reply), reply[k].slipped, ~Impossible(reply[k])
          PROVE  \E j \in 1..Len(reply) : j < k /\ ~reply[j].slipped
      <3>1. k # 1 /\ k \in Nat /\ Len(reply) \in Nat
        BY <2>2, <2>4
      <3>2. 1 \in 1..Len(reply) /\ 1 < k
        BY <3>1
      <3> QED
        BY <2>2, <2>3, <2>4, <3>1, <3>2
    <2> QED
      BY <2>2, <2>3, <2>4, ValidationIsExact
  <1> QED
    BY <1>1, HistoryInitially, HistoryStep, PTL DEF HistorySpec

(* A stored series is the provider's bars without the wrong ones, and the  *)
(* figures derived from it are of what is stored, for any history,         *)
(* look-back and number of overlapping ingestions.                         *)
THEOREM SeriesIsAlwaysRight ==
  ASSUME ModestMoves PROVE HistorySpec => []SeriesIsRight
  <1>1. OnlySlipsRejected /\ DerivedFollowsPrices => SeriesIsRight
    BY DEF SeriesIsRight
  <1> QED
    BY <1>1, OnlySlipsAreRejected, DerivedIsOfStored, PTL
=============================================================================
