------------------------------- MODULE DataProofs -------------------------------
(***************************************************************************)
(* What the operators that the models share compute, for data of any size: *)
(* sums over finite functions (FoldFunction of the community modules, with *)
(* which the models add cubes, money and ledger entries), and any number   *)
(* of draws from a deck (CardPiles).  Each is a recursive function inside  *)
(* an operator; what it computes is proved by induction on a number, the   *)
(* first number for which it fails.                                        *)
(***************************************************************************)
EXTENDS CardPiles, Integers, FiniteSets, Functions, FiniteSetTheorems,
        WellFoundedInduction, TLAPS

\* A non-empty set of natural numbers has a least element: induction without
\* a predicate as a parameter.
LEMMA LeastNumber ==
  ASSUME NEW E \in SUBSET Nat, E # {}
  PROVE  \E m \in E : \A k \in E : m <= k
<1> DEFINE R == OpToRel(<, Nat)
<1>1. IsWellFoundedOn(R, Nat)
  BY NatLessThanWellFounded
<1>2. \A a, b \in Nat : <<a, b>> \in R <=> a < b
  BY DEF OpToRel
<1> HIDE DEF R
<1>3. PICK m \in E : \A k \in E : ~ (<<k, m>> \in R)
  BY <1>1, WFMin
<1>4. \A k \in E : ~ (k < m)
  BY <1>2, <1>3
<1> QED BY <1>4

-------------------------------------------------------------------------------
(***************************************************************************)
(* Sums.                                                                   *)
(***************************************************************************)
\* The sum of v over S.
SumOver(v, S) == FoldFunctionOnSet(+, 0, v, S)

\* The sum over T, given the sums g over smaller sets.
Summand(v, g, T) ==
  IF T = {} THEN 0
  ELSE LET x == CHOOSE x \in T : TRUE IN v[x] + g[T \ {x}]

Sums(v, g, S) == [T \in SUBSET S |-> Summand(v, g, T)]

\* The definition of the community module, without its operator parameters.
LEMMA SumByIteration ==
  ASSUME NEW v, NEW S
  PROVE  SumOver(v, S) = (CHOOSE g : g = Sums(v, g, S))[S]
BY DEF SumOver, FoldFunctionOnSet, MapThenFoldSet, Sums, Summand

\* The sums over all subsets of a finite set exist, whatever is added up.
LEMMA SumsExist ==
  ASSUME NEW v, NEW S, IsFiniteSet(S)
  PROVE  \E g : g = Sums(v, g, S)
<1> DEFINE Small(n) == {T \in SUBSET S : Cardinality(T) <= n}
           L(g, n) == [T \in Small(n) |-> Summand(v, g, T)]
           Bad == {n \in Nat : ~ \E g : g = L(g, n)}
<1>1. \A T \in SUBSET S : IsFiniteSet(T) /\ Cardinality(T) \in Nat /\ Cardinality(T) <= Cardinality(S)
  BY FS_Subset, FS_CardinalityType
<1>2. \A T \in SUBSET S : T # {} =>
        LET U == T \ {CHOOSE x \in T : TRUE}
        IN  U \in SUBSET S /\ Cardinality(U) = Cardinality(T) - 1 /\ Cardinality(U) \in Nat
  <2> TAKE T \in SUBSET S
  <2> HAVE T # {}
  <2> DEFINE c == CHOOSE x \in T : TRUE
  <2>1. c \in T
    OBVIOUS
  <2> HIDE DEF c
  <2>2. IsFiniteSet(T) /\ T \ {c} \in SUBSET S
    BY <1>1
  <2>3. Cardinality(T \ {c}) = Cardinality(T) - 1 /\ Cardinality(T \ {c}) \in Nat
    BY <1>1, <2>1, <2>2, FS_RemoveElement
  <2> QED BY <2>2, <2>3 DEF c
<1>3. Bad = {}
  <2> SUFFICES ASSUME Bad # {} PROVE FALSE
    OBVIOUS
  <2>1. PICK m \in Bad : \A k \in Bad : m <= k
    <3>1. Bad \in SUBSET Nat
      OBVIOUS
    <3> HIDE DEF Bad
    <3> QED BY <3>1, LeastNumber
  <2>2. m \in Nat /\ ~ \E g : g = L(g, m)
    OBVIOUS
  <2>3. CASE m = 0
    <3> DEFINE g == [T \in Small(0) |-> 0]
    <3>1. \A T \in Small(0) : T = {}
      BY <1>1, FS_EmptySet
    <3>2. \A T \in Small(0) : Summand(v, g, T) = 0
      BY <3>1 DEF Summand
    <3>3. g = L(g, 0)
      <4> HIDE DEF Small
      <4>1. g = [T \in Small(0) |-> 0]
        OBVIOUS
      <4> HIDE DEF g
      <4> QED BY <3>2, <4>1
    <3> HIDE DEF g, L, Small
    <3> QED BY <2>2, <2>3, <3>3
  <2>4. CASE m # 0
    <3>1. m - 1 \in Nat /\ ~ (m <= m - 1)
      BY <2>2, <2>4
    <3>2. PICK h : h = L(h, m - 1)
      <4>1. m - 1 \notin Bad
        <5> HIDE DEF Bad
        <5> QED BY <2>1, <3>1
      <4> QED BY <3>1, <4>1
    <3> DEFINE g == [T \in Small(m) |-> IF Cardinality(T) = m THEN Summand(v, h, T) ELSE h[T]]
    <3>3. \A T \in Small(m) : T \in SUBSET S
      OBVIOUS
    <3>4. \A T \in Small(m) : T # {} =>
            LET U == T \ {CHOOSE x \in T : TRUE}
            IN  U \in Small(m - 1) /\ U \in Small(m) /\ Cardinality(U) # m
      <4> TAKE T \in Small(m)
      <4> HAVE T # {}
      <4> DEFINE U == T \ {CHOOSE x \in T : TRUE}
      <4>1. U \in SUBSET S /\ Cardinality(U) = Cardinality(T) - 1 /\ Cardinality(U) \in Nat
        BY <1>2
      <4>2. Cardinality(T) \in Nat /\ Cardinality(T) <= m
        BY <1>1
      <4> HIDE DEF U
      <4>3. Cardinality(U) <= m - 1 /\ Cardinality(U) <= m /\ Cardinality(U) # m
        BY <2>2, <4>1, <4>2
      <4>4. U \in Small(m - 1) /\ U \in Small(m) /\ Cardinality(U) # m
        BY <4>1, <4>3
      <4> QED BY <4>4 DEF U
    <3>5. \A T \in Small(m) : Cardinality(T) # m => T \in Small(m - 1)
      BY <1>1, <2>2
    <3>6. \A T \in Small(m - 1) : h[T] = Summand(v, h, T)
      <4> HIDE DEF Small
      <4>1. \A f : f = L(f, m - 1) => \A T \in Small(m - 1) : f[T] = Summand(v, f, T)
        OBVIOUS
      <4> HIDE DEF L
      <4> QED BY <3>2, <4>1
    <3>7. \A T \in Small(m) : Summand(v, g, T) = Summand(v, h, T)
      <4> TAKE T \in Small(m)
      <4>1. CASE T = {}
        BY <4>1 DEF Summand
      <4>2. CASE T # {}
        <5> DEFINE U == T \ {CHOOSE x \in T : TRUE}
        <5>1. U \in Small(m) /\ Cardinality(U) # m
          BY <3>4, <4>2
        <5> HIDE DEF U, Small
        <5>2. g[U] = h[U]
          BY <5>1
        <5> HIDE DEF g
        <5> QED BY <4>2, <5>2 DEF Summand, U
      <4> QED BY <4>1, <4>2
    <3>8. \A T \in Small(m) : g[T] = Summand(v, g, T)
      <4> TAKE T \in Small(m)
      <4>1. g[T] = IF Cardinality(T) = m THEN Summand(v, h, T) ELSE h[T]
        BY DEF Small
      <4> HIDE DEF Small, g
      <4> QED BY <3>5, <3>6, <3>7, <4>1
    <3>9. g = L(g, m)
      <4> HIDE DEF Small
      <4>1. g = [T \in Small(m) |-> g[T]]
        OBVIOUS
      <4> HIDE DEF g
      <4> QED BY <3>8, <4>1
    <3> HIDE DEF g, L, Small
    <3> QED BY <2>2, <3>9
  <2> QED BY <2>3, <2>4
<1>4. Cardinality(S) \in Nat /\ Small(Cardinality(S)) = SUBSET S
  BY <1>1, FS_CardinalityType
<1>5. \E g : g = L(g, Cardinality(S))
  <2>1. Cardinality(S) \notin Bad
    BY <1>3
  <2> QED BY <1>4, <2>1
<1> HIDE DEF Small
<1> QED BY <1>4, <1>5 DEF Sums

\* g is the sum of v over every subset of S: elements may be taken in any order.
AddsUp(g, v, S) ==
  /\ g \in [SUBSET S -> Int]
  /\ g[{}] = 0
  /\ \A T \in SUBSET S : \A x \in T : g[T] = v[x] + g[T \ {x}]

\* A smallest set of a non-empty family of finite sets.
LEMMA SmallestSet ==
  ASSUME NEW S, IsFiniteSet(S), NEW F \in SUBSET (SUBSET S), F # {}
  PROVE  \E T \in F : \A U \in F : ~ (U \subseteq T /\ U # T)
<1>1. \A T \in F : IsFiniteSet(T) /\ Cardinality(T) \in Nat
  BY FS_Subset, FS_CardinalityType
<1> DEFINE N == {n \in Nat : \E T \in F : n = Cardinality(T)}
<1>2. PICK m \in N : \A k \in N : m <= k
  <2>1. N \in SUBSET Nat /\ N # {}
    BY <1>1
  <2> HIDE DEF N
  <2> QED BY <2>1, LeastNumber
<1>3. PICK T \in F : m = Cardinality(T)
  OBVIOUS
<1>4. ASSUME NEW U \in F, U \subseteq T, U # T
      PROVE  FALSE
  <2>1. Cardinality(U) \in N /\ m \in Nat
    BY <1>1
  <2>2. m <= Cardinality(U) /\ Cardinality(U) \in Nat
    BY <1>1, <1>2, <2>1
  <2>3. Cardinality(U) <= Cardinality(T) /\ (Cardinality(T) = Cardinality(U) => T = U)
    BY <1>1, <1>4, FS_Subset
  <2> QED BY <1>3, <1>4, <2>1, <2>2, <2>3
<1> QED BY <1>4

\* Taking the chosen element first is as good as taking any other one first.
LEMMA SumIs ==
  ASSUME NEW S, IsFiniteSet(S), NEW v, \A x \in S : v[x] \in Int
  PROVE  \E g : AddsUp(g, v, S) /\ SumOver(v, S) = g[S]
<1> DEFINE g == CHOOSE h : h = Sums(v, h, S)
           c(T) == CHOOSE x \in T : TRUE
<1>1. g = Sums(v, g, S)
  BY SumsExist
<1>2. SumOver(v, S) = g[S]
  BY SumByIteration
<1>3. \A T \in SUBSET S : g[T] = Summand(v, g, T)
  <2>1. \A h : h = Sums(v, h, S) => \A T \in SUBSET S : h[T] = Summand(v, h, T)
    BY DEF Sums
  <2> HIDE DEF g
  <2> QED BY <1>1, <2>1
<1>4. DOMAIN g = SUBSET S /\ g = [T \in SUBSET S |-> g[T]]
  <2>1. \A h : h = Sums(v, h, S) => DOMAIN h = SUBSET S /\ h = [T \in SUBSET S |-> h[T]]
    BY DEF Sums
  <2> HIDE DEF g
  <2> QED BY <1>1, <2>1
<1> HIDE DEF g
<1>5. g[{}] = 0
  BY <1>3 DEF Summand
<1>6. \A T \in SUBSET S : T # {} => c(T) \in T /\ g[T] = v[c(T)] + g[T \ {c(T)}]
  BY <1>3 DEF Summand
<1> HIDE DEF c
<1>7. \A T \in SUBSET S : g[T] \in Int
  <2> DEFINE Bad == {T \in SUBSET S : g[T] \notin Int}
  <2> SUFFICES ASSUME Bad # {} PROVE FALSE
    OBVIOUS
  <2>1. PICK T \in Bad : \A U \in Bad : ~ (U \subseteq T /\ U # T)
    <3>1. Bad \in SUBSET (SUBSET S)
      OBVIOUS
    <3> HIDE DEF Bad
    <3> QED BY <3>1, SmallestSet
  <2>2. T # {} /\ T \in SUBSET S
    BY <1>5
  <2>3. T \ {c(T)} \in SUBSET S /\ T \ {c(T)} \subseteq T /\ T \ {c(T)} # T /\ v[c(T)] \in Int
    BY <1>6, <2>2
  <2>4. g[T \ {c(T)}] \in Int
    BY <2>1, <2>3
  <2> QED BY <1>6, <2>2, <2>3, <2>4
<1>8. \A T \in SUBSET S : \A x \in T : g[T] = v[x] + g[T \ {x}]
  <2> DEFINE Bad == {T \in SUBSET S : \E x \in T : g[T] # v[x] + g[T \ {x}]}
  <2> SUFFICES ASSUME Bad # {} PROVE FALSE
    OBVIOUS
  <2>1. PICK T \in Bad : \A U \in Bad : ~ (U \subseteq T /\ U # T)
    <3>1. Bad \in SUBSET (SUBSET S)
      OBVIOUS
    <3> HIDE DEF Bad
    <3> QED BY <3>1, SmallestSet
  <2>2. PICK x \in T : g[T] # v[x] + g[T \ {x}]
    OBVIOUS
  <2> DEFINE y == c(T)
             U == (T \ {x}) \ {y}
  <2>3. T \in SUBSET S /\ y \in T /\ g[T] = v[y] + g[T \ {y}] /\ y # x
    BY <1>6, <2>2
  <2> HIDE DEF y
  <2>4. /\ T \ {x} \in SUBSET S /\ T \ {x} \notin Bad /\ y \in T \ {x}
        /\ T \ {y} \in SUBSET S /\ T \ {y} \notin Bad /\ x \in T \ {y}
        /\ U = (T \ {y}) \ {x} /\ U \in SUBSET S
    BY <2>1, <2>2, <2>3
  <2>5. g[T \ {x}] = v[y] + g[U]
    BY <2>4
  <2>6. g[T \ {y}] = v[x] + g[U]
    BY <2>4
  <2>7. v[x] \in Int /\ v[y] \in Int /\ g[U] \in Int
    BY <1>7, <2>2, <2>3, <2>4
  <2> HIDE DEF U, Bad
  <2> QED BY <2>2, <2>3, <2>5, <2>6, <2>7
<1> QED BY <1>2, <1>4, <1>5, <1>7, <1>8 DEF AddsUp

\* Sums of functions that agree on a set are equal there.
LEMMA SumsAgree ==
  ASSUME NEW S, NEW R, IsFiniteSet(S), NEW v, NEW w, NEW g, NEW h,
         AddsUp(g, v, S), AddsUp(h, w, R),
         NEW T \in SUBSET (S \cap R), \A x \in T : v[x] = w[x]
  PROVE  g[T] = h[T]
<1> DEFINE Bad == {U \in SUBSET T : g[U] # h[U]}
<1> SUFFICES ASSUME Bad # {} PROVE FALSE
  OBVIOUS
<1>1. IsFiniteSet(T)
  BY FS_Subset
<1>2. PICK U \in Bad : \A W \in Bad : ~ (W \subseteq U /\ W # U)
  <2>1. Bad \in SUBSET (SUBSET T)
    OBVIOUS
  <2> HIDE DEF Bad
  <2> QED BY <1>1, <2>1, SmallestSet
<1>3. U # {} /\ U \in SUBSET T /\ g[U] # h[U]
  BY DEF AddsUp
<1>4. PICK x \in U : TRUE
  BY <1>3
<1>5. g[U \ {x}] = h[U \ {x}]
  BY <1>2, <1>3, <1>4
<1>6. g[U] = v[x] + g[U \ {x}] /\ h[U] = w[x] + h[U \ {x}] /\ v[x] = w[x]
  BY <1>3, <1>4 DEF AddsUp
<1> QED BY <1>3, <1>5, <1>6

\* The sum of nothing.
LEMMA SumNone ==
  ASSUME NEW v
  PROVE  SumOver(v, {}) = 0
<1>1. IsFiniteSet({})
  BY FS_EmptySet
<1>2. PICK g : AddsUp(g, v, {}) /\ SumOver(v, {}) = g[{}]
  BY <1>1, SumIs
<1> QED BY <1>2 DEF AddsUp

\* A sum of integers is an integer.
LEMMA SumType ==
  ASSUME NEW S, IsFiniteSet(S), NEW v, \A x \in S : v[x] \in Int
  PROVE  SumOver(v, S) \in Int
<1>1. PICK g : AddsUp(g, v, S) /\ SumOver(v, S) = g[S]
  BY SumIs
<1> QED BY <1>1 DEF AddsUp

\* A sum looks at nothing outside its set.
LEMMA SumSame ==
  ASSUME NEW S, IsFiniteSet(S), NEW v, NEW w,
         \A x \in S : v[x] \in Int /\ v[x] = w[x]
  PROVE  SumOver(v, S) = SumOver(w, S)
<1>1. PICK g : AddsUp(g, v, S) /\ SumOver(v, S) = g[S]
  BY SumIs
<1>2. PICK h : AddsUp(h, w, S) /\ SumOver(w, S) = h[S]
  BY SumIs
<1>3. g[S] = h[S]
  BY <1>1, <1>2, SumsAgree
<1> QED BY <1>1, <1>2, <1>3

\* One element may be added last.
LEMMA SumOne ==
  ASSUME NEW S, IsFiniteSet(S), NEW v, \A x \in S : v[x] \in Int, NEW x \in S
  PROVE  SumOver(v, S) = v[x] + SumOver(v, S \ {x})
<1>1. PICK g : AddsUp(g, v, S) /\ SumOver(v, S) = g[S]
  BY SumIs
<1>2. IsFiniteSet(S \ {x})
  BY FS_Subset
<1>3. PICK h : AddsUp(h, v, S \ {x}) /\ SumOver(v, S \ {x}) = h[S \ {x}]
  BY <1>2, SumIs
<1>4. g[S \ {x}] = h[S \ {x}]
  BY <1>1, <1>2, <1>3, SumsAgree
<1> QED BY <1>1, <1>3, <1>4 DEF AddsUp

\* A sum of natural numbers is one, and none of them exceeds it.
LEMMA SumNat ==
  ASSUME NEW S, IsFiniteSet(S), NEW v, \A x \in S : v[x] \in Nat
  PROVE  /\ SumOver(v, S) \in Nat
         /\ \A x \in S : v[x] <= SumOver(v, S)
<1>1. PICK g : AddsUp(g, v, S) /\ SumOver(v, S) = g[S]
  BY SumIs
<1>2. \A T \in SUBSET S : g[T] \in Nat
  <2> DEFINE Bad == {T \in SUBSET S : g[T] \notin Nat}
  <2> SUFFICES ASSUME Bad # {} PROVE FALSE
    OBVIOUS
  <2>1. PICK T \in Bad : \A U \in Bad : ~ (U \subseteq T /\ U # T)
    <3>1. Bad \in SUBSET (SUBSET S)
      OBVIOUS
    <3> HIDE DEF Bad
    <3> QED BY <3>1, SmallestSet
  <2>2. T # {} /\ T \in SUBSET S /\ g[T] \notin Nat
    <3>1. g[{}] = 0 /\ 0 \in Nat
      BY <1>1 DEF AddsUp
    <3>2. T \in SUBSET S /\ g[T] \notin Nat
      BY <2>1
    <3> HIDE DEF Bad
    <3> QED BY <3>1, <3>2
  <2>3. PICK x \in T : TRUE
    BY <2>2
  <2>4. g[T \ {x}] \in Nat
    BY <2>1, <2>2, <2>3
  <2>5. g[T] = v[x] + g[T \ {x}] /\ v[x] \in Nat
    BY <1>1, <2>2, <2>3 DEF AddsUp
  <2> QED BY <2>2, <2>4, <2>5
<1>3. ASSUME NEW x \in S
      PROVE  v[x] <= SumOver(v, S)
  <2>1. g[S] = v[x] + g[S \ {x}] /\ g[S \ {x}] \in Nat /\ v[x] \in Nat
    BY <1>1, <1>2 DEF AddsUp
  <2> QED BY <1>1, <2>1
<1> QED BY <1>1, <1>2, <1>3

\* A sum of which one part changes.
LEMMA SumChange ==
  ASSUME NEW S, IsFiniteSet(S), NEW v, NEW w, NEW x \in S,
         \A y \in S : v[y] \in Int /\ w[y] \in Int,
         \A y \in S \ {x} : w[y] = v[y]
  PROVE  SumOver(w, S) = SumOver(v, S) - v[x] + w[x]
<1>1. SumOver(v, S) = v[x] + SumOver(v, S \ {x})
  BY SumOne
<1>2. SumOver(w, S) = w[x] + SumOver(w, S \ {x})
  BY SumOne
<1>3. IsFiniteSet(S \ {x})
  BY FS_Subset
<1>4. SumOver(v, S \ {x}) = SumOver(w, S \ {x}) /\ SumOver(v, S \ {x}) \in Int
  BY <1>3, SumSame, SumType
<1> QED BY <1>1, <1>2, <1>4

-------------------------------------------------------------------------------
(***************************************************************************)
(* Draws.                                                                  *)
(***************************************************************************)
\* What k draws may leave, given what each smaller number of draws may leave.
AfterDraws(s, g, k) == IF k = 0 THEN {s} ELSE UNION {DrawAny(t) : t \in g[k - 1]}

\* There is a function that says what each number of draws may leave.
LEMMA DrawsExist ==
  ASSUME NEW s, NEW n \in Nat
  PROVE  \E g : g = [k \in 0 .. n |-> AfterDraws(s, g, k)]
<1> DEFINE D(g, m) == [k \in 0 .. m |-> AfterDraws(s, g, k)]
           Bad == {m \in Nat : ~ \E g : g = D(g, m)}
<1>1. Bad = {}
  <2> SUFFICES ASSUME Bad # {} PROVE FALSE
    OBVIOUS
  <2>1. PICK m \in Bad : \A k \in Bad : m <= k
    <3>1. Bad \in SUBSET Nat
      OBVIOUS
    <3> HIDE DEF Bad
    <3> QED BY <3>1, LeastNumber
  <2>2. CASE m = 0
    <3> DEFINE g == [k \in 0 .. 0 |-> {s}]
    <3>1. g = D(g, 0)
      BY DEF AfterDraws
    <3> HIDE DEF g, D
    <3> QED BY <2>1, <2>2, <3>1 DEF Bad
  <2>3. CASE m # 0
    <3>1. m - 1 \in Nat /\ m \in Nat
      BY <2>1, <2>3
    <3>2. m - 1 \notin Bad
      <4>1. ~ (m <= m - 1)
        BY <3>1
      <4> HIDE DEF Bad
      <4> QED BY <2>1, <4>1
    <3>3. PICK h : h = D(h, m - 1)
      BY <3>1, <3>2
    <3> DEFINE g == [k \in 0 .. m |-> IF k = m THEN AfterDraws(s, h, m) ELSE h[k]]
    <3>4. \A k \in 0 .. m : g[k] = AfterDraws(s, g, k)
      <4> TAKE k \in 0 .. m
      <4>1. CASE k = 0
        <5>1. h[0] = {s} /\ g[0] = h[0]
          BY <3>1, <3>3, <2>3 DEF AfterDraws
        <5> QED BY <4>1, <5>1 DEF AfterDraws
      <4>2. CASE k # 0
        <5>1. k - 1 \in 0 .. m - 1 /\ k - 1 # m /\ k - 1 \in 0 .. m
          BY <3>1, <4>2
        <5>2. g[k - 1] = h[k - 1]
          BY <5>1
        <5>3. AfterDraws(s, g, k) = AfterDraws(s, h, k)
          BY <4>2, <5>2 DEF AfterDraws
        <5>4. g[k] = AfterDraws(s, h, k)
          <6>1. CASE k = m
            BY <6>1
          <6>2. CASE k # m
            <7>1. k \in 0 .. m - 1
              BY <3>1, <6>2
            <7> QED BY <3>3, <6>2, <7>1
          <6> QED BY <6>1, <6>2
        <5> QED BY <5>3, <5>4
      <4> QED BY <4>1, <4>2
    <3>5. g = D(g, m)
      <4>1. g = [k \in 0 .. m |-> g[k]]
        OBVIOUS
      <4> HIDE DEF g
      <4> QED BY <3>4, <4>1
    <3> HIDE DEF g, D
    <3> QED BY <3>5 DEF Bad
  <2> QED BY <2>2, <2>3
<1>2. \E g : g = D(g, n)
  BY <1>1
<1> QED BY <1>2

\* Draws stay in sets, one for each number of draws, that every single draw
\* leads from one to the next.
LEMMA DrawnSteps ==
  ASSUME NEW s, NEW n \in Nat, NEW T, s \in T[0],
         \A k \in 1 .. n : \A t \in T[k - 1] : DrawAny(t) \subseteq T[k]
  PROVE  Drawn(s, n) \subseteq T[n]
<1> DEFINE D(g) == [k \in 0 .. n |-> AfterDraws(s, g, k)]
           after == CHOOSE g : g = D(g)
           Bad == {k \in 0 .. n : ~ (after[k] \subseteq T[k])}
<1>1. after = D(after)
  BY DrawsExist
<1>2. Drawn(s, n) = after[n]
  BY DEF Drawn, AfterDraws
<1>3. \A k \in 0 .. n : after[k] = AfterDraws(s, after, k)
  <2>1. \A g : g = D(g) => \A k \in 0 .. n : g[k] = AfterDraws(s, g, k)
    OBVIOUS
  <2> HIDE DEF D, after
  <2> QED BY <1>1, <2>1
<1> HIDE DEF after
<1>4. Bad = {}
  <2> SUFFICES ASSUME Bad # {} PROVE FALSE
    OBVIOUS
  <2>1. PICK m \in Bad : \A k \in Bad : m <= k
    <3>1. Bad \in SUBSET Nat
      OBVIOUS
    <3> HIDE DEF Bad
    <3> QED BY <3>1, LeastNumber
  <2>2. m # 0
    BY <1>3 DEF AfterDraws
  <2>3. m \in 1 .. n /\ m - 1 \in 0 .. n /\ ~ (m <= m - 1)
    BY <2>2
  <2>4. after[m - 1] \subseteq T[m - 1]
    BY <2>1, <2>3
  <2>5. after[m] = UNION {DrawAny(t) : t \in after[m - 1]}
    BY <1>3, <2>2 DEF AfterDraws
  <2> QED BY <2>3, <2>4, <2>5
<1>5. n \in 0 .. n
  OBVIOUS
<1> QED BY <1>2, <1>4, <1>5

\* Draws stay in a set that every single draw stays in.
LEMMA DrawnStays ==
  ASSUME NEW s, NEW n \in Nat, NEW T, s \in T,
         \A t \in T : DrawAny(t) \subseteq T
  PROVE  Drawn(s, n) \subseteq T
<1> DEFINE F == [k \in 0 .. n |-> T]
<1>1. /\ s \in F[0] /\ F[n] = T
      /\ \A k \in 1 .. n : F[k] = T /\ F[k - 1] = T
  OBVIOUS
<1> HIDE DEF F
<1>2. \A k \in 1 .. n : \A t \in F[k - 1] : DrawAny(t) \subseteq F[k]
  BY <1>1
<1>3. Drawn(s, n) \subseteq F[n]
  BY <1>1, <1>2, DrawnSteps
<1> QED BY <1>1, <1>3

\* Piles of cards of C.
PilesOf(C) == [deck : SUBSET C, hand : SUBSET C, discard : SUBSET C]

\* Draws make no cards.
LEMMA DrawnPiles ==
  ASSUME NEW C, NEW s \in PilesOf(C), NEW n \in Nat
  PROVE  Drawn(s, n) \subseteq PilesOf(C)
<1>1. \A t \in PilesOf(C) : DrawAny(t) \subseteq PilesOf(C)
  <2> SUFFICES ASSUME NEW t \in PilesOf(C), NEW c \in t.deck, NEW u \in DrawCard(t, c)
               PROVE  u \in PilesOf(C)
    BY DEF DrawAny
  <2> DEFINE drawn == [t EXCEPT !.deck = @ \ {c}]
             protocols == {d \in t.hand : d[2] = "protocols"}
  <2>1. drawn \in PilesOf(C) /\ c \in C /\ drawn.hand = t.hand
    BY DEF PilesOf
  <2>2. CASE \E d \in t.hand : u = [drawn EXCEPT !.hand = @ \ {d}, !.discard = @ \cup {c, d}]
    <3> HIDE DEF drawn
    <3> QED BY <2>1, <2>2 DEF PilesOf
  <2>3. CASE u = [drawn EXCEPT !.hand = @ \cup {c}]
    <3> HIDE DEF drawn
    <3> QED BY <2>1, <2>3 DEF PilesOf
  <2>4. \/ \E d \in protocols : u = [drawn EXCEPT !.hand = @ \ {d}, !.discard = @ \cup {c, d}]
        \/ u = [drawn EXCEPT !.hand = @ \cup {c}]
    BY DEF DrawCard
  <2> QED BY <2>2, <2>3, <2>4
<1> QED BY <1>1, DrawnStays

================================================================================
