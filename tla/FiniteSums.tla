----------------------------- MODULE FiniteSums -----------------------------
(***************************************************************************)
(* Sums over finite sets: what SumFunctionOnSet of the module Functions,   *)
(* a fold that takes the elements in an order nobody knows, computes for   *)
(* every finite set.                                                       *)
(*                                                                         *)
(* The proofs are by induction.  The induction theorems of the library     *)
(* have a predicate as a parameter; here the induction is over a set: one  *)
(* that holds 0, and n + 1 with n, holds every natural number.  That       *)
(* follows from the theorem that a non-empty set of naturals has a least   *)
(* element.                                                                *)
(***************************************************************************)
EXTENDS Integers, FiniteSets, Functions, FiniteSetTheorems, WellFoundedInduction, TLAPS

-----------------------------------------------------------------------------
(* Induction                                                               *)

\* A set with 0 in it, and with n + 1 if it has n, has every natural number.
LEMMA NatSetInduction ==
  ASSUME NEW I, 0 \in I, \A n \in Nat : n \in I => n + 1 \in I
  PROVE  Nat \subseteq I
<1> DEFINE T == Nat \ I
<1> DEFINE R == OpToRel(<, Nat)
<1>1. SUFFICES ASSUME T # {} PROVE FALSE
  OBVIOUS
<1>2. IsWellFoundedOn(R, Nat)
  BY NatLessThanWellFounded
<1>3. PICK x \in T : \A y \in T : ~ (<<y, x>> \in R)
  <2> HIDE DEF R
  <2> QED BY <1>1, <1>2, WFMin
<1>4. x # 0 /\ x - 1 \in Nat /\ x - 1 \in I
  <2>1. x # 0
    OBVIOUS
  <2>2. x - 1 \in Nat
    BY <2>1
  <2>3. <<x - 1, x>> \in R
    BY <2>2 DEF OpToRel
  <2> QED BY <2>1, <2>2, <2>3, <1>3
<1> QED BY <1>4

\* Removing an element of a finite set that is not empty.
LEMMA CardinalityLess ==
  ASSUME NEW T, IsFiniteSet(T), NEW x \in T
  PROVE  /\ IsFiniteSet(T \ {x}) /\ Cardinality(T) \in Nat /\ Cardinality(T \ {x}) \in Nat
         /\ Cardinality(T \ {x}) = Cardinality(T) - 1
BY FS_RemoveElement, FS_CardinalityType

\* A set with {} in it, and with T \cup {x} if it has T, has every finite set.
LEMMA FiniteSetInduction ==
  ASSUME NEW S, IsFiniteSet(S), NEW I, {} \in I,
         \A T \in SUBSET S : \A x \in S \ T : T \in I => T \cup {x} \in I
  PROVE  S \in I
<1> DEFINE C == {n \in Nat : \A T \in SUBSET S : Cardinality(T) = n => T \in I}
<1>1. 0 \in C
  BY FS_Subset, FS_EmptySet
<1>2. ASSUME NEW n \in Nat, n \in C PROVE n + 1 \in C
  <2> SUFFICES ASSUME NEW T \in SUBSET S, Cardinality(T) = n + 1 PROVE T \in I
    OBVIOUS
  <2>1. IsFiniteSet(T)
    BY FS_Subset
  <2>2. PICK x \in T : TRUE
    BY FS_EmptySet, <2>1
  <2>3. Cardinality(T \ {x}) = n
    BY <2>1, <2>2, CardinalityLess
  <2>4. T \ {x} \in I
    BY <2>3, <1>2
  <2>5. T = (T \ {x}) \cup {x}
    OBVIOUS
  <2> QED BY <2>4, <2>5
<1>3. Nat \subseteq C
  <2> HIDE DEF C
  <2> QED BY <1>1, <1>2, NatSetInduction
<1> QED BY <1>3, FS_CardinalityType

-----------------------------------------------------------------------------
(* The fold                                                                *)

Pick(s) == CHOOSE x \in s : TRUE

\* g sums f over every subset of S, an element at a time.
Sums(g, f, S) ==
  /\ g \in [SUBSET S -> Int]
  /\ \A s \in SUBSET S : g[s] = IF s = {} THEN 0 ELSE f[Pick(s)] + g[s \ {Pick(s)}]

LEMMA PickIn == ASSUME NEW s, s # {} PROVE Pick(s) \in s
BY DEF Pick

\* There is such a g: it is built up by the size of the subsets.
LEMMA SumsExist ==
  ASSUME NEW S, IsFiniteSet(S), NEW f, \A x \in S : f[x] \in Int
  PROVE  \E g : Sums(g, f, S)
<1> DEFINE D(n) == {s \in SUBSET S : Cardinality(s) <= n}
<1> DEFINE Ok(g, n) == /\ g \in [D(n) -> Int]
                       /\ \A s \in D(n) : g[s] = IF s = {} THEN 0
                                                 ELSE f[Pick(s)] + g[s \ {Pick(s)}]
<1> DEFINE I == {n \in Nat : \E g : Ok(g, n)}
<1>f. \A s \in SUBSET S : IsFiniteSet(s) /\ Cardinality(s) \in Nat
  BY FS_Subset, FS_CardinalityType
<1>p. \A s \in SUBSET S : s # {} =>
        /\ Pick(s) \in S /\ s \ {Pick(s)} \in SUBSET S
        /\ Cardinality(s \ {Pick(s)}) = Cardinality(s) - 1
  BY <1>f, PickIn, CardinalityLess
<1>1. 0 \in I
  <2>1. \A s \in D(0) : s = {}
    BY <1>f, FS_EmptySet
  <2>2. Ok([s \in D(0) |-> 0], 0)
    BY <2>1
  <2> QED BY <2>2
<1>2. ASSUME NEW n \in Nat, n \in I PROVE n + 1 \in I
  <2>1. PICK g : Ok(g, n)
    BY <1>2
  <2> DEFINE h == [s \in D(n + 1) |-> IF s = {} THEN 0 ELSE f[Pick(s)] + g[s \ {Pick(s)}]]
  <2>2. \A s \in D(n + 1) : s # {} => s \ {Pick(s)} \in D(n)
    BY <1>f, <1>p
  <2>3. \A s \in D(n + 1) : s # {} => f[Pick(s)] + g[s \ {Pick(s)}] \in Int
    BY <2>1, <2>2, <1>p
  <2>4. h \in [D(n + 1) -> Int]
    BY <2>3
  <2>5. \A s \in D(n) : s \in D(n + 1) /\ h[s] = g[s]
    BY <2>1, <1>f
  <2>6. Ok(h, n + 1)
    BY <2>2, <2>4, <2>5
  <2>7. \E e : Ok(e, n + 1)
    <3> HIDE DEF Ok, h
    <3> QED BY <2>6
  <2> HIDE DEF Ok, h
  <2> QED BY <2>7
<1>3. Cardinality(S) \in I
  <2> HIDE DEF I
  <2> QED BY <1>1, <1>2, <1>f, NatSetInduction
<1>4. D(Cardinality(S)) = SUBSET S
  BY <1>f, FS_Subset
<1>5. PICK g : Ok(g, Cardinality(S))
  BY <1>3
<1>6. Sums(g, f, S)
  BY <1>4, <1>5 DEF Sums
<1> QED BY <1>6

\* It is unique, also among those for a larger set or another function with
\* the same values.
LEMMA SumsUnique ==
  ASSUME NEW S, IsFiniteSet(S), NEW T \in SUBSET S, NEW f, NEW e, NEW g, NEW h,
         Sums(g, f, S), Sums(h, e, T), \A x \in T : f[x] = e[x]
  PROVE  \A s \in SUBSET T : g[s] = h[s]
<1> DEFINE I == {n \in Nat : \A s \in SUBSET T : Cardinality(s) = n => g[s] = h[s]}
<1>f. \A s \in SUBSET T : IsFiniteSet(s) /\ Cardinality(s) \in Nat
  BY FS_Subset, FS_CardinalityType
<1>p. \A s \in SUBSET T : s # {} =>
        /\ Pick(s) \in T /\ s \ {Pick(s)} \in SUBSET T
        /\ Cardinality(s \ {Pick(s)}) = Cardinality(s) - 1
  BY <1>f, PickIn, CardinalityLess
<1>1. 0 \in I
  BY <1>f, FS_EmptySet DEF Sums
<1>2. ASSUME NEW n \in Nat, n \in I PROVE n + 1 \in I
  <2> SUFFICES ASSUME NEW s \in SUBSET T, Cardinality(s) = n + 1 PROVE g[s] = h[s]
    OBVIOUS
  <2>1. s # {}
    BY FS_EmptySet
  <2>2. g[s \ {Pick(s)}] = h[s \ {Pick(s)}]
    BY <1>2, <1>p, <2>1
  <2>3. f[Pick(s)] = e[Pick(s)]
    BY <1>p, <2>1
  <2>4. g[s] = f[Pick(s)] + g[s \ {Pick(s)}] /\ h[s] = e[Pick(s)] + h[s \ {Pick(s)}]
    BY <2>1 DEF Sums
  <2> QED BY <2>2, <2>3, <2>4
<1>3. Nat \subseteq I
  <2> HIDE DEF I
  <2> QED BY <1>1, <1>2, NatSetInduction
<1> QED BY <1>3, <1>f

\* The order does not matter: any element may be the last one.
LEMMA SumsAdd ==
  ASSUME NEW S, IsFiniteSet(S), NEW f, \A x \in S : f[x] \in Int, NEW g, Sums(g, f, S)
  PROVE  \A s \in SUBSET S : \A x \in S \ s : g[s \cup {x}] = f[x] + g[s]
<1> DEFINE I == {n \in Nat : \A s \in SUBSET S : Cardinality(s) = n =>
                   \A x \in S \ s : g[s \cup {x}] = f[x] + g[s]}
<1>f. \A s \in SUBSET S : IsFiniteSet(s) /\ Cardinality(s) \in Nat
  BY FS_Subset, FS_CardinalityType
<1>g. \A s \in SUBSET S : g[s] \in Int
  BY DEF Sums
<1>1. 0 \in I
  <2> SUFFICES ASSUME NEW x \in S PROVE g[{} \cup {x}] = f[x] + g[{}]
    BY <1>f, FS_EmptySet
  <2>1. Pick({x}) = x
    BY PickIn
  <2>2. {x} \ {Pick({x})} = {} /\ {x} # {} /\ {} \cup {x} = {x}
    BY <2>1
  <2> QED BY <2>1, <2>2 DEF Sums
<1>2. ASSUME NEW n \in Nat, n \in I PROVE n + 1 \in I
  <2> SUFFICES ASSUME NEW s \in SUBSET S, Cardinality(s) = n + 1, NEW x \in S \ s
               PROVE  g[s \cup {x}] = f[x] + g[s]
    OBVIOUS
  <2> DEFINE u == s \cup {x}
  <2> DEFINE y == Pick(u)
  <2>1. y \in u /\ u # {} /\ u \in SUBSET S
    BY PickIn
  <2>2. g[u] = f[y] + g[u \ {y}]
    BY <2>1 DEF Sums
  <2>3. CASE y = x
    <3>1. u \ {y} = s
      BY <2>3
    <3> QED BY <2>2, <2>3, <3>1
  <2>4. CASE y # x
    <3> DEFINE t == s \ {y}
    <3>1. y \in s /\ t \in SUBSET S /\ x \in S \ t /\ y \in S \ t
      BY <2>1, <2>4
    <3>2. Cardinality(t) = n
      <4> HIDE DEF y
      <4>1. IsFiniteSet(s) /\ y \in s
        BY <3>1, <1>f
      <4>2. Cardinality(t) = Cardinality(s) - 1 /\ Cardinality(s) \in Nat
        BY <4>1, CardinalityLess
      <4> QED BY <4>2
    <3>3. g[t \cup {x}] = f[x] + g[t] /\ g[t \cup {y}] = f[y] + g[t]
      BY <1>2, <3>1, <3>2
    <3>4. u \ {y} = t \cup {x} /\ s = t \cup {y}
      BY <3>1, <2>4
    <3>5. f[x] \in Int /\ f[y] \in Int /\ g[t] \in Int
      BY <3>1, <1>g
    <3>6. g[u] = f[x] + g[s]
      <4> HIDE DEF t, y, u
      <4>1. g[u] = f[y] + (f[x] + g[t])
        BY <2>2, <3>3, <3>4
      <4>2. g[s] = f[y] + g[t]
        BY <3>3, <3>4
      <4> QED BY <4>1, <4>2, <3>5
    <3> QED BY <3>6
  <2> QED BY <2>3, <2>4
<1>3. Nat \subseteq I
  <2> HIDE DEF I
  <2> QED BY <1>1, <1>2, NatSetInduction
<1> QED BY <1>3, <1>f

\* The fold of the module Functions.
SumsOf(f, S) ==
  CHOOSE g : g = [s \in SUBSET S |-> IF s = {} THEN 0 ELSE f[Pick(s)] + g[s \ {Pick(s)}]]

LEMMA SumIsFold ==
  ASSUME NEW f, NEW S
  PROVE  SumFunctionOnSet(f, S) = SumsOf(f, S)[S]
BY DEF SumFunctionOnSet, FoldFunctionOnSet, MapThenFoldSet, SumsOf, Pick

LEMMA FoldSums ==
  ASSUME NEW S, IsFiniteSet(S), NEW f, \A x \in S : f[x] \in Int
  PROVE  Sums(SumsOf(f, S), f, S)
<1> DEFINE Eq(g) == g = [s \in SUBSET S |-> IF s = {} THEN 0 ELSE f[Pick(s)] + g[s \ {Pick(s)}]]
<1>1. PICK g : Sums(g, f, S)
  BY SumsExist
<1>2. Eq(g)
  BY <1>1 DEF Sums
<1>3. Eq(SumsOf(f, S))
  BY <1>2 DEF SumsOf
<1>4. ASSUME NEW h, Eq(h) PROVE h = g
  <2> DEFINE I == {n \in Nat : \A s \in SUBSET S : Cardinality(s) = n => h[s] = g[s]}
  <2>f. \A s \in SUBSET S : IsFiniteSet(s) /\ Cardinality(s) \in Nat
    BY FS_Subset, FS_CardinalityType
  <2>h. \A s \in SUBSET S : h[s] = IF s = {} THEN 0 ELSE f[Pick(s)] + h[s \ {Pick(s)}]
    BY <1>4
  <2>1. 0 \in I
    BY <2>f, <2>h, <1>1, FS_EmptySet DEF Sums
  <2>2. ASSUME NEW n \in Nat, n \in I PROVE n + 1 \in I
    <3> SUFFICES ASSUME NEW s \in SUBSET S, Cardinality(s) = n + 1 PROVE h[s] = g[s]
      OBVIOUS
    <3>1. s # {} /\ Pick(s) \in s
      BY FS_EmptySet, PickIn
    <3>2. Cardinality(s \ {Pick(s)}) = n /\ s \ {Pick(s)} \in SUBSET S
      BY <3>1, <2>f, CardinalityLess
    <3>3. h[s \ {Pick(s)}] = g[s \ {Pick(s)}]
      BY <2>2, <3>2
    <3>4. g[s] = f[Pick(s)] + g[s \ {Pick(s)}] /\ h[s] = f[Pick(s)] + h[s \ {Pick(s)}]
      BY <3>1, <2>h, <1>1 DEF Sums
    <3> QED BY <3>3, <3>4
  <2>3. Nat \subseteq I
    <3> HIDE DEF I
    <3> QED BY <2>1, <2>2, NatSetInduction
  <2>4. \A s \in SUBSET S : h[s] = g[s]
    BY <2>3, <2>f
  <2>5. h = [s \in SUBSET S |-> h[s]] /\ g = [s \in SUBSET S |-> g[s]]
    BY <1>2, <1>4
  <2> QED BY <2>4, <2>5
<1>5. SumsOf(f, S) = g
  <2> HIDE DEF Eq
  <2> QED BY <1>3, <1>4
<1> QED BY <1>1, <1>5

-----------------------------------------------------------------------------
(* What the other proofs use                                               *)

LEMMA SumType ==
  ASSUME NEW S, IsFiniteSet(S), NEW f, \A x \in S : f[x] \in Int
  PROVE  SumFunctionOnSet(f, S) \in Int
<1>1. Sums(SumsOf(f, S), f, S)
  BY FoldSums
<1>2. SumsOf(f, S)[S] \in Int
  BY <1>1 DEF Sums
<1> QED BY <1>2, SumIsFold

LEMMA SumEmpty ==
  ASSUME NEW f
  PROVE  SumFunctionOnSet(f, {}) = 0
<1>1. Sums(SumsOf(f, {}), f, {})
  BY FS_EmptySet, FoldSums
<1> QED BY <1>1, SumIsFold DEF Sums

LEMMA SumAddElement ==
  ASSUME NEW S, IsFiniteSet(S), NEW y, y \notin S,
         NEW f, \A x \in S \cup {y} : f[x] \in Int
  PROVE  SumFunctionOnSet(f, S \cup {y}) = f[y] + SumFunctionOnSet(f, S)
<1> DEFINE T == S \cup {y}
<1>1. IsFiniteSet(T)
  BY FS_AddElement
<1>2. Sums(SumsOf(f, T), f, T) /\ Sums(SumsOf(f, S), f, S)
  <2> HIDE DEF T
  <2>1. \A x \in T : f[x] \in Int
    BY DEF T
  <2>2. \A x \in S : f[x] \in Int
    OBVIOUS
  <2> QED BY <1>1, <2>1, <2>2, FoldSums
<1>3. SumsOf(f, T)[S] = SumsOf(f, S)[S]
  <2>1. S \in SUBSET T /\ S \in SUBSET S /\ \A x \in S : f[x] = f[x]
    OBVIOUS
  <2> HIDE DEF T
  <2>2. \A s \in SUBSET S : SumsOf(f, T)[s] = SumsOf(f, S)[s]
    BY <1>1, <1>2, <2>1, SumsUnique
  <2> QED BY <2>1, <2>2
<1>4. SumsOf(f, T)[S \cup {y}] = f[y] + SumsOf(f, T)[S]
  <2>1. S \in SUBSET T /\ y \in T \ S /\ \A x \in T : f[x] \in Int
    OBVIOUS
  <2> HIDE DEF T
  <2> QED BY <1>1, <1>2, <2>1, SumsAdd
<1> QED BY <1>3, <1>4, SumIsFold

\* Only the values on the set count.
LEMMA SumCongruence ==
  ASSUME NEW S, IsFiniteSet(S), NEW f, NEW e,
         \A x \in S : f[x] \in Int /\ e[x] = f[x]
  PROVE  SumFunctionOnSet(f, S) = SumFunctionOnSet(e, S)
<1>1. Sums(SumsOf(f, S), f, S) /\ Sums(SumsOf(e, S), e, S)
  BY FoldSums
<1>2. \A s \in SUBSET S : SumsOf(f, S)[s] = SumsOf(e, S)[s]
  <2>1. S \in SUBSET S /\ \A x \in S : f[x] = e[x]
    OBVIOUS
  <2> QED BY <1>1, <2>1, SumsUnique
<1> QED BY <1>2, SumIsFold

\* The sum of the sums of two functions.
LEMMA SumOfSums ==
  ASSUME NEW S, IsFiniteSet(S), NEW f, NEW e, NEW h,
         \A x \in S : f[x] \in Int /\ e[x] \in Int /\ h[x] = f[x] + e[x]
  PROVE  SumFunctionOnSet(h, S) = SumFunctionOnSet(f, S) + SumFunctionOnSet(e, S)
<1> DEFINE I == {T \in SUBSET S : SumFunctionOnSet(h, T) =
                                   SumFunctionOnSet(f, T) + SumFunctionOnSet(e, T)}
<1>1. {} \in I
  BY SumEmpty
<1>2. ASSUME NEW T \in SUBSET S, NEW x \in S \ T, T \in I PROVE T \cup {x} \in I
  <2>1. IsFiniteSet(T) /\ x \notin T
    BY FS_Subset
  <2>t. \A z \in T \cup {x} : f[z] \in Int /\ e[z] \in Int /\ h[z] \in Int /\ h[z] = f[z] + e[z]
    OBVIOUS
  <2>2. SumFunctionOnSet(f, T \cup {x}) = f[x] + SumFunctionOnSet(f, T)
    BY <2>1, <2>t, SumAddElement
  <2>3. SumFunctionOnSet(e, T \cup {x}) = e[x] + SumFunctionOnSet(e, T)
    BY <2>1, <2>t, SumAddElement
  <2>4. SumFunctionOnSet(h, T \cup {x}) = h[x] + SumFunctionOnSet(h, T)
    BY <2>1, <2>t, SumAddElement
  <2>5. SumFunctionOnSet(f, T) \in Int /\ SumFunctionOnSet(e, T) \in Int
    BY <2>1, <2>t, SumType
  <2>6. SumFunctionOnSet(h, T) = SumFunctionOnSet(f, T) + SumFunctionOnSet(e, T)
    BY <1>2
  <2>7. f[x] \in Int /\ e[x] \in Int /\ h[x] = f[x] + e[x]
    OBVIOUS
  <2>8. SumFunctionOnSet(h, T \cup {x}) =
          SumFunctionOnSet(f, T \cup {x}) + SumFunctionOnSet(e, T \cup {x})
    BY <2>2, <2>3, <2>4, <2>5, <2>6, <2>7
  <2> QED BY <2>8
<1>3. S \in I
  <2> HIDE DEF I
  <2> QED BY <1>1, <1>2, FiniteSetInduction
<1> QED BY <1>3

\* One value more.
LEMMA SumExcept ==
  ASSUME NEW S, IsFiniteSet(S), NEW f \in [S -> Int], NEW y \in S, NEW d \in Int
  PROVE  SumFunctionOnSet([f EXCEPT ![y] = f[y] + d], S) = SumFunctionOnSet(f, S) + d
<1> DEFINE h == [f EXCEPT ![y] = f[y] + d]
<1> DEFINE T == S \ {y}
<1>1. IsFiniteSet(T) /\ y \notin T /\ T \cup {y} = S
  BY FS_RemoveElement
<1>2. h \in [S -> Int] /\ h[y] = f[y] + d /\ \A x \in T : h[x] = f[x] /\ f[x] \in Int
  OBVIOUS
<1> HIDE DEF h, T
<1>3. SumFunctionOnSet(h, T \cup {y}) = h[y] + SumFunctionOnSet(h, T)
  BY <1>1, <1>2, SumAddElement
<1>4. SumFunctionOnSet(f, T \cup {y}) = f[y] + SumFunctionOnSet(f, T)
  BY <1>1, SumAddElement
<1>5. SumFunctionOnSet(h, T) = SumFunctionOnSet(f, T) /\ SumFunctionOnSet(f, T) \in Int
  BY <1>1, <1>2, SumCongruence, SumType
<1>6. SumFunctionOnSet(h, S) = (f[y] + d) + SumFunctionOnSet(f, T)
  BY <1>1, <1>2, <1>3, <1>5
<1>7. SumFunctionOnSet(f, S) = f[y] + SumFunctionOnSet(f, T)
  BY <1>1, <1>4
<1>8. f[y] \in Int
  OBVIOUS
<1>9. SumFunctionOnSet(h, S) = SumFunctionOnSet(f, S) + d
  BY <1>5, <1>6, <1>7, <1>8
<1> QED BY <1>9 DEF h

\* A smaller set, or smaller values, have a smaller sum.
LEMMA SumMonotonic ==
  ASSUME NEW S, IsFiniteSet(S), NEW T \in SUBSET S, NEW f, NEW e,
         \A x \in S : f[x] \in Nat /\ e[x] \in Nat,
         \A x \in T : f[x] <= e[x]
  PROVE  SumFunctionOnSet(f, T) <= SumFunctionOnSet(e, S)
<1> DEFINE I == {U \in SUBSET S : SumFunctionOnSet(f, U \cap T) <= SumFunctionOnSet(e, U)}
<1>1. {} \in I
  BY SumEmpty
<1>2. ASSUME NEW U \in SUBSET S, NEW x \in S \ U, U \in I PROVE U \cup {x} \in I
  <2> DEFINE V == U \cap T
  <2>1. IsFiniteSet(U) /\ x \notin U /\ IsFiniteSet(V) /\ x \notin V
    BY FS_Subset
  <2>2. SumFunctionOnSet(f, V) \in Int /\ SumFunctionOnSet(e, U) \in Int
    BY <2>1, SumType
  <2>3. SumFunctionOnSet(e, U \cup {x}) = e[x] + SumFunctionOnSet(e, U)
    BY <2>1, SumAddElement
  <2>4. SumFunctionOnSet(f, V) <= SumFunctionOnSet(e, U)
    BY <1>2
  <2>5. CASE x \in T
    <3>1. (U \cup {x}) \cap T = V \cup {x}
      BY <2>5
    <3>a. \A z \in V \cup {x} : f[z] \in Int
      OBVIOUS
    <3>2. SumFunctionOnSet(f, V \cup {x}) = f[x] + SumFunctionOnSet(f, V)
      <4> HIDE DEF V
      <4> QED BY <2>1, <3>a, SumAddElement
    <3>3. f[x] <= e[x] /\ f[x] \in Nat /\ e[x] \in Nat
      BY <2>5
    <3>4. SumFunctionOnSet(f, (U \cup {x}) \cap T) <= SumFunctionOnSet(e, U \cup {x})
      <4>1. SumFunctionOnSet(f, (U \cup {x}) \cap T) = f[x] + SumFunctionOnSet(f, V)
        BY <3>1, <3>2
      <4> HIDE DEF V
      <4>2. f[x] + SumFunctionOnSet(f, V) <= e[x] + SumFunctionOnSet(e, U)
        BY <2>2, <2>4, <3>3
      <4> QED BY <2>3, <4>1, <4>2
    <3> QED BY <3>4
  <2>6. CASE x \notin T
    <3>1. (U \cup {x}) \cap T = V
      BY <2>6
    <3>2. e[x] \in Nat
      OBVIOUS
    <3>3. SumFunctionOnSet(f, (U \cup {x}) \cap T) <= SumFunctionOnSet(e, U \cup {x})
      <4> HIDE DEF V
      <4> QED BY <2>2, <2>3, <2>4, <3>1, <3>2
    <3> QED BY <3>3
  <2> QED BY <2>5, <2>6
<1>3. S \in I
  <2> HIDE DEF I
  <2> QED BY <1>1, <1>2, FiniteSetInduction
<1>4. S \cap T = T
  OBVIOUS
<1> QED BY <1>3, <1>4

LEMMA SumNat ==
  ASSUME NEW S, IsFiniteSet(S), NEW f, \A x \in S : f[x] \in Nat
  PROVE  SumFunctionOnSet(f, S) \in Nat
<1>1. SumFunctionOnSet(f, S) \in Int
  BY SumType
<1>2. SumFunctionOnSet(f, {}) <= SumFunctionOnSet(f, S)
  <2>1. {} \in SUBSET S
    OBVIOUS
  <2> QED BY <2>1, SumMonotonic
<1> QED BY <1>1, <1>2, SumEmpty

\* Elements that count for nothing may be left out.
LEMMA SumSupport ==
  ASSUME NEW S, IsFiniteSet(S), NEW T \in SUBSET S, NEW f,
         \A x \in S : f[x] \in Int, \A x \in S \ T : f[x] = 0
  PROVE  SumFunctionOnSet(f, S) = SumFunctionOnSet(f, T)
<1> DEFINE I == {U \in SUBSET S : SumFunctionOnSet(f, U) = SumFunctionOnSet(f, U \cap T)}
<1>1. {} \in I
  BY SumEmpty
<1>2. ASSUME NEW U \in SUBSET S, NEW x \in S \ U, U \in I PROVE U \cup {x} \in I
  <2> DEFINE V == U \cap T
  <2>1. IsFiniteSet(U) /\ x \notin U /\ IsFiniteSet(V) /\ x \notin V
    BY FS_Subset
  <2>2. SumFunctionOnSet(f, V) \in Int /\ SumFunctionOnSet(f, U) = SumFunctionOnSet(f, V)
    BY <1>2, <2>1, SumType
  <2>3. SumFunctionOnSet(f, U \cup {x}) = f[x] + SumFunctionOnSet(f, U)
    BY <2>1, SumAddElement
  <2>4. CASE x \in T
    <3>1. (U \cup {x}) \cap T = V \cup {x}
      BY <2>4
    <3>a. \A z \in V \cup {x} : f[z] \in Int
      OBVIOUS
    <3>2. SumFunctionOnSet(f, V \cup {x}) = f[x] + SumFunctionOnSet(f, V)
      <4> HIDE DEF V
      <4> QED BY <2>1, <3>a, SumAddElement
    <3> HIDE DEF V
    <3>3. SumFunctionOnSet(f, U \cup {x}) = SumFunctionOnSet(f, (U \cup {x}) \cap T)
      BY <2>2, <2>3, <3>1, <3>2
    <3> QED BY <3>3
  <2>5. CASE x \notin T
    <3>1. (U \cup {x}) \cap T = V
      BY <2>5
    <3>2. f[x] = 0
      BY <2>5
    <3>3. SumFunctionOnSet(f, U \cup {x}) = SumFunctionOnSet(f, (U \cup {x}) \cap T)
      <4>1. SumFunctionOnSet(f, (U \cup {x}) \cap T) = SumFunctionOnSet(f, V)
        BY <3>1
      <4> HIDE DEF V
      <4>2. f[x] + SumFunctionOnSet(f, U) = SumFunctionOnSet(f, V)
        BY <2>2, <3>2
      <4> QED BY <2>3, <4>1, <4>2
    <3> QED BY <3>3
  <2> QED BY <2>4, <2>5
<1>3. S \in I
  <2> HIDE DEF I
  <2> QED BY <1>1, <1>2, FiniteSetInduction
<1>4. S \cap T = T
  OBVIOUS
<1> QED BY <1>3, <1>4

\* A finite set of naturals that is not empty has a largest element.
LEMMA FiniteMax ==
  ASSUME NEW S, IsFiniteSet(S), S # {}, S \subseteq Int
  PROVE  \E x \in S : \A y \in S : y <= x
<1> DEFINE I == {T \in SUBSET S : T # {} => \E x \in T : \A y \in T : y <= x}
<1>1. {} \in I
  OBVIOUS
<1>2. ASSUME NEW T \in SUBSET S, NEW x \in S \ T, T \in I PROVE T \cup {x} \in I
  <2>1. CASE T = {}
    BY <2>1
  <2>2. CASE T # {}
    <3>1. PICK z \in T : \A y \in T : y <= z
      BY <1>2, <2>2
    <3>2. CASE x <= z
      <4>1. \A y \in T \cup {x} : y <= z
        BY <3>1, <3>2
      <4> QED BY <4>1
    <3>3. CASE ~(x <= z)
      <4>1. \A y \in T \cup {x} : y <= x
        BY <3>1, <3>3
      <4> QED BY <4>1
    <3> QED BY <3>2, <3>3
  <2> QED BY <2>1, <2>2
<1>3. S \in I
  <2> HIDE DEF I
  <2> QED BY <1>1, <1>2, FiniteSetInduction
<1> QED BY <1>3

\* A set of naturals that is not empty has a least element.
LEMMA NatMin ==
  ASSUME NEW T, T \subseteq Nat, T # {}
  PROVE  \E x \in T : \A y \in T : x <= y
<1> DEFINE R == OpToRel(<, Nat)
<1>1. IsWellFoundedOn(R, Nat)
  BY NatLessThanWellFounded
<1>2. PICK x \in T : \A y \in T : ~ (<<y, x>> \in R)
  <2> HIDE DEF R
  <2> QED BY <1>1, WFMin
<1>3. ASSUME NEW y \in T, y < x PROVE FALSE
  <2>1. <<y, x>> \in R
    BY <1>3 DEF OpToRel
  <2> QED BY <1>2, <2>1
<1>4. \A y \in T : x <= y
  BY <1>3
<1> QED BY <1>4
=============================================================================
