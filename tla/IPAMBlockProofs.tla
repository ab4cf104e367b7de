-------------------------- MODULE IPAMBlockProofs ---------------------------
(***************************************************************************)
(* The lists of an IPAMBlock, for a block of any size, any reserved range, *)
(* any handles and any string maps: the free list and the allocations      *)
(* agree, no attribute is left over, the counts are right, and the lists   *)
(* implement the block of BlockOps.                                        *)
(*                                                                         *)
(* The hard step is the release, which renumbers the attributes.  It rests *)
(* on one fact: Rank numbers the elements of a finite set of naturals from *)
(* 1 on, without a gap and without using a number twice.                   *)
(***************************************************************************)
EXTENDS IPAMBlock, FiniteSums, SequenceTheorems

USE DEF nil

-----------------------------------------------------------------------------
(* Numbering the elements of a set                                         *)

\* A larger element has a larger rank.
LEMMA RankMonotonic ==
  ASSUME NEW S, S \subseteq Nat, IsFiniteSet(S), NEW x \in S, NEW y \in S, x < y
  PROVE  Rank(S, x) < Rank(S, y)
<1> DEFINE X == {z \in S : z <= x}
<1> DEFINE Y == {z \in S : z <= y}
<1>1. X \in SUBSET Y /\ X # Y /\ Y \in SUBSET S
  <2>1. y \in Y /\ y \notin X
    OBVIOUS
  <2>2. \A z \in S : z \in Nat /\ (z <= x => z <= y)
    OBVIOUS
  <2>3. X \subseteq Y /\ Y \subseteq S
    BY <2>2
  <2> QED BY <2>1, <2>3
<1>2. IsFiniteSet(Y) /\ IsFiniteSet(X)
  BY <1>1, FS_Subset
<1>3. Cardinality(X) \in Nat /\ Cardinality(Y) \in Nat
  BY <1>2, FS_CardinalityType
<1>4. Cardinality(X) <= Cardinality(Y) /\ Cardinality(X) # Cardinality(Y)
  <2> HIDE DEF X, Y
  <2> QED BY <1>1, <1>2, FS_Subset
<1> QED BY <1>3, <1>4 DEF Rank

LEMMA RankType ==
  ASSUME NEW S, S \subseteq Nat, IsFiniteSet(S), NEW x \in S
  PROVE  Rank(S, x) \in 1 .. Cardinality(S)
<1> DEFINE X == {z \in S : z <= x}
<1>1. X \in SUBSET S /\ x \in X
  OBVIOUS
<1>2. IsFiniteSet(X) /\ Cardinality(X) <= Cardinality(S)
  BY <1>1, FS_Subset
<1>3. Cardinality(X) \in Nat /\ Cardinality(S) \in Nat
  BY <1>2, FS_CardinalityType
<1>4. Cardinality(X) # 0
  <2> HIDE DEF X
  <2> QED BY <1>1, <1>2, FS_EmptySet
<1> QED BY <1>2, <1>3, <1>4 DEF Rank

LEMMA RankInjective ==
  ASSUME NEW S, S \subseteq Nat, IsFiniteSet(S)
  PROVE  \A x, y \in S : Rank(S, x) = Rank(S, y) => x = y
<1> SUFFICES ASSUME NEW x \in S, NEW y \in S, x # y PROVE Rank(S, x) # Rank(S, y)
  OBVIOUS
<1>1. Rank(S, x) \in Int /\ Rank(S, y) \in Int
  <2>1. Rank(S, x) \in 1 .. Cardinality(S) /\ Rank(S, y) \in 1 .. Cardinality(S)
    BY RankType
  <2> QED BY <2>1
<1>2. CASE x < y
  <2>1. Rank(S, x) < Rank(S, y)
    BY <1>2, RankMonotonic
  <2> QED BY <1>1, <2>1
<1>3. CASE y < x
  <2>1. Rank(S, y) < Rank(S, x)
    BY <1>3, RankMonotonic
  <2> QED BY <1>1, <2>1
<1>4. x \in Nat /\ y \in Nat
  OBVIOUS
<1> QED BY <1>2, <1>3, <1>4

\* No number is left out.
LEMMA RankOnto ==
  ASSUME NEW S, S \subseteq Nat, IsFiniteSet(S)
  PROVE  \A k \in 1 .. Cardinality(S) : \E x \in S : Rank(S, x) = k
<1> DEFINE N == 1 .. Cardinality(S)
<1> DEFINE f == [x \in S |-> Rank(S, x)]
<1>1. Cardinality(S) \in Nat
  BY FS_CardinalityType
<1>2. IsFiniteSet(N) /\ Cardinality(N) = Cardinality(S)
  BY <1>1, FS_Interval
<1>3. f \in [S -> N]
  BY RankType
<1>4. f \in Injection(S, N)
  BY <1>3, RankInjective DEF Injection, IsInjective
<1>5. f \in Surjection(S, N)
  <2> HIDE DEF f, N
  <2> QED BY <1>2, <1>4, FS_Injection
<1> QED BY <1>5 DEF Surjection

\* Ascending lists the elements of a set, each once: the one of rank k is the
\* k-th.
LEMMA AscendingLists ==
  ASSUME NEW S, S \subseteq Nat, IsFiniteSet(S)
  PROVE  /\ Cardinality(S) \in Nat
         /\ Ascending(S) \in [1 .. Cardinality(S) -> S]
         /\ Ascending(S) \in Seq(S) /\ Len(Ascending(S)) = Cardinality(S)
         /\ \A x \in S : Ascending(S)[Rank(S, x)] = x
         /\ \A k \in 1 .. Cardinality(S) : Rank(S, Ascending(S)[k]) = k
         /\ \A i, j \in 1 .. Cardinality(S) : Ascending(S)[i] = Ascending(S)[j] => i = j
<1>1. Cardinality(S) \in Nat
  BY FS_CardinalityType
<1>2. ASSUME NEW k \in 1 .. Cardinality(S)
      PROVE  Ascending(S)[k] \in S /\ Rank(S, Ascending(S)[k]) = k
  <2>1. \E x \in S : Rank(S, x) = k
    BY RankOnto
  <2>2. Ascending(S)[k] = CHOOSE x \in S : Rank(S, x) = k
    BY DEF Ascending
  <2> QED BY <2>1, <2>2
<1>3. Ascending(S) \in [1 .. Cardinality(S) -> S]
  BY <1>2 DEF Ascending
<1>4. Ascending(S) \in Seq(S) /\ Len(Ascending(S)) = Cardinality(S)
  BY <1>1, <1>3
<1>5. \A x \in S : Ascending(S)[Rank(S, x)] = x
  BY <1>2, RankType, RankInjective
<1>6. \A i, j \in 1 .. Cardinality(S) : Ascending(S)[i] = Ascending(S)[j] => i = j
  BY <1>2
<1> QED BY <1>1, <1>2, <1>3, <1>4, <1>5, <1>6

-----------------------------------------------------------------------------
(* The block as created                                                    *)

LEMMA BlockConstants ==
  /\ BlockSize \in Nat /\ StartOfBlock \in Nat /\ EndOfBlock \in Nat
  /\ StartOfBlock + EndOfBlock < BlockSize
  /\ Ordinals \subseteq Nat /\ IsFiniteSet(Ordinals)
  /\ Reserved \subseteq Ordinals
  /\ \A o \in Ordinals : o \in Reserved <=> o < StartOfBlock \/ o >= BlockSize - EndOfBlock
  /\ ReservedHandle \notin Handles /\ Free \notin Handles /\ Free # ReservedHandle
<1>1. BlockSize \in Nat /\ StartOfBlock \in Nat /\ EndOfBlock \in Nat
  BY BlockAssumption, IPAMBlockAssumption
<1>2. Ordinals \subseteq Nat /\ IsFiniteSet(Ordinals)
  BY <1>1, FS_Interval DEF Ordinals
<1>3. \A o \in Ordinals : o \in Reserved <=> o < StartOfBlock \/ o >= BlockSize - EndOfBlock
  BY <1>1, IPAMBlockAssumption DEF Ordinals
<1> QED BY <1>1, <1>2, <1>3, BlockAssumption, IPAMBlockAssumption

LEMMA InitInv == Init => BlockInv
<1> SUFFICES ASSUME Init PROVE BlockInv
  OBVIOUS
<1> DEFINE n == BlockSize - StartOfBlock - EndOfBlock
<1>1. n \in Nat /\ Unallocated = [i \in 1 .. n |-> StartOfBlock + i - 1]
  BY BlockConstants DEF Init
<1>2. \A i \in 1 .. n : StartOfBlock + i - 1 \in Ordinals \ Reserved
  BY BlockConstants DEF Ordinals
<1>3. Unallocated \in Seq(Ordinals) /\ DOMAIN Unallocated = 1 .. n
  BY <1>1, <1>2
<1>4. /\ Attributes \in Seq(Attribute)
      /\ \A i \in DOMAIN Attributes : Attributes[i].primary = ReservedHandle
      /\ Reserved = {} \/ Len(Attributes) = 1
  <2> DEFINE r == [primary |-> ReservedHandle, secondary |-> "note"]
  <2>1. r \in Attribute /\ r.primary = ReservedHandle
    BY DEF Attribute
  <2>2. Attributes = <<r>> \/ (Reserved = {} /\ Attributes = <<>>)
    BY DEF Init
  <2> HIDE DEF r
  <2>3. CASE Attributes = <<r>>
    BY <2>1, <2>3
  <2>4. CASE Reserved = {} /\ Attributes = <<>>
    BY <2>4
  <2> QED BY <2>2, <2>3, <2>4
<1>5. \A o \in Ordinals : Allocations[o] = IF o \in Reserved THEN 1 ELSE 0
  BY DEF Init
<1>6. BlockTypeOK
  <2>1. Allocations \in [Ordinals -> 0 .. Len(Attributes)]
    BY <1>4, <1>5 DEF Init
  <2> QED BY <1>3, <1>4, <2>1 DEF BlockTypeOK, Init
<1>7. FreeListExact
  <2>1. \A o \in Ordinals \ Reserved : o - StartOfBlock + 1 \in 1 .. n
    BY BlockConstants DEF Ordinals
  <2>2. \A o \in Ordinals : (Allocations[o] = 0) <=> \E i \in DOMAIN Unallocated : Unallocated[i] = o
    <3> SUFFICES ASSUME NEW o \in Ordinals
                 PROVE  o \notin Reserved <=> \E i \in 1 .. n : Unallocated[i] = o
      BY <1>3, <1>5
    <3>1. ASSUME o \notin Reserved PROVE \E i \in 1 .. n : Unallocated[i] = o
      <4>1. o - StartOfBlock + 1 \in 1 .. n
        BY <2>1, <3>1
      <4>2. Unallocated[o - StartOfBlock + 1] = o
        BY <1>1, <4>1, BlockConstants
      <4> QED BY <4>1, <4>2
    <3> QED BY <1>1, <1>2, <3>1
  <2>3. \A i, j \in 1 .. n : Unallocated[i] = Unallocated[j] => i = j
    BY <1>1, BlockConstants
  <2> QED BY <1>3, <2>2, <2>3 DEF FreeListExact
<1>8. AttributesInUse
  BY <1>4 DEF AttributesInUse
<1>9. ReservedExact
  <2>1. \A o \in Reserved : Attributes[Allocations[o]].primary = ReservedHandle
    BY <1>4, <1>5, BlockConstants
  <2>2. \A o \in Ordinals : o \in AllocatedTo({ReservedHandle}) <=> o \in Reserved
    BY <1>5, <2>1 DEF AllocatedTo
  <2>3. AllocatedTo({ReservedHandle}) \subseteq Ordinals
    BY DEF AllocatedTo
  <2> QED BY <2>2, <2>3, BlockConstants DEF ReservedExact
<1> QED BY <1>6, <1>7, <1>8, <1>9 DEF BlockInv

-----------------------------------------------------------------------------
(* AutoAssign                                                              *)

\* findOrAddAttribute returns the index of an attribute of the handle and
\* leaves the attributes there already where they are.
LEMMA AttributeFound ==
  ASSUME BlockTypeOK, NEW h \in Handles, NEW s \in AttrMaps
  PROVE  /\ WithAttribute(h, s) \in Seq(Attribute)
         /\ AttrIndex(h, s) \in 1 .. Len(WithAttribute(h, s))
         /\ Len(Attributes) <= Len(WithAttribute(h, s))
         /\ \A i \in 1 .. Len(Attributes) : WithAttribute(h, s)[i] = Attributes[i]
         /\ WithAttribute(h, s)[AttrIndex(h, s)].primary = h
         /\ \A i \in 1 .. Len(WithAttribute(h, s)) : i > Len(Attributes) => i = AttrIndex(h, s)
<1> DEFINE F == FindAttribute(h, s)
<1>1. Attributes \in Seq(Attribute) /\ Len(Attributes) \in Nat
      /\ DOMAIN Attributes = 1 .. Len(Attributes)
  BY DEF BlockTypeOK
<1>2. CASE F # {}
  <2>1. F \subseteq DOMAIN Attributes /\ F \subseteq Nat
    BY <1>1 DEF FindAttribute
  <2>2. \E i \in F : \A j \in F : i <= j
    <3> HIDE DEF F
    <3> QED BY <1>2, <2>1, NatMin
  <2>3. AttrIndex(h, s) \in F
    BY <1>2, <2>2 DEF AttrIndex
  <2>4. Attributes[AttrIndex(h, s)].primary = h
    BY <2>3 DEF FindAttribute
  <2>5. WithAttribute(h, s) = Attributes
    BY <1>2 DEF WithAttribute
  <2> QED BY <1>1, <2>1, <2>3, <2>4, <2>5
<1>3. CASE F = {}
  <2> DEFINE a == [primary |-> h, secondary |-> StoredMap(s)]
  <2>1. a \in Attribute
    BY IPAMBlockAssumption DEF Attribute, StoredMap
  <2>2. a.primary = h
    OBVIOUS
  <2>3. WithAttribute(h, s) = Append(Attributes, a) /\ AttrIndex(h, s) = Len(Attributes) + 1
    BY <1>3 DEF WithAttribute, AttrIndex
  <2> HIDE DEF a
  <2>4. /\ Append(Attributes, a) \in Seq(Attribute)
        /\ Len(Append(Attributes, a)) = Len(Attributes) + 1
        /\ \A i \in 1 .. Len(Attributes) : Append(Attributes, a)[i] = Attributes[i]
        /\ Append(Attributes, a)[Len(Attributes) + 1] = a
    BY <1>1, <2>1, AppendProperties
  <2> QED BY <1>1, <2>2, <2>3, <2>4
<1> QED BY <1>2, <1>3

\* The addresses an assignment takes off the head of the free list.
Taken(n) ==
  {Unallocated[i] : i \in 1 .. (IF n <= Len(Unallocated) THEN n ELSE Len(Unallocated))}

\* They were free, and the rest of the list holds the other free ones.
LEMMA HeadTaken ==
  ASSUME BlockInv, NEW n \in 1 .. MaxNum, NEW h \in Handles, NEW s \in AttrMaps, AutoAssign(n, h, s)
  PROVE  /\ Taken(n) \subseteq Ordinals /\ Taken(n) # {}
         /\ \A o \in Taken(n) : Allocations[o] = 0
         /\ Allocations' = [o \in Ordinals |->
                              IF o \in Taken(n) THEN AttrIndex(h, s) ELSE Allocations[o]]
         /\ Unallocated' \in Seq(Ordinals)
         /\ \A o \in Ordinals : (\E i \in DOMAIN Unallocated' : Unallocated'[i] = o)
                                  <=> Allocations[o] = 0 /\ o \notin Taken(n)
         /\ \A i, j \in DOMAIN Unallocated' : Unallocated'[i] = Unallocated'[j] => i = j
<1> DEFINE t == IF n <= Len(Unallocated) THEN n ELSE Len(Unallocated)
<1> DEFINE u == Len(Unallocated)
<1>1. Unallocated \in Seq(Ordinals) /\ u \in Nat /\ DOMAIN Unallocated = 1 .. u
  BY DEF BlockInv, BlockTypeOK
<1>2. /\ \A o \in Ordinals : (Allocations[o] = 0) <=> \E i \in 1 .. u : Unallocated[i] = o
      /\ \A i, j \in 1 .. u : Unallocated[i] = Unallocated[j] => i = j
  BY <1>1 DEF BlockInv, FreeListExact
<1>3. t \in 1 .. u
  <2>1. n \in Nat /\ t > 0
    BY IPAMBlockAssumption DEF AutoAssign
  <2> QED BY <1>1, <2>1
<1>4. Taken(n) = {Unallocated[i] : i \in 1 .. t}
  BY DEF Taken
<1>5. Allocations' = [o \in Ordinals |->
                        IF o \in Taken(n) THEN AttrIndex(h, s) ELSE Allocations[o]]
  BY <1>4 DEF AutoAssign
<1>6. Unallocated' = SubSeq(Unallocated, t + 1, u)
  BY DEF AutoAssign
<1> HIDE DEF t
<1>7. Taken(n) \subseteq Ordinals /\ Taken(n) # {} /\ \A o \in Taken(n) : Allocations[o] = 0
  <2>1. \A i \in 1 .. t : i \in 1 .. u /\ Unallocated[i] \in Ordinals
    BY <1>1, <1>3
  <2>2. 1 \in 1 .. t
    BY <1>3
  <2> QED BY <1>2, <1>4, <2>1, <2>2
<1>8. /\ Unallocated' \in Seq(Ordinals) /\ Len(Unallocated') = u - t
      /\ \A i \in 1 .. (u - t) : Unallocated'[i] = Unallocated[t + i]
  <2>1. \A i \in (t + 1) .. u : Unallocated[i] \in Ordinals
    BY <1>1, <1>3
  <2>2. /\ SubSeq(Unallocated, t + 1, u) \in Seq(Ordinals)
        /\ Len(SubSeq(Unallocated, t + 1, u)) = IF t + 1 <= u THEN u - (t + 1) + 1 ELSE 0
        /\ \A i \in 1 .. (u - (t + 1) + 1) :
             SubSeq(Unallocated, t + 1, u)[i] = Unallocated[(t + 1) + i - 1]
    <3>1. t + 1 \in Int /\ u \in Int
      BY <1>1, <1>3
    <3> HIDE DEF u
    <3> QED BY <2>1, <3>1, SubSeqProperties
  <2>3. \A i \in Int : (t + 1) + i - 1 = t + i
    BY <1>3
  <2>4. u - (t + 1) + 1 = u - t /\ (t + 1 > u => u - t = 0)
    <3>1. t \in Int /\ u \in Int /\ t <= u
      BY <1>1, <1>3
    <3> HIDE DEF u
    <3> QED BY <3>1
  <2>t. t \in Int /\ u \in Int /\ t <= u
    BY <1>1, <1>3
  <2> DEFINE v == SubSeq(Unallocated, t + 1, u)
  <2>5. v \in Seq(Ordinals) /\ Len(v) = u - t
    <3>1. Len(v) = IF t + 1 <= u THEN u - t ELSE 0
      BY <2>2, <2>4
    <3> HIDE DEF u, v
    <3>2. Len(v) = u - t
      BY <3>1, <2>4, <2>t
    <3> QED BY <2>2, <3>2 DEF v
  <2>6. \A i \in 1 .. (u - t) : v[i] = Unallocated[t + i]
    <3> SUFFICES ASSUME NEW i \in 1 .. (u - t) PROVE v[i] = Unallocated[t + i]
      OBVIOUS
    <3>1. v[i] = Unallocated[(t + 1) + i - 1]
      BY <2>2, <2>4
    <3>2. i \in Int
      OBVIOUS
    <3> QED BY <2>3, <3>1, <3>2
  <2> QED BY <1>6, <2>5, <2>6
<1>9. DOMAIN Unallocated' = 1 .. (u - t)
  BY <1>8
<1>10. \A i \in 1 .. (u - t) : t + i \in 1 .. u /\ t + i \notin 1 .. t
  BY <1>1, <1>3
<1>11. \A i, j \in DOMAIN Unallocated' : Unallocated'[i] = Unallocated'[j] => i = j
  <2> SUFFICES ASSUME NEW i \in 1 .. (u - t), NEW j \in 1 .. (u - t), Unallocated'[i] = Unallocated'[j]
               PROVE  i = j
    BY <1>9
  <2>1. t + i = t + j
    BY <1>2, <1>8, <1>10
  <2> QED BY <1>3, <2>1
<1>12. ASSUME NEW o \in Ordinals
       PROVE  (\E i \in DOMAIN Unallocated' : Unallocated'[i] = o)
                <=> Allocations[o] = 0 /\ o \notin Taken(n)
  <2>1. ASSUME NEW i \in 1 .. (u - t), Unallocated'[i] = o
        PROVE  Allocations[o] = 0 /\ o \notin Taken(n)
    <3>1. Unallocated[t + i] = o
      BY <1>8, <2>1
    <3>2. Allocations[o] = 0
      BY <1>2, <1>10, <3>1
    <3>3. ASSUME NEW j \in 1 .. t, Unallocated[j] = o PROVE FALSE
      <4>1. j \in 1 .. u
        BY <1>3
      <4> QED BY <1>2, <1>10, <3>1, <3>3, <4>1
    <3> QED BY <1>4, <3>2, <3>3
  <2>2. ASSUME Allocations[o] = 0, o \notin Taken(n)
        PROVE  \E i \in 1 .. (u - t) : Unallocated'[i] = o
    <3>1. PICK j \in 1 .. u : Unallocated[j] = o
      BY <1>2, <2>2
    <3>2. j \notin 1 .. t
      BY <1>4, <2>2, <3>1
    <3>3. j - t \in 1 .. (u - t) /\ t + (j - t) = j
      BY <1>1, <1>3, <3>2
    <3> QED BY <1>8, <3>1, <3>3
  <2> QED BY <1>9, <2>1, <2>2
<1> QED BY <1>5, <1>7, <1>8, <1>11, <1>12

\* An assignment keeps the invariant.
LEMMA AutoAssignInv ==
  ASSUME BlockInv, NEW n \in 1 .. MaxNum, NEW h \in Handles, NEW s \in AttrMaps, AutoAssign(n, h, s)
  PROVE  BlockInv'
<1> DEFINE k == AttrIndex(h, s)
<1> DEFINE O == Taken(n)
<1>1. /\ O \subseteq Ordinals /\ O # {} /\ \A o \in O : Allocations[o] = 0
      /\ Allocations' = [o \in Ordinals |-> IF o \in O THEN k ELSE Allocations[o]]
      /\ Unallocated' \in Seq(Ordinals)
      /\ \A o \in Ordinals : (\E i \in DOMAIN Unallocated' : Unallocated'[i] = o)
                               <=> Allocations[o] = 0 /\ o \notin O
      /\ \A i, j \in DOMAIN Unallocated' : Unallocated'[i] = Unallocated'[j] => i = j
  BY HeadTaken
<1>2. Attributes' = WithAttribute(h, s) /\ Deleted' = Deleted
  BY DEF AutoAssign
<1>3. /\ Attributes' \in Seq(Attribute) /\ k \in 1 .. Len(Attributes')
      /\ Len(Attributes) <= Len(Attributes')
      /\ \A i \in 1 .. Len(Attributes) : Attributes'[i] = Attributes[i]
      /\ Attributes'[k].primary = h
      /\ \A i \in 1 .. Len(Attributes') : i > Len(Attributes) => i = k
  BY <1>2, AttributeFound DEF BlockInv
<1> HIDE DEF k, O
<1>4. /\ Attributes \in Seq(Attribute) /\ Len(Attributes) \in Nat /\ Deleted \in BOOLEAN
      /\ Allocations \in [Ordinals -> 0 .. Len(Attributes)]
      /\ DOMAIN Attributes = 1 .. Len(Attributes)
  BY DEF BlockInv, BlockTypeOK
<1>5. Len(Attributes') \in Nat /\ DOMAIN Attributes' = 1 .. Len(Attributes')
  BY <1>3
<1>6. BlockTypeOK'
  <2>1. \A o \in Ordinals : Allocations'[o] \in 0 .. Len(Attributes')
    BY <1>1, <1>3, <1>4, <1>5
  <2>2. Allocations' \in [Ordinals -> 0 .. Len(Attributes')]
    BY <1>1, <2>1
  <2> QED BY <1>1, <1>2, <1>3, <1>4, <2>2 DEF BlockTypeOK
<1>7. FreeListExact'
  <2>1. \A o \in Ordinals : Allocations'[o] = 0 <=> Allocations[o] = 0 /\ o \notin O
    BY <1>1, <1>3, <1>5
  <2> QED BY <1>1, <2>1 DEF FreeListExact
<1>8. AttributesInUse'
  <2> SUFFICES ASSUME NEW i \in DOMAIN Attributes'
               PROVE  Attributes'[i].primary = ReservedHandle \/ \E o \in Ordinals : Allocations'[o] = i
    BY DEF AttributesInUse
  <2>1. CASE i > Len(Attributes)
    <3>1. i = k
      BY <1>3, <1>5, <2>1
    <3> QED BY <1>1, <3>1
  <2>2. CASE ~(i > Len(Attributes))
    <3>1. i \in 1 .. Len(Attributes)
      BY <1>4, <1>5, <2>2
    <3>2. CASE Attributes[i].primary = ReservedHandle
      BY <1>3, <3>1, <3>2
    <3>3. CASE Attributes[i].primary # ReservedHandle
      <4>1. PICK o \in Ordinals : Allocations[o] = i
        BY <1>4, <3>1, <3>3 DEF BlockInv, AttributesInUse
      <4>2. o \notin O
        BY <1>1, <3>1, <4>1
      <4> QED BY <1>1, <4>1, <4>2
    <3> QED BY <3>2, <3>3
  <2> QED BY <2>1, <2>2
<1>9. ReservedExact'
  <2>1. \A o \in Ordinals : o \in Reserved
            <=> Allocations[o] # 0 /\ Attributes[Allocations[o]].primary = ReservedHandle
    BY BlockConstants DEF BlockInv, ReservedExact, AllocatedTo
  <2>2. ASSUME NEW o \in Ordinals
        PROVE  o \in Reserved <=>
                 Allocations'[o] # 0 /\ Attributes'[Allocations'[o]].primary = ReservedHandle
    <3>1. CASE o \in O
      <4>1. o \notin Reserved
        BY <1>1, <2>1, <3>1
      <4>2. Allocations'[o] = k
        BY <1>1, <3>1
      <4> QED BY <1>3, <4>1, <4>2, BlockConstants
    <3>2. CASE o \notin O
      <4>1. Allocations'[o] = Allocations[o]
        BY <1>1, <3>2
      <4>2. Allocations[o] # 0 => Allocations[o] \in 1 .. Len(Attributes)
        BY <1>4
      <4> QED BY <1>3, <2>1, <4>1, <4>2
    <3> QED BY <3>1, <3>2
  <2>3. AllocatedTo({ReservedHandle})' = Reserved
    BY <2>2, BlockConstants DEF AllocatedTo
  <2> QED BY <2>3 DEF ReservedExact
<1> QED BY <1>6, <1>7, <1>8, <1>9 DEF BlockInv

-----------------------------------------------------------------------------
(* ReleaseByHandle                                                         *)

\* deleteAttributes moves every attribute it keeps to the index it gives to
\* the addresses of that attribute, and leaves nothing between them.
LEMMA AttributesMoved ==
  ASSUME BlockTypeOK, NEW h
  PROVE  /\ Cardinality(KeptIndexes(h)) \in Nat
         /\ KeptIndexes(h) \subseteq 1 .. Len(Attributes)
         /\ AttributesAfter(h) \in Seq(Attribute)
         /\ Len(AttributesAfter(h)) = Cardinality(KeptIndexes(h))
         /\ \A i \in KeptIndexes(h) :
              /\ NewIndex(h, i) \in 1 .. Cardinality(KeptIndexes(h))
              /\ AttributesAfter(h)[NewIndex(h, i)] = Attributes[i]
         /\ \A k \in 1 .. Cardinality(KeptIndexes(h)) :
              \E i \in KeptIndexes(h) : NewIndex(h, i) = k
<1> DEFINE K == KeptIndexes(h)
<1> DEFINE c == Cardinality(K)
<1>1. Attributes \in Seq(Attribute) /\ Len(Attributes) \in Nat
      /\ DOMAIN Attributes = 1 .. Len(Attributes)
  BY DEF BlockTypeOK
<1>2. K \subseteq 1 .. Len(Attributes) /\ K \subseteq Nat /\ IsFiniteSet(K)
  <2>1. K \subseteq 1 .. Len(Attributes)
    BY <1>1 DEF KeptIndexes
  <2>2. IsFiniteSet(1 .. Len(Attributes))
    BY <1>1, FS_Interval
  <2>3. 1 .. Len(Attributes) \subseteq Nat
    BY <1>1
  <2> HIDE DEF K
  <2>4. IsFiniteSet(K)
    BY <2>1, <2>2, FS_Subset
  <2> QED BY <2>1, <2>3, <2>4
<1> HIDE DEF K
<1>3. /\ c \in Nat /\ Ascending(K) \in [1 .. c -> K]
      /\ \A x \in K : Ascending(K)[Rank(K, x)] = x
      /\ \A k \in 1 .. c : Rank(K, Ascending(K)[k]) = k
  BY <1>2, AscendingLists
<1>4. \A i \in K : NewIndex(h, i) = Rank(K, i) /\ Rank(K, i) \in 1 .. c
  <2>1. \A i \in K : i \notin attributeIndexesByHandle(h)
    BY DEF K, KeptIndexes
  <2>2. \A i \in K : Rank(K, i) \in 1 .. c
    BY <1>2, RankType
  <2> QED BY <2>1, <2>2 DEF NewIndex, K
<1>5. AttributesAfter(h) = [k \in 1 .. c |-> Attributes[Ascending(K)[k]]]
  BY DEF AttributesAfter, K
<1>6. \A k \in 1 .. c : Ascending(K)[k] \in K /\ Attributes[Ascending(K)[k]] \in Attribute
  <2>1. \A k \in 1 .. c : Ascending(K)[k] \in K
    BY <1>3
  <2>2. \A i \in 1 .. Len(Attributes) : Attributes[i] \in Attribute
    BY <1>1
  <2> QED BY <1>2, <2>1, <2>2
<1>7. AttributesAfter(h) \in Seq(Attribute) /\ Len(AttributesAfter(h)) = c
  BY <1>3, <1>5, <1>6
<1>8. \A i \in K : AttributesAfter(h)[NewIndex(h, i)] = Attributes[i]
  BY <1>3, <1>4, <1>5
<1>9. \A k \in 1 .. c : \E i \in K : NewIndex(h, i) = k
  <2> SUFFICES ASSUME NEW k \in 1 .. c PROVE \E i \in K : NewIndex(h, i) = k
    OBVIOUS
  <2>1. Ascending(K)[k] \in K /\ NewIndex(h, Ascending(K)[k]) = k
    BY <1>3, <1>4, <1>6
  <2> QED BY <2>1
<1> QED BY <1>2, <1>3, <1>4, <1>7, <1>8, <1>9 DEF K

\* What a release does to an address: the handle's become free, the others
\* stay with the attribute they had.
LEMMA AddressReleased ==
  ASSUME BlockTypeOK, NEW h \in Handles, ReleaseByHandle(h), NEW o \in Ordinals
  PROVE  /\ Allocations[o] = 0 => Allocations'[o] = 0
         /\ o \in OrdinalsByHandle(h) => Allocations'[o] = 0 /\ Allocations[o] # 0
                                         /\ Attributes[Allocations[o]].primary = h
         /\ Allocations[o] # 0 /\ o \notin OrdinalsByHandle(h) =>
              /\ Allocations[o] \in KeptIndexes(h)
              /\ Attributes[Allocations[o]].primary # h
              /\ Allocations'[o] = NewIndex(h, Allocations[o])
              /\ Allocations'[o] \in 1 .. Len(Attributes')
              /\ Attributes'[Allocations'[o]] = Attributes[Allocations[o]]
<1>1. /\ Allocations[o] \in 0 .. Len(Attributes) /\ Len(Attributes) \in Nat
      /\ DOMAIN Attributes = 1 .. Len(Attributes)
  BY DEF BlockTypeOK
<1>2. /\ Attributes' = AttributesAfter(h)
      /\ Allocations'[o] = IF Allocations[o] = 0 THEN 0 ELSE NewIndex(h, Allocations[o])
  BY DEF ReleaseByHandle
<1>3. o \in OrdinalsByHandle(h) <=> Allocations[o] \in attributeIndexesByHandle(h)
  BY DEF OrdinalsByHandle
<1>4. \A i : i \in attributeIndexesByHandle(h) <=> i \in 1 .. Len(Attributes) /\ Attributes[i].primary = h
  BY <1>1 DEF attributeIndexesByHandle
<1>5. \A i \in attributeIndexesByHandle(h) : NewIndex(h, i) = 0
  BY DEF NewIndex
<1>6. CASE o \in OrdinalsByHandle(h)
  BY <1>1, <1>2, <1>3, <1>4, <1>5, <1>6
<1>7. CASE Allocations[o] # 0 /\ o \notin OrdinalsByHandle(h)
  <2>1. Allocations[o] \in 1 .. Len(Attributes)
    BY <1>1, <1>7
  <2>2. Allocations[o] \in KeptIndexes(h) /\ Attributes[Allocations[o]].primary # h
    BY <1>1, <1>3, <1>4, <1>7, <2>1 DEF KeptIndexes
  <2> QED BY <1>2, <1>7, <2>2, AttributesMoved
<1>8. CASE Allocations[o] = 0
  BY <1>1, <1>2, <1>3, <1>4, <1>8
<1> QED BY <1>6, <1>7, <1>8

\* A release keeps the invariant.
LEMMA ReleaseInv ==
  ASSUME BlockInv, NEW h \in Handles, ReleaseByHandle(h)
  PROVE  BlockInv'
<1> DEFINE O == OrdinalsByHandle(h)
<1> DEFINE K == KeptIndexes(h)
<1>t. BlockTypeOK
  BY DEF BlockInv
<1>1. /\ Attributes' = AttributesAfter(h) /\ Deleted' = Deleted
      /\ Unallocated' = Unallocated \o Ascending(O)
      /\ Allocations' = [o \in Ordinals |->
                           IF Allocations[o] = 0 THEN 0 ELSE NewIndex(h, Allocations[o])]
  BY DEF ReleaseByHandle, UnallocatedAfter
<1>2. /\ Cardinality(K) \in Nat /\ K \subseteq 1 .. Len(Attributes)
      /\ Attributes' \in Seq(Attribute) /\ Len(Attributes') = Cardinality(K)
      /\ \A i \in K : /\ NewIndex(h, i) \in 1 .. Len(Attributes')
                      /\ Attributes'[NewIndex(h, i)] = Attributes[i]
      /\ \A k \in 1 .. Len(Attributes') : \E i \in K : NewIndex(h, i) = k
  BY <1>t, <1>1, AttributesMoved
<1>3. ASSUME NEW o \in Ordinals
      PROVE  /\ Allocations[o] = 0 => Allocations'[o] = 0
             /\ o \in O => Allocations'[o] = 0 /\ Allocations[o] # 0
                           /\ Attributes[Allocations[o]].primary = h
             /\ Allocations[o] # 0 /\ o \notin O =>
                  /\ Allocations[o] \in K
                  /\ Attributes[Allocations[o]].primary # h
                  /\ Allocations'[o] = NewIndex(h, Allocations[o])
                  /\ Allocations'[o] \in 1 .. Len(Attributes')
                  /\ Attributes'[Allocations'[o]] = Attributes[Allocations[o]]
  BY <1>t, AddressReleased
<1>4. O \subseteq Ordinals /\ O \subseteq Nat /\ IsFiniteSet(O)
  <2>1. O \subseteq Ordinals
    BY DEF OrdinalsByHandle
  <2> HIDE DEF O
  <2>2. IsFiniteSet(O)
    BY <2>1, FS_Subset, BlockConstants
  <2> QED BY <2>1, <2>2, BlockConstants
<1> HIDE DEF O, K
<1>5. BlockTypeOK'
  <2>1. \A o \in Ordinals : Allocations'[o] \in 0 .. Len(Attributes')
    BY <1>2, <1>3
  <2>2. Allocations' \in [Ordinals -> 0 .. Len(Attributes')]
    BY <1>1, <2>1
  <2>3. Unallocated' \in Seq(Ordinals)
    <3>1. Ascending(O) \in Seq(O)
      BY <1>4, AscendingLists
    <3>2. Ascending(O) \in Seq(Ordinals)
      BY <1>4, <3>1, SeqMonotonic
    <3>3. Unallocated \in Seq(Ordinals)
      BY <1>t DEF BlockTypeOK
    <3> QED BY <1>1, <3>2, <3>3, ConcatProperties
  <2> QED BY <1>1, <1>2, <1>t, <2>2, <2>3 DEF BlockTypeOK
<1>6. FreeListExact'
  <2> DEFINE a == Ascending(O)
  <2> DEFINE u == Len(Unallocated)
  <2> DEFINE c == Cardinality(O)
  <2>1. /\ c \in Nat /\ a \in [1 .. c -> O] /\ a \in Seq(O) /\ Len(a) = c
        /\ \A x \in O : a[Rank(O, x)] = x
        /\ \A i, j \in 1 .. c : a[i] = a[j] => i = j
    BY <1>4, AscendingLists
  <2>2. Unallocated \in Seq(Ordinals) /\ u \in Nat /\ DOMAIN Unallocated = 1 .. u
    BY <1>t DEF BlockTypeOK
  <2>3. /\ \A o \in Ordinals : (Allocations[o] = 0) <=> \E i \in 1 .. u : Unallocated[i] = o
        /\ \A i, j \in 1 .. u : Unallocated[i] = Unallocated[j] => i = j
    BY <2>2 DEF BlockInv, FreeListExact
  <2>4. a \in Seq(Ordinals)
    BY <1>4, <2>1, SeqMonotonic
  <2> HIDE DEF a, u, c
  <2>5. /\ Unallocated' \in Seq(Ordinals) /\ Len(Unallocated') = u + c
        /\ \A i \in 1 .. (u + c) : Unallocated'[i] = IF i <= u THEN Unallocated[i] ELSE a[i - u]
    <3>1. /\ Unallocated \o a \in Seq(Ordinals)
          /\ Len(Unallocated \o a) = Len(Unallocated) + Len(a)
          /\ \A i \in 1 .. Len(Unallocated) + Len(a) :
               (Unallocated \o a)[i] =
                 IF i <= Len(Unallocated) THEN Unallocated[i] ELSE a[i - Len(Unallocated)]
      BY <2>2, <2>4, ConcatProperties
    <3>2. Len(Unallocated) = u /\ Len(a) = c /\ Unallocated' = Unallocated \o a
      BY <1>1, <2>1 DEF u, a
    <3> QED BY <3>1, <3>2
  <2>6. DOMAIN Unallocated' = 1 .. (u + c)
    BY <2>5
  <2>7. \A i \in 1 .. u : i \in 1 .. (u + c) /\ Unallocated'[i] = Unallocated[i] /\ Allocations[Unallocated[i]] = 0
    BY <2>1, <2>2, <2>3, <2>5
  <2>8. \A i \in 1 .. (u + c) : i \notin 1 .. u =>
          /\ i - u \in 1 .. c /\ Unallocated'[i] = a[i - u] /\ a[i - u] \in O
          /\ Allocations[a[i - u]] # 0
    <3> SUFFICES ASSUME NEW i \in 1 .. (u + c), i \notin 1 .. u
                 PROVE  /\ i - u \in 1 .. c /\ Unallocated'[i] = a[i - u] /\ a[i - u] \in O
                        /\ Allocations[a[i - u]] # 0
      OBVIOUS
    <3>1. i - u \in 1 .. c /\ ~(i <= u)
      BY <2>1, <2>2
    <3>2. a[i - u] \in O
      BY <2>1, <3>1
    <3>3. Allocations[a[i - u]] # 0
      BY <1>3, <1>4, <3>2
    <3> QED BY <2>5, <3>1, <3>2, <3>3
  <2>9. \A j \in 1 .. c : u + j \in 1 .. (u + c) /\ Unallocated'[u + j] = a[j]
    <3> SUFFICES ASSUME NEW j \in 1 .. c PROVE u + j \in 1 .. (u + c) /\ Unallocated'[u + j] = a[j]
      OBVIOUS
    <3>1. u + j \in 1 .. (u + c) /\ ~(u + j <= u) /\ (u + j) - u = j
      BY <2>1, <2>2
    <3> QED BY <2>5, <3>1
  <2>10. ASSUME NEW o \in Ordinals
         PROVE  Allocations'[o] = 0 <=> \E i \in 1 .. (u + c) : Unallocated'[i] = o
    <3>1. Allocations'[o] = 0 <=> Allocations[o] = 0 \/ o \in O
      BY <1>2, <1>3
    <3>2. ASSUME Allocations[o] = 0 PROVE \E i \in 1 .. (u + c) : Unallocated'[i] = o
      BY <2>3, <2>7, <3>2
    <3>3. ASSUME o \in O PROVE \E i \in 1 .. (u + c) : Unallocated'[i] = o
      <4>1. Rank(O, o) \in 1 .. c
        BY <1>4, <3>3, RankType DEF c
      <4> QED BY <2>1, <2>9, <3>3, <4>1
    <3>4. ASSUME NEW i \in 1 .. (u + c), Unallocated'[i] = o PROVE Allocations[o] = 0 \/ o \in O
      BY <2>7, <2>8, <3>4
    <3> QED BY <3>1, <3>2, <3>3, <3>4
  <2>11. ASSUME NEW i \in 1 .. (u + c), NEW j \in 1 .. (u + c), Unallocated'[i] = Unallocated'[j]
         PROVE  i = j
    <3>1. CASE i \in 1 .. u /\ j \in 1 .. u
      BY <2>3, <2>7, <2>11, <3>1
    <3>2. CASE i \notin 1 .. u /\ j \notin 1 .. u
      <4>1. i - u = j - u
        BY <2>1, <2>8, <2>11, <3>2
      <4> QED BY <2>2, <4>1
    <3>3. CASE i \in 1 .. u /\ j \notin 1 .. u
      BY <2>7, <2>8, <2>11, <3>3
    <3>4. CASE i \notin 1 .. u /\ j \in 1 .. u
      BY <2>7, <2>8, <2>11, <3>4
    <3> QED BY <3>1, <3>2, <3>3, <3>4
  <2> QED BY <2>6, <2>10, <2>11 DEF FreeListExact
<1>7. AttributesInUse'
  <2> SUFFICES ASSUME NEW k \in 1 .. Len(Attributes')
               PROVE  Attributes'[k].primary = ReservedHandle \/ \E o \in Ordinals : Allocations'[o] = k
    BY <1>2 DEF AttributesInUse
  <2>1. PICK i \in K : NewIndex(h, i) = k
    BY <1>2
  <2>2. i \in DOMAIN Attributes /\ i \in Nat \ {0} /\ Attributes'[k] = Attributes[i]
    BY <1>2, <1>t, <2>1 DEF BlockTypeOK
  <2>3. CASE Attributes[i].primary = ReservedHandle
    BY <2>2, <2>3
  <2>4. CASE Attributes[i].primary # ReservedHandle
    <3>1. PICK o \in Ordinals : Allocations[o] = i
      BY <2>2, <2>4 DEF BlockInv, AttributesInUse
    <3>2. Allocations'[o] = k
      BY <1>1, <2>1, <2>2, <3>1
    <3> QED BY <3>2
  <2> QED BY <2>3, <2>4
<1>8. ReservedExact'
  <2>1. \A o \in Ordinals : o \in Reserved
            <=> Allocations[o] # 0 /\ Attributes[Allocations[o]].primary = ReservedHandle
    BY BlockConstants DEF BlockInv, ReservedExact, AllocatedTo
  <2>2. \A o \in Ordinals : o \in Reserved
            <=> Allocations'[o] # 0 /\ Attributes'[Allocations'[o]].primary = ReservedHandle
    BY <1>2, <1>3, <2>1, BlockConstants
  <2>3. AllocatedTo({ReservedHandle})' = Reserved
    BY <2>2, BlockConstants DEF AllocatedTo
  <2> QED BY <2>3 DEF ReservedExact
<1> QED BY <1>5, <1>6, <1>7, <1>8 DEF BlockInv

-----------------------------------------------------------------------------
(* The theorems                                                            *)

LEMMA BlockStep == BlockInv /\ [Next]_bvars => BlockInv'
<1> SUFFICES ASSUME BlockInv, [Next]_bvars PROVE BlockInv'
  OBVIOUS
<1>1. CASE \E n \in 1 .. MaxNum, h \in Handles, s \in AttrMaps : AutoAssign(n, h, s)
  BY <1>1, AutoAssignInv
<1>2. CASE \E h \in Handles : ReleaseByHandle(h)
  BY <1>2, ReleaseInv
<1>3. CASE MarkDeletedBlock
  BY <1>3 DEF MarkDeletedBlock, BlockInv, BlockTypeOK, FreeListExact, AttributesInUse,
              ReservedExact, AllocatedTo
<1>4. CASE UNCHANGED bvars
  BY <1>4 DEF bvars, BlockInv, BlockTypeOK, FreeListExact, AttributesInUse,
              ReservedExact, AllocatedTo
<1> QED BY <1>1, <1>2, <1>3, <1>4 DEF Next

LEMMA BlockInvariant == BlockImplSpec => []BlockInv
BY InitInv, BlockStep, PTL DEF BlockImplSpec

\* Every index in Allocations is that of an attribute, over any sequence of
\* assignments and releases: AutoAssign, ReleaseByHandle and the counts never
\* index Attributes or Allocations out of range.
THEOREM BlockTypeCorrect == BlockImplSpec => []BlockTypeOK
<1>1. BlockInv => BlockTypeOK
  BY DEF BlockInv
<1> QED BY <1>1, BlockInvariant, PTL

\* Unallocated holds exactly the ordinals that Allocations leaves nil, each
\* once: no address is lost by a release, and none is handed out twice.
THEOREM FreeListIsExact == BlockImplSpec => []FreeListExact
<1>1. BlockInv => FreeListExact
  BY DEF BlockInv
<1> QED BY <1>1, BlockInvariant, PTL

\* findOrAddAttribute and deleteAttributes between them leave no attribute
\* without an address behind, the reserved one excepted.
THEOREM NoAttributeLeft == BlockImplSpec => []AttributesInUse
<1>1. BlockInv => AttributesInUse
  BY DEF BlockInv
<1> QED BY <1>1, BlockInvariant, PTL

\* Counting the free list counts the free addresses.
LEMMA FreeCounted ==
  ASSUME BlockInv
  PROVE  Len(Unallocated) = Cardinality({o \in Ordinals : Allocations[o] = 0})
<1> DEFINE F == {o \in Ordinals : Allocations[o] = 0}
<1> DEFINE N == 1 .. Len(Unallocated)
<1>1. Unallocated \in [N -> Ordinals] /\ Len(Unallocated) \in Nat /\ DOMAIN Unallocated = N
  BY DEF BlockInv, BlockTypeOK
<1>2. /\ \A o \in Ordinals : (Allocations[o] = 0) <=> \E i \in N : Unallocated[i] = o
      /\ \A i, j \in N : Unallocated[i] = Unallocated[j] => i = j
  BY <1>1 DEF BlockInv, FreeListExact
<1>3. IsFiniteSet(N) /\ Cardinality(N) = Len(Unallocated)
  <2>1. \A u \in Nat : IsFiniteSet(1 .. u) /\ Cardinality(1 .. u) = u
    BY FS_Interval
  <2> QED BY <1>1, <2>1
<1> HIDE DEF N
<1>4. Unallocated \in [N -> F]
  BY <1>1, <1>2
<1>5. Unallocated \in Bijection(N, F)
  BY <1>2, <1>4 DEF Bijection, Injection, Surjection, IsInjective
<1> HIDE DEF F
<1>6. ExistsBijection(N, F)
  BY <1>5 DEF ExistsBijection
<1>7. Cardinality(F) = Cardinality(N)
  BY <1>3, <1>6, FS_Bijection
<1> QED BY <1>3, <1>7 DEF F

\* The owner of an address, read off the lists.
LEMMA AbstractOwner ==
  ASSUME BlockInv, NEW o \in Ordinals
  PROVE  /\ Abstract.alloc[o] = IF Allocations[o] = 0 THEN Free
                                ELSE Attributes[Allocations[o]].primary
         /\ Allocations[o] # 0 => /\ Allocations[o] \in DOMAIN Attributes
                                  /\ Attributes[Allocations[o]].primary \in Handles \cup {ReservedHandle}
                                  /\ Attributes[Allocations[o]].primary # Free
<1>1. Allocations[o] # 0 => /\ Allocations[o] \in DOMAIN Attributes
                            /\ Attributes[Allocations[o]] \in Attribute
  BY DEF BlockInv, BlockTypeOK
<1>2. \A a \in Attribute : a.primary \in Handles \cup {ReservedHandle}
  BY DEF Attribute
<1> QED BY <1>1, <1>2, BlockConstants DEF Abstract

\* The counts IPAM decides by - how many addresses are free, whether only
\* reserved ones are in use, how many those are, and which belong to a handle -
\* are those of the addresses' owners.
THEOREM CountsAreRight == BlockImplSpec => []CountsAgree
<1>1. BlockInv => CountsAgree
  <2> SUFFICES ASSUME BlockInv PROVE CountsAgree
    OBVIOUS
  <2>1. NumFreeAddresses = Cardinality(FreeOrdinals(Abstract))
    <3>1. FreeOrdinals(Abstract) = {o \in Ordinals : Allocations[o] = 0}
      BY AbstractOwner DEF FreeOrdinals
    <3> QED BY <3>1, FreeCounted DEF NumFreeAddresses
  <2>2. containsOnlyReservedIPs <=> Empty(Abstract)
    <3>1. \A o \in Ordinals : o \in AllocatedTo(Handles) <=> Abstract.alloc[o] \notin {Free, ReservedHandle}
      BY AbstractOwner, BlockConstants DEF AllocatedTo
    <3>2. AllocatedTo(Handles) \subseteq Ordinals
      BY DEF AllocatedTo
    <3> QED BY <3>1, <3>2 DEF containsOnlyReservedIPs, Empty
  <2>3. NumReservedAddresses = Cardinality(Reserved)
    BY DEF NumReservedAddresses, BlockInv, ReservedExact
  <2>4. ASSUME NEW h \in Handles PROVE OrdinalsByHandle(h) = OwnedBy(Abstract, h)
    <3>1. \A i \in DOMAIN Attributes : i \in attributeIndexesByHandle(h) <=> Attributes[i].primary = h
      BY DEF attributeIndexesByHandle
    <3>2. 0 \notin attributeIndexesByHandle(h)
      BY DEF attributeIndexesByHandle, BlockInv, BlockTypeOK
    <3>3. \A o \in Ordinals : Allocations[o] \in attributeIndexesByHandle(h) <=> Abstract.alloc[o] = h
      BY <3>1, <3>2, AbstractOwner, BlockConstants
    <3> QED BY <3>3 DEF OrdinalsByHandle, OwnedBy
  <2> QED BY <2>1, <2>2, <2>3, <2>4 DEF CountsAgree
<1> QED BY <1>1, BlockInvariant, PTL

-----------------------------------------------------------------------------
(* The refinement of BlockSpec                                             *)

LEMMA AbstractInit == Init => BS!Init
<1> SUFFICES ASSUME Init PROVE Abstract = NewBlock
  BY DEF BS!Init, NewBlock, BS!NewBlock, BS!Ordinals, Ordinals
<1>1. BlockInv
  BY InitInv
<1>2. \A o \in Ordinals : Abstract.alloc[o] = IF o \in Reserved THEN ReservedHandle ELSE Free
  <2>1. \A o \in Ordinals : Allocations[o] = 0 <=> o \notin Reserved
    BY DEF Init
  <2>2. \A o \in Reserved : Attributes[Allocations[o]].primary = ReservedHandle
    BY <1>1 DEF BlockInv, ReservedExact, AllocatedTo
  <2> QED BY <1>1, <2>1, <2>2, AbstractOwner
<1>3. Deleted = FALSE
  BY DEF Init
<1> QED BY <1>2, <1>3 DEF Abstract, NewBlock

\* An assignment gives free addresses to its handle and no other address
\* changes hands.
LEMMA AbstractAssign ==
  ASSUME BlockInv, NEW n \in 1 .. MaxNum, NEW h \in Handles, NEW s \in AttrMaps, AutoAssign(n, h, s)
  PROVE  /\ Taken(n) \in SUBSET FreeOrdinals(Abstract)
         /\ BS!Give(h, Taken(n))
<1> DEFINE O == Taken(n)
<1>1. /\ O \subseteq Ordinals /\ \A o \in O : Allocations[o] = 0
      /\ Allocations' = [o \in Ordinals |-> IF o \in O THEN AttrIndex(h, s) ELSE Allocations[o]]
  BY HeadTaken
<1>2. Attributes' = WithAttribute(h, s) /\ Deleted' = Deleted
  BY DEF AutoAssign
<1>3. /\ AttrIndex(h, s) \in 1 .. Len(Attributes')
      /\ \A i \in 1 .. Len(Attributes) : Attributes'[i] = Attributes[i]
      /\ Attributes'[AttrIndex(h, s)].primary = h
  BY <1>2, AttributeFound DEF BlockInv
<1> HIDE DEF O
<1>4. O \in SUBSET FreeOrdinals(Abstract)
  BY <1>1, AbstractOwner DEF FreeOrdinals
<1>5. ASSUME NEW o \in Ordinals
      PROVE  (IF Allocations'[o] = 0 THEN Free ELSE Attributes'[Allocations'[o]].primary)
               = IF o \in O THEN h ELSE Abstract.alloc[o]
  <2>1. CASE o \in O
    <3>1. Allocations'[o] = AttrIndex(h, s) /\ AttrIndex(h, s) # 0
      BY <1>1, <1>3, <2>1
    <3> QED BY <1>3, <2>1, <3>1
  <2>2. CASE o \notin O
    <3>1. Allocations'[o] = Allocations[o]
      BY <1>1, <2>2
    <3>2. Allocations[o] # 0 => Allocations[o] \in 1 .. Len(Attributes)
      BY DEF BlockInv, BlockTypeOK
    <3> QED BY <1>3, <2>2, <3>1, <3>2, AbstractOwner
  <2> QED BY <2>1, <2>2
<1>6. Abstract' = [alloc   |-> [o \in Ordinals |-> IF o \in O THEN h ELSE Abstract.alloc[o]],
                   deleted |-> Abstract.deleted]
  BY <1>2, <1>5 DEF Abstract
<1> QED BY <1>4, <1>6 DEF BS!Give, O, BS!Ordinals, Ordinals

LEMMA AbstractRelease ==
  ASSUME BlockInv, NEW h \in Handles, ReleaseByHandle(h)
  PROVE  Abstract' = Release(Abstract, h)
<1>1. Deleted' = Deleted /\ BlockTypeOK
  BY DEF ReleaseByHandle, BlockInv
<1>2. ASSUME NEW o \in Ordinals
      PROVE  (IF Allocations'[o] = 0 THEN Free ELSE Attributes'[Allocations'[o]].primary)
               = IF Abstract.alloc[o] = h THEN Free ELSE Abstract.alloc[o]
  <2>1. CASE Allocations[o] = 0
    BY <1>1, <2>1, AddressReleased, AbstractOwner
  <2>2. CASE o \in OrdinalsByHandle(h)
    BY <1>1, <2>2, AddressReleased, AbstractOwner
  <2>3. CASE Allocations[o] # 0 /\ o \notin OrdinalsByHandle(h)
    <3>1. Allocations'[o] # 0
      BY <1>1, <2>3, AddressReleased
    <3> QED BY <1>1, <2>3, <3>1, AddressReleased, AbstractOwner
  <2> QED BY <2>1, <2>2, <2>3
<1>3. Abstract' = [alloc   |-> [o \in Ordinals |-> IF Abstract.alloc[o] = h THEN Free
                                                   ELSE Abstract.alloc[o]],
                   deleted |-> Abstract.deleted]
  BY <1>1, <1>2 DEF Abstract
<1> QED BY <1>3 DEF Release

LEMMA AbstractStep == BlockInv /\ [Next]_bvars => [BS!Next]_Abstract
<1> SUFFICES ASSUME BlockInv, [Next]_bvars PROVE [BS!Next]_Abstract
  OBVIOUS
<1>1. ASSUME NEW n \in 1 .. MaxNum, NEW h \in Handles, NEW s \in AttrMaps, AutoAssign(n, h, s)
      PROVE  BS!Next
  <2>1. Taken(n) \in SUBSET BS!FreeOrdinals(Abstract) /\ BS!Give(h, Taken(n))
    BY <1>1, AbstractAssign DEF BS!FreeOrdinals, FreeOrdinals, BS!Ordinals, Ordinals
  <2> QED BY <2>1 DEF BS!Next
<1>2. ASSUME NEW h \in Handles, ReleaseByHandle(h) PROVE BS!Next
  <2>1. Abstract' = BS!Release(Abstract, h)
    BY <1>2, AbstractRelease DEF BS!Release, Release, BS!Ordinals, Ordinals
  <2> QED BY <2>1 DEF BS!Next
<1>3. ASSUME MarkDeletedBlock PROVE BS!Next
  <2>1. Abstract' = BS!MarkDeleted(Abstract)
    BY <1>3 DEF MarkDeletedBlock, Abstract, BS!MarkDeleted
  <2> QED BY <2>1 DEF BS!Next
<1>4. ASSUME UNCHANGED bvars PROVE UNCHANGED Abstract
  BY <1>4 DEF bvars, Abstract
<1> QED BY <1>1, <1>2, <1>3, <1>4 DEF Next

\* The three lists implement the block that module IPAM works with: what IPAM
\* assumes of the methods of IPAMBlock is true of their code.
THEOREM BlockImplemented == BlockImplSpec => ImplementsBlockSpec
<1>1. Init => BS!Init
  BY AbstractInit
<1>2. BlockInv /\ [Next]_bvars => [BS!Next]_Abstract
  BY AbstractStep
<1> QED BY <1>1, <1>2, BlockInvariant, PTL DEF BlockImplSpec, ImplementsBlockSpec, BS!Spec
=============================================================================
