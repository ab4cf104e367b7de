----------------------------- MODULE IPAMBlock ------------------------------
(***************************************************************************)
(* The methods of the IPAMBlock object, on the lists it really keeps:      *)
(*   Allocations  for each ordinal the index of an attribute, or nil,      *)
(*   Unallocated  the free ordinals, taken at the head, returned at the    *)
(*                tail,                                                    *)
(*   Attributes   who the addresses belong to: a handle and a map of       *)
(*                strings.  One handle may have several attributes.        *)
(* A release compacts Attributes and renumbers Allocations.                *)
(*                                                                         *)
(* The state is the object as stored.  Storing it writes it as JSON, where *)
(* an empty string map is left out (omitempty) and comes back as nil, so   *)
(* that reflect.DeepEqual never finds an attribute with an empty map.      *)
(*                                                                         *)
(* Indexes of Attributes count from 1 here, and 0 stands for nil.          *)
(***************************************************************************)
EXTENDS BlockOps, Sequences

CONSTANTS
  AttrMaps,       \* the string maps callers pass as attrs,
  EmptyMap,       \*   the empty one, as opposed to nil,
  NilMap,         \*   and nil, among them
  StartOfBlock,   \* addresses reserved at the start of the block
  EndOfBlock,     \*   and at its end
  MaxNum          \* the largest num passed to AutoAssign

nil == 0

\* The place of x among the elements of a set of numbers, from 1 on, and the
\* elements in the order in which a loop that counts upwards meets them.
Rank(S, x) == Cardinality({y \in S : y <= x})
Ascending(S) == [k \in 1 .. Cardinality(S) |-> CHOOSE x \in S : Rank(S, x) = k]

ASSUME IPAMBlockAssumption ==
  /\ StartOfBlock \in Nat /\ EndOfBlock \in Nat /\ MaxNum \in Nat \ {0}
  /\ StartOfBlock + EndOfBlock < BlockSize
  /\ NilMap \in AttrMaps /\ NilMap # EmptyMap
  /\ Reserved = 0 .. (StartOfBlock - 1)
                  \cup (BlockSize - EndOfBlock) .. (BlockSize - 1)

VARIABLES Allocations, Unallocated, Attributes, Deleted

bvars == <<Allocations, Unallocated, Attributes, Deleted>>

Attribute == [primary   : Handles \cup {ReservedHandle},
              secondary : (AttrMaps \ {EmptyMap}) \cup {"note"}]

\* What becomes of a string map on the way to the API server and back.
StoredMap(s) == IF s = EmptyMap THEN NilMap ELSE s

BlockTypeOK ==
  /\ Allocations \in [Ordinals -> 0 .. Len(Attributes)]
  /\ Unallocated \in Seq(Ordinals)
  /\ Attributes \in Seq(Attribute)
  /\ Deleted \in BOOLEAN

\* NewBlock, with the reserved attribute of a VLAN pool with a range or, for
\* another pool, without.
Init ==
  /\ Allocations = [o \in Ordinals |-> IF o \in Reserved THEN 1 ELSE nil]
  /\ Unallocated = [i \in 1 .. (BlockSize - StartOfBlock - EndOfBlock) |-> StartOfBlock + i - 1]
  /\ \/ Attributes = <<[primary |-> ReservedHandle, secondary |-> "note"]>>
     \/ Reserved = {} /\ Attributes = <<>>
  /\ Deleted = FALSE

FindAttribute(h, s) ==
  {i \in DOMAIN Attributes : Attributes[i] = [primary |-> h, secondary |-> s]}

\* Mutant: a new attribute gets the index of the last one.
AttrIndexOffByOne(h, s) ==
  IF FindAttribute(h, s) # {} THEN CHOOSE i \in FindAttribute(h, s) : TRUE
  ELSE Len(Attributes)

\* findOrAddAttribute: the index it returns, and the list it leaves behind.
AttrIndex(h, s) ==
  IF FindAttribute(h, s) # {}
    THEN CHOOSE i \in FindAttribute(h, s) : \A j \in FindAttribute(h, s) : i <= j
    ELSE Len(Attributes) + 1
WithAttribute(h, s) ==
  IF FindAttribute(h, s) # {} THEN Attributes
  ELSE Append(Attributes, [primary |-> h, secondary |-> StoredMap(s)])

\* AutoAssign takes up to n ordinals off the head of Unallocated.  With none
\* left it returns no address and changes nothing.
AutoAssign(n, h, s) ==
  LET taken == IF n <= Len(Unallocated) THEN n ELSE Len(Unallocated)
      ords  == {Unallocated[i] : i \in 1 .. taken}
  IN /\ taken > 0
     /\ Unallocated' = SubSeq(Unallocated, taken + 1, Len(Unallocated))
     /\ Allocations' = [o \in Ordinals |->
                          IF o \in ords THEN AttrIndex(h, s) ELSE Allocations[o]]
     /\ Attributes' = WithAttribute(h, s)
     /\ UNCHANGED Deleted

\* Mutant: the search stops at the handle's first attribute.
attributeIndexesFirst(h) ==
  {i \in DOMAIN Attributes :
     Attributes[i].primary = h /\ \A j \in 1 .. (i - 1) : Attributes[j].primary # h}

attributeIndexesByHandle(h) == {i \in DOMAIN Attributes : Attributes[i].primary = h}

\* The ordinals ReleaseByHandle releases; it returns how many they are.
OrdinalsByHandle(h) == {o \in Ordinals : Allocations[o] \in attributeIndexesByHandle(h)}

\* The attributes deleteAttributes keeps.
KeptIndexes(h) == DOMAIN Attributes \ attributeIndexesByHandle(h)

\* Mutant: the indexes behind the removed attributes are not moved up.
NewIndexKept(h, i) == IF i \in attributeIndexesByHandle(h) THEN nil ELSE i

\* deleteAttributes: where the attribute at index i ends up.
NewIndex(h, i) ==
  IF i \in attributeIndexesByHandle(h) THEN nil ELSE Rank(KeptIndexes(h), i)

\* Mutant: the released addresses are not put back.
UnallocatedAfterForgets(h) == Unallocated

UnallocatedAfter(h) == Unallocated \o Ascending(OrdinalsByHandle(h))

\* Mutant: only the first attribute of the handle is removed.
AttributesAfterFirst(h) ==
  LET first == CHOOSE i \in attributeIndexesByHandle(h) :
                 \A j \in attributeIndexesByHandle(h) : i <= j
  IN SubSeq(Attributes, 1, first - 1) \o SubSeq(Attributes, first + 1, Len(Attributes))

AttributesAfter(h) ==
  [k \in 1 .. Cardinality(KeptIndexes(h)) |-> Attributes[Ascending(KeptIndexes(h))[k]]]

ReleaseByHandle(h) ==
  /\ attributeIndexesByHandle(h) # {}
  /\ Attributes' = AttributesAfter(h)
  /\ Allocations' = [o \in Ordinals |->
                       IF Allocations[o] = nil THEN nil ELSE NewIndex(h, Allocations[o])]
  /\ Unallocated' = UnallocatedAfter(h)
  /\ UNCHANGED Deleted

MarkDeletedBlock ==
  /\ ~Deleted
  /\ Deleted' = TRUE
  /\ UNCHANGED <<Allocations, Unallocated, Attributes>>

Next ==
  \/ \E n \in 1 .. MaxNum, h \in Handles, s \in AttrMaps : AutoAssign(n, h, s)
  \/ \E h \in Handles : ReleaseByHandle(h)
  \/ MarkDeletedBlock

BlockImplSpec == Init /\ [][Next]_bvars
-----------------------------------------------------------------------------
(* The counts of GetUtilization                                            *)

NumFreeAddresses == Len(Unallocated)
AllocatedTo(H) ==
  {o \in Ordinals : Allocations[o] # nil /\ Attributes[Allocations[o]].primary \in H}
NumReservedAddresses == Cardinality(AllocatedTo({ReservedHandle}))
containsOnlyReservedIPs == AllocatedTo(Handles) = {}
-----------------------------------------------------------------------------
(* Properties                                                              *)

\* Unallocated and Allocations, kept up to date separately, tell the same
\* story: the free list holds each unallocated ordinal, and holds it once.
FreeListExact ==
  /\ \A o \in Ordinals :
       (Allocations[o] = nil) <=> \E i \in DOMAIN Unallocated : Unallocated[i] = o
  /\ \A i, j \in DOMAIN Unallocated : Unallocated[i] = Unallocated[j] => i = j

\* Attributes do not pile up: an attribute that is not the reserved one has an
\* address of its own, over any sequence of assignments and releases.  This
\* bounds the stored object, although equal attributes may be there twice.
AttributesInUse ==
  \A i \in DOMAIN Attributes :
    Attributes[i].primary = ReservedHandle \/ \E o \in Ordinals : Allocations[o] = i

\* The addresses the reserved attribute keeps are the ones outside the range.
ReservedExact == AllocatedTo({ReservedHandle}) = Reserved

\* What the operations keep up between them.
BlockInv == BlockTypeOK /\ FreeListExact /\ AttributesInUse /\ ReservedExact

\* The block as BlockOps sees it.
Abstract ==
  [alloc   |-> [o \in Ordinals |-> IF Allocations[o] = nil THEN Free
                                   ELSE Attributes[Allocations[o]].primary],
   deleted |-> Deleted]

BS == INSTANCE BlockSpec WITH block <- Abstract

\* The lists implement the block of BlockOps: a release renumbers the
\* attributes of every other handle without moving an address from one owner
\* to another, and an assignment hands out only addresses that were free.
ImplementsBlockSpec == BS!Spec

\* What IPAM reads off a block agrees with the lists: the counts that decide
\* on assigning, on deleting the block, and on how far a handle is taken down.
CountsAgree ==
  /\ NumFreeAddresses = Cardinality(FreeOrdinals(Abstract))
  /\ containsOnlyReservedIPs <=> Empty(Abstract)
  /\ NumReservedAddresses = Cardinality(Reserved)
  /\ \A h \in Handles : OrdinalsByHandle(h) = OwnedBy(Abstract, h)
=============================================================================
