----------------------------- MODULE BlockOps ------------------------------
(***************************************************************************)
(* An IPAMBlock seen from outside: who owns each address of the block, and *)
(* whether the block has been marked deleted.  An address is named by its  *)
(* ordinal, its offset in the block's CIDR.                                *)
(*                                                                         *)
(* The stored object keeps the same information as three lists             *)
(* (Allocations, Unallocated and Attributes); module IPAMBlock models      *)
(* those lists and is checked to implement the operators of this module.   *)
(***************************************************************************)
EXTENDS Naturals, FiniteSets

CONSTANTS
  Handles,         \* handle identifiers, one per workload attachment
  BlockSize,       \* number of addresses in a block
  Reserved,        \* ordinals outside rangeStart..rangeEnd of a VLAN pool
  Free,            \* owner of an unallocated address
  ReservedHandle   \* owner of a reserved address

Ordinals == 0 .. (BlockSize - 1)

\* ValidateCreate demands rangeStart <= rangeEnd: one address is assignable.
ASSUME BlockAssumption ==
  /\ BlockSize \in Nat \ {0}
  /\ IsFiniteSet(Handles)
  /\ Reserved \subseteq Ordinals
  /\ Reserved # Ordinals
  /\ Free \notin Handles
  /\ ReservedHandle \notin Handles
  /\ Free # ReservedHandle

Owner == Handles \cup {Free, ReservedHandle}
Block == [alloc : [Ordinals -> Owner], deleted : BOOLEAN]

NewBlock ==
  [alloc   |-> [o \in Ordinals |-> IF o \in Reserved THEN ReservedHandle ELSE Free],
   deleted |-> FALSE]

FreeOrdinals(bk)  == {o \in Ordinals : bk.alloc[o] = Free}
OwnedBy(bk, h)    == {o \in Ordinals : bk.alloc[o] = h}
Empty(bk)         == \A o \in Ordinals : bk.alloc[o] \in {Free, ReservedHandle}

\* AutoAssign takes the head of Unallocated; here any free ordinal may be it.
Assign(bk, o, h) == [alloc |-> [bk.alloc EXCEPT ![o] = h], deleted |-> bk.deleted]

\* Mutant: the release does not look at the handle of an address.
ReleaseAll(bk, h) ==
  [alloc |-> [o \in Ordinals |-> Free], deleted |-> bk.deleted]

Release(bk, h) ==
  [alloc   |-> [o \in Ordinals |-> IF bk.alloc[o] = h THEN Free ELSE bk.alloc[o]],
   deleted |-> bk.deleted]
MarkDeleted(bk) == [alloc |-> bk.alloc, deleted |-> TRUE]
=============================================================================
