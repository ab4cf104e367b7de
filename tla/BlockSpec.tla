----------------------------- MODULE BlockSpec ------------------------------
(***************************************************************************)
(* The life of one block in the terms of BlockOps: this is all that module *)
(* IPAM assumes of the methods of IPAMBlock.                               *)
(***************************************************************************)
EXTENDS BlockOps

VARIABLE block

Init == block = NewBlock

\* AutoAssign gives h a set of free addresses.
Give(h, S) == block' = [alloc   |-> [o \in Ordinals |-> IF o \in S THEN h ELSE block.alloc[o]],
                        deleted |-> block.deleted]

Next ==
  \/ \E h \in Handles, S \in SUBSET FreeOrdinals(block) : Give(h, S)
  \/ \E h \in Handles : block' = Release(block, h)
  \/ block' = MarkDeleted(block)

Spec == Init /\ [][Next]_block
=============================================================================
