---------------------------- MODULE AddressPool -----------------------------
(***************************************************************************)
(* What the IPAM client promises its callers, without blocks, handles or   *)
(* API calls: an address of a block in service is handed to one caller at  *)
(* a time and stays his until he gives it back, and a block is taken out   *)
(* of service only when nobody holds an address of it.                     *)
(*                                                                         *)
(* The promise ends with the block.  AutoAssign may still hand out an      *)
(* address of a block that has been marked deleted, and there two callers  *)
(* may end up with one address.                                            *)
(***************************************************************************)
EXTENDS Naturals

CONSTANTS
  Holders,    \* who may hold an address: the handles
  Addresses,  \* the addresses of a block, by ordinal
  Pieces      \* the blocks of the pool

VARIABLES
  held,       \* the addresses handed out and not given back
  retired     \* the blocks that have been out of service

poolVars == <<held, retired>>

Init == held = {} /\ retired = {}

Take(h, b, o) ==
  /\ b \notin retired => \A g \in held : ~(g.blk = b /\ g.ord = o)
  /\ held' = held \cup {[handle |-> h, blk |-> b, ord |-> o]}
  /\ UNCHANGED retired

GiveBack(h) ==
  /\ held' = {g \in held : g.handle # h}
  /\ UNCHANGED retired

Retire(b) ==
  /\ b \notin retired => \A g \in held : g.blk # b
  /\ retired' = retired \cup {b}
  /\ UNCHANGED held

Next ==
  \/ \E h \in Holders, b \in Pieces, o \in Addresses : Take(h, b, o)
  \/ \E h \in Holders : GiveBack(h)
  \/ \E b \in Pieces : Retire(b)

Spec == Init /\ [][Next]_poolVars

\* No two callers hold one address of a block that has never been retired.
Exclusive ==
  \A f, g \in held :
    f.blk = g.blk /\ f.ord = g.ord /\ f.blk \notin retired => f = g
=============================================================================
