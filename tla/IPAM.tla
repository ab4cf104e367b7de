-------------------------------- MODULE IPAM --------------------------------
(***************************************************************************)
(* The IPAM client of pkg/simple/client/network/ippool/ipam.  Every client *)
(* runs AutoAssign, ReleaseByHandle or, for the IPPool controller, the     *)
(* provider's DeleteIPPool against IPAMBlock and IPAMHandle objects kept   *)
(* by the Kubernetes API server; no lock is held, and the only             *)
(* synchronisation is the resourceVersion check of Update.                 *)
(*                                                                         *)
(* One action is one API call together with the local code up to the next  *)
(* call: between two calls of a client the other clients, the pool's       *)
(* administrator and crashes may interleave.                               *)
(*                                                                         *)
(* resourceVersion.  Update succeeds iff the object has not been written,  *)
(* deleted or re-created since the caller read it: then the caller's copy  *)
(* equals the stored object.  A copy that is out of date is of no further  *)
(* use, its Update fails whatever it holds.  So no copy is kept: bfresh    *)
(* and hfresh say which client's copy of which block or handle is current, *)
(* a read adds such a pair and a write takes out every pair of its object. *)
(***************************************************************************)
EXTENDS BlockOps

CONSTANTS
  Clients,          \* concurrent callers of the IPAM client
  NumBlocks,        \* blocks blockGenerator cuts out of the pool's CIDR
  datastoreRetries, \* 10 in the code
  SharedHandles,    \* may two clients work on one handle at the same time?
  Faults,           \* subset of {"apiError", "crash", "poolChange"}
  MaxHandleCount,   \* bound: no AutoAssign starts on a larger handle entry
  None              \* an object that is not in the store

BlockNames == 1 .. NumBlocks
Handle     == [block : [BlockNames -> Nat], deleted : BOOLEAN]

ASSUME IPAMAssumption ==
  /\ NumBlocks \in Nat \ {0}
  /\ datastoreRetries \in Nat \ {0}
  /\ SharedHandles \in BOOLEAN
  /\ MaxHandleCount \in Nat
  /\ Faults \subseteq {"apiError", "crash", "poolChange"}
  /\ None \notin Block /\ None \notin Handle /\ None \notin BlockNames
  /\ None \notin Handles

VARIABLES
  blocks,    \* [BlockNames -> Block or None], the IPAMBlock objects
  handles,   \* [Handles -> Handle or None], the IPAMHandle objects
  pool,      \* the IPPool object, as far as AutoAssign looks at it
  pc,        \* the API call a client makes next
  hid,       \* the handle a call works on
  blk,       \* the block it has at hand
  outer,     \* the retries of AutoAssign,
  mid,       \*   of autoAssign or releaseByHandle,
  inner,     \*   and of incrementHandle or decrementHandle
  num,       \* how many addresses decrementHandle takes off the handle
  cont,      \* what follows decrementHandle
  rem,       \* the entries of handle.Spec.Block still to be released
  list,      \* the blocks DeleteIPPool listed and has not come to, as listed
  bfresh,    \* pairs <<c, b>>: c's copy of block b is current
  hfresh,    \* pairs <<c, h>>: c's copy of handle h is current
  grants,    \* history: addresses returned to a caller and not given back
  marked,    \* history: blocks some client has marked deleted
  released   \* history: handles released with success and not used since

store   == <<blocks, handles, pool>>
history == <<grants, marked, released>>
tries   == <<outer, mid, inner>>
locals  == <<hid, blk, outer, mid, inner, num, cont, rem, list>>
copies  == <<bfresh, hfresh>>
vars    == <<store, pc, locals, copies, history>>

AssignLabels ==
  {"getPool", "listBlocks", "listUnclaimed", "createBlock", "incGet", "incDelete",
   "incCreate", "incUpdate", "updateBlock", "requery", "requeryDelete"}
ReleaseLabels ==
  {"relHandle", "relHandleDelete", "relGet", "relGetDelete", "relMark", "relDelete",
   "relUpdate"}
PoolLabels == {"poolList", "poolMark", "poolDelete", "poolUnused", "poolUsed", "poolError"}
DecLabels == {"decGet", "decQueryDelete", "decPut", "decDelete"}
Labels == {"idle", "panic"} \cup AssignLabels \cup ReleaseLabels \cup DecLabels
               \cup PoolLabels

Grant == [handle : Handles, blk : BlockNames, ord : Ordinals]

Listed == {"none", "empty", "marked", "used"}
NoList == [b \in BlockNames |-> "none"]

TypeOK ==
  /\ blocks \in [BlockNames -> Block \cup {None}]
  /\ handles \in [Handles -> Handle \cup {None}]
  /\ pool \in {"enabled", "disabled"}
  /\ pc \in [Clients -> Labels]
  /\ hid \in [Clients -> Handles \cup {None}]
  /\ blk \in [Clients -> BlockNames \cup {None}]
  /\ outer \in [Clients -> Nat]
  /\ mid \in [Clients -> Nat]
  /\ inner \in [Clients -> Nat]
  /\ num \in [Clients -> Nat]
  /\ cont \in [Clients -> {"requery", "retry", "release"}]
  /\ rem \in [Clients -> SUBSET BlockNames]
  /\ list \in [Clients -> [BlockNames -> Listed]]
  /\ bfresh \subseteq Clients \X BlockNames
  /\ hfresh \subseteq Clients \X Handles
  /\ grants \subseteq Grant
  /\ marked \subseteq BlockNames
  /\ released \subseteq Handles

Init ==
  /\ blocks = [b \in BlockNames |-> None]
  /\ handles = [h \in Handles |-> None]
  /\ pool = "enabled"
  /\ pc = [c \in Clients |-> "idle"]
  /\ hid = [c \in Clients |-> None]
  /\ blk = [c \in Clients |-> None]
  /\ outer = [c \in Clients |-> 0]
  /\ mid = [c \in Clients |-> 0]
  /\ inner = [c \in Clients |-> 0]
  /\ num = [c \in Clients |-> 0]
  /\ cont = [c \in Clients |-> "retry"]
  /\ rem = [c \in Clients |-> {}]
  /\ list = [c \in Clients |-> NoList]
  /\ bfresh = {} /\ hfresh = {}
  /\ grants = {} /\ marked = {} /\ released = {}

-----------------------------------------------------------------------------
(* The API server.                                                         *)

\* A successful write of block b, or handle h, outdates every copy of it, the
\* writer's own included (the code drops the object Update returns).
WriteBlock(b, obj) ==
  /\ blocks' = [blocks EXCEPT ![b] = obj]
  /\ bfresh' = {p \in bfresh : p[2] # b}
WriteHandle(h, obj) ==
  /\ handles' = [handles EXCEPT ![h] = obj]
  /\ hfresh' = {p \in hfresh : p[2] # h}

\* How Update answers: it writes, or fails with Conflict or with NotFound.
BlockCurrent(c)   == <<c, blk[c]>> \in bfresh
BlockConflict(c)  == ~BlockCurrent(c) /\ blocks[blk[c]] # None
BlockGone(c)      == ~BlockCurrent(c) /\ blocks[blk[c]] = None
HandleCurrent(c)  == <<c, hid[c]>> \in hfresh
HandleConflict(c) == ~HandleCurrent(c) /\ handles[hid[c]] # None
HandleGone(c)     == ~HandleCurrent(c) /\ handles[hid[c]] = None

Count(h, b) == IF handles[h] = None THEN 0 ELSE handles[h].block[b]

-----------------------------------------------------------------------------
(* Control flow shared by the calls.                                       *)

Goto(c, label) == pc' = [pc EXCEPT ![c] = label]

\* A new set of locals: everything not named starts afresh.
Locals(c, h, b, tried, r, l) ==
  /\ hid' = [hid EXCEPT ![c] = h]
  /\ blk' = [blk EXCEPT ![c] = b]
  /\ outer' = [outer EXCEPT ![c] = tried]
  /\ mid' = [mid EXCEPT ![c] = 0]
  /\ inner' = [inner EXCEPT ![c] = 0]
  /\ num' = [num EXCEPT ![c] = 0]
  /\ cont' = [cont EXCEPT ![c] = "retry"]
  /\ rem' = [rem EXCEPT ![c] = r]
  /\ list' = [list EXCEPT ![c] = l]
NoLocals(c) == Locals(c, None, None, 0, {}, NoList)

\* The call returns to its caller: its locals are gone.
Return(c) == Goto(c, "idle") /\ NoLocals(c)

\* An attempt of AutoAssign's loop failed: the next one reads the pool again.
RetryAssign(c) ==
  \/ /\ outer[c] + 1 < datastoreRetries
     /\ Goto(c, "getPool")
     /\ Locals(c, hid[c], None, outer[c] + 1, {}, NoList)
  \/ outer[c] + 1 >= datastoreRetries /\ Return(c)

\* Mutant: the block is written without counting the address in the handle.
TryBlockUncounted(c, b, obj, n) ==
  \/ /\ FreeOrdinals(obj) # {}
     /\ Goto(c, "updateBlock")
     /\ blk' = [blk EXCEPT ![c] = b]
     /\ mid' = [mid EXCEPT ![c] = n]
     /\ UNCHANGED <<hid, outer, inner, num, cont, rem, list>>
  \/ FreeOrdinals(obj) = {} /\ RetryAssign(c)

\* assignFromExistingBlock starts on the copy of block b just read or created,
\* in iteration n of autoAssign's loop.
TryBlock(c, b, obj, n) ==
  \/ /\ FreeOrdinals(obj) # {}
     /\ Goto(c, "incGet")
     /\ blk' = [blk EXCEPT ![c] = b]
     /\ mid' = [mid EXCEPT ![c] = n]
     /\ UNCHANGED <<hid, outer, inner, num, cont, rem, list>>
  \/ FreeOrdinals(obj) = {} /\ RetryAssign(c)

\* releaseByHandle is done with one block: ReleaseByHandle goes on to the next
\* entry of the handle (map order, hence any), or returns nil.
NextBlock(c, r) ==
  \/ r = {} /\ Return(c) /\ released' = released \cup {hid[c]}
  \/ \E b \in r :
       /\ Goto(c, "relGet")
       /\ Locals(c, hid[c], b, 0, r \ {b}, NoList)
       /\ UNCHANGED released

\* decrementHandle(handleID, block, n) begins.
StartDec(c, n, then) ==
  /\ Goto(c, "decGet")
  /\ num' = [num EXCEPT ![c] = n]
  /\ cont' = [cont EXCEPT ![c] = then]
  /\ inner' = [inner EXCEPT ![c] = 0]
  /\ UNCHANGED <<hid, blk, outer, mid, rem, list>>

\* decrementHandle returned, with or without an error.
DecDone(c) ==
  \/ /\ cont[c] = "requery"
     /\ Goto(c, "requery")
     /\ num' = [num EXCEPT ![c] = 0]
     /\ inner' = [inner EXCEPT ![c] = 0]
     /\ UNCHANGED <<hid, blk, outer, mid, cont, rem, list, released>>
  \/ cont[c] = "retry" /\ RetryAssign(c) /\ UNCHANGED released
  \/ cont[c] = "release" /\ NextBlock(c, rem[c])

-----------------------------------------------------------------------------
(* AutoAssign                                                              *)

\* A handle is worked on by one client at a time unless SharedHandles.
HandleIdle(h) == SharedHandles \/ \A c \in Clients : hid[c] # h

StartAutoAssign(c, h) ==
  /\ pc[c] = "idle" /\ HandleIdle(h)
  /\ \A b \in BlockNames : Count(h, b) <= MaxHandleCount
  /\ Goto(c, "getPool")
  /\ Locals(c, h, None, 0, {}, NoList)
  /\ released' = released \ {h}
  /\ UNCHANGED <<store, copies, grants, marked>>

\* A pool that is missing, disabled or of an unknown type ends the call.
GetPool(c) ==
  /\ pc[c] = "getPool"
  /\ \/ pool = "enabled" /\ Goto(c, "listBlocks") /\ UNCHANGED locals
     \/ pool # "enabled" /\ Return(c)
  /\ UNCHANGED <<store, copies, history>>

\* findOrClaimBlock takes the first listed block with a free address.  The
\* list is in name order, which the model leaves open.  Nothing looks at the
\* blocks' Deleted mark here.
ListBlocks(c) ==
  /\ pc[c] = "listBlocks"
  /\ \/ \E b \in BlockNames :
          /\ blocks[b] # None
          /\ FreeOrdinals(blocks[b]) # {}
          /\ TryBlock(c, b, blocks[b], 0)
          /\ bfresh' = bfresh \cup {<<c, b>>}
     \/ /\ \A b \in BlockNames : blocks[b] # None => FreeOrdinals(blocks[b]) = {}
        /\ Goto(c, "listUnclaimed")
        /\ UNCHANGED <<locals, bfresh>>
  /\ UNCHANGED <<store, hfresh, history>>

\* findUnclaimedBlock: the first CIDR of blockGenerator without a block, from
\* a second list.  ErrNoFreeBlocks is not retried.
FindUnclaimedBlock(c) ==
  /\ pc[c] = "listUnclaimed"
  /\ \/ \E b \in BlockNames :
          /\ blocks[b] = None
          /\ \A a \in 1 .. (b - 1) : blocks[a] # None
          /\ Goto(c, "createBlock")
          /\ blk' = [blk EXCEPT ![c] = b]
          /\ UNCHANGED <<hid, tries, num, cont, rem, list>>
     \/ (\A b \in BlockNames : blocks[b] # None) /\ Return(c)
  /\ UNCHANGED <<store, copies, history>>

\* Mutant: a block that exists already is overwritten.
CreateBlockOverwrites(c) ==
  /\ pc[c] = "createBlock"
  /\ blocks' = [blocks EXCEPT ![blk[c]] = NewBlock]
  /\ bfresh' = {p \in bfresh : p[2] # blk[c]} \cup {<<c, blk[c]>>}
  /\ TryBlock(c, blk[c], NewBlock, 0)
  /\ UNCHANGED <<handles, pool, hfresh, history>>

\* IPAMBlocks().Create.  On AlreadyExists b is the empty object Create
\* returned, and b.BlockName() dereferences the nil CIDR parsed from it.
CreateBlock(c) ==
  /\ pc[c] = "createBlock"
  /\ LET b == blk[c] IN
       \/ /\ blocks[b] = None
          /\ blocks' = [blocks EXCEPT ![b] = NewBlock]
          /\ bfresh' = {p \in bfresh : p[2] # b} \cup {<<c, b>>}
          /\ TryBlock(c, b, NewBlock, 0)
       \/ blocks[b] # None /\ Goto(c, "panic") /\ UNCHANGED <<blocks, bfresh, locals>>
  /\ UNCHANGED <<handles, pool, hfresh, history>>

\* queryHandle in incrementHandle.
IncGet(c) ==
  /\ pc[c] = "incGet"
  /\ LET h == hid[c] IN
       \/ handles[h] = None /\ Goto(c, "incCreate") /\ UNCHANGED hfresh
       \/ /\ handles[h] # None /\ handles[h].deleted
          /\ Goto(c, "incDelete")
          /\ UNCHANGED hfresh
       \/ /\ handles[h] # None /\ ~handles[h].deleted
          /\ Goto(c, "incUpdate")
          /\ hfresh' = hfresh \cup {<<c, h>>}
  /\ UNCHANGED <<store, locals, bfresh, history>>

\* queryHandle found the handle marked: it deletes it by name and reports
\* NotFound, as does a Delete that finds nothing.
IncDelete(c) ==
  /\ pc[c] = "incDelete"
  /\ WriteHandle(hid[c], None)
  /\ Goto(c, "incCreate")
  /\ UNCHANGED <<blocks, pool, locals, bfresh, history>>

NoHandle == [block |-> [b \in BlockNames |-> 0], deleted |-> FALSE]
IncrementBlock(hd, b, n) ==
  [block |-> [hd.block EXCEPT ![b] = @ + n], deleted |-> hd.deleted]

\* Mutant: the attempts of incrementHandle are not counted.
RetryIncrementForever(c) == Goto(c, "incGet") /\ UNCHANGED locals

\* AlreadyExists and Conflict make incrementHandle try again.
RetryIncrement(c) ==
  \/ /\ inner[c] + 1 < datastoreRetries
     /\ Goto(c, "incGet")
     /\ inner' = [inner EXCEPT ![c] = @ + 1]
     /\ UNCHANGED <<hid, blk, outer, mid, num, cont, rem, list>>
  \/ inner[c] + 1 >= datastoreRetries /\ RetryAssign(c)

Incremented(c) ==
  /\ Goto(c, "updateBlock")
  /\ inner' = [inner EXCEPT ![c] = 0]
  /\ UNCHANGED <<hid, blk, outer, mid, num, cont, rem, list>>

IncCreate(c) ==
  /\ pc[c] = "incCreate"
  /\ LET h == hid[c] IN
       \/ /\ handles[h] = None
          /\ WriteHandle(h, IncrementBlock(NoHandle, blk[c], 1))
          /\ Incremented(c)
       \/ handles[h] # None /\ RetryIncrement(c) /\ UNCHANGED <<handles, hfresh>>
  /\ UNCHANGED <<blocks, pool, bfresh, history>>

\* NotFound ends this attempt of AutoAssign.
IncUpdate(c) ==
  /\ pc[c] = "incUpdate"
  /\ LET h == hid[c] IN
       \/ /\ HandleCurrent(c)
          /\ WriteHandle(h, IncrementBlock(handles[h], blk[c], 1))
          /\ Incremented(c)
       \/ HandleConflict(c) /\ RetryIncrement(c) /\ UNCHANGED <<handles, hfresh>>
       \/ HandleGone(c) /\ RetryAssign(c) /\ UNCHANGED <<handles, hfresh>>
  /\ UNCHANGED <<blocks, pool, bfresh, history>>

\* Mutant: the write goes through on a copy that is out of date, with the
\* address that was free when the copy was read.
UpdateBlockUnchecked(c) ==
  /\ pc[c] = "updateBlock"
  /\ blocks[blk[c]] # None
  /\ \E o \in Ordinals \ Reserved :
       /\ WriteBlock(blk[c], Assign(blocks[blk[c]], o, hid[c]))
       /\ grants' = grants \cup {[handle |-> hid[c], blk |-> blk[c], ord |-> o]}
  /\ Return(c)
  /\ UNCHANGED <<handles, pool, hfresh, marked, released>>

\* IPAMBlocks().Update of the copy with one more address taken.  Success is
\* the end of AutoAssign: the address is the caller's.
UpdateBlock(c) ==
  /\ pc[c] = "updateBlock"
  /\ LET h == hid[c]
         b == blk[c]
     IN \/ /\ BlockCurrent(c)
           /\ \E o \in FreeOrdinals(blocks[b]) :
                /\ WriteBlock(b, Assign(blocks[b], o, h))
                /\ grants' = grants \cup {[handle |-> h, blk |-> b, ord |-> o]}
           /\ Return(c)
        \/ /\ BlockConflict(c)
           /\ StartDec(c, 1, "requery")
           /\ UNCHANGED <<blocks, bfresh, grants>>
        \/ /\ BlockGone(c)
           /\ StartDec(c, 1, "retry")
           /\ UNCHANGED <<blocks, bfresh, grants>>
  /\ UNCHANGED <<handles, pool, hfresh, marked, released>>

\* queryBlock after a Conflict, then the next iteration of autoAssign's loop.
Requery(c) ==
  /\ pc[c] = "requery"
  /\ LET b == blk[c] IN
       \/ blocks[b] = None /\ RetryAssign(c) /\ UNCHANGED bfresh
       \/ /\ blocks[b] # None /\ blocks[b].deleted
          /\ Goto(c, "requeryDelete")
          /\ UNCHANGED <<locals, bfresh>>
       \/ /\ blocks[b] # None /\ ~blocks[b].deleted
          /\ \/ mid[c] + 1 < datastoreRetries /\ TryBlock(c, b, blocks[b], mid[c] + 1)
             \/ mid[c] + 1 >= datastoreRetries /\ RetryAssign(c)
          /\ bfresh' = bfresh \cup {<<c, b>>}
  /\ UNCHANGED <<store, hfresh, history>>

RequeryDelete(c) ==
  /\ pc[c] = "requeryDelete"
  /\ WriteBlock(blk[c], None)
  /\ RetryAssign(c)
  /\ UNCHANGED <<handles, pool, hfresh, history>>

-----------------------------------------------------------------------------
(* decrementHandle, called by both operations                              *)

\* Mutant: DecrementBlock does not refuse to go below zero.
CanDecrementAlways(hd, b, n) == TRUE

CanDecrement(hd, b, n) == hd.block[b] >= n

DecGet(c) ==
  /\ pc[c] = "decGet"
  /\ LET h == hid[c]
         b == blk[c]
     IN \/ handles[h] = None /\ DecDone(c) /\ UNCHANGED hfresh
        \/ /\ handles[h] # None /\ handles[h].deleted
           /\ Goto(c, "decQueryDelete")
           /\ UNCHANGED <<locals, hfresh, released>>
        \/ /\ handles[h] # None /\ ~handles[h].deleted
           /\ \/ /\ CanDecrement(handles[h], b, num[c])
                 /\ Goto(c, "decPut")
                 /\ hfresh' = hfresh \cup {<<c, h>>}
                 /\ UNCHANGED <<locals, released>>
              \/ ~CanDecrement(handles[h], b, num[c]) /\ DecDone(c) /\ UNCHANGED hfresh
  /\ UNCHANGED <<store, bfresh, grants, marked>>

DecQueryDelete(c) ==
  /\ pc[c] = "decQueryDelete"
  /\ WriteHandle(hid[c], None)
  /\ DecDone(c)
  /\ UNCHANGED <<blocks, pool, bfresh, grants, marked>>

DecrementBlock(hd, b, n) ==
  [block |-> [hd.block EXCEPT ![b] = @ - n], deleted |-> hd.deleted]

\* Mutant: one entry at zero passes for an empty handle.
HandleEmptySome(hd) == \E b \in BlockNames : hd.block[b] = 0

HandleEmpty(hd) == \A b \in BlockNames : hd.block[b] = 0
MarkHandle(hd)  == [block |-> hd.block, deleted |-> TRUE]

\* Update of the decremented handle, marked deleted when it has become empty.
DecPut(c) ==
  /\ pc[c] = "decPut"
  /\ LET h  == hid[c]
         hd == DecrementBlock(handles[h], blk[c], num[c])
     IN \/ /\ HandleCurrent(c) /\ HandleEmpty(hd)
           /\ WriteHandle(h, MarkHandle(hd))
           /\ Goto(c, "decDelete")
           /\ UNCHANGED <<locals, released>>
        \/ HandleCurrent(c) /\ ~HandleEmpty(hd) /\ WriteHandle(h, hd) /\ DecDone(c)
        \/ /\ HandleConflict(c)
           /\ \/ /\ inner[c] + 1 < datastoreRetries
                 /\ Goto(c, "decGet")
                 /\ inner' = [inner EXCEPT ![c] = @ + 1]
                 /\ UNCHANGED <<hid, blk, outer, mid, num, cont, rem, list, released>>
              \/ inner[c] + 1 >= datastoreRetries /\ DecDone(c)
           /\ UNCHANGED <<handles, hfresh>>
        \/ HandleGone(c) /\ DecDone(c) /\ UNCHANGED <<handles, hfresh>>
  /\ UNCHANGED <<blocks, pool, bfresh, grants, marked>>

\* Delete by name, whatever the handle is by now.
DecDelete(c) ==
  /\ pc[c] = "decDelete"
  /\ WriteHandle(hid[c], None)
  /\ DecDone(c)
  /\ UNCHANGED <<blocks, pool, bfresh, grants, marked>>

-----------------------------------------------------------------------------
(* ReleaseByHandle                                                         *)

\* The workload behind the handle is gone: its addresses are up for reuse.
StartRelease(c, h) ==
  /\ pc[c] = "idle" /\ HandleIdle(h)
  /\ Goto(c, "relHandle")
  /\ Locals(c, h, None, 0, {}, NoList)
  /\ grants' = {g \in grants : g.handle # h}
  /\ UNCHANGED <<store, copies, marked, released>>

RelHandle(c) ==
  /\ pc[c] = "relHandle"
  /\ LET h == hid[c] IN
       \/ handles[h] = None /\ NextBlock(c, {})
       \/ /\ handles[h] # None /\ handles[h].deleted
          /\ Goto(c, "relHandleDelete")
          /\ UNCHANGED <<locals, released>>
       \/ /\ handles[h] # None /\ ~handles[h].deleted
          /\ NextBlock(c, {b \in BlockNames : handles[h].block[b] > 0})
  /\ UNCHANGED <<store, copies, grants, marked>>

RelHandleDelete(c) ==
  /\ pc[c] = "relHandleDelete"
  /\ WriteHandle(hid[c], None)
  /\ NextBlock(c, {})
  /\ UNCHANGED <<blocks, pool, bfresh, grants, marked>>

\* queryBlock in releaseByHandle, and IPAMBlock.ReleaseByHandle on the copy.
RelGet(c) ==
  /\ pc[c] = "relGet"
  /\ LET h == hid[c]
         b == blk[c]
     IN \/ blocks[b] = None /\ NextBlock(c, rem[c]) /\ UNCHANGED bfresh
        \/ /\ blocks[b] # None /\ blocks[b].deleted
           /\ Goto(c, "relGetDelete")
           /\ UNCHANGED <<locals, bfresh, released>>
        \/ /\ blocks[b] # None /\ ~blocks[b].deleted /\ OwnedBy(blocks[b], h) = {}
           /\ NextBlock(c, rem[c])
           /\ UNCHANGED bfresh
        \/ /\ blocks[b] # None /\ ~blocks[b].deleted /\ OwnedBy(blocks[b], h) # {}
           /\ Goto(c, IF Empty(Release(blocks[b], h)) THEN "relMark" ELSE "relUpdate")
           /\ num' = [num EXCEPT ![c] = Cardinality(OwnedBy(blocks[b], h))]
           /\ bfresh' = bfresh \cup {<<c, b>>}
           /\ UNCHANGED <<hid, blk, tries, cont, rem, list, released>>
  /\ UNCHANGED <<store, hfresh, grants, marked>>

RelGetDelete(c) ==
  /\ pc[c] = "relGetDelete"
  /\ WriteBlock(blk[c], None)
  /\ NextBlock(c, rem[c])
  /\ UNCHANGED <<handles, pool, hfresh, grants, marked>>

RetryRelease(c) ==
  \/ /\ mid[c] + 1 < datastoreRetries
     /\ Goto(c, "relGet")
     /\ mid' = [mid EXCEPT ![c] = @ + 1]
     /\ num' = [num EXCEPT ![c] = 0]
     /\ UNCHANGED <<hid, blk, outer, inner, cont, rem, list>>
  \/ mid[c] + 1 >= datastoreRetries /\ Return(c)

\* DeleteBlock, first half: mark the empty block with a compare-and-swap.
RelMark(c) ==
  /\ pc[c] = "relMark"
  /\ LET b == blk[c] IN
       \/ /\ BlockCurrent(c)
          /\ WriteBlock(b, MarkDeleted(Release(blocks[b], hid[c])))
          /\ marked' = marked \cup {b}
          /\ Goto(c, "relDelete")
          /\ UNCHANGED locals
       \/ BlockConflict(c) /\ RetryRelease(c) /\ UNCHANGED <<blocks, bfresh, marked>>
       \/ /\ BlockGone(c)
          /\ StartDec(c, num[c], "release")
          /\ UNCHANGED <<blocks, bfresh, marked>>
  /\ UNCHANGED <<handles, pool, hfresh, grants, released>>

\* DeleteBlock, second half: delete by name, whatever the block is by now.
RelDelete(c) ==
  /\ pc[c] = "relDelete"
  /\ WriteBlock(blk[c], None)
  /\ StartDec(c, num[c], "release")
  /\ UNCHANGED <<handles, pool, hfresh, history>>

RelUpdate(c) ==
  /\ pc[c] = "relUpdate"
  /\ LET b == blk[c] IN
       \/ /\ BlockCurrent(c)
          /\ WriteBlock(b, Release(blocks[b], hid[c]))
          /\ StartDec(c, num[c], "release")
       \/ BlockConflict(c) /\ RetryRelease(c) /\ UNCHANGED <<blocks, bfresh>>
       \/ BlockGone(c) /\ Return(c) /\ UNCHANGED <<blocks, bfresh>>
  /\ UNCHANGED <<handles, pool, hfresh, history>>

-----------------------------------------------------------------------------
(* DeleteIPPool of the provider, run by the IPPool controller on a pool    *)
(* it has disabled.                                                        *)

StartDeleteIPPool(c) ==
  /\ pc[c] = "idle" /\ pool = "disabled"
  /\ Goto(c, "poolList")
  /\ UNCHANGED <<store, locals, copies, history>>

\* The loop over the listed blocks (any order): it stops at one in use, marks
\* and deletes an empty one, and only deletes one that is marked already.
NextListed(c, l) ==
  \/ /\ \A b \in BlockNames : l[b] = "none"
     /\ Goto(c, "poolUnused")
     /\ NoLocals(c)
  \/ \E b \in BlockNames :
       \/ l[b] = "used" /\ Goto(c, "poolUsed") /\ NoLocals(c)
       \/ /\ l[b] \in {"empty", "marked"}
          /\ Goto(c, IF l[b] = "empty" THEN "poolMark" ELSE "poolDelete")
          /\ Locals(c, None, b, 0, {}, [l EXCEPT ![b] = "none"])

PoolList(c) ==
  /\ pc[c] = "poolList"
  /\ NextListed(c, [b \in BlockNames |->
                      IF blocks[b] = None THEN "none"
                      ELSE IF ~Empty(blocks[b]) THEN "used"
                      ELSE IF blocks[b].deleted THEN "marked" ELSE "empty"])
  /\ bfresh' = bfresh \cup {<<c, b>> : b \in {a \in BlockNames : blocks[a] # None}}
  /\ UNCHANGED <<store, hfresh, history>>

PoolFailed(c) ==
  /\ Goto(c, "poolError")
  /\ NoLocals(c)

\* Mutant: DeleteBlock marks the block without the resourceVersion check.
PoolMarkUnchecked(c) ==
  /\ pc[c] = "poolMark"
  /\ blocks[blk[c]] # None
  /\ WriteBlock(blk[c], MarkDeleted(blocks[blk[c]]))
  /\ marked' = marked \cup {blk[c]}
  /\ Goto(c, "poolDelete")
  /\ UNCHANGED <<locals, handles, pool, hfresh, grants, released>>

\* DeleteBlock on the listed copy.  Here Conflict and NotFound are errors.
PoolMark(c) ==
  /\ pc[c] = "poolMark"
  /\ LET b == blk[c] IN
       \/ /\ BlockCurrent(c)
          /\ WriteBlock(b, MarkDeleted(blocks[b]))
          /\ marked' = marked \cup {b}
          /\ Goto(c, "poolDelete")
          /\ UNCHANGED locals
       \/ ~BlockCurrent(c) /\ PoolFailed(c) /\ UNCHANGED <<blocks, bfresh, marked>>
  /\ UNCHANGED <<handles, pool, hfresh, grants, released>>

PoolDelete(c) ==
  /\ pc[c] = "poolDelete"
  /\ \/ blocks[blk[c]] # None /\ NextListed(c, list[c])
     \/ blocks[blk[c]] = None /\ PoolFailed(c)
  /\ WriteBlock(blk[c], None)
  /\ UNCHANGED <<handles, pool, hfresh, history>>

\* The controller takes the result.
PoolReturn(c) ==
  /\ pc[c] \in {"poolUnused", "poolUsed", "poolError"}
  /\ Return(c)
  /\ UNCHANGED <<store, copies, history>>

-----------------------------------------------------------------------------
(* The environment                                                         *)

\* The copies a client has read are of no use to it any more.
DropCopies(c) ==
  /\ bfresh' = {p \in bfresh : p[1] # c}
  /\ hfresh' = {p \in hfresh : p[1] # c}

\* A call fails with an error the code does not expect; nothing was written.
ApiError(c) ==
  /\ "apiError" \in Faults
  /\ \/ /\ pc[c] \in {"poolList", "poolMark", "poolDelete"}
        /\ PoolFailed(c)
        /\ UNCHANGED released
     \/ pc[c] \in {"getPool"} \cup ReleaseLabels /\ Return(c) /\ UNCHANGED released
     \/ /\ pc[c] \in AssignLabels \ {"getPool", "updateBlock"}
        /\ RetryAssign(c)
        /\ UNCHANGED released
     \/ pc[c] = "updateBlock" /\ StartDec(c, 1, "retry") /\ UNCHANGED released
     \/ pc[c] \in DecLabels /\ DecDone(c)
  /\ DropCopies(c)
  /\ UNCHANGED <<store, grants, marked>>

\* The process running a call dies between two API calls.
Crash(c) ==
  /\ "crash" \in Faults
  /\ pc[c] \notin {"idle", "panic"}
  /\ Return(c)
  /\ DropCopies(c)
  /\ UNCHANGED <<store, history>>

\* The process a panic has killed is started again.
Restart(c) ==
  /\ pc[c] = "panic"
  /\ Return(c)
  /\ UNCHANGED <<store, copies, history>>

\* An administrator, or the IPPool controller, disables or enables the pool.
ChangePool ==
  /\ "poolChange" \in Faults
  /\ pool' = IF pool = "enabled" THEN "disabled" ELSE "enabled"
  /\ UNCHANGED <<blocks, handles, pc, locals, copies, history>>

-----------------------------------------------------------------------------

\* The next API call of a client that is inside one of the operations.
Call(c) ==
  \/ GetPool(c) \/ ListBlocks(c) \/ FindUnclaimedBlock(c) \/ CreateBlock(c)
  \/ IncGet(c) \/ IncDelete(c) \/ IncCreate(c) \/ IncUpdate(c)
  \/ UpdateBlock(c) \/ Requery(c) \/ RequeryDelete(c)
  \/ DecGet(c) \/ DecQueryDelete(c) \/ DecPut(c) \/ DecDelete(c)
  \/ RelHandle(c) \/ RelHandleDelete(c) \/ RelGet(c) \/ RelGetDelete(c)
  \/ RelMark(c) \/ RelDelete(c) \/ RelUpdate(c)
  \/ PoolList(c) \/ PoolMark(c) \/ PoolDelete(c) \/ PoolReturn(c)

Next ==
  \/ \E c \in Clients :
       \/ \E h \in Handles : StartAutoAssign(c, h) \/ StartRelease(c, h)
       \/ StartDeleteIPPool(c)
       \/ Call(c)
       \/ ApiError(c)
       \/ Crash(c)
       \/ Restart(c)
  \/ ChangePool

Spec == Init /\ [][Next]_vars

\* The goroutine of a call keeps running, and the API server answers.
FairSpec == Spec /\ \A c \in Clients : WF_vars(Call(c))
-----------------------------------------------------------------------------
(* Properties                                                              *)

\* The addresses the store records for handle h in block b.
Stored(h, b) == IF blocks[b] = None THEN {} ELSE OwnedBy(blocks[b], h)

\* A handle never under-counts: whatever AutoAssign has recorded in a block
\* for h, the IPAMHandle of h leads ReleaseByHandle back to it.  This is why
\* assignFromExistingBlock increments the handle before it writes the block,
\* and decrements it only after a block write has failed or freed addresses.
HandleCovers ==
  \A h \in Handles, b \in BlockNames : Cardinality(Stored(h, b)) <= Count(h, b)

\* ReleaseByHandle that returned nil released everything: until the handle is
\* used again, no block lists an address of it, not even one that a crashed or
\* failed AutoAssign had recorded without returning it.
ReleasedClean ==
  \A h \in released, b \in BlockNames : Stored(h, b) = {}

\* An address handed to a caller stays recorded as that caller's until it is
\* released, through every conflict and retry of the others, as long as its
\* block has never been marked deleted.  In particular two live handles never
\* hold one address of such a block.
GrantsRecorded ==
  \A g \in grants :
    g.blk \notin marked => g.ord \in Stored(g.handle, g.blk)

\* The addresses a VLAN pool keeps outside rangeStart..rangeEnd are never
\* handed out and never become free, over any sequence of block writes.
ReservedKept ==
  \A b \in BlockNames, o \in Reserved :
    blocks[b] # None => blocks[b].alloc[o] = ReservedHandle

\* Every call ends: conflicts, failed calls and competing clients can use up
\* the three nested retry loops but cannot keep a caller in them.
Termination ==
  \A c \in Clients : pc[c] # "idle" ~> pc[c] \in {"idle", "panic"}

-----------------------------------------------------------------------------
(* The promise to the callers                                              *)

AP == INSTANCE AddressPool WITH
        Holders <- Handles, Addresses <- Ordinals, Pieces <- BlockNames,
        held <- grants, retired <- marked

\* The stateless clients, their stale copies and their retries implement the
\* address pool: UpdateBlock hands out only an address nobody holds, and
\* DeleteBlock's mark, made on a copy read earlier by ReleaseByHandle or by
\* DeleteIPPool, never lands on a block somebody holds an address of.
ImplementsAddressPool == AP!Spec

-----------------------------------------------------------------------------
(* What comments in the code say and the code does not do                  *)

\* releaseByHandle: "Block doesn't exist, so all addresses are already
\* unallocated."  A block that does not exist would hold nobody's address.
MissingBlockUnallocated ==
  \A g \in grants : blocks[g.blk] # None
=============================================================================
