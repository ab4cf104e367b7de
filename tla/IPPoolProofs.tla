---------------------------- MODULE IPPoolProofs ----------------------------
(***************************************************************************)
(* The invariant of the IPPool controller holds for any number of callers, *)
(* edits and faults; with it, no event is forgotten and the finalizer      *)
(* protects a pool in use.                                                 *)
(***************************************************************************)
EXTENDS IPPoolController, FiniteSetTheorems, SequenceTheorems, TLAPS

\* The number of addresses in use is a number.
LEMMA UsedCount == ASSUME ControllerTypeOK PROVE Cardinality(Used) \in Nat
<1>1. IsFiniteSet(Callers)
  BY ControllerAssumption
<1>2. Used \subseteq Callers
  BY DEF ControllerTypeOK, Used, Block
<1> QED BY <1>1, <1>2, FS_Subset, FS_CardinalityType

\* The writes of the pool and of the block are pools and blocks.
LEMMA PoolWrites ==
  ASSUME NEW p \in Pool, NEW n \in Nat
  PROVE  /\ p # None
         /\ [p EXCEPT !.disabled = ~@] \in Pool
         /\ [p EXCEPT !.disabled = TRUE] \in Pool
         /\ [p EXCEPT !.deleting = TRUE] \in Pool
         /\ [p EXCEPT !.fin = TRUE] \in Pool
         /\ [p EXCEPT !.status = n] \in Pool
BY ControllerAssumption DEF Pool

LEMMA NewPool ==
  [fin |-> FALSE, deleting |-> FALSE, disabled |-> FALSE, status |-> Unsynced] \in Pool
BY DEF Pool, Unsynced

LEMMA BlockWrites ==
  ASSUME NEW b \in Block, NEW a \in Callers
  PROVE  /\ b # None
         /\ [b EXCEPT !.addrs = @ \cup {a}] \in Block
         /\ [b EXCEPT !.addrs = @ \ {a}] \in Block
         /\ [[b EXCEPT !.addrs = @ \ {a}] EXCEPT !.marked = TRUE] \in Block
BY ControllerAssumption DEF Block

LEMMA BlockMarks ==
  ASSUME NEW b \in Block
  PROVE  /\ [b EXCEPT !.marked = TRUE] \in Block
         /\ [b EXCEPT !.orphan = TRUE] \in Block
BY DEF Block

LEMMA NewBlockType ==
  ASSUME NEW a \in Callers, NEW s \in SUBSET Callers PROVE NewBlock(a, s) \in Block
BY DEF Block, NewBlock

LEMMA PutPoolType ==
  ASSUME ControllerTypeOK, NEW o \in Pool \cup {None}, PutPool(o)
  PROVE  /\ obj' \in Pool \cup {None}
         /\ events' \in Seq(Pool \cup {None})
         /\ current' \subseteq {"pool", "block"}
BY DEF ControllerTypeOK, PutPool

LEMMA PutBlockType ==
  ASSUME ControllerTypeOK, NEW b \in Block \cup {None}, PutBlock(b)
  PROVE  /\ block' \in Block \cup {None}
         /\ waiting' \subseteq {"queued", "delayed", "block"}
         /\ current' \subseteq {"pool", "block"}
BY DEF ControllerTypeOK, PutBlock

LEMMA VanishType ==
  ASSUME ControllerTypeOK, Vanish
  PROVE  /\ obj' \in Pool \cup {None}
         /\ events' \in Seq(Pool \cup {None})
         /\ current' \subseteq {"pool", "block"}
         /\ block' \in Block \cup {None}
         /\ calls' \in [Callers -> {"none", "live", "orphan"}]
<1>1. PutPool(None)
  BY DEF Vanish
<1>2. block' \in Block \cup {None}
  BY BlockMarks DEF Vanish, ControllerTypeOK
<1>3. calls' \in [Callers -> {"none", "live", "orphan"}]
  BY DEF Vanish, ControllerTypeOK
<1> QED BY <1>1, <1>2, <1>3, PutPoolType

LEMMA EditType ==
  ASSUME ControllerTypeOK, Edit PROVE edits' \in 0 .. MaxEdits
BY ControllerAssumption DEF ControllerTypeOK, Edit

USE DEF ControllerTypeOK, Labels

\* The environment keeps the types.
LEMMA TypeEnvironment ==
  ASSUME ControllerTypeOK, Environment PROVE ControllerTypeOK'
<1>1. CASE CreatePool
  BY <1>1, NewPool, PutPoolType, EditType DEF CreatePool
<1>2. CASE ToggleDisabled
  <2>1. [obj EXCEPT !.disabled = ~@] \in Pool
    BY <1>2, PoolWrites DEF ToggleDisabled
  <2> QED BY <1>2, <2>1, PutPoolType, EditType DEF ToggleDisabled
<1>3. CASE DeletePool
  <2>1. CASE obj.fin
    <3>1. [obj EXCEPT !.deleting = TRUE] \in Pool
      BY <1>3, PoolWrites DEF DeletePool
    <3> QED BY <1>3, <2>1, <3>1, PutPoolType, EditType DEF DeletePool
  <2>2. CASE ~obj.fin
    BY <1>3, <2>2, VanishType, EditType DEF DeletePool
  <2> QED BY <2>1, <2>2
<1>4. ASSUME NEW a \in Callers, ReadPool(a) PROVE ControllerTypeOK'
  BY <1>4, EditType DEF ReadPool, store, feed, worker
<1>5. ASSUME NEW a \in Callers, Assign(a) PROVE ControllerTypeOK'
  <2>1. CASE block = None
    BY <1>5, <2>1, NewBlockType, PutBlockType DEF Assign, EndCall
  <2>2. CASE block # None
    <3>1. [block EXCEPT !.addrs = @ \cup {a}] \in Block
      BY <2>2, BlockWrites
    <3> QED BY <1>5, <2>2, <3>1, PutBlockType DEF Assign, EndCall
  <2> QED BY <2>1, <2>2
<1>6. ASSUME NEW a \in Callers, AssignFails(a) PROVE ControllerTypeOK'
  <2>1. CASE UNCHANGED <<block, waiting, current>>
    BY <1>6, <2>1 DEF AssignFails, EndCall
  <2>2. CASE PutBlock(NewBlock(a, {}))
    BY <1>6, <2>2, NewBlockType, PutBlockType DEF AssignFails, EndCall
  <2> QED BY <1>6, <2>1, <2>2 DEF AssignFails
<1>7. ASSUME NEW a \in Callers, ReleaseByHandle(a) PROVE ControllerTypeOK'
  <2>1. block # None
    BY <1>7 DEF ReleaseByHandle, Used
  <2>2. PICK b \in Block \cup {None} : PutBlock(b)
    BY <1>7, <2>1, BlockWrites DEF ReleaseByHandle
  <2> QED BY <1>7, <2>2, PutBlockType DEF ReleaseByHandle
<1>8. CASE CollectBlock
  BY <1>8, PutBlockType DEF CollectBlock
<1> QED BY <1>1, <1>2, <1>3, <1>4, <1>5, <1>6, <1>7, <1>8 DEF Environment

\* So do the informers, the queue and the faults.
LEMMA TypeFeed ==
  ASSUME ControllerTypeOK, DeliverPool \/ DeliverBlock \/ FireDelayed \/ Resync \/ ApiError \/ Crash
  PROVE  ControllerTypeOK'
<1>1. CASE DeliverPool
  BY <1>1 DEF DeliverPool, store, worker
<1>2. CASE DeliverBlock
  BY <1>2 DEF DeliverBlock, store, worker
<1>3. CASE FireDelayed
  BY <1>3 DEF FireDelayed, store, worker
<1>4. CASE Resync
  BY <1>4 DEF Resync, store, worker
<1>5. CASE ApiError
  BY <1>5, ControllerAssumption DEF ApiError, Fail, Goto, store
<1>6. CASE Crash
  BY <1>6, ControllerAssumption DEF Crash, Relist, Goto, store
<1> QED BY <1>1, <1>2, <1>3, <1>4, <1>5, <1>6

\* And so does the worker.
LEMMA TypeWorker ==
  ASSUME ControllerTypeOK, CopyOK, BlockCopyOK, Worker PROVE ControllerTypeOK'
<1>1. CASE PickUp
  BY <1>1 DEF PickUp, Take, Goto, store
<1>2. CASE DisableIPPool
  <2>1. work \in Pool
    BY <1>2 DEF DisableIPPool
  <2>2. [work EXCEPT !.disabled = TRUE] \in Pool
    BY <2>1, PoolWrites
  <2> QED BY <1>2, <2>1, <2>2, PutPoolType DEF DisableIPPool, Goto, Fail
<1>3. CASE ListBlocks
  BY <1>3 DEF ListBlocks, Goto, store, feed
<1>4. CASE MarkBlock
  <2>1. CASE "block" \in current
    <3>1. [block EXCEPT !.marked = TRUE] \in Block
      BY <1>4, <2>1, BlockMarks DEF MarkBlock, BlockCopyOK
    <3> QED BY <1>4, <2>1, <3>1, PutBlockType DEF MarkBlock, Goto
  <2>2. CASE "block" \notin current
    BY <1>4, <2>2 DEF MarkBlock, Fail, Goto
  <2> QED BY <2>1, <2>2
<1>5. CASE DropBlock
  <2>1. CASE block # None
    BY <1>5, <2>1, PutBlockType DEF DropBlock, Goto
  <2>2. CASE Fail /\ UNCHANGED <<block, current>>
    BY <1>5, <2>2 DEF DropBlock, Goto, Fail
  <2> QED BY <1>5, <2>1, <2>2 DEF DropBlock
<1>6. CASE RemoveFinalizer
  <2>1. CASE Vanish /\ Succeed
    BY <1>6, <2>1, VanishType DEF RemoveFinalizer, Goto, Succeed
  <2>2. CASE Fail /\ UNCHANGED <<store, events, current, calls>>
    BY <1>6, <2>2 DEF RemoveFinalizer, Goto, Fail, store
  <2> QED BY <1>6, <2>1, <2>2 DEF RemoveFinalizer
<1>7. CASE AddFinalizer
  <2>1. work \in Pool
    BY <1>7 DEF AddFinalizer
  <2>2. [work EXCEPT !.fin = TRUE] \in Pool
    BY <2>1, PoolWrites
  <2> QED BY <1>7, <2>1, <2>2, PutPoolType DEF AddFinalizer, Goto, Fail
<1>8. CASE GetPools
  <2>1. CASE Fail
    BY <1>8, <2>1 DEF GetPools, Goto, Fail, store
  <2>2. CASE (pc' = "listUse" \/ pc' = "panic") /\ UNCHANGED <<work, stat, waiting>>
    BY <1>8, <2>2 DEF GetPools, store
  <2> QED BY <1>8, <2>1, <2>2 DEF GetPools, Goto
<1>9. CASE ListUse
  <2>1. Cardinality(Used) \in Nat
    BY UsedCount
  <2>2. CASE Succeed
    BY <1>9, <2>2 DEF ListUse, Goto, Succeed, store
  <2>3. CASE Goto("putStatus") /\ stat' = Cardinality(Used) /\ UNCHANGED <<work, waiting>>
    BY <1>9, <2>1, <2>3 DEF ListUse, Goto, store
  <2> QED BY <1>9, <2>2, <2>3 DEF ListUse
<1>10. CASE PutStatus
  <2>1. work \in Pool
    BY <1>10 DEF PutStatus
  <2>2. [work EXCEPT !.status = stat] \in Pool
    BY <2>1, PoolWrites
  <2> QED BY <1>10, <2>1, <2>2, PutPoolType DEF PutStatus, Goto, Fail, Succeed
<1>11. CASE Recover
  BY <1>11 DEF Recover, Relist, Goto, store
<1> QED BY <1>1, <1>2, <1>3, <1>4, <1>5, <1>6, <1>7, <1>8, <1>9, <1>10, <1>11 DEF Worker

-----------------------------------------------------------------------------
(* The invariant                                                           *)

\* A write of the pool is the last event to be delivered, and it is pending.
LEMMA PutPoolFeed ==
  ASSUME ControllerTypeOK, NEW o \in Pool \cup {None}, Held(o), PutPool(o)
  PROVE  FeedOK' /\ events' # <<>> /\ "pool" \notin current'
BY DEF PutPool, FeedOK

USE DEF Pending

LEMMA InvUser ==
  ASSUME ControllerInv, CreatePool \/ ToggleDisabled \/ DeletePool
  PROVE  FeedOK' /\ CopyOK' /\ BlockCopyOK' /\ StaleOK' /\ NothingForgotten'
<1>1. PICK o \in Pool \cup {None} : PutPool(o) /\ Held(o)
  <2>1. CASE CreatePool
    BY <2>1, NewPool DEF CreatePool, Held
  <2>2. CASE ToggleDisabled
    <3>1. obj \in Pool /\ Held(obj)
      BY <2>2 DEF ControllerInv, FeedOK, ToggleDisabled
    <3>2. [obj EXCEPT !.disabled = ~@] \in Pool
      BY <3>1, PoolWrites
    <3>3. Held([obj EXCEPT !.disabled = ~@])
      BY <3>1, ControllerAssumption DEF Held, Pool
    <3> QED BY <2>2, <3>2, <3>3 DEF ToggleDisabled
  <2>3. CASE DeletePool
    <3>1. [obj EXCEPT !.deleting = TRUE] \in Pool
      BY <2>3, PoolWrites DEF ControllerInv, DeletePool
    <3>2. obj.fin => Held([obj EXCEPT !.deleting = TRUE])
      BY <2>3 DEF ControllerInv, DeletePool, Held, Pool
    <3> QED BY <2>3, <3>1, <3>2 DEF DeletePool, Vanish, Held
  <2> QED BY <2>1, <2>2, <2>3
<1>2. FeedOK' /\ events' # <<>> /\ "pool" \notin current'
  BY <1>1, PutPoolFeed DEF ControllerInv
<1>3. BlockCopyOK'
  <2>1. pc' = pc /\ ("block" \in current' => "block" \in current)
    BY <1>1 DEF PutPool, CreatePool, ToggleDisabled, DeletePool
  <2>2. block # None => block' # None
    <3>1. CASE UNCHANGED block
      BY <3>1
    <3>2. CASE Vanish
      <4>1. block # None => [block EXCEPT !.orphan = TRUE] \in Block
        BY BlockMarks DEF ControllerInv
      <4> QED BY <3>2, <4>1, ControllerAssumption DEF Vanish
    <3> QED BY <3>1, <3>2 DEF CreatePool, ToggleDisabled, DeletePool
  <2> QED BY <2>1, <2>2 DEF ControllerInv, BlockCopyOK
<1> QED BY <1>2, <1>3 DEF CopyOK, StaleOK, NothingForgotten

\* A step that writes the block announces itself to the controller.
LEMMA InvBlockWrite ==
  ASSUME ControllerInv, NEW b, PutBlock(b), UNCHANGED <<obj, events, cache, pc, work>>,
         pc \in DeleteLabels /\ "pool" \in current => Used' \subseteq late'
  PROVE  FeedOK' /\ CopyOK' /\ BlockCopyOK' /\ StaleOK' /\ NothingForgotten'
<1>1. waiting' # {} /\ "block" \notin current' /\ ("pool" \in current' => "pool" \in current)
  BY DEF PutBlock
<1>2. FeedOK'
  BY DEF FeedOK, ControllerInv
<1>3. CopyOK'
  BY <1>1 DEF CopyOK, ControllerInv, DeleteLabels, StatLabels
<1> QED BY <1>1, <1>2, <1>3 DEF BlockCopyOK, StaleOK, NothingForgotten

LEMMA InvCallers ==
  ASSUME ControllerInv, NEW a \in Callers,
         ReadPool(a) \/ Assign(a) \/ AssignFails(a) \/ ReleaseByHandle(a)
  PROVE  FeedOK' /\ CopyOK' /\ BlockCopyOK' /\ StaleOK' /\ NothingForgotten'
<1> USE DEF ControllerInv
<1>0. ASSUME UNCHANGED <<obj, block, events, cache, waiting, pc, work, current, late>>
      PROVE  FeedOK' /\ CopyOK' /\ BlockCopyOK' /\ StaleOK' /\ NothingForgotten'
  BY <1>0 DEF FeedOK, CopyOK, BlockCopyOK, StaleOK, NothingForgotten, Used
<1>1. CASE ReadPool(a)
  BY <1>0, <1>1 DEF ReadPool, store, feed, worker
<1>2. CASE Assign(a)
  <2>1. PICK b : PutBlock(b)
    BY <1>2 DEF Assign
  <2>2. ASSUME pc \in DeleteLabels, "pool" \in current PROVE Used' \subseteq late'
    <3>1. obj = work /\ work.disabled /\ Used \subseteq late
      BY <2>2 DEF CopyOK, DeleteLabels
    <3>2. late' = late \cup {a}
      BY <1>2, <3>1 DEF Assign
    <3>3. Used' \subseteq Used \cup {a}
      BY <1>2 DEF Assign, PutBlock, NewBlock, Used, Block
    <3> QED BY <3>1, <3>2, <3>3
  <2> QED BY <1>2, <2>1, <2>2, InvBlockWrite DEF Assign
<1>3. CASE AssignFails(a)
  <2>1. CASE UNCHANGED <<block, waiting, current>>
    BY <1>0, <1>3, <2>1 DEF AssignFails
  <2>2. CASE PutBlock(NewBlock(a, {}))
    <3>1. Used' = {}
      BY <2>2 DEF PutBlock, NewBlock, Used
    <3> QED BY <1>3, <2>2, <3>1, InvBlockWrite DEF AssignFails
  <2> QED BY <1>3, <2>1, <2>2 DEF AssignFails
<1>4. CASE ReleaseByHandle(a)
  <2>1. PICK b : PutBlock(b)
    BY <1>4 DEF ReleaseByHandle
  <2>2. Used' \subseteq Used \ {a}
    BY <1>4, ControllerAssumption DEF ReleaseByHandle, PutBlock, Used, Block
  <2>3. pc \in DeleteLabels /\ "pool" \in current => Used' \subseteq late'
    BY <1>4, <2>2 DEF ReleaseByHandle, CopyOK, DeleteLabels
  <2> QED BY <1>4, <2>1, <2>3, InvBlockWrite DEF ReleaseByHandle
<1> QED BY <1>1, <1>2, <1>3, <1>4

LEMMA InvCollect ==
  ASSUME ControllerInv, CollectBlock
  PROVE  FeedOK' /\ CopyOK' /\ BlockCopyOK' /\ StaleOK' /\ NothingForgotten'
<1>1. Used' = {}
  BY DEF CollectBlock, PutBlock, Used
<1> QED BY <1>1, InvBlockWrite DEF CollectBlock

\* A sequence whose tail is empty has one element.
LEMMA OneMore ==
  ASSUME NEW m, NEW n \in Nat, m = n - 1, m = 0
  PROVE  n = 1
  OBVIOUS

\* What moves from one place to another on its way to the worker stays pending.
LEMMA InvFeed ==
  ASSUME ControllerInv,
         DeliverPool \/ DeliverBlock \/ FireDelayed \/ Resync \/ ApiError \/ Crash \/ Recover
  PROVE  FeedOK' /\ CopyOK' /\ BlockCopyOK' /\ StaleOK' /\ NothingForgotten'
<1> USE DEF ControllerInv
<1>1. CASE DeliverPool
  <2>0. /\ events # <<>> /\ events[Len(events)] = obj
        /\ cache' = Head(events) /\ events' = Tail(events) /\ obj' = obj
    BY <1>1 DEF DeliverPool, FeedOK, store
  <2>a. events' = <<>> => Head(events) = obj
    <3>0. SUFFICES ASSUME Tail(events) = <<>> PROVE Head(events) = obj
      BY <2>0
    <3>1. Len(events) \in Nat /\ Len(events) # 0 /\ Len(Tail(events)) = Len(events) - 1
      BY <2>0
    <3>2. Len(Tail(events)) = 0
      <4>1. Len(<<>>) = 0
        BY EmptySeq
      <4> QED BY <3>0, <4>1
    <3>3. Len(events) = 1
      BY <3>1, <3>2, OneMore
    <3>4. events[1] = obj
      BY <2>0, <3>3
    <3>5. Head(events) = events[1]
      BY <2>0
    <3> QED BY <3>4, <3>5
  <2>b. events' # <<>> => events'[Len(events')] = obj
    <3> SUFFICES ASSUME Tail(events) # <<>> PROVE Tail(events)[Len(Tail(events))] = obj
      BY <2>0
    <3>1. Tail(events) \in Seq(Pool \cup {None})
      BY <2>0
    <3>2. /\ Len(events) \in Nat /\ Len(events) # 0
          /\ Len(Tail(events)) = Len(events) - 1 /\ Len(Tail(events)) # 0
      BY <2>0, <3>1
    <3> QED BY <2>0, <3>2
  <2>1. FeedOK'
    BY <2>0, <2>a, <2>b DEF FeedOK
  <2>2. obj # None => waiting' # {} \/ events' # <<>>
    BY <1>1, <2>a DEF DeliverPool
  <2>3. UNCHANGED <<obj, block, pc, work, current, late>> /\ Used' = Used
    BY <1>1 DEF DeliverPool, store, worker, Used
  <2>4. CopyOK'
    BY <2>2, <2>3 DEF CopyOK
  <2> QED BY <2>1, <2>2, <2>3, <2>4 DEF BlockCopyOK, StaleOK, NothingForgotten
<1>2. CASE DeliverBlock \/ FireDelayed \/ Resync
  <2>1. waiting' # {} /\ UNCHANGED <<obj, block, events, cache, pc, work, current, late>>
    BY <1>2 DEF DeliverBlock, FireDelayed, Resync, store, worker
  <2>2. Used' = Used
    BY <2>1 DEF Used
  <2>3. CopyOK'
    BY <2>1, <2>2 DEF CopyOK
  <2> QED BY <2>1, <2>2, <2>3 DEF FeedOK, BlockCopyOK, StaleOK, NothingForgotten
<1>3. CASE ApiError
  <2>1. waiting' # {} /\ pc' = "idle" /\ UNCHANGED <<obj, events, cache>>
    BY <1>3 DEF ApiError, Fail, Goto, store
  <2> QED BY <2>1 DEF FeedOK, CopyOK, BlockCopyOK, StaleOK, NothingForgotten
<1>4. CASE Crash \/ Recover
  <2>1. /\ pc' = "idle" /\ cache' = obj' /\ events' = <<>> /\ obj' = obj
        /\ obj' # None => waiting' # {}
    BY <1>4 DEF Crash, Recover, Relist, Goto, store
  <2>2. Held(obj')
    BY <2>1 DEF FeedOK
  <2> QED BY <2>1, <2>2 DEF FeedOK, CopyOK, BlockCopyOK, StaleOK, NothingForgotten
<1> QED BY <1>1, <1>2, <1>3, <1>4

\* A step that ends with an error leaves the name waiting.
LEMMA InvFail ==
  ASSUME ControllerInv, Fail, UNCHANGED <<obj, events, cache>>
  PROVE  FeedOK' /\ CopyOK' /\ BlockCopyOK' /\ StaleOK' /\ NothingForgotten'
<1>1. waiting' # {} /\ pc' = "idle"
  BY DEF Fail, Goto
<1> QED BY <1>1 DEF ControllerInv, FeedOK, CopyOK, BlockCopyOK, StaleOK, NothingForgotten

\* A step that writes the pool leaves an event pending.
LEMMA InvPoolWrite ==
  ASSUME ControllerInv, NEW o \in Pool \cup {None}, Held(o), PutPool(o),
         pc' # "markBlock"
  PROVE  FeedOK' /\ CopyOK' /\ BlockCopyOK' /\ StaleOK' /\ NothingForgotten'
<1>1. FeedOK' /\ events' # <<>> /\ "pool" \notin current'
  BY PutPoolFeed DEF ControllerInv
<1> QED BY <1>1 DEF CopyOK, BlockCopyOK, StaleOK, NothingForgotten

LEMMA InvWorker ==
  ASSUME ControllerInv, Worker
  PROVE  FeedOK' /\ CopyOK' /\ BlockCopyOK' /\ StaleOK' /\ NothingForgotten'
<1> USE DEF ControllerInv
<1>1. CASE PickUp
  <2>0. UNCHANGED <<obj, block, events, cache>> /\ Used' = Used /\ work' = cache
    BY <1>1 DEF PickUp, Take, store, Used
  <2>1. FeedOK'
    BY <2>0 DEF FeedOK
  <2>2. CASE events = <<>>
    <3>1. cache = obj /\ current' = {"pool"}
      BY <1>1, <2>2 DEF PickUp, Take, FeedOK
    <3>2. CASE obj = None
      <4>1. pc' = "idle"
        BY <1>1, <3>1, <3>2 DEF PickUp
      <4> QED BY <2>0, <2>1, <3>2, <4>1 DEF CopyOK, BlockCopyOK, StaleOK, NothingForgotten
    <3>3. CASE obj # None
      <4>1. /\ pc' \in {"disable", "listBlocks", "addFinalizer", "getPools"}
            /\ pc' \in {"disable", "listBlocks"} => cache.deleting /\ cache.fin
            /\ pc' = "listBlocks" => cache.disabled
            /\ pc' = "getPools" => cache.fin /\ ~cache.deleting
        BY <1>1, <3>1, <3>3 DEF PickUp, Goto, FeedOK, Held, Pool
      <4> QED BY <2>0, <2>1, <3>1, <4>1 DEF CopyOK, BlockCopyOK, StaleOK, NothingForgotten,
                                            DeleteLabels, StatLabels
    <3> QED BY <3>2, <3>3
  <2>3. CASE events # <<>>
    <3>1. current' = {}
      BY <1>1, <2>3 DEF PickUp, Take
    <3> QED BY <2>0, <2>1, <2>3, <3>1 DEF CopyOK, BlockCopyOK, StaleOK, NothingForgotten
  <2> QED BY <2>2, <2>3
<1>2. CASE DisableIPPool
  <2>1. CASE "pool" \in current
    <3>1. [work EXCEPT !.disabled = TRUE] \in Pool
      BY <1>2, PoolWrites DEF DisableIPPool
    <3>2. Held([work EXCEPT !.disabled = TRUE])
      BY <1>2, <2>1 DEF DisableIPPool, CopyOK, Held, Pool
    <3> QED BY <1>2, <2>1, <3>1, <3>2, InvPoolWrite DEF DisableIPPool, Goto
  <2>2. CASE "pool" \notin current
    BY <1>2, <2>2, InvFail DEF DisableIPPool
  <2> QED BY <2>1, <2>2
<1>3. CASE ListBlocks
  <2>1. UNCHANGED <<obj, block, events, cache, waiting, work, late>> /\ Used' = Used
    BY <1>3 DEF ListBlocks, store, feed, Used
  <2>2. /\ pc' \in {"removeFinalizer", "dropBlock", "markBlock", "getPools"}
        /\ pc' \in DeleteLabels => Used = {}
        /\ pc' = "getPools" => Used # {}
        /\ pc' = "markBlock" => block # None
    BY <1>3 DEF ListBlocks, Goto, Used, DeleteLabels
  <2>3. "pool" \in current' <=> "pool" \in current
    BY <1>3 DEF ListBlocks
  <2>4. FeedOK' /\ BlockCopyOK' /\ StaleOK' /\ NothingForgotten'
    BY <1>3, <2>1, <2>2, <2>3 DEF ListBlocks, FeedOK, BlockCopyOK, StaleOK, NothingForgotten
  <2>5. CASE "pool" \in current
    <3>1. obj = work /\ work.deleting /\ work.fin /\ work.disabled
      BY <1>3, <2>5 DEF ListBlocks, CopyOK
    <3>2. CopyOK'
      BY <2>1, <2>2, <3>1 DEF CopyOK, DeleteLabels, StatLabels
    <3> QED BY <2>4, <3>2
  <2>6. CASE "pool" \notin current
    BY <2>3, <2>4, <2>6 DEF CopyOK
  <2> QED BY <2>5, <2>6
<1>4. CASE MarkBlock
  <2>1. CASE "block" \in current
    <3>1. /\ PutBlock([block EXCEPT !.marked = TRUE]) /\ pc' = "dropBlock"
          /\ UNCHANGED <<obj, events, cache, work, late>>
      BY <1>4, <2>1 DEF MarkBlock, Goto
    <3>2. Used' = Used
      <4>1. block \in Block /\ block # None
        BY <1>4, <2>1 DEF MarkBlock, BlockCopyOK
      <4>2. [block EXCEPT !.marked = TRUE] \in Block
        BY <4>1, BlockMarks
      <4>3. [block EXCEPT !.marked = TRUE].addrs = block.addrs
        BY <4>1 DEF Block
      <4> QED BY <3>1, <4>1, <4>2, <4>3, ControllerAssumption DEF PutBlock, Used
    <3>3. waiting' # {} /\ ("pool" \in current' => "pool" \in current)
      BY <3>1 DEF PutBlock
    <3>4. CopyOK'
      BY <1>4, <3>1, <3>2, <3>3 DEF MarkBlock, CopyOK, DeleteLabels, StatLabels
    <3> QED BY <3>1, <3>3, <3>4 DEF FeedOK, BlockCopyOK, StaleOK, NothingForgotten
  <2>2. CASE "block" \notin current
    BY <1>4, <2>2, InvFail DEF MarkBlock
  <2> QED BY <2>1, <2>2
<1>5. CASE DropBlock
  <2>1. CASE PutBlock(None) /\ Goto("removeFinalizer") /\ UNCHANGED <<work, stat>>
    <3>1. pc' = "removeFinalizer" /\ UNCHANGED <<obj, events, cache, work, late>> /\ Used' = {}
      BY <1>5, <2>1 DEF DropBlock, Goto, PutBlock, Used
    <3>2. waiting' # {} /\ ("pool" \in current' => "pool" \in current)
      BY <2>1 DEF PutBlock
    <3>3. CopyOK'
      BY <1>5, <3>1, <3>2 DEF DropBlock, CopyOK, DeleteLabels, StatLabels
    <3> QED BY <3>1, <3>2, <3>3 DEF FeedOK, BlockCopyOK, StaleOK, NothingForgotten
  <2>2. CASE Fail /\ UNCHANGED <<block, current>>
    BY <1>5, <2>2, InvFail DEF DropBlock
  <2> QED BY <1>5, <2>1, <2>2 DEF DropBlock
<1>6. CASE RemoveFinalizer
  <2>1. CASE Vanish /\ Succeed
    BY <2>1, InvPoolWrite DEF Vanish, Succeed, Goto, Held
  <2>2. CASE Fail /\ UNCHANGED <<store, events, current, calls>>
    BY <1>6, <2>2, InvFail DEF RemoveFinalizer, store
  <2> QED BY <1>6, <2>1, <2>2 DEF RemoveFinalizer
<1>7. CASE AddFinalizer
  <2>1. CASE "pool" \in current
    <3>1. [work EXCEPT !.fin = TRUE] \in Pool
      BY <1>7, PoolWrites DEF AddFinalizer
    <3>2. Held([work EXCEPT !.fin = TRUE])
      BY <1>7 DEF AddFinalizer, Held, Pool
    <3> QED BY <1>7, <2>1, <3>1, <3>2, InvPoolWrite DEF AddFinalizer, Goto
  <2>2. CASE "pool" \notin current
    BY <1>7, <2>2, InvFail DEF AddFinalizer
  <2> QED BY <2>1, <2>2
<1>8. CASE GetPools
  <2>1. UNCHANGED <<obj, block, events, cache, current, late>> /\ Used' = Used
    BY <1>8 DEF GetPools, store, Used
  <2>2. CASE Fail
    BY <2>1, <2>2, InvFail
  <2>3. CASE (pc' = "listUse" \/ pc' = "panic") /\ UNCHANGED <<work, stat, waiting>>
    <3>1. CopyOK'
      BY <1>8, <2>1, <2>3 DEF GetPools, CopyOK, DeleteLabels, StatLabels
    <3>2. FeedOK' /\ BlockCopyOK' /\ StaleOK' /\ NothingForgotten'
      BY <1>8, <2>1, <2>3 DEF GetPools, FeedOK, BlockCopyOK, StaleOK, NothingForgotten
    <3> QED BY <3>1, <3>2
  <2> QED BY <1>8, <2>2, <2>3 DEF GetPools, Goto
<1>9. CASE ListUse
  <2>1. UNCHANGED <<obj, block, events, cache, waiting, current, late>> /\ Used' = Used
    BY <1>9 DEF ListUse, store, Used, Succeed
  <2>2. CASE Cardinality(Used) = work.status /\ Succeed
    <3>1. pc' = "idle"
      BY <2>2 DEF Succeed, Goto
    <3>2. NothingForgotten'
      <4>1. CASE "pool" \in current
        <5>1. /\ obj = work /\ work.fin
              /\ work.deleting /\ Used = {} => Pending
          BY <1>9, <4>1 DEF ListUse, CopyOK, StatLabels
        <5> QED BY <2>1, <2>2, <5>1 DEF NothingForgotten
      <4>2. CASE "pool" \notin current
        <5>1. obj # None => Pending
          BY <1>9, <4>2 DEF ListUse, StaleOK
        <5> QED BY <2>1, <5>1 DEF NothingForgotten
      <4> QED BY <4>1, <4>2
    <3> QED BY <2>1, <3>1, <3>2 DEF FeedOK, CopyOK, BlockCopyOK, StaleOK
  <2>3. CASE Goto("putStatus") /\ UNCHANGED <<work, waiting>>
    <3>1. pc' = "putStatus" /\ UNCHANGED work
      BY <2>3 DEF Goto
    <3>2. CopyOK'
      BY <1>9, <2>1, <3>1 DEF ListUse, CopyOK, DeleteLabels, StatLabels
    <3>3. FeedOK' /\ BlockCopyOK' /\ StaleOK' /\ NothingForgotten'
      BY <1>9, <2>1, <3>1 DEF ListUse, FeedOK, BlockCopyOK, StaleOK, NothingForgotten
    <3> QED BY <3>2, <3>3
  <2> QED BY <1>9, <2>2, <2>3 DEF ListUse
<1>10. CASE PutStatus
  <2>1. CASE "pool" \in current
    <3>1. [work EXCEPT !.status = stat] \in Pool
      BY <1>10, PoolWrites DEF PutStatus
    <3>2. Held([work EXCEPT !.status = stat])
      BY <1>10, <2>1 DEF PutStatus, CopyOK, FeedOK, Held, Pool
    <3> QED BY <1>10, <2>1, <3>1, <3>2, InvPoolWrite DEF PutStatus, Succeed, Goto
  <2>2. CASE "pool" \notin current
    BY <1>10, <2>2, InvFail DEF PutStatus
  <2> QED BY <2>1, <2>2
<1>11. CASE Recover
  BY <1>11, InvFeed
<1> QED BY <1>1, <1>2, <1>3, <1>4, <1>5, <1>6, <1>7, <1>8, <1>9, <1>10, <1>11 DEF Worker

\* The invariant holds in every reachable state.
LEMMA InvHolds == Spec => []ControllerInv
<1>1. Init => ControllerInv
  <2> SUFFICES ASSUME Init PROVE ControllerInv
    OBVIOUS
  <2>1. ControllerTypeOK
    BY ControllerAssumption DEF Init
  <2> QED BY <2>1 DEF Init, ControllerInv, FeedOK, Held, CopyOK, BlockCopyOK, StaleOK,
                      NothingForgotten
<1>2. ControllerInv /\ [Next]_vars => ControllerInv'
  <2> SUFFICES ASSUME ControllerInv, [Next]_vars PROVE ControllerInv'
    OBVIOUS
  <2>1. CASE Environment
    <3>1. ControllerTypeOK'
      BY <2>1, TypeEnvironment DEF ControllerInv
    <3>2. FeedOK' /\ CopyOK' /\ BlockCopyOK' /\ StaleOK' /\ NothingForgotten'
      BY <2>1, InvUser, InvCallers, InvCollect DEF Environment
    <3> QED BY <3>1, <3>2 DEF ControllerInv
  <2>2. CASE DeliverPool \/ DeliverBlock \/ FireDelayed \/ Resync \/ ApiError \/ Crash
    <3>1. ControllerTypeOK'
      BY <2>2, TypeFeed DEF ControllerInv
    <3>2. FeedOK' /\ CopyOK' /\ BlockCopyOK' /\ StaleOK' /\ NothingForgotten'
      BY <2>2, InvFeed
    <3> QED BY <3>1, <3>2 DEF ControllerInv
  <2>3. CASE Worker
    <3>1. ControllerTypeOK'
      BY <2>3, TypeWorker DEF ControllerInv
    <3>2. FeedOK' /\ CopyOK' /\ BlockCopyOK' /\ StaleOK' /\ NothingForgotten'
      BY <2>3, InvWorker
    <3> QED BY <3>1, <3>2 DEF ControllerInv
  <2>4. CASE UNCHANGED vars
    <3>1. Used' = Used
      BY <2>4 DEF vars, store, Used
    <3>2. ControllerTypeOK'
      BY <2>4 DEF vars, store, feed, worker, ControllerInv
    <3> QED BY <2>4, <3>1, <3>2 DEF vars, store, feed, worker, ControllerInv,
                FeedOK, CopyOK, BlockCopyOK, StaleOK, NothingForgotten
  <2> QED BY <2>1, <2>2, <2>3, <2>4 DEF Next
<1> QED BY <1>1, <1>2, PTL DEF Spec

-----------------------------------------------------------------------------
(* What follows                                                            *)

\* The objects, the informer's cache and the worker's locals always have their
\* types, and a worker in the middle of processIPPool always has a pool.
THEOREM ControllerTypeCorrect == Spec => []ControllerTypeOK
<1>1. ControllerInv => ControllerTypeOK
  BY DEF ControllerInv
<1> QED BY <1>1, InvHolds, PTL

\* However far the informer is behind and wherever API calls fail or the
\* controller dies, a pool that wants work is never left with nothing pending.
THEOREM NoEventLost == Spec => []NothingForgotten
<1>1. ControllerInv => NothingForgotten
  BY DEF ControllerInv
<1> QED BY <1>1, InvHolds, PTL

\* The controller removes the finalizer of a pool only when the addresses still
\* recorded were all recorded after the pool had been disabled.
THEOREM FinalizerProtects == Spec => ProtectsUse
<1>1. ControllerInv /\ [Next]_vars => [obj # None /\ obj.fin /\ obj' = None => Used \subseteq late]_vars
  <2> SUFFICES ASSUME ControllerInv, Next, obj # None, obj.fin, obj' = None
               PROVE  Used \subseteq late
    BY DEF vars
  <2>1. pc = "removeFinalizer" /\ "pool" \in current
    <3>1. obj \in Pool
      BY DEF ControllerInv
    <3>2. ~UNCHANGED obj
      OBVIOUS
    <3>3. ~Environment
      <4>1. ~CreatePool
        BY DEF CreatePool
      <4>2. ~ToggleDisabled
        BY <3>1, PoolWrites DEF ToggleDisabled, PutPool
      <4>3. ~DeletePool
        BY <3>1, PoolWrites DEF DeletePool, PutPool
      <4> QED BY <3>2, <4>1, <4>2, <4>3
             DEF Environment, ReadPool, Assign, AssignFails, ReleaseByHandle, CollectBlock, store
    <3>4. ~(DeliverPool \/ DeliverBlock \/ FireDelayed \/ Resync \/ ApiError \/ Crash \/ Recover)
      BY <3>2 DEF DeliverPool, DeliverBlock, FireDelayed, Resync, ApiError, Crash, Recover,
                  Relist, store
    <3>5. ~(PickUp \/ ListBlocks \/ MarkBlock \/ DropBlock \/ GetPools \/ ListUse)
      BY <3>2 DEF PickUp, ListBlocks, MarkBlock, DropBlock, GetPools, ListUse, store
    <3>6. ~DisableIPPool /\ ~AddFinalizer /\ ~PutStatus
      <4>1. pc \notin {"idle", "panic"} => work \in Pool
        BY DEF ControllerInv
      <4>2. stat \in Nat
        BY DEF ControllerInv
      <4>3. ~DisableIPPool
        BY <3>2, <4>1, PoolWrites DEF DisableIPPool, PutPool
      <4>4. ~AddFinalizer
        BY <3>2, <4>1, PoolWrites DEF AddFinalizer, PutPool
      <4>5. ~PutStatus
        <5>1. pc = "putStatus" => [work EXCEPT !.status = stat] \in Pool
          BY <4>1, <4>2, PoolWrites
        <5> QED BY <3>2, <5>1, ControllerAssumption DEF PutStatus, PutPool
      <4> QED BY <4>3, <4>4, <4>5
    <3>7. RemoveFinalizer
      BY <3>3, <3>4, <3>5, <3>6 DEF Next, Worker
    <3> QED BY <3>2, <3>7 DEF RemoveFinalizer, store
  <2> QED BY <2>1 DEF ControllerInv, CopyOK, DeleteLabels
<1> QED BY <1>1, InvHolds, PTL DEF Spec, ProtectsUse
=============================================================================
