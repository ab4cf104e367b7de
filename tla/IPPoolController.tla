-------------------------- MODULE IPPoolController --------------------------
(***************************************************************************)
(* The life of one IPPool of the local provider: the user who creates,     *)
(* disables and deletes it, the admission check of the deletion, the       *)
(* callers of AutoAssign and ReleaseByHandle, and the IPPool controller of *)
(* pkg/controller/network/ippool, which protects the pool with a finalizer *)
(* and keeps its status.  Pools are independent of each other: the         *)
(* workqueue gives a key to one worker at a time.                          *)
(*                                                                         *)
(* The controller acts on the copy its informer holds, which may be behind *)
(* the API server by any number of writes.  A write based on a copy that   *)
(* is not the stored object fails with Conflict or NotFound, and both are  *)
(* errors here; current says which of its copies are the stored objects.   *)
(* The block operations are those of module IPAM, each reduced to the API  *)
(* call at which it takes effect; the pool has one block.                  *)
(***************************************************************************)
EXTENDS Integers, Sequences, FiniteSets

CONSTANTS
  Callers,    \* callers of AutoAssign, one address each
  None,       \* no object
  MaxEdits,   \* bound: changes made by the user and calls of AutoAssign
  MaxFaults   \* bound: failed API calls and restarts of the controller

Unsynced == -1   \* the status of a pool the controller has not synced yet
Pool  == [fin : BOOLEAN, deleting : BOOLEAN, disabled : BOOLEAN, status : Nat \cup {Unsynced}]
Block == [addrs : SUBSET Callers, marked : BOOLEAN, orphan : BOOLEAN]

ASSUME ControllerAssumption ==
  /\ IsFiniteSet(Callers)
  /\ MaxEdits \in Nat /\ MaxFaults \in Nat
  /\ None \notin Pool /\ None \notin Block

VARIABLES
  obj,        \* the IPPool object, or None
  block,      \* its IPAMBlock object, or None
  events,     \* what the watch of the pool has still to deliver
  cache,      \* the pool in the informer's cache
  waiting,    \* what is waiting for the worker: the pool's name in the
              \*   workqueue ("queued") or to be added to it, rate limited or
              \*   after a delay ("delayed"), an event of the block ("block")
  pc,         \* the API call the worker makes next
  work,       \* the worker's copy of the pool
  current,    \* which of the worker's copies, "pool" and "block", are the
              \*   stored objects
  stat,       \* the allocations GetIPPoolStats counted
  calls,      \* AutoAssigns that found the pool enabled and have not ended
  late,       \* history: addresses recorded while the pool was disabled or gone
  edits, faults

store  == <<obj, block>>
feed   == <<events, cache, waiting>>
worker == <<pc, work, current, stat>>
vars   == <<store, feed, worker, calls, late, edits, faults>>

\* The addresses recorded in the store.
Used == IF block = None THEN {} ELSE block.addrs

Labels == {"idle", "panic", "disable", "listBlocks", "markBlock", "dropBlock",
           "removeFinalizer", "addFinalizer", "getPools", "listUse", "putStatus"}

ControllerTypeOK ==
  /\ obj \in Pool \cup {None}
  /\ block \in Block \cup {None}
  /\ events \in Seq(Pool \cup {None})
  /\ cache \in Pool \cup {None}
  /\ work \in Pool \cup {None}
  /\ waiting \subseteq {"queued", "delayed", "block"}
  /\ current \subseteq {"pool", "block"}
  /\ pc \in Labels
  /\ pc \notin {"idle", "panic"} => work # None
  /\ stat \in Nat
  /\ calls \in [Callers -> {"none", "live", "orphan"}]
  /\ late \subseteq Callers
  /\ edits \in 0 .. MaxEdits /\ faults \in 0 .. MaxFaults

Init ==
  /\ obj = None /\ block = None
  /\ events = <<>> /\ cache = None /\ waiting = {}
  /\ pc = "idle" /\ work = None /\ current = {} /\ stat = 0
  /\ calls = [a \in Callers |-> "none"]
  /\ late = {} /\ edits = 0 /\ faults = 0

-----------------------------------------------------------------------------
(* The API server.                                                         *)

\* A write of the pool, or of the block, outdates the worker's copy.
PutPool(o) ==
  /\ obj' = o
  /\ events' = Append(events, o)
  /\ current' = current \ {"pool"}
PutBlock(b) ==
  /\ block' = b
  /\ waiting' = waiting \cup {"block"}
  /\ current' = current \ {"block"}

\* The pool object goes away: its block, and a block that a running AutoAssign
\* is about to create, have an owner that does not exist.
Vanish ==
  /\ PutPool(None)
  /\ block' = IF block = None THEN None ELSE [block EXCEPT !.orphan = TRUE]
  /\ calls' = [a \in Callers |-> IF calls[a] = "none" THEN "none" ELSE "orphan"]

-----------------------------------------------------------------------------
(* The user                                                                *)

Edit == edits < MaxEdits /\ edits' = edits + 1

CreatePool ==
  /\ Edit /\ obj = None
  /\ PutPool([fin |-> FALSE, deleting |-> FALSE, disabled |-> FALSE, status |-> Unsynced])
  /\ UNCHANGED <<block, cache, waiting, pc, work, stat, calls, late, faults>>

\* ValidateUpdate has nothing against disabling a pool, or enabling one that
\* is being deleted.
ToggleDisabled ==
  /\ Edit /\ obj # None
  /\ PutPool([obj EXCEPT !.disabled = ~@])
  /\ UNCHANGED <<block, cache, waiting, pc, work, stat, calls, late, faults>>

\* ValidateDelete looks at the status the object has.
DeletePool ==
  /\ Edit /\ obj # None /\ ~obj.deleting
  /\ obj.status <= 0
  /\ \/ obj.fin /\ PutPool([obj EXCEPT !.deleting = TRUE]) /\ UNCHANGED <<block, calls>>
     \/ ~obj.fin /\ Vanish
  /\ UNCHANGED <<cache, waiting, pc, work, stat, late, faults>>

-----------------------------------------------------------------------------
(* AutoAssign, ReleaseByHandle and the garbage collector                   *)

\* AutoAssign reads the pool and finds it enabled.
ReadPool(a) ==
  /\ Edit
  /\ calls[a] = "none" /\ a \notin Used
  /\ obj # None /\ ~obj.disabled
  /\ calls' = [calls EXCEPT ![a] = "live"]
  /\ UNCHANGED <<store, feed, worker, late, faults>>

EndCall(a) == calls' = [calls EXCEPT ![a] = "none"]
NewBlock(a, addrs) == [addrs |-> addrs, marked |-> FALSE, orphan |-> calls[a] = "orphan"]

\* AutoAssign records its address, in a block it creates if there is none.  It
\* does not read the pool again.
Assign(a) ==
  /\ calls[a] # "none"
  /\ PutBlock(IF block = None THEN NewBlock(a, {a})
              ELSE [block EXCEPT !.addrs = @ \cup {a}])
  /\ EndCall(a)
  /\ late' = IF obj = None \/ obj.disabled THEN late \cup {a} ELSE late \ {a}
  /\ UNCHANGED <<obj, events, cache, pc, work, stat, edits, faults>>

\* AutoAssign fails, perhaps after it has created an empty block.
AssignFails(a) ==
  /\ calls[a] # "none"
  /\ EndCall(a)
  /\ \/ UNCHANGED <<block, waiting, current>>
     \/ block = None /\ PutBlock(NewBlock(a, {}))
  /\ UNCHANGED <<obj, events, cache, pc, work, stat, late, edits, faults>>

\* ReleaseByHandle of the caller's handle: a block that becomes empty is
\* marked and deleted, or only marked if the process dies in between; one that
\* is marked already is deleted by name.
ReleaseByHandle(a) ==
  /\ a \in Used
  /\ LET rest == [block EXCEPT !.addrs = @ \ {a}] IN
       \/ block.marked /\ PutBlock(None)
       \/ ~block.marked /\ rest.addrs # {} /\ PutBlock(rest)
       \/ /\ ~block.marked /\ rest.addrs = {}
          /\ PutBlock(None) \/ PutBlock([rest EXCEPT !.marked = TRUE])
  /\ late' = late \ {a}
  /\ UNCHANGED <<obj, events, cache, pc, work, stat, calls, edits, faults>>

\* The garbage collector deletes a block whose owner is gone.
CollectBlock ==
  /\ block # None /\ block.orphan
  /\ PutBlock(None)
  /\ UNCHANGED <<obj, events, cache, pc, work, stat, calls, late, edits, faults>>

-----------------------------------------------------------------------------
(* The informers and the workqueue                                         *)

\* The pool informer hands on the next write: the handlers of add and update
\* enqueue the pool, the one of delete does not.
DeliverPool ==
  /\ events # <<>>
  /\ cache' = Head(events)
  /\ events' = Tail(events)
  /\ waiting' = IF Head(events) = None THEN waiting ELSE waiting \cup {"queued"}
  /\ UNCHANGED <<store, worker, calls, late, edits, faults>>

\* Mutant: the block handlers do nothing.
DeliverBlockIgnored ==
  /\ "block" \in waiting
  /\ waiting' = waiting \ {"block"}
  /\ UNCHANGED <<store, events, cache, worker, calls, late, edits, faults>>

\* Every event of a block enqueues its pool.
DeliverBlock ==
  /\ "block" \in waiting
  /\ waiting' = (waiting \ {"block"}) \cup {"queued"}
  /\ UNCHANGED <<store, events, cache, worker, calls, late, edits, faults>>

\* The delay is over.
FireDelayed ==
  /\ "delayed" \in waiting
  /\ waiting' = (waiting \ {"delayed"}) \cup {"queued"}
  /\ UNCHANGED <<store, events, cache, worker, calls, late, edits, faults>>

\* Every ten minutes the informer reports what it has in its cache as updated.
Resync ==
  /\ cache # None
  /\ waiting' = waiting \cup {"queued"}
  /\ UNCHANGED <<store, events, cache, worker, calls, late, edits, faults>>

-----------------------------------------------------------------------------
(* The worker: processIPPoolItem and processIPPool                         *)

Goto(label) == pc' = label

\* processIPPool returned without an error: a delay it asked for is dropped.
Succeed ==
  /\ Goto("idle") /\ work' = None /\ stat' = 0
  /\ UNCHANGED waiting

\* Mutant: an error is not retried.
FailForgets == Succeed

\* It returned an error: the name is added again later.
Fail ==
  /\ Goto("idle") /\ work' = None /\ stat' = 0
  /\ waiting' = waiting \cup {"delayed"}

\* The name is taken from the queue and looked up in the informer's cache.
Take ==
  /\ waiting' = waiting \ {"queued"}
  /\ work' = cache
  /\ current' = IF events = <<>> THEN {"pool"} ELSE {}

\* Mutant: a name the cache does not know is processed like any other.
PickUpMissing ==
  /\ pc = "idle" /\ "queued" \in waiting
  /\ Take
  /\ Goto("getPools")
  /\ UNCHANGED <<store, events, cache, stat, calls, late, edits, faults>>

\* Mutant: a deletion is not looked for.
PickUpNoDeletion ==
  /\ pc = "idle" /\ "queued" \in waiting
  /\ Take
  /\ \/ cache = None /\ UNCHANGED pc
     \/ cache # None /\ Goto(IF cache.fin THEN "getPools" ELSE "addFinalizer")
  /\ UNCHANGED <<store, events, cache, stat, calls, late, edits, faults>>

\* A pool that is not in the cache needs nothing, one being deleted is disabled
\* first (IsDeletionCandidate), and a new one gets its finalizer
\* (NeedToAddFinalizer).
PickUp ==
  /\ pc = "idle" /\ "queued" \in waiting
  /\ Take
  /\ \/ cache = None /\ UNCHANGED pc
     \/ /\ cache # None /\ cache.deleting /\ cache.fin
        /\ Goto(IF cache.disabled THEN "listBlocks" ELSE "disable")
     \/ cache # None /\ ~cache.deleting /\ ~cache.fin /\ Goto("addFinalizer")
     \/ cache # None /\ cache.deleting # cache.fin /\ Goto("getPools")
  /\ UNCHANGED <<store, events, cache, stat, calls, late, edits, faults>>

\* Mutant: the pool stays enabled while it is being deleted.
DisableIPPoolSkipped ==
  /\ pc = "disable" /\ Goto("listBlocks")
  /\ UNCHANGED <<store, feed, work, current, stat, calls, late, edits, faults>>

\* disableIPPool.  The worker goes on with its own copy, now out of date.
DisableIPPool ==
  /\ pc = "disable"
  /\ \/ /\ "pool" \in current
        /\ PutPool([work EXCEPT !.disabled = TRUE])
        /\ Goto("listBlocks")
        /\ UNCHANGED <<work, stat, waiting>>
     \/ "pool" \notin current /\ Fail /\ UNCHANGED <<obj, events, current>>
  /\ UNCHANGED <<block, cache, calls, late, edits, faults>>

\* DeleteIPPool: a block in use ends it, an empty one is marked and deleted.
ListBlocks ==
  /\ pc = "listBlocks"
  /\ current' = current \cup {"block"}
  /\ \/ block = None /\ Goto("removeFinalizer")
     \/ /\ block # None /\ block.addrs = {}
        /\ Goto(IF block.marked THEN "dropBlock" ELSE "markBlock")
     \/ Used # {} /\ Goto("getPools")
  /\ UNCHANGED <<store, feed, work, stat, calls, late, edits, faults>>

\* DeleteBlock on the listed copy.
MarkBlock ==
  /\ pc = "markBlock"
  /\ \/ /\ "block" \in current
        /\ PutBlock([block EXCEPT !.marked = TRUE])
        /\ Goto("dropBlock")
        /\ UNCHANGED <<work, stat>>
     \/ "block" \notin current /\ Fail /\ UNCHANGED <<block, current>>
  /\ UNCHANGED <<obj, events, cache, calls, late, edits, faults>>

\* Delete by name, whatever the block is by now.
DropBlock ==
  /\ pc = "dropBlock"
  /\ \/ /\ block # None
        /\ PutBlock(None)
        /\ Goto("removeFinalizer")
        /\ UNCHANGED <<work, stat>>
     \/ block = None /\ Fail /\ UNCHANGED <<block, current>>
  /\ UNCHANGED <<obj, events, cache, calls, late, edits, faults>>

\* The finalizer was the last thing that held the deleted object.
RemoveFinalizer ==
  /\ pc = "removeFinalizer"
  /\ \/ "pool" \in current /\ Vanish /\ Succeed
     \/ "pool" \notin current /\ Fail /\ UNCHANGED <<store, events, current, calls>>
  /\ UNCHANGED <<cache, late, edits, faults>>

\* The labels come with the finalizer.
AddFinalizer ==
  /\ pc = "addFinalizer"
  /\ \/ /\ "pool" \in current
        /\ PutPool([work EXCEPT !.fin = TRUE])
        /\ Goto("getPools")
        /\ UNCHANGED <<work, stat, waiting>>
     \/ "pool" \notin current /\ Fail /\ UNCHANGED <<obj, events, current>>
  /\ UNCHANGED <<block, cache, calls, late, edits, faults>>

\* getAllPools finds the pool by the label AddFinalizer has set.
Labelled == obj # None /\ obj.fin

\* GetUtilization: no pool at all is an error, but if only this one is missing
\* GetIPPoolStats takes the first element of an empty list.
GetPools ==
  /\ pc = "getPools"
  /\ \/ Labelled /\ Goto("listUse") /\ UNCHANGED <<work, stat, waiting>>
     \/ /\ ~Labelled
        /\ \/ Fail
           \/ Goto("panic") /\ UNCHANGED <<work, stat, waiting>>
  /\ UNCHANGED <<store, events, cache, current, calls, late, edits, faults>>

\* The count is compared with the status in the worker's copy.
ListUse ==
  /\ pc = "listUse"
  /\ \/ Cardinality(Used) = work.status /\ Succeed
     \/ /\ Cardinality(Used) # work.status
        /\ Goto("putStatus")
        /\ stat' = Cardinality(Used)
        /\ UNCHANGED <<work, waiting>>
  /\ UNCHANGED <<store, events, cache, current, calls, late, edits, faults>>

\* updateIPPoolStatus writes the count with the worker's copy.
PutStatus ==
  /\ pc = "putStatus"
  /\ \/ "pool" \in current /\ PutPool([work EXCEPT !.status = stat]) /\ Succeed
     \/ "pool" \notin current /\ Fail /\ UNCHANGED <<obj, events, current>>
  /\ UNCHANGED <<block, cache, calls, late, edits, faults>>

-----------------------------------------------------------------------------
(* Faults                                                                  *)

\* An API call of the worker fails; nothing was written.
ApiError ==
  /\ faults < MaxFaults /\ faults' = faults + 1
  /\ pc \notin {"idle", "panic"}
  /\ Fail
  /\ UNCHANGED <<store, events, cache, current, calls, late, edits>>

\* The controller is started again: its informers list what is there.
Relist ==
  /\ Goto("idle") /\ work' = None /\ stat' = 0 /\ current' = {}
  /\ cache' = obj /\ events' = <<>>
  /\ waiting' = (IF obj = None THEN {} ELSE {"queued"})
                 \cup (IF block = None THEN {} ELSE {"block"})
  /\ UNCHANGED <<store, calls, late, edits>>
Crash   == faults < MaxFaults /\ faults' = faults + 1 /\ pc # "panic" /\ Relist
Recover == pc = "panic" /\ Relist /\ UNCHANGED faults

-----------------------------------------------------------------------------

Environment ==
  \/ CreatePool \/ ToggleDisabled \/ DeletePool
  \/ \E a \in Callers : ReadPool(a) \/ Assign(a) \/ AssignFails(a) \/ ReleaseByHandle(a)
  \/ CollectBlock

Worker ==
  \/ PickUp \/ DisableIPPool \/ ListBlocks \/ MarkBlock \/ DropBlock
  \/ RemoveFinalizer \/ AddFinalizer \/ GetPools \/ ListUse \/ PutStatus
  \/ Recover

Next ==
  \/ Environment
  \/ DeliverPool \/ DeliverBlock \/ FireDelayed \/ Resync
  \/ Worker
  \/ ApiError \/ Crash

Spec == Init /\ [][Next]_vars

\* The watches deliver, delays end and the worker keeps working.  Nothing is
\* assumed of the user, of the callers, of the garbage collector or of the
\* informer's resync.
FairSpec ==
  /\ Spec
  /\ WF_vars(DeliverPool) /\ WF_vars(DeliverBlock) /\ WF_vars(FireDelayed)
  /\ WF_vars(Worker)

-----------------------------------------------------------------------------
(* Properties                                                              *)

\* Something will make the worker look at the pool again.
Pending == waiting # {} \/ events # <<>>

\* No event is lost between the informers, the queue and the worker: when the
\* worker rests although the pool wants work (no finalizer yet, a status that
\* is not the number of addresses in use, a deletion nothing holds up), then
\* something is pending that makes it look again, although it may have decided
\* on an old copy and dropped the delay it wanted.
NothingForgotten ==
  (/\ pc = "idle" /\ obj # None
   /\ \/ ~obj.fin
      \/ obj.status # Cardinality(Used)
      \/ obj.deleting /\ Used = {})
  => Pending

\* The finalizer goes, and the pool with it, only when every address still
\* recorded was recorded after the pool had been disabled, whatever the user
\* and the callers did between the worker's reads and its last write.
ProtectsUse ==
  [][obj # None /\ obj.fin /\ obj' = None => Used \subseteq late]_vars

\* A pool that is being deleted and out of use goes away.
DeletionCompletes ==
  (obj # None /\ obj.deleting /\ Used = {}) ~> (obj = None \/ Used # {})

\* Once the edits have ended, the status is the number of addresses in use.
StatusConverges ==
  <>[](obj # None => obj.status = Cardinality(Used))

-----------------------------------------------------------------------------
(* The inductive invariant behind NothingForgotten and ProtectsUse         *)

DeleteLabels == {"markBlock", "dropBlock", "removeFinalizer"}
StatLabels   == {"getPools", "listUse", "putStatus"}

\* An object outlives its deletion by its finalizer only.
Held(o) == o # None /\ o.deleting => o.fin

\* What the informer has not delivered yet ends with the stored object.
FeedOK ==
  /\ IF events = <<>> THEN cache = obj ELSE events[Len(events)] = obj
  /\ Held(obj)

\* A current copy is the stored object.  One with which a deletion is carried
\* out is a copy of a disabled pool, and after the look at the blocks only late
\* addresses are there.
CopyOK ==
  pc \notin {"idle", "panic"} /\ "pool" \in current =>
    /\ obj = work
    /\ pc \in {"disable", "listBlocks"} \cup DeleteLabels => work.deleting /\ work.fin
    /\ pc \in {"listBlocks"} \cup DeleteLabels => work.disabled
    /\ pc \in DeleteLabels => Used \subseteq late
    /\ pc \in StatLabels =>
         work.fin /\ (work.deleting /\ Used = {} => Pending)
BlockCopyOK == pc = "markBlock" /\ "block" \in current => block # None

\* Whatever makes the copy of a working worker old is pending.
StaleOK ==
  obj # None /\ pc \notin {"idle", "panic"} /\ "pool" \notin current => Pending

ControllerInv ==
  ControllerTypeOK /\ FeedOK /\ CopyOK /\ BlockCopyOK /\ StaleOK /\ NothingForgotten

=============================================================================
