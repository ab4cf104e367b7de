----------------------------- MODULE QuotaQueue -----------------------------
(***************************************************************************)
(* How the quota evaluator hands the requests that call Evaluate to its    *)
(* workers (kube/plugin/pkg/admission/resourcequota/controller.go).  A     *)
(* request is appended to the list of its namespace, the namespace is      *)
(* added to a workqueue, and a worker that gets the namespace takes the    *)
(* whole list.  Requests that arrive while it works go to a second list.   *)
(*                                                                         *)
(* The lists are under workLock, the workqueue is under a lock of its own  *)
(* and is used both inside and outside workLock.  A list is modelled by    *)
(* its set: the order within a batch decides who gets the last of a quota, *)
(* never who gets an answer.  The check itself is module QuotaAdmission.   *)
(***************************************************************************)
EXTENDS Integers, Sequences, FiniteSets

CONSTANTS
  Waiters,      \* requests that pass through Evaluate, one call each
  Namespaces,
  Workers,
  NsOf,         \* the namespace of a request
  None          \* no process, no namespace

ASSUME QueueAssumption ==
  /\ NsOf \in [Waiters -> Namespaces]
  /\ None \notin Waiters \cup Workers \cup Namespaces
  /\ Waiters \cap Workers = {}

VARIABLES
  queue, dirty, processing,   \* workqueue.Type
  workLock,                   \* the process that holds workLock
  work, dirtyWork,            \* the lists, by namespace
  inProgress,
  pc, ns, batch,              \* of a worker: next step, namespace, its list
  call,                       \* where a request is in Evaluate
  closed                      \* the requests whose channel finished is closed

workqueue == <<queue, dirty, processing>>
lists     == <<work, dirtyWork, inProgress>>
worker    == <<pc, ns, batch>>
vars      == <<workqueue, workLock, lists, worker, call, closed>>

QueueTypeOK ==
  /\ queue \in Seq(Namespaces)
  /\ dirty \subseteq Namespaces /\ processing \subseteq Namespaces
  /\ workLock \in Waiters \cup Workers \cup {None}
  /\ work \in [Namespaces -> SUBSET Waiters]
  /\ dirtyWork \in [Namespaces -> SUBSET Waiters]
  /\ inProgress \subseteq Namespaces
  /\ pc \in [Workers -> {"idle", "got", "check", "complete", "swap"}]
  /\ ns \in [Workers -> Namespaces \cup {None}]
  /\ batch \in [Workers -> SUBSET Waiters]
  /\ call \in [Waiters -> {"new", "adding", "waiting", "returned", "timedOut"}]
  /\ closed \subseteq Waiters

Init ==
  /\ queue = <<>> /\ dirty = {} /\ processing = {}
  /\ workLock = None
  /\ work = [n \in Namespaces |-> {}] /\ dirtyWork = [n \in Namespaces |-> {}]
  /\ inProgress = {}
  /\ pc = [k \in Workers |-> "idle"] /\ ns = [k \in Workers |-> None]
  /\ batch = [k \in Workers |-> {}]
  /\ call = [w \in Waiters |-> "new"] /\ closed = {}

-----------------------------------------------------------------------------
(* workqueue.Type                                                          *)

\* Mutant: an item that is being processed is not remembered.
QueueAddDropped(n) ==
  /\ dirty' = IF n \in processing THEN dirty ELSE dirty \cup {n}
  /\ queue' = IF n \in dirty \cup processing THEN queue ELSE Append(queue, n)
  /\ UNCHANGED processing

\* An item is in the queue once, and not while it is being processed.
QueueAdd(n) ==
  /\ dirty' = dirty \cup {n}
  /\ queue' = IF n \in dirty \cup processing THEN queue ELSE Append(queue, n)
  /\ UNCHANGED processing

\* Mutant: the item is not marked as being processed.
QueueGetUnmarked ==
  /\ queue # <<>>
  /\ queue' = Tail(queue)
  /\ dirty' = dirty \ {Head(queue)}
  /\ UNCHANGED processing

QueueGet ==
  /\ queue # <<>>
  /\ queue' = Tail(queue)
  /\ processing' = processing \cup {Head(queue)}
  /\ dirty' = dirty \ {Head(queue)}

\* An item added again in the meantime goes back to the queue.
QueueDone(n) ==
  /\ processing' = processing \ {n}
  /\ queue' = IF n \in dirty THEN Append(queue, n) ELSE queue
  /\ UNCHANGED dirty

-----------------------------------------------------------------------------
(* A request: Evaluate                                                     *)

\* addWork: the namespace is queued first, with workLock held.
AddToQueue(w) ==
  /\ call[w] = "new"
  /\ workLock = None /\ workLock' = w
  /\ QueueAdd(NsOf[w])
  /\ call' = [call EXCEPT ![w] = "adding"]
  /\ UNCHANGED <<lists, worker, closed>>

\* Mutant: the list does not depend on whether the namespace is in progress.
AddToListAlways(w) ==
  /\ call[w] = "adding" /\ workLock' = None
  /\ work' = [work EXCEPT ![NsOf[w]] = @ \cup {w}]
  /\ call' = [call EXCEPT ![w] = "waiting"]
  /\ UNCHANGED <<workqueue, dirtyWork, inProgress, worker, closed>>

\* addWork: a namespace in progress has a list of its own for newcomers.
AddToList(w) ==
  /\ call[w] = "adding" /\ workLock' = None
  /\ \/ /\ NsOf[w] \in inProgress
        /\ dirtyWork' = [dirtyWork EXCEPT ![NsOf[w]] = @ \cup {w}]
        /\ UNCHANGED work
     \/ /\ NsOf[w] \notin inProgress
        /\ work' = [work EXCEPT ![NsOf[w]] = @ \cup {w}]
        /\ UNCHANGED dirtyWork
  /\ call' = [call EXCEPT ![w] = "waiting"]
  /\ UNCHANGED <<workqueue, inProgress, worker, closed>>

\* Evaluate returns the result, or an error after ten seconds; the request
\* that timed out stays where it is.
Return(w) ==
  /\ call[w] = "waiting"
  /\ \/ w \in closed /\ call' = [call EXCEPT ![w] = "returned"]
     \/ call' = [call EXCEPT ![w] = "timedOut"]
  /\ UNCHANGED <<workqueue, workLock, lists, worker, closed>>

-----------------------------------------------------------------------------
(* A worker: doWork                                                        *)

\* getWork waits for a namespace, without workLock.
Get(k) ==
  /\ pc[k] = "idle"
  /\ QueueGet
  /\ ns' = [ns EXCEPT ![k] = Head(queue)]
  /\ pc' = [pc EXCEPT ![k] = "got"]
  /\ UNCHANGED <<workLock, lists, batch, call, closed>>

\* getWork takes the list, which may be empty by now.
GetWork(k) ==
  /\ pc[k] = "got" /\ workLock = None
  /\ batch' = [batch EXCEPT ![k] = work[ns[k]]]
  /\ work' = [work EXCEPT ![ns[k]] = {}]
  /\ dirtyWork' = [dirtyWork EXCEPT ![ns[k]] = {}]
  /\ inProgress' = inProgress \cup {ns[k]}
  /\ pc' = [pc EXCEPT ![k] = IF work[ns[k]] = {} THEN "complete" ELSE "check"]
  /\ UNCHANGED <<workqueue, workLock, ns, call, closed>>

\* checkAttributes ends: it closes the channel of every request of its list.
CheckAttributes(k) ==
  /\ pc[k] = "check"
  /\ closed' = closed \cup batch[k]
  /\ batch' = [batch EXCEPT ![k] = {}]
  /\ pc' = [pc EXCEPT ![k] = "complete"]
  /\ UNCHANGED <<workqueue, workLock, lists, ns, call>>

\* completeWork: the workqueue learns of it first, with workLock held.
Done(k) ==
  /\ pc[k] = "complete"
  /\ workLock = None /\ workLock' = k
  /\ QueueDone(ns[k])
  /\ pc' = [pc EXCEPT ![k] = "swap"]
  /\ UNCHANGED <<lists, ns, batch, call, closed>>

\* Mutant: the newcomers are not moved to the first list.
CompleteWorkNoSwap(k) ==
  /\ pc[k] = "swap" /\ workLock' = None
  /\ inProgress' = inProgress \ {ns[k]}
  /\ pc' = [pc EXCEPT ![k] = "idle"]
  /\ ns' = [ns EXCEPT ![k] = None]
  /\ UNCHANGED <<workqueue, work, dirtyWork, batch, call, closed>>

\* completeWork: the newcomers' list becomes the list of the namespace.
CompleteWork(k) ==
  /\ pc[k] = "swap" /\ workLock' = None
  /\ work' = [work EXCEPT ![ns[k]] = dirtyWork[ns[k]]]
  /\ dirtyWork' = [dirtyWork EXCEPT ![ns[k]] = {}]
  /\ inProgress' = inProgress \ {ns[k]}
  /\ pc' = [pc EXCEPT ![k] = "idle"]
  /\ ns' = [ns EXCEPT ![k] = None]
  /\ UNCHANGED <<workqueue, batch, call, closed>>

-----------------------------------------------------------------------------

WaiterStep(w) == AddToQueue(w) \/ AddToList(w) \/ Return(w)
WorkerStep(k) == Get(k) \/ GetWork(k) \/ CheckAttributes(k) \/ Done(k) \/ CompleteWork(k)

Next == (\E w \in Waiters : WaiterStep(w)) \/ (\E k \in Workers : WorkerStep(k))

Spec == Init /\ [][Next]_vars

\* A worker that can go on does, and so does a request that holds workLock.
\* Nothing is assumed of when a request comes or gives up.
FairSpec ==
  /\ Spec
  /\ \A w \in Waiters : WF_vars(AddToList(w))
  /\ \A k \in Workers : WF_vars(WorkerStep(k))

-----------------------------------------------------------------------------
(* Properties                                                              *)

InList(w) == w \in work[NsOf[w]] \/ w \in dirtyWork[NsOf[w]]
Held(w)   == \E k \in Workers : w \in batch[k]
Added(w)  == call[w] \notin {"new", "adding"}

\* No request falls out of the lists while they are taken, swapped and deleted
\* by several workers, and none is in two of them, which would close its
\* channel twice.
NoneLost ==
  \A w \in Waiters : Added(w) =>
    /\ InList(w) \/ Held(w) \/ w \in closed
    /\ ~(w \in work[NsOf[w]] /\ w \in dirtyWork[NsOf[w]])
    /\ ~(InList(w) /\ Held(w))
    /\ w \in closed => ~InList(w) /\ ~Held(w)
    /\ \A k, l \in Workers : w \in batch[k] /\ w \in batch[l] => k = l

\* A worker that has got the namespace and not yet its list.
Expected(n) == \E k \in Workers : pc[k] = "got" /\ ns[k] = n

\* A list with requests in it has a wake-up in the workqueue, or a worker on
\* its way, although the workqueue and the lists are changed under different
\* locks.
Woken ==
  \A n \in Namespaces :
    /\ work[n] \cup dirtyWork[n] # {} => n \in dirty \/ Expected(n)
    /\ dirtyWork[n] # {} => n \in inProgress

\* The lists keep the promise of module Batches, its liveness included.
B == INSTANCE Batches WITH
       queued   <- {w \in Waiters : InList(w)},
       taken    <- {w \in Waiters : Held(w)},
       answered <- closed
ImplementsBatches == B!FairSpec

-----------------------------------------------------------------------------
(* The inductive invariant                                                 *)

\* The workqueue holds, once each, what is dirty and not being processed.
QueueShape ==
  /\ \A i, j \in DOMAIN queue : queue[i] = queue[j] => i = j
  /\ \A n \in Namespaces :
       n \in dirty \ processing <=> \E i \in DOMAIN queue : queue[i] = n

Processing == {"got", "check", "complete"}
Working    == {"check", "complete", "swap"}

\* A namespace is processed by one worker; a second one may have got it while
\* the first is in completeWork, and waits for workLock.
OneWorker ==
  /\ \A k \in Workers :
       /\ pc[k] = "idle" <=> ns[k] = None
       /\ pc[k] = "check" <=> batch[k] # {}
       /\ pc[k] \in Processing => ns[k] \in processing
  /\ \A k, l \in Workers :
       /\ ns[k] = ns[l]
       /\ {pc[k], pc[l]} \subseteq Processing \/ {pc[k], pc[l]} \subseteq Working
       => k = l

LockHolder ==
  /\ \A w \in Waiters : workLock = w <=> call[w] = "adding"
  /\ \A k \in Workers : workLock = k <=> pc[k] = "swap"

\* A namespace in progress has its newcomers in the second list only.
Progress ==
  /\ \A n \in Namespaces :
       n \in inProgress <=>
         \E k \in Workers : pc[k] \in Working /\ ns[k] = n
  /\ \A n \in inProgress : work[n] = {}

Filed ==
  /\ \A n \in Namespaces, w \in Waiters :
       w \in work[n] \cup dirtyWork[n] => NsOf[w] = n /\ Added(w)
  /\ \A k \in Workers, w \in Waiters : w \in batch[k] => NsOf[w] = ns[k] /\ Added(w)
  /\ \A w \in closed : Added(w)
  /\ \A w \in Waiters :
       call[w] = "adding" => NsOf[w] \in dirty \/ Expected(NsOf[w])

QueueInv ==
  /\ QueueTypeOK /\ QueueShape /\ OneWorker /\ LockHolder /\ Progress /\ Filed
  /\ NoneLost /\ Woken
=============================================================================
