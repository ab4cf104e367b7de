--------------------------- MODULE QuotaAdmission ---------------------------
(***************************************************************************)
(* Admission against the ResourceQuotas of a workspace: the check of a     *)
(* batch of requests by the quota evaluator (checkAttributes and           *)
(* checkQuotas), the accessor through which it reads and writes the quotas *)
(* (pkg/controller/quota/accessor.go), the locks it takes, and the         *)
(* controller that recounts the usage (resourcequota_controller.go).       *)
(*                                                                         *)
(* A batch is all that waits in a namespace, and a namespace has one batch *)
(* at a time (module Batches, which QuotaQueue implements), so the worker  *)
(* of a batch is named by its namespace.  All namespaces belong to the     *)
(* workspace, and each quota limits one resource.  A quota is named by a   *)
(* number: locks are taken in the order of the names.  There is a quota:   *)
(* without one checkAttributes lets every request through at once.  A pass *)
(* goes through its batch in any order.                                    *)
(*                                                                         *)
(* A quota is read from an informer's cache, which may be behind the API   *)
(* server by any number of writes, or from a look-aside cache of the       *)
(* accessor's own writes.  A write carries the resourceVersion of the copy *)
(* it was computed from, and fails with Conflict if that is not the stored *)
(* one.                                                                    *)
(***************************************************************************)
EXTENDS Integers, FiniteSets, FiniteSetsExt

CONSTANTS
  Waiters,      \* requests that wait in Evaluate
  Namespaces,
  Quotas,
  NsOf,         \* the namespace of a request
  Delta,        \* what a request adds to a quota; 0 if the quota does not match it
  Hard,         \* the limit of a quota
  DryRun,       \* the requests that are dry runs
  Retries,      \* remainingRetries of the first checkQuotas
  MaxFaults,    \* bound: API calls that fail for other reasons than Conflict
  Recount,      \* whether the controller runs and objects are created
  None

ASSUME QuotaAssumption ==
  /\ IsFiniteSet(Waiters) /\ IsFiniteSet(Namespaces) /\ IsFiniteSet(Quotas)
  /\ Quotas \subseteq Nat /\ Quotas # {}
  /\ NsOf \in [Waiters -> Namespaces]
  /\ Delta \in [Waiters -> [Quotas -> Nat]]
  /\ Hard \in [Quotas -> Nat]
  /\ DryRun \subseteq Waiters
  /\ Retries \in Nat /\ MaxFaults \in Nat /\ Recount \in BOOLEAN
  /\ None \notin Namespaces

\* The status of a ResourceQuota, with its resourceVersion.
Version == [rv : Nat, total : Int, used : [Namespaces -> Int]]

VARIABLES
  stored,     \* the quotas in the API server
  seen,       \* the quotas in the informer's cache
  lru,        \* updatedResourceQuotas: the accessor's own writes
  queued,     \* the requests that wait for a worker
  batch,      \* the requests a worker checks
  result,     \* of a request: DEFAULT DENY, denied, an error or nil
  answered,   \* the requests whose channel is closed
  pc,
  copy,       \* quotas as the worker read them
  todo,       \* quotas it has to check against, and then to update
  running,    \* the usage as it would be with what was checked so far
  left,       \* requests this pass has still to check
  billed,     \* requests counted in running
  failed,     \* quotas whose update failed
  retries,
  cur, base,  \* the quota being updated, and the copy UpdateQuotaStatus read
  mutex,      \* the lock of a quota in the lock factory, named by its maker
  want,       \* the lock a worker has been given
  held,       \* the locks a worker holds
  live,       \* objects that exist
  seenLive,   \* objects in the controller's informers
  recount,    \* of a quota: what the controller will write, or None
  charged,    \* history: how often a request was added to a quota
  refused,    \* history: requests some pass found not to fit
  faults

quotaVars  == <<stored, seen, lru>>
requests   == <<queued, batch, result, answered>>
pass       == <<copy, todo, running, left, billed, failed, retries, cur, base>>
locks      == <<mutex, want, held>>
controller == <<live, seenLive, recount>>
history    == <<charged, refused>>
vars == <<quotaVars, requests, pc, pass, locks, controller, history, faults>>

Zero == [rv |-> 0, total |-> 0, used |-> [n \in Namespaces |-> 0]]

Init ==
  /\ stored = [q \in Quotas |-> Zero] /\ seen = stored
  /\ lru = [q \in Quotas |-> None]
  /\ queued = {} /\ batch = [n \in Namespaces |-> {}]
  /\ result = [w \in Waiters |-> "defaultDeny"] /\ answered = {}
  /\ pc = [n \in Namespaces |-> "idle"]
  /\ copy = [n \in Namespaces |-> stored] /\ todo = [n \in Namespaces |-> {}]
  /\ running = [n \in Namespaces |-> [q \in Quotas |-> 0]]
  /\ left = [n \in Namespaces |-> {}] /\ billed = [n \in Namespaces |-> {}]
  /\ failed = [n \in Namespaces |-> {}] /\ retries = [n \in Namespaces |-> 0]
  /\ cur = [n \in Namespaces |-> 0] /\ base = [n \in Namespaces |-> Zero]
  /\ mutex = [q \in Quotas |-> None] /\ want = [n \in Namespaces |-> None]
  /\ held = [n \in Namespaces |-> {}]
  /\ live = {} /\ seenLive = {} /\ recount = [q \in Quotas |-> None]
  /\ charged = [q \in Quotas |-> [w \in Waiters |-> 0]] /\ refused = {}
  /\ faults = 0

-----------------------------------------------------------------------------
(* Requests and batches                                                    *)

Submit(w) ==
  /\ w \notin queued \cup answered \cup batch[NsOf[w]]
  /\ queued' = queued \cup {w}
  /\ UNCHANGED <<quotaVars, batch, result, answered, pc, pass, locks, controller,
                 history, faults>>

Take(n) ==
  LET all == {w \in queued : NsOf[w] = n} IN
  /\ pc[n] = "idle" /\ all # {}
  /\ queued' = queued \ all
  /\ batch' = [batch EXCEPT ![n] = all]
  /\ pc' = [pc EXCEPT ![n] = "get"]
  /\ UNCHANGED <<quotaVars, result, answered, pass, locks, controller, history, faults>>

\* The requests of n whose result is still DEFAULT DENY get the result r.
Settled(n, r) ==
  [w \in Waiters |->
     IF w \in batch[n] /\ result[w] = "defaultDeny" THEN r ELSE result[w]]

\* The variables of a call of checkQuotas are gone when it has returned.
ForgetPass(n) ==
  /\ copy' = [copy EXCEPT ![n] = [q \in Quotas |-> Zero]]
  /\ running' = [running EXCEPT ![n] = [q \in Quotas |-> 0]]
  /\ todo' = [todo EXCEPT ![n] = {}] /\ failed' = [failed EXCEPT ![n] = {}]
  /\ left' = [left EXCEPT ![n] = {}] /\ billed' = [billed EXCEPT ![n] = {}]
  /\ retries' = [retries EXCEPT ![n] = 0]
  /\ cur' = [cur EXCEPT ![n] = 0] /\ base' = [base EXCEPT ![n] = Zero]

\* Mutant: the locks are not released.
FinishLocked(n) ==
  /\ pc[n] = "finish"
  /\ ForgetPass(n)
  /\ answered' = answered \cup batch[n]
  /\ batch' = [batch EXCEPT ![n] = {}]
  /\ pc' = [pc EXCEPT ![n] = "idle"]
  /\ UNCHANGED <<quotaVars, queued, result, locks, controller, history, faults>>

\* checkAttributes returns: it releases the locks and closes the channels.
Finish(n) ==
  /\ pc[n] = "finish"
  /\ held' = [held EXCEPT ![n] = {}] /\ want' = [want EXCEPT ![n] = None]
  /\ ForgetPass(n)
  /\ answered' = answered \cup batch[n]
  /\ batch' = [batch EXCEPT ![n] = {}]
  /\ pc' = [pc EXCEPT ![n] = "idle"]
  /\ UNCHANGED <<quotaVars, queued, result, mutex, controller, history, faults>>

-----------------------------------------------------------------------------
(* The accessor                                                            *)

\* checkCache: the informer's copy v, or the accessor's own write if newer.
Newest(v, q) == IF lru[q] = None \/ v.rv >= lru[q].rv THEN v ELSE lru[q]
\* checkCache drops a write that the informer has caught up with.
LruAfter(v, q) == IF lru[q] = None \/ v.rv >= lru[q].rv THEN None ELSE lru[q]

\* A pass against the quotas in qs begins with copies of them.
StartPass(n, qs) ==
  /\ copy' = [copy EXCEPT ![n] = [q \in Quotas |-> Newest(seen[q], q)]]
  /\ lru' = [q \in Quotas |-> LruAfter(seen[q], q)]
  /\ running' = [running EXCEPT ![n] = [q \in Quotas |-> Newest(seen[q], q).total]]
  /\ todo' = [todo EXCEPT ![n] = qs]
  /\ left' = [left EXCEPT ![n] = batch[n]]
  /\ billed' = [billed EXCEPT ![n] = {}]
  /\ failed' = [failed EXCEPT ![n] = {}]
  /\ UNCHANGED <<stored, seen, cur, base>>

\* checkAttributes: GetQuotas, before any lock is taken.  The quotas are read
\* and compared with the look-aside cache in one step.
GetQuotas(n) ==
  /\ pc[n] = "get"
  /\ StartPass(n, Quotas)
  /\ retries' = [retries EXCEPT ![n] = Retries]
  /\ pc' = [pc EXCEPT ![n] = "lock"]
  /\ UNCHANGED <<requests, locks, controller, history, faults>>

\* UpdateQuotaStatus reads the quota again; checkCache follows in PutStatus.
ReadBase(n) ==
  /\ pc[n] = "update"
  /\ \E q \in todo[n] :
       /\ cur' = [cur EXCEPT ![n] = q]
       /\ base' = [base EXCEPT ![n] = seen[q]]
  /\ pc' = [pc EXCEPT ![n] = "put"]
  /\ UNCHANGED <<quotaVars, requests, copy, todo, running, left, billed, failed, retries,
                 locks, controller, history, faults>>

\* Mutant: the object is written with the resourceVersion of the copy just read.
WrittenUnchecked(n, q) == TRUE

\* The API server accepts a write made from the stored version only.
Written(n, q) == copy[n][q].rv = stored[q].rv

\* Mutant: the namespace gets the new total of the workspace.
NewVersionTotal(n, q, b) ==
  [rv |-> stored[q].rv + 1, total |-> running[n][q],
   used |-> [b.used EXCEPT ![n] = running[n][q]]]

\* What UpdateQuotaStatus writes: the usage checked, and the difference to the
\* usage in the copy it has just read is booked on the namespace.
NewVersion(n, q, b) ==
  [rv |-> stored[q].rv + 1, total |-> running[n][q],
   used |-> [b.used EXCEPT ![n] = @ + (running[n][q] - b.total)]]

Charge(n, q) ==
  charged' = [charged EXCEPT ![q] =
    [w \in Waiters |-> IF w \in billed[n] /\ Delta[w][q] > 0 THEN @[w] + 1 ELSE @[w]]]

\* Mutant: an update is tried again although it succeeded.
PutStatusAgain(n) ==
  LET q == cur[n]
      b == Newest(base[n], q) IN
  /\ pc[n] = "put"
  /\ \/ /\ Written(n, q)
        /\ stored' = [stored EXCEPT ![q] = NewVersion(n, q, b)]
        /\ lru' = [lru EXCEPT ![q] = NewVersion(n, q, b)]
        /\ Charge(n, q)
     \/ /\ ~Written(n, q)
        /\ lru' = [lru EXCEPT ![q] = LruAfter(base[n], q)]
        /\ UNCHANGED <<stored, charged>>
  /\ failed' = [failed EXCEPT ![n] = @ \cup {q}]
  /\ todo' = [todo EXCEPT ![n] = @ \ {q}]
  /\ pc' = [pc EXCEPT ![n] = "update"]
  /\ UNCHANGED <<seen, requests, copy, running, left, billed, retries, cur, base, locks,
                 controller, refused, faults>>

\* UpdateQuotaStatus succeeds and remembers what it wrote, in the same step, or
\* meets a Conflict.
PutStatus(n) ==
  LET q == cur[n]
      b == Newest(base[n], q) IN
  /\ pc[n] = "put"
  /\ \/ /\ Written(n, q)
        /\ stored' = [stored EXCEPT ![q] = NewVersion(n, q, b)]
        /\ lru' = [lru EXCEPT ![q] = NewVersion(n, q, b)]
        /\ Charge(n, q)
        /\ UNCHANGED failed
     \/ /\ ~Written(n, q)
        /\ lru' = [lru EXCEPT ![q] = LruAfter(base[n], q)]
        /\ failed' = [failed EXCEPT ![n] = @ \cup {q}]
        /\ UNCHANGED <<stored, charged>>
  /\ todo' = [todo EXCEPT ![n] = @ \ {q}]
  /\ pc' = [pc EXCEPT ![n] = "update"]
  /\ UNCHANGED <<seen, requests, copy, running, left, billed, retries, cur, base, locks,
                 controller, refused, faults>>

-----------------------------------------------------------------------------
(* The locks                                                               *)

\* Mutant: every namespace has an order of its own.
NextToLockUnsorted(n) ==
  LET rest == Quotas \ {l[1] : l \in held[n]} IN
  IF \E w \in batch[n] : \A q \in Quotas : Delta[w][q] > 0
    THEN Min(rest) ELSE Max(rest)

\* lockAquisition sorts the quotas by their names.
NextToLock(n) == Min(Quotas \ {l[1] : l \in held[n]})

\* GetLock looks for the lock of the next quota and finds one or none.
GetLock(n) ==
  LET q == NextToLock(n) IN
  /\ pc[n] = "lock"
  /\ \/ mutex[q] = None /\ pc' = [pc EXCEPT ![n] = "newLock"] /\ UNCHANGED want
     \/ /\ mutex[q] # None
        /\ want' = [want EXCEPT ![n] = <<q, mutex[q]>>]
        /\ pc' = [pc EXCEPT ![n] = "acquire"]
  /\ UNCHANGED <<quotaVars, requests, pass, mutex, held, controller, history, faults>>

\* GetLock makes a lock, in the place of one made by somebody else meanwhile.
NewLock(n) ==
  LET q == NextToLock(n) IN
  /\ pc[n] = "newLock"
  /\ mutex' = [mutex EXCEPT ![q] = n]
  /\ want' = [want EXCEPT ![n] = <<q, n>>]
  /\ pc' = [pc EXCEPT ![n] = "acquire"]
  /\ UNCHANGED <<quotaVars, requests, pass, held, controller, history, faults>>

\* lockAquisition: the check begins when every quota is locked.
Acquire(n) ==
  /\ pc[n] = "acquire"
  /\ \A m \in Namespaces : want[n] \notin held[m]
  /\ held' = [held EXCEPT ![n] = @ \cup {want[n]}]
  /\ pc' = [pc EXCEPT ![n] = IF {l[1] : l \in held'[n]} = Quotas THEN "check" ELSE "lock"]
  /\ UNCHANGED <<quotaVars, requests, pass, mutex, want, controller, history, faults>>

-----------------------------------------------------------------------------
(* checkQuotas                                                             *)

Matching(n, w) == {q \in todo[n] : Delta[w][q] > 0}

\* Mutant: the limit may be exceeded by one.
FitsLoosely(n, w) ==
  \A q \in Matching(n, w) : running[n][q] + Delta[w][q] <= Hard[q] + 1

\* CheckRequest: every quota that matches has room for the request.
Fits(n, w) == \A q \in Matching(n, w) : running[n][q] + Delta[w][q] <= Hard[q]

\* A request of the batch is checked: it is refused, passes because no quota
\* changes or because it is a dry run, or is counted and waits for the updates.
CheckRequest(n, w) ==
  /\ pc[n] = "check" /\ w \in left[n]
  /\ left' = [left EXCEPT ![n] = @ \ {w}]
  /\ \/ /\ ~Fits(n, w)
        /\ result' = [result EXCEPT ![w] = "denied"]
        /\ refused' = refused \cup {w}
        /\ UNCHANGED <<running, billed>>
     \/ /\ Fits(n, w) /\ (w \in DryRun \/ Matching(n, w) = {})
        /\ result' = [result EXCEPT ![w] = "nil"]
        /\ UNCHANGED <<running, billed, refused>>
     \/ /\ Fits(n, w) /\ w \notin DryRun /\ Matching(n, w) # {}
        /\ running' = [running EXCEPT ![n] =
             [q \in Quotas |-> IF q \in Matching(n, w) THEN @[q] + Delta[w][q] ELSE @[q]]]
        /\ billed' = [billed EXCEPT ![n] = @ \cup {w}]
        /\ UNCHANGED <<result, refused>>
  /\ UNCHANGED <<quotaVars, queued, batch, answered, pc, copy, todo, failed, retries,
                 cur, base, locks, controller, charged, faults>>

\* All are checked: the quotas that changed are to be updated.  If none did,
\* the results stand as they are.
EndCheck(n) ==
  LET changed == {q \in todo[n] : running[n][q] # copy[n][q].total} IN
  /\ pc[n] = "check" /\ left[n] = {}
  /\ todo' = [todo EXCEPT ![n] = changed]
  /\ pc' = [pc EXCEPT ![n] = IF changed = {} THEN "finish" ELSE "update"]
  /\ UNCHANGED <<quotaVars, requests, copy, running, left, billed, failed, retries, cur,
                 base, locks, controller, history, faults>>

\* Mutant: the requests pass when there is no retry left.
EndUpdateAnyway(n) ==
  /\ pc[n] = "update" /\ todo[n] = {} /\ (failed[n] = {} \/ retries[n] = 0)
  /\ result' = Settled(n, "nil")
  /\ pc' = [pc EXCEPT ![n] = "finish"]
  /\ UNCHANGED <<quotaVars, queued, batch, answered, pass, locks, controller, history, faults>>

\* All updates succeeded, or there is no retry left.
EndUpdate(n) ==
  /\ pc[n] = "update" /\ todo[n] = {}
  /\ \/ failed[n] = {} /\ result' = Settled(n, "nil")
     \/ failed[n] # {} /\ retries[n] = 0 /\ result' = Settled(n, "error")
  /\ pc' = [pc EXCEPT ![n] = "finish"]
  /\ UNCHANGED <<quotaVars, queued, batch, answered, pass, locks, controller, history, faults>>

\* The quotas whose update failed are read again, and every request of the
\* batch is checked against those.
Retry(n) ==
  /\ pc[n] = "update" /\ todo[n] = {} /\ failed[n] # {} /\ retries[n] > 0
  /\ StartPass(n, failed[n])
  /\ retries' = [retries EXCEPT ![n] = @ - 1]
  /\ pc' = [pc EXCEPT ![n] = "check"]
  /\ UNCHANGED <<requests, locks, controller, history, faults>>

-----------------------------------------------------------------------------
(* Failures                                                                *)

Fault == faults < MaxFaults /\ faults' = faults + 1

\* GetQuotas fails: every request gets the error, or on a retry those that
\* have no result yet.
GetQuotasFails(n) ==
  /\ Fault
  /\ \/ /\ pc[n] = "get"
        /\ result' = [w \in Waiters |-> IF w \in batch[n] THEN "error" ELSE result[w]]
     \/ /\ pc[n] = "update" /\ todo[n] = {} /\ failed[n] # {} /\ retries[n] > 0
        /\ result' = Settled(n, "error")
  /\ pc' = [pc EXCEPT ![n] = "finish"]
  /\ UNCHANGED <<quotaVars, queued, batch, answered, pass, locks, controller, history>>

\* An update fails for another reason than Conflict, and nothing was written.
PutFails(n) ==
  /\ Fault
  /\ pc[n] = "put"
  /\ lru' = [lru EXCEPT ![cur[n]] = LruAfter(base[n], cur[n])]
  /\ failed' = [failed EXCEPT ![n] = @ \cup {cur[n]}]
  /\ todo' = [todo EXCEPT ![n] = @ \ {cur[n]}]
  /\ pc' = [pc EXCEPT ![n] = "update"]
  /\ UNCHANGED <<stored, seen, requests, copy, running, left, billed, retries, cur, base,
                 locks, controller, history>>

-----------------------------------------------------------------------------
(* Informers, objects and the ResourceQuota controller                     *)

\* The informer of the quotas catches up.
SeeQuota(q) ==
  /\ seen[q] # stored[q]
  /\ seen' = [seen EXCEPT ![q] = stored[q]]
  /\ UNCHANGED <<stored, lru, requests, pc, pass, locks, controller, history, faults>>

\* An admitted object is created, unless something else was against it or the
\* webhook had given up on the answer; later it is deleted.
Create(w) ==
  /\ Recount
  /\ w \in answered \ DryRun /\ result[w] = "nil" /\ w \notin live
  /\ live' = live \cup {w}
  /\ result' = [result EXCEPT ![w] = "created"]
  /\ UNCHANGED <<quotaVars, queued, batch, answered, pc, pass, locks, seenLive, recount,
                 history, faults>>
Delete(w) ==
  /\ w \in live
  /\ live' = live \ {w}
  /\ UNCHANGED <<quotaVars, requests, pc, pass, locks, seenLive, recount, history, faults>>
SeeObjects ==
  /\ seenLive # live
  /\ seenLive' = live
  /\ UNCHANGED <<quotaVars, requests, pc, pass, locks, live, recount, history, faults>>

Usage(s, q) == SumFunctionOnSet([w \in Waiters |-> Delta[w][q]], s)
InNamespace(s, n) == {w \in s : NsOf[w] = n}

\* Mutant: the old share of a namespace is not subtracted.
RecountedAdds(v, q) ==
  LET used == [n \in Namespaces |-> Usage(InNamespace(seenLive, n), q)] IN
  [v EXCEPT !.total = @ + SumFunction(used), !.used = used]

\* syncQuotaForNamespaces: the share of each namespace is replaced in the
\* total and in the list.
Recounted(v, q) ==
  LET used == [n \in Namespaces |-> Usage(InNamespace(seenLive, n), q)] IN
  [v EXCEPT !.total = (@ - SumFunction(v.used)) + SumFunction(used), !.used = used]

\* Reconcile reads the quota and counts the objects, both from informers.
ReconcileRead(q) ==
  /\ Recount /\ recount[q] = None
  /\ Recounted(seen[q], q) # seen[q]
  /\ recount' = [recount EXCEPT ![q] = Recounted(seen[q], q)]
  /\ UNCHANGED <<quotaVars, requests, pc, pass, locks, live, seenLive, history, faults>>

\* Reconcile writes what it counted, or meets a Conflict and is called again.
ReconcilePut(q) ==
  /\ recount[q] # None
  /\ \/ /\ recount[q].rv = stored[q].rv
        /\ stored' = [stored EXCEPT ![q] = [recount[q] EXCEPT !.rv = @ + 1]]
     \/ recount[q].rv # stored[q].rv /\ UNCHANGED stored
  /\ recount' = [recount EXCEPT ![q] = None]
  /\ UNCHANGED <<seen, lru, requests, pc, pass, locks, live, seenLive, history, faults>>

-----------------------------------------------------------------------------

WorkerStep(n) ==
  \/ Take(n) \/ GetQuotas(n) \/ GetLock(n) \/ NewLock(n) \/ Acquire(n)
  \/ (\E w \in Waiters : CheckRequest(n, w)) \/ EndCheck(n)
  \/ ReadBase(n) \/ PutStatus(n) \/ EndUpdate(n) \/ Retry(n) \/ Finish(n)

Next ==
  \/ \E w \in Waiters : Submit(w) \/ Create(w) \/ Delete(w)
  \/ \E n \in Namespaces : WorkerStep(n) \/ GetQuotasFails(n) \/ PutFails(n)
  \/ \E q \in Quotas : SeeQuota(q) \/ ReconcileRead(q) \/ ReconcilePut(q)
  \/ SeeObjects

Spec == Init /\ [][Next]_vars

\* Workers go on, the informers catch up, and the controller, which asks to be
\* called again after every pass, keeps counting.
FairSpec ==
  /\ Spec
  /\ \A n \in Namespaces : WF_vars(WorkerStep(n))
  /\ \A q \in Quotas :
       WF_vars(SeeQuota(q)) /\ WF_vars(ReconcileRead(q)) /\ WF_vars(ReconcilePut(q))
  /\ WF_vars(SeeObjects)

-----------------------------------------------------------------------------
(* Properties                                                              *)

Results == {"defaultDeny", "denied", "error", "nil", "created"}
Labels == {"idle", "get", "lock", "newLock", "acquire", "check", "update", "put", "finish"}

QuotaTypeOK ==
  /\ stored \in [Quotas -> Version] /\ seen \in [Quotas -> Version]
  /\ lru \in [Quotas -> Version \cup {None}]
  /\ queued \subseteq Waiters /\ batch \in [Namespaces -> SUBSET Waiters]
  /\ result \in [Waiters -> Results] /\ answered \subseteq Waiters
  /\ pc \in [Namespaces -> Labels]
  /\ copy \in [Namespaces -> [Quotas -> Version]]
  /\ todo \in [Namespaces -> SUBSET Quotas] /\ failed \in [Namespaces -> SUBSET Quotas]
  /\ running \in [Namespaces -> [Quotas -> Int]]
  /\ left \in [Namespaces -> SUBSET Waiters] /\ billed \in [Namespaces -> SUBSET Waiters]
  /\ retries \in [Namespaces -> 0 .. Retries]
  /\ cur \in [Namespaces -> Quotas \cup {0}] /\ base \in [Namespaces -> Version]
  /\ live \subseteq Waiters /\ seenLive \subseteq Waiters
  /\ recount \in [Quotas -> Version \cup {None}]
  /\ charged \in [Quotas -> [Waiters -> Nat]] /\ refused \subseteq Waiters
  /\ faults \in 0 .. MaxFaults

Admitted == {w \in answered \ DryRun : result[w] \in {"nil", "created"}}

\* A request that is admitted, and that no pass refused, was added to every
\* quota that matches it, once, however many passes failed, were retried with
\* some of the quotas and read quotas that others were writing.
AdmittedPaid ==
  \A w \in Admitted \ refused, q \in Quotas :
    Delta[w][q] > 0 => charged[q][w] = 1

\* No retry adds a request to a quota again.
ChargedOnce == \A q \in Quotas, w \in Waiters : charged[q][w] <= 1

\* The usage in a quota is what the requests added to it have asked for: no
\* write is lost, although the copy it was computed from was read without a
\* lock, from one of two caches.
LedgerExact ==
  \A q \in Quotas :
    stored[q].total = SumFunction([w \in Waiters |-> charged[q][w] * Delta[w][q]])

\* A pass that writes a quota adds to the stored usage what it has counted.
NoLostUpdate ==
  [][\A n \in Namespaces : pc[n] = "put" /\ pc'[n] # "put" /\ stored' # stored =>
       stored'[cur[n]].total - stored[cur[n]].total
         = running[n][cur[n]] - copy[n][cur[n]].total]_vars

\* The requests admitted together fit in every quota: CheckRequest compares with
\* copies that may be old, and the workers of several namespaces check at the
\* same time.  Requests that some pass refused are left out (a retry may admit
\* them, see RefusedNotAdmitted), and it holds only without the controller
\* (~Recount), whose count lacks what is admitted and not yet created.
NoOvercommit == \A q \in Quotas : Usage(Admitted \ refused, q) <= Hard[q]

\* The total of a quota is the sum of the shares of its namespaces, although
\* a share is computed from another copy than the total.
TotalIsSum == \A q \in Quotas : stored[q].total = SumFunction(stored[q].used)

\* There are no workers that all wait for locks which they hold among them.
NoCircularWait ==
  \A ns \in (SUBSET Namespaces) \ {{}} :
    \E n \in ns : ~(pc[n] = "acquire" /\ \E m \in ns : want[n] \in held[m])

\* Every request is answered.
EveryoneAnswered == \A w \in Waiters : w \in queued ~> w \in answered

\* Once objects are neither created nor deleted any more, the usage in each
\* quota is theirs: what was charged for requests that failed is given back.
UsageConverges ==
  <>[](\A q \in Quotas : stored[q].total = Usage(live, q))

-----------------------------------------------------------------------------
(* The inductive invariant behind AdmittedPaid, ChargedOnce and            *)
(* NoLostUpdate, with and without the controller                           *)

Checking == {"lock", "newLock", "acquire", "check"}
Updating == {"update", "put"}

\* A request is in one place, and nothing is charged before its batch is taken.
RequestsOK ==
  /\ \A n \in Namespaces : \A w \in batch[n] : NsOf[w] = n /\ w \notin queued \cup answered
  /\ queued \cap answered = {}
  /\ \A n \in Namespaces : pc[n] = "idle" => batch[n] = {}
  /\ \A w \in Waiters :
       w \notin answered /\ (w \in batch[NsOf[w]] => pc[NsOf[w]] = "get") =>
         result[w] = "defaultDeny" /\ \A q \in Quotas : charged[q][w] = 0

\* A copy with the resourceVersion of the stored quota is the stored quota.
True(v, q) == v.rv <= stored[q].rv /\ (v.rv = stored[q].rv => v = stored[q])
CopiesTrue ==
  /\ \A q \in Quotas : True(seen[q], q) /\ (lru[q] # None => True(lru[q], q))
  /\ \A n \in Namespaces, q \in Quotas : pc[n] \in Checking \cup Updating => True(copy[n][q], q)

\* Requests that count: the others may have been charged or not.
Counting(n) == batch[n] \ (refused \cup DryRun)
Owes(w, q) == Delta[w][q] > 0

\* A quota still to be dealt with in this pass or the next has not been charged
\* for the batch, every other one has.
PassAt(n) ==
  LET open == todo[n] \cup failed[n] IN
  /\ \A w \in batch[n], q \in open : charged[q][w] = 0
  /\ \A w \in Counting(n), q \in Quotas \ open : Owes(w, q) => charged[q][w] = 1
  /\ \A w \in Counting(n) \ (left[n] \cup billed[n]), q \in open : ~Owes(w, q)
  /\ \A w \in Counting(n), q \in open : result[w] \in {"nil", "created"} => ~Owes(w, q)
  /\ left[n] \subseteq batch[n] /\ billed[n] \subseteq batch[n]
  /\ todo[n] \cap failed[n] = {}
  /\ pc[n] \in Checking => failed[n] = {}
  /\ pc[n] \in Updating => left[n] = {}
  /\ pc[n] = "put" => cur[n] \in todo[n]
PassOK == \A n \in Namespaces : pc[n] \in Checking \cup Updating => PassAt(n)

\* The running usage grows with every request counted.
RunningAt(n, q) ==
  /\ running[n][q] >= copy[n][q].total
  /\ \A w \in billed[n] : q \in todo[n] /\ Owes(w, q) => running[n][q] > copy[n][q].total
RunningOK ==
  \A n \in Namespaces, q \in Quotas : pc[n] \in Checking => RunningAt(n, q)

FinishOK ==
  \A n \in Namespaces : pc[n] = "finish" =>
    \A w \in Counting(n), q \in Quotas :
      result[w] \in {"nil", "created"} /\ Owes(w, q) => charged[q][w] = 1

QuotaInv ==
  /\ QuotaTypeOK
  /\ RequestsOK /\ CopiesTrue /\ PassOK /\ RunningOK /\ FinishOK
  /\ AdmittedPaid /\ ChargedOnce

-----------------------------------------------------------------------------
(* What LedgerExact and NoOvercommit need besides: they hold as long as    *)
(* the controller does not replace what was charged by what it has counted *)

NoRecount == ~Recount /\ \A q \in Quotas : recount[q] = None

\* The running usage is the copy's and that of the requests counted, each of
\* them once.
RunningExact ==
  \A n \in Namespaces :
    /\ left[n] \cap billed[n] = {}
    /\ pc[n] \in Checking \cup Updating =>
         \A q \in todo[n] : running[n][q] = copy[n][q].total + Usage(billed[n], q)

\* Nobody has seen, or is about to write, a usage above the limit.
WithinHard ==
  \A q \in Quotas :
    /\ stored[q].total <= Hard[q] /\ seen[q].total <= Hard[q]
    /\ lru[q] # None => lru[q].total <= Hard[q]
    /\ \A n \in Namespaces : running[n][q] <= Hard[q]

LedgerInv == RunningExact /\ LedgerExact /\ WithinHard

-----------------------------------------------------------------------------
(* The inductive invariant of TotalIsSum, with and without the controller  *)

\* Every copy of a quota balances: the one UpdateQuotaStatus reads again, from
\* whichever cache, and the one the controller has recounted.
Balanced == {v \in Version : v.total = SumFunction(v.used)}
BooksInv ==
  /\ QuotaTypeOK
  /\ \A n \in Namespaces : pc[n] = "put" => cur[n] \in Quotas
  /\ \A q \in Quotas :
       /\ stored[q] \in Balanced /\ seen[q] \in Balanced
       /\ lru[q] \in Balanced \cup {None} /\ recount[q] \in Balanced \cup {None}
  /\ \A n \in Namespaces : base[n] \in Balanced

-----------------------------------------------------------------------------
(* The inductive invariant of NoCircularWait                               *)

Unlocked(n) == Quotas \ {l[1] : l \in held[n]}

\* Whoever holds locks without having them all has those of the first quotas,
\* and waits for the next one.
LocksInv ==
  /\ pc \in [Namespaces -> Labels]
  /\ mutex \in [Quotas -> Namespaces \cup {None}]
  /\ held \in [Namespaces -> SUBSET (Quotas \X Namespaces)]
  /\ want \in [Namespaces -> (Quotas \X Namespaces) \cup {None}]
  /\ \A n \in Namespaces :
       /\ pc[n] \in {"idle", "get"} => held[n] = {}
       /\ pc[n] \in {"lock", "newLock", "acquire"} =>
            /\ Unlocked(n) # {}
            /\ \A l \in held[n], q \in Unlocked(n) : l[1] < q
       /\ pc[n] = "acquire" =>
            /\ want[n] \in Quotas \X Namespaces /\ want[n][1] \in Unlocked(n)
            /\ \A q \in Unlocked(n) : want[n][1] <= q

-----------------------------------------------------------------------------
(* What the code says and does not do                                      *)

\* checkQuotas: "It's safe for us to evaluate ONLY the subset, because the
\* other quota documents for these waiters have already been evaluated."
RefusedNotAdmitted == refused \cap Admitted = {}
=============================================================================
