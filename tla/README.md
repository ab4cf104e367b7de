# KubeSphere: a TLA+ development

This directory holds TLA+ models of three parts of KubeSphere whose correctness
depends on the order in which independent processes take their steps, the TLC
configurations that check them on small instances, and TLAPS proofs of the main
results for every value of the constants:

* the **addresses** that pods and load balancers get from *IPPools*;
* the **quotas** of a workspace, against which every created object is admitted;
* the **releases** of applications that are installed with helm.

Paths below are relative to `src/`.

| Short name | Path |
|---|---|
| `ipam.go`, `provider.go` | `pkg/simple/client/network/ippool/ipam/ipam.go`, `pkg/simple/client/network/ippool/provider.go` |
| `ippool_controller.go` | `pkg/controller/network/ippool/ippool_controller.go` |
| `*_types.go` | `staging/src/kubesphere.io/api/network/v1alpha1/` |
| `controller.go` | `kube/plugin/pkg/admission/resourcequota/controller.go`, the repository's copy of the quota evaluator |
| `accessor.go`, `lockfactory.go`, `resourcequota_*.go` | `pkg/controller/quota/` |
| `helm_release_controller.go` | `pkg/controller/openpitrix/helmrelease/` |
| `helm_wrapper.go` | `pkg/simple/client/openpitrix/helmwrapper/` |
| `release.go` | `pkg/models/openpitrix/` |
| `clusterclient.go` | `pkg/utils/clusterclient/` |

## 1. Inventory

KubeSphere is a set of controllers and an API server on top of Kubernetes. Its
components share state only through objects in the Kubernetes API server, which
they read with Get and List or through informers (caches fed by a watch, as old
as the watch is behind) and write with Create, Update (which fails with Conflict
if the object's resourceVersion is not the caller's) and Delete. Nothing spans
two objects atomically, and no lock is held between calls.

| Component | State | Operations | Interacts with | What is hard |
|---|---|---|---|---|
| **IPAM client** (`ipam.go`, `ipamhandle_types.go`) | none of its own; IPAMBlock and IPAMHandle objects | AutoAssign, ReleaseByHandle, GetUtilization, ListBlocks, DeleteBlock | AutoAssign and ReleaseByHandle are for callers outside the repository, such as a network plugin; the provider calls the rest; reads IPPool | any number of concurrent callers; two objects per address kept in step by order of writes; nested retries; mark-then-delete; crashes between calls |
| **IPAMBlock object** (`ipamblock_types.go`) | `Allocations`, `Unallocated`, `Attributes`, `Deleted` | AutoAssign, ReleaseByHandle, MarkDeleted, Empty, NumFree-/NumReservedAddresses | the IPAM client reads a block, changes its copy and writes it back | indexes renumbered by every release; lists that must stay complements; JSON turning an empty map into nil |
| **Provider** (`provider.go`) | none | DeleteIPPool, GetIPPoolStats (the other methods are empty) | called by the controller, calls the IPAM client | decides on a list that is old when acted on |
| **IPPool controller** (`ippool_controller.go`) | workqueue, informer caches; IPPool spec, finalizer, labels, status | processIPPool, event handlers, admission (ValidateCreate, -Update, -Delete), processNS | informers of IPPools, blocks, workspaces, namespaces; provider | old copies, conflicts, requeueing, restarts, a user and callers who go on meanwhile |
| **Quota evaluator queue** (`controller.go`) | lists of waiting requests by namespace, a workqueue, one mutex | Evaluate, addWork, getWork, completeWork | the webhook calls it, its workers run the quota admission | lists and workqueue are changed under different locks; a request may be woken for before it is in a list |
| **Quota admission** (`controller.go`, `accessor.go`, `lockfactory.go`, `resourcequota_webhook.go`) | ResourceQuota status; a look-aside cache of own writes; a map of mutexes | checkAttributes, checkQuotas, GetQuotas, UpdateQuotaStatus, GetLock | informers and API server; the controller recounts | two caches that may both be old, updates that fail for some of the quotas, retries, locks that are made twice |
| **ResourceQuota controller** (`resourcequota_controller.go`) | ResourceQuota status | Reconcile, syncQuotaForNamespaces | informers of quotas and objects | writes a usage without what is admitted and not yet created |
| **Application API of releases** (`release.go`) | HelmRelease spec | Create-, Upgrade-, Modify-, DeleteApplication | lister; the controller | decides on an old copy and patches without a resourceVersion |
| **Helm release controller** (`helm_release_controller.go`, `helm_wrapper.go`) | HelmRelease status and finalizer; helm's own store | Reconcile, Install, Upgrade, Uninstall, the readiness check | cache, API server, helm, the member cluster | helm calls of minutes on an old copy; restarts between helm and the status; the cluster removed; a lister of clusters that nobody waits for |
| IPPool admission (ValidateCreate, validateDefaultIPPool) | labels of all pools | check of overlaps and of the last default pool | depends on labels the controller sets later | two requests checked at the same time |
| Calico provider (`.../ippool/calico/provider.go`) | Calico IPPools, block affinities | Create-, Update-, DeleteIPPool, SyncStatus, Default | Calico's API | two stores mirrored without a transaction |
| LDAP connection pool (`pkg/simple/client/ldap/channel.go`) | buffered channel, mutex | Get, put, Close | | Get racing Close: factory and channel are nilled |
| Audit backend (`pkg/apiserver/auditing/backend.go`) | event channel, sender slots | getEvents, sendEvents | | two timeouts racing a late sender; slots taken and returned by different goroutines |
| User and login record controllers, tokens, in-memory cache | User status, LoginRecords, cached tokens | Reconcile, syncUserStatus, Issue/Verify/Revoke | | time windows over several controllers; check-then-delete on expiry |
| Cluster controller, network policies, API server, models, kapis | | | remote clusters, REST clients | mostly conversion and calls to other systems |

The rows in bold are what this project models. `PROJECT.json` lists every component with its status.

What makes the core correct:

* an address is handed to one caller at a time, and stays recorded as his;
* whatever is recorded for a handle can be found again through the handle, so a
  release is complete even after crashes and failed calls;
* every call ends, however busy the other callers are;
* a block is deleted, and a pool is removed, only when nobody loses an address
  by it;
* the controller never rests on unfinished work: deletions complete and the
  status ends up right;
* every request that waits for a quota is answered, one batch of a namespace at
  a time;
* a request is admitted only when it has been added, once, to every quota that
  matches it, and what is admitted together fits; what was added for a request
  that failed is given back;
* the status of a release tells what is deployed; a release that is gone has left
  nothing behind; deletion completes.

`PROJECT.json` lists the hazards, each at its line, with the properties aimed at
it. The four kinds that matter most here: a copy that is old when it is used; two
writes that belong together with something in between; mark-then-delete-by-name;
wake-ups that have to come from somewhere.

## 2. Modules

```
BlockOps ──< BlockSpec  <··implements·· IPAMBlock ──< MCIPAMBlock
   │                                        └───────< IPAMBlockProofs
   └────< IPAM  ··implements··> AddressPool
            └──< IPAMInv ──< MCIPAM
                    └──< IPAMProofs ──< IPAMSafety
IPPoolController ──< MCIPPool
        └────────< IPPoolProofs
QuotaQueue ──< MCQuotaQueue          QuotaQueue ··implements··> Batches
     └──────< QuotaQueueProofs
QuotaAdmission ──< MCQuotaAdmission
     └──────────< QuotaProofs      FiniteSums ──< QuotaProofs, IPAMBlockProofs
HelmRelease ──< MCHelmRelease
     └───────< HelmReleaseProofs
```
(`──<` reads "is extended by".)

| Module | Models | Notes |
|---|---|---|
| `BlockOps` | what the methods of IPAMBlock do, on an abstract block: who owns each ordinal, and the Deleted mark | operators only |
| `BlockSpec` | the life of such a block | abstract specification for `IPAMBlock` |
| `IPAMBlock` | the lists a stored block really keeps | one action per method |
| `AddressPool` | what the IPAM client promises its callers | abstract specification for `IPAM` |
| `IPAM` | AutoAssign, ReleaseByHandle, DeleteIPPool, by several clients | one action per API call |
| `IPAMInv` | the inductive invariant of `IPAM` | checked by TLC, proved in `IPAMSafety` |
| `IPPoolController` | the life of one pool, the controller, its informers and queue | one action per API call, event or user request |
| `Batches` | what the evaluator's lists promise to waiting requests | abstract specification for `QuotaQueue` |
| `QuotaQueue` | the evaluator's lists and the workqueue under them | one action per critical section, of either lock |
| `QuotaAdmission` | the check of a batch, the accessor, the locks, the controller | one action per API call, lock or request checked |
| `HelmRelease` | one release: application API, controller, helm, its cluster | one action per API call or call of helm |
| `MC...` | finite instances | constants and symmetry sets only |
| `...Proofs`, `IPAMSafety` | proofs | |
| `FiniteSums` | lemmas on sums over finite sets, and on induction | used by the proofs only |

### IPAM

`blocks` and `handles` are the objects in the API server; `pc[c]` names the API
call client `c` makes next, and the other client-local variables are the locals
of the Go functions: the handle and the block at hand (`hid`, `blk`), the
counters of the three retry loops (`outer` in AutoAssign, `mid` in autoAssign and
releaseByHandle, `inner` in increment- and decrementHandle), the blocks a release
still has to visit (`rem`), the list DeleteIPPool works off (`list`).

An action is one API call and the local code up to the next call, so other
clients interleave exactly where they can in the program. Which call follows is
decided by what the call returns: Conflict, NotFound, AlreadyExists and success
each take the branch the code takes. The program's copies of objects are not
stored: Update succeeds only if the copy is the stored object, so `bfresh` and
`hfresh` just say whose copies still are; a copy that is out of date can only fail.
For DeleteIPPool, which acts on what a listed block looked like, `list` keeps
that impression.

`queryBlock` and `queryHandle` delete an object they find marked deleted
(`...Delete` actions) and report NotFound. `Reserved` is not empty for a VLAN pool
with a range. `Faults` selects failing calls, crashes (the client's locals are
lost, the store is not), and changes of the pool. The panic in findOrClaimBlock is
a label (`"panic"`) from which the process restarts.

`SharedHandles` says whether two calls may work on one handle at a time. The
repository holds no caller of AutoAssign and ReleaseByHandle but its tests (a
network plugin is one), and neither its code nor its docs say how handles are
chosen; one handle per workload, used by one call at a time, is the intended use and
nothing enforces it. The stronger properties need
`~SharedHandles`; with shared handles TLC checks, and TLAPS proves, type
correctness, and TLC checks termination.

History variables: `grants` (addresses returned to a caller and not given back),
`marked` (blocks that were ever marked deleted), `released` (handles released with
success and not used since).

### IPAMBlock

The three lists as stored, with the detail `BlockOps` leaves out: the free list is
used at both ends, attributes are shared when handle and map are equal, and a
release drops attributes from the middle of the list and renumbers all
allocations. Writing a block turns an empty string map into nil (`omitempty`),
which is why such an attribute is never found again; `AttributesInUse` shows that
the duplicates still go away with their addresses. The refinement
`ImplementsBlockSpec` maps each ordinal to the handle of its attribute: it is what
entitles `IPAM` to work with `BlockOps`.

### IPPoolController

`obj` and `block` are the stored pool and its block; `events` and `cache` are the
pool's informer (writes not yet delivered, and the copy the lister returns);
`waiting` holds what will bring the worker back: the key in the workqueue, the key
waiting out a delay or back-off, an undelivered event of the block. `pc` is the
API call the worker makes next, `work` its copy of the pool, `current` which of its
copies are the stored objects. The worker's writes go through exactly if the copy
is current: in particular disableIPPool and addFinalizer make the copy old with
which the same pass then goes on, as in the code.

The IPAM calls are those of `IPAM`, each reduced to the call at which it takes
effect: a pass of AutoAssign is `ReadPool` (the pool is found enabled), then
`Assign` or `AssignFails`. A release may delete the block, or die after marking
it. An object whose last finalizer goes vanishes, and the garbage collector
deletes the blocks it owned at any later time. `late` is a history variable: the
addresses recorded while the pool was disabled or gone.

The model has one block and one address per caller: what the controller tells
apart is whether the pool is in use, and by how many. It has one pool, since the
queue never gives one key to two workers; the existence of other pools shows only
in `GetPools`, where it decides between an error and the panic, and is left open.

### QuotaQueue

A request is appended to `work` or `dirtyWork` of its namespace under `workLock`;
the workqueue (`queue`, `dirty`, `processing`, from client-go, vendored) has a lock
of its own. `addWork` and `completeWork` hold `workLock` around a call of the
workqueue, `getWork` calls it before taking `workLock`. So each of the three is two
actions, and other processes come in between as in the program; in particular a
second worker can hold a namespace while the first is still in `completeWork`.
`call` is where a request is in `Evaluate`: the ten-second timeout may strike at any
time, and leaves the request in its list. The lists are sets: the order in a batch
decides who gets the last of a quota, not who gets an answer. `Batches` says what
the rest of the evaluator relies on: a batch is all that waits in a namespace, a
namespace has one batch at a time, every request is answered once.

### QuotaAdmission

By `Batches`, the worker of a batch can be named by its namespace. `stored` is the
API server, `seen` the informer's cache, `lru` the accessor's
`updatedResourceQuotas`; `Newest` and `LruAfter` are `checkCache`. A pass of
`checkQuotas` reads all quotas (`GetQuotas`), locks them in the order of their
names (`GetLock`, `NewLock`, `Acquire`), checks the requests one by one against
`running`, then updates the quotas that changed: `ReadBase` reads the quota again,
`PutStatus` computes and writes. What failed is read and checked again (`Retry`),
without taking the locks again, which are held until `Finish`. As in the code,
the total comes from the copy of the check and the share of the namespace from
the copy of the update; the resourceVersion written is that of the check's copy.

`GetLock` looks a mutex up and `NewLock` makes one in a second step, in the place of
whatever is there by then: two workers may hold two mutexes of one quota. The
locks are therefore no protection, and the properties rest on the resourceVersion.

Two pairs of steps are one in the model: the write of a quota and the note of it in
`updatedResourceQuotas` (`accessor.go:106`, `:112`), so that two notes never come in the
wrong order; and the read of all quotas with their comparison with that cache
(`accessor.go:144-149`). Either would only yield more old copies. The
properties rest on the resourceVersion of the copy that is written, and the proofs ask of a copy
only that it was once stored.

What `CheckRequest` computes from scopes, resources and limits is the constant
`Delta`. `Recount` adds the objects themselves and the controller. History
variables: `charged` (how often a request was added to a quota), `refused`.

### HelmRelease

`rls` is the object; `seen` is the controller's cache, `listed` what the application
API reads of the object in its own (version and state), `copy` the instance a `Reconcile` works on, `outcome` the state it
is about to write. `helm` is the release in helm's storage with the resourceVersion
of the object it was made from (a history component) and whether its status is
"deployed". `UpgradeApplication` computes the next version from `listed` and patches
`rls` whatever its resourceVersion is; the controller's writes go through only if
its copy is current. Between `Install` or `Upgrade` and `UpdateStatus` anything may
happen: an upgrade, a deletion, a restart. Deletion is three steps,
`StartUninstall`, `Uninstall` and `RemoveFinalizer`, each of which may fail.

The member cluster is `cluster`, and `known` is what the controller's lister of Clusters has
of it. `clusterclient.go:150` reads this lister wherever the controller asks for a cluster
(`AddFinalizer`, `CheckRelease`, `Install`, `Upgrade`, `NoChart`, `Uninstall`). Its informer is
started without waiting for the first list (`cmd/controller-manager/app/server.go:233`, then
`mgr.Start`), so `known` is `"gone"` at first and after each `Restart`, and follows `cluster`
in `ListCluster`, at any later time and without queueing a release. A cluster the
lister does not have skips the uninstall, and so does one it has as being deleted. `skipped` is a history variable:
the last uninstall was skipped for the first reason while the cluster was there. A cluster that
is gone but still in the lister may or may not answer.

For the HelmReleases the controller does wait (controller-runtime), and `Restart` takes
what it then has for the stored object. That is an assumption on the API server: the
first list of an informer may be answered from a watch cache that is behind, in which case a
controller could see an older object than the one before it saw, and `NeverOlder` and
`VersionDeployed` would not follow.

The state `"new"` stands for the empty string of
a new object. Delays and back-off are left out: a request to be looked at later is
queued at once. The one place where this could go on for ever (a status that is
only touched, or fails again) is bounded by `MaxWrites`.

## 3. Runs

`tlc -workers 2 -config <cfg> <module>`; most runs end within two minutes, `helm` and
`ipam_pool` within four.

| Run | Shows | Bounds |
|---|---|---|
| `ipam_race` | `HandleCovers`, `ReleasedClean`, `GrantsRecorded`, `ImplementsAddressPool` | 2 clients, 2 handles, 2 blocks of 1 address, no faults |
| `ipam_pool` | `ReservedKept`, `SafeInv`, `ImplementsAddressPool` | VLAN block of 4 with both ends reserved; pool disabled, DeleteIPPool, crashes, failing calls |
| `ipam_shared` | `TypeOK`, `Termination` | 2 clients on 1 handle |
| `block_lists` | `BlockTypeOK`, `FreeListExact`, `AttributesInUse`, `CountsAgree`, `ImplementsBlockSpec` | 6 ordinals, 2 reserved; 2 handles with 3 attribute maps; requests of up to 3 |
| `ippool` | `ControllerTypeOK`, `NothingForgotten`, `ProtectsUse`, `DeletionCompletes`, `StatusConverges` | 2 callers, 5 edits, 1 failed call or restart |
| `quota_queue` | `QueueInv`, `NoneLost`, `Woken`, `ImplementsBatches` (with its liveness) | 2 workers, 3 requests of one namespace and 1 of another |
| `quota_admit` | `AdmittedPaid`, `ChargedOnce`, `LedgerExact`, `NoOvercommit`, `TotalIsSum`, `NoCircularWait`, `NoLostUpdate` | 4 requests (one a dry run), 2 namespaces, 2 quotas with limits 1 and 2, one of which does not match one request, 1 retry |
| `quota_recount` | `TotalIsSum`, `QuotaInv`, `EveryoneAnswered`, `UsageConverges` | 2 requests of 2 namespaces, 1 quota, controller, objects created and deleted, 1 failed call |
| `helm` | `NothingLeft`, `VersionDeployed`, `NeverOlder`, `HelmInv`, `DeletionCompletes`, `ReleaseSettles` | created and 2 more edits, a deletion, the cluster removed, 1 fault, resourceVersion of repeated writes up to 5 |

Why the bounds are enough for the interesting cases. Two clients suffice for
every race on one object: what a client sees of the others is whether its copy is
still current. Two blocks make a release visit several and an assignment choose;
a block of two addresses makes a conflict possible between holders of one block.
`datastoreRetries` is 2 (10 in the code): one retry, and running out of them, both
happen. `MaxHandleCount` bounds how far a handle whose addresses leaked in crashes can
grow, by not starting another AutoAssign on it. For the controller, create,
read, delete and one more (enable, create again, a second caller) is where
informer, user and callers get into each other's way; `MaxEdits` counts user
requests and AutoAssign calls, while releases and the work of the controller are
not bounded. For the quotas, two namespaces make two workers compete for the same
quotas; with two quotas one update can succeed and another fail, and two locks can be
taken in either order; limits below the number of requests make some of them
refused, by one quota and not by the other. One retry is enough for a quota to be
charged in the first pass and another in the second. For a release, one edit after
creation gives an upgrade, two give an upgrade during an upgrade, and the two
caches may each be behind by all of the writes. That the bounds are not too small to matter is shown by the
mutants: for every property of every run there is a plausible change of the code
under which the run fails.

`CHECK_DEADLOCK FALSE` is set for the IPPool, quota and helm runs: when the edits are
used up and the pool or release is gone, or all requests are answered, everybody
rests. That nobody is stuck before is what their liveness properties and
`NoCircularWait` say. The IPAM runs check for deadlock.

**Fairness.** `IPAM!FairSpec` asks weak fairness of each client's calls: a
goroutine runs on and the API server answers. Nothing forces a client to start a
call. `IPPoolController!FairSpec` asks weak fairness of the two watches, of the
workqueue's timers (AddAfter and AddRateLimited do fire) and of the worker
(`wait.Until` restarts it, the process manager restarts the process). Nothing is
assumed of users, of the callers, of the garbage collector, or of the informers'
ten-minute resync, so that liveness rests on the events alone. In particular,
`DeletionCompletes` holds although the 3-second delay is dropped (below): the
event of the block's last release brings the worker back.

`QuotaQueue!FairSpec` asks weak fairness of the workers, and of a request that holds
`workLock`; nothing of when requests come or give up. `QuotaAdmission!FairSpec` asks
it of the workers, the informers and the controller, which asks to be called again after
every pass; nothing of whether admitted objects are created or deleted. A worker that
waits for a mutex is only as fair as that: Go's mutexes do not starve a waiter, and
weak fairness is enough here, since a namespace's worker releases all locks at once
and stays away until it has another batch. `HelmRelease!FairSpec` asks it of the
controller, its cache, its lister of clusters and the garbage collector; nothing of users, of the cluster's
removal or of the lister of the application API. In `UsageConverges`
and `ReleaseSettles` the "once things are quiet" comes from the bounds on requests and
edits: there are finitely many, so in every behaviour they end.

### Where the code differs from what it says

Each of these runs checks one sentence found in the code and TLC finds a
counterexample.

| Run | The code says | The code does |
|---|---|---|
| `ipam_ghostblock` | `ipam.go:284` "Block doesn't exist, so all addresses are already unallocated." | A block that is marked deleted is still assigned from (`ipam.go:176` looks at free addresses only) and is then deleted by name with the address in use |
| `quota_retry` | `controller.go:214` "It's safe for us to evaluate ONLY the subset, because the other quota documents for these waiters have already been evaluated." | A request that one quota refused is checked again with the rest of its batch against the quotas whose update failed, and admitted if none of these matches it |
| `helm_version` | `helmrelease_types.go:53` "expected release version, when this version is not equal status.version, the release need upgrade", "this filed should be modified when any filed of the spec modified." | Two upgrades that meet the same copy in the lister write the same version with different charts; when the first is deployed the versions are equal, and the second chart is never deployed |

Five more are states the models reach, and the properties are stated with them in
mind:

* The caller that loses the race to create a block calls `BlockName` on the empty
  object Create returned, and panics (`ipam.go:191`; `ipam.go:482` "We will try to write
  the block later to prevent races."). It is the label `"panic"` of `IPAM`.
* An address recorded after the blocks were listed is overlooked when the finalizer
  is removed (`ippool_controller.go:295-303`, "Check if it's used and remove finalizer
  if it's not."). `ProtectsUse` says when.
* The delay with which a pool in use is to be tried again is dropped when the status
  update succeeds (`ippool_controller.go:306`, `:373`).
* Every error of the lister of clusters is taken for a deletion of the cluster
  (`helm_release_controller.go:393-395`, "cluster %s was deleted, skip helm release uninstall").
  After a restart that lister is empty until its informer has listed: the finalizer is
  removed without an uninstall and the release of helm stays in a cluster that is there
  (`skipped` of `HelmRelease`, fifteen steps from the start). In the same way a release that has no
  finalizer yet is deleted (`:126-131`, "cluster not exists, delete the crd").
  `NothingLeft` says that there is no other way.
* A pool that is gone is left out of the utilization, and `provider.go:102` indexes the
  empty list: the label `"panic"` of `IPPoolController`, from which the worker restarts.

Three more are plain to see in the models: an
AutoAssign that has read the pool goes on after the pool was disabled, although
`ippool_types.go:103` says "When disabled is true, IPAM will not assign addresses
from this pool" (`late` collects what this leads to); ReleaseByHandle returns nil for
a handle that does not exist, although `interface.go:36` says "Returns an error if
no addresses are assigned with the given handle"; and ValidateDelete admits the
deletion of a pool in use while its status is behind.

The safety properties are stated so as to hold in spite of these: `GrantsRecorded`
and `AddressPool` speak of blocks that were never marked deleted, `ProtectsUse` of
addresses that were not recorded late. They say that the cases above are the only
ways to lose an address. In the same way `AdmittedPaid` and `NoOvercommit` leave out the
requests that some pass refused, `VersionDeployed` speaks of the version, not of
the chart, and `NothingLeft` leaves out a release whose last uninstall was skipped for want
of a cluster that was there: nothing else makes a release stay behind.

What some of them do not say: `NoOvercommit` holds only without the ResourceQuota
controller, which counts objects that exist and so makes room for others while an admitted
one is being created; `UsageConverges` says that the usage is right in the end, not that
the limit was kept meanwhile. `EveryoneAnswered` is checked with one quota, so that a
circular wait is left to `NoCircularWait`. `ReleaseSettles` takes a failed release for
settled, and says nothing of whether it is tried again. `ProtectsUse` says nothing of `late`
addresses.

## 4. Proofs

`tlapm <module>` checks each proof module; there are no unproved leaves. The
theorems hold for every finite set of clients, handles and callers, every block size,
number of blocks and of retries, and every bound, under the named assumptions
`BlockAssumption`, `IPAMBlockAssumption`, `IPAMAssumption`, `ControllerAssumption`, `QueueAssumption`,
`QuotaAssumption` and `HelmAssumption` (constants have their types, the model values
differ from the objects). TLC evaluates these
assumptions in every run.

| Theorem | Statement |
|---|---|
| `IPAMProofs!TypeCorrect` | `Spec => []TypeOK` |
| `IPAMSafety!Safety` | `Spec => []SafeInv`, if `~SharedHandles` |
| `IPAMSafety!HandlesCover`, `ReleaseIsComplete`, `GrantsAreRecorded` | the three safety properties of the runs, if `~SharedHandles` |
| `IPAMProofs!ReservedStay` | `Spec => []ReservedKept` |
| `IPAMSafety!Implementation` | `Spec => ImplementsAddressPool`, if `~SharedHandles` |
| `IPAMSafety!AddressesExclusive` | the client, as an implementation of the address pool, never has two holders of one address of a block that was never marked deleted, if `~SharedHandles` |
| `IPAMBlockProofs!BlockTypeCorrect`, `FreeListIsExact`, `NoAttributeLeft`, `CountsAreRight` | `BlockImplSpec =>` `[]BlockTypeOK`, `[]FreeListExact`, `[]AttributesInUse`, `[]CountsAgree` |
| `IPAMBlockProofs!BlockImplemented` | `BlockImplSpec => ImplementsBlockSpec` |
| `IPPoolProofs!ControllerTypeCorrect`, `NoEventLost`, `FinalizerProtects` | `Spec =>` `[]ControllerTypeOK`, `[]NothingForgotten`, `ProtectsUse` |
| `QuotaQueueProofs!QueueInvariant`, `NoRequestLost`, `NoWakeUpLost` | `Spec =>` `[]QueueInv`, `[]NoneLost`, `[]Woken` |
| `QuotaQueueProofs!QueueImplementsBatches` | `Spec => B!Spec` (the safety part of `Batches`) |
| `QuotaProofs!QuotaInvariant`, `AdmittedArePaid`, `NobodyChargedTwice`, `NoUpdateIsLost` | `Spec =>` `[]QuotaInv`, `[]AdmittedPaid`, `[]ChargedOnce`, `NoLostUpdate` |
| `QuotaProofs!QuotaTypeCorrect`, `BooksBalance`, `NoDeadlock` | `Spec =>` `[]QuotaTypeOK`, `[]TotalIsSum`, `[]NoCircularWait` |
| `QuotaProofs!LedgerIsExact`, `NothingOvercommitted` | `Spec =>` `[]LedgerExact`, `[]NoOvercommit`, if `~Recount` |
| `HelmReleaseProofs!HelmInvariant`, `NothingIsLeft`, `StatusVersionDeployed`, `HelmNeverOlder` | `Spec =>` `[]HelmInv`, `[]NothingLeft`, `[]VersionDeployed`, `NeverOlder` |

**IPAM.** `TypeOK` alone is not inductive: that a counter stays natural needs
that a client about to write a decremented handle still has the copy it checked.
`TypeInv` adds this (`CopiesOK`) and what a client at each label has at hand
(`LocalsOK`). It holds with shared handles too.

`SafeInv` (module `IPAMInv`) says what is true *between* the API calls, where the
properties themselves are silent:

* `CallCovered`: between the handle's write and the block's write, in either order,
  the handle counts more than the block holds by exactly what is under way. This
  is the reason for the order of writes in assignFromExistingBlock and
  releaseByHandle, and `HandleCovers` is not inductive without it.
* `CallReleases`: a block that still lists the handle of a running release is the
  one at hand, before its write, or on its list. At the end of the list nothing is
  left: `ReleasedClean`.
* `CallMarks`: a client about to delete a block by name has seen it marked, and a
  client about to mark one with a current copy has seen it empty. From this the
  mark never lands on an address in use, which is the refinement's obligation.
* `HandleSafe`, `BlocksSafe`, `OneCallPerHandle`: what connects the stored objects and
  the history.

The proof goes action by action; each action's lemma treats the client that acts
and shows that the conjuncts of the others survive because its handle is not
theirs and because a write takes away their claim to a current copy. For the
refinement, UpdateBlock is `Take`, the start of a release is `GiveBack`, each mark
is `Retire`, and everything else stutters.

`ReservedKept` needs no more than `TypeInv` and that a new block has the reserved
addresses: an assignment takes a free one, a release gives back those of a handle, and
neither is reserved.

**IPAMBlock.** The invariant is the conjunction of the properties themselves and
`ReservedExact`, which the count of reserved addresses needs. The step that could go wrong is
the release, which takes attributes out of the middle of the list and renumbers the indexes of
everybody else. `Rank` gives a kept attribute its new index (the counter `y` of
deleteAttributes) and `Ascending` lists the kept ones in order; `RankMonotonic`,
`RankInjective` and `RankOnto` show that these fit together for every finite set of indexes, by
comparing cardinalities and not by induction. So the attribute found at an address's new index is
the one found at its old index before (`AttributesMoved`), which is the refinement's
obligation: no address changes hands. For the count of free addresses, `Unallocated` is a
bijection from its indexes to the free ordinals.

**IPPoolController.** `NothingForgotten` speaks of a worker at rest. The
strengthening `ControllerInv` adds what is true while it works: the undelivered
events end with the stored object (`FeedOK`), a current copy *is* the stored object
and a deletion is carried out only with a copy that is disabled (`CopyOK`), and
whatever has made the worker's copy old is itself pending (`StaleOK`). So a pass
that decides on an old copy, or drops its delay, is followed by another; and a
pass that gets to remove the finalizer did so with a pool that was disabled before
the blocks were listed and has not been written since, so that only an
AutoAssign that had read the pool earlier can have recorded anything.

**QuotaQueue.** `Woken` and `NoneLost` need each other: `getWork` deletes `dirtyWork`, which
is right only because that list is empty unless the namespace is in progress, which in turn needs that
at most one worker is between `getWork` and `completeWork` of a namespace. `QueueInv` states
this (`OneWorker`: not two past `getWork`, not two before `completeWork`, but one of each is
possible), ties the workqueue's three fields together (`QueueShape`), and says that a
request in the middle of `addWork` already has its wake-up (`Filed`): the order of the
two halves of `addWork` matters.

**QuotaAdmission.** `AdmittedPaid` speaks of requests that are answered. `QuotaInv` says where
a batch stands in between: `PassOK`, that quotas still to be dealt with, now or in a retry, were
not charged for anybody in the batch and all the others were charged for everyone who counts;
`RunningOK`, that a counted request makes the running usage of a quota differ from
the copy's, so that the quota is among those to be updated; and `CopiesTrue`,
that a copy with the stored resourceVersion *is* the stored quota, whichever cache it
came from. The locks are not mentioned: the proof does not need them. The controller is
included: what it writes is newer than every copy a worker has, so that its writes
are to a pass like those of another worker.

`LedgerExact` follows step by step from `NoLostUpdate` only if the running usage is known to be the
copy's total and the requests counted since (`RunningExact`); `NoOvercommit` needs that
no running usage, and no copy it may start from, is above the limit (`WithinHard`), and then
that the admitted are among the charged (`AdmittedPaid`), each once
(`ChargedOnce`). `LedgerInv` holds these together. Both have the premise `~Recount`, and TLC has
counterexamples without it: the controller replaces what was charged by what exists, and what is
admitted and not yet created does not.

`TotalIsSum` is about what the code does with two copies: `UpdateQuotaStatus` writes the total the
check has computed and books its difference to the total of *another* copy on the namespace. It is
kept because every copy it may have read, from either cache, and every recount of the
controller balances (`BooksInv`), and the new total and the new shares exceed those of that copy by
the same amount. `NoCircularWait` rests on the order in which
`checkAttributes` locks: a worker that waits for a quota's lock holds only locks of quotas with smaller
names (`LocksInv`), whatever mutexes were made for a quota; in a set of
waiting workers nobody holds what the one that waits for the largest name wants.

The sums are `SumFunctionOnSet` of the community module `Functions`, a fold whose order
is unknown. Module `FiniteSums` proves what the proofs need of it: that it does not depend on
the order, adds an element at a time, is monotonic, and changes with one summand as
expected. The library's induction theorems take a predicate as a parameter, which the provers
cannot instantiate. `FiniteSums` therefore states induction over *sets* (`NatSetInduction`,
`FiniteSetInduction`: a set with 0 in it that has n + 1 with n has every natural number), from the
theorem that a non-empty set of naturals has a least element.

**HelmRelease.** `VersionDeployed` has to survive an install or upgrade that was made
from an old copy. `HelmInv` says how old a copy can be: the controller's cache only moves
forward along the object's life (`SeenOK`: it never leaves "deleting", never returns
to the early states), an early object has version 1 since upgrades wait for it to be
created (`ListedOK`), and helm never holds anything newer than the controller's cache
(`HelmOK`). A write that goes through was made with a current copy, so what helm did
with that copy is what the status says (`WorkerOK`).

For `NothingLeft`, `HelmOK` says that whatever helm has in a cluster that stays belongs to an
object with its finalizer, and `WorkerOK` that helm has nothing when the finalizer is about to
be removed, both unless the last uninstall was `skipped`. The step that needs the lister
is `Uninstall`: a lister with the cluster as being deleted is right that it does not stay
(`ClusterOK`), and a lister without the cluster is either right or makes `skipped` true. Nothing
is asked of how far the lister is behind.

**Only model-checked.** Liveness (`Termination`, `DeletionCompletes`,
`StatusConverges`, `EveryoneAnswered`, `UsageConverges`, `ReleaseSettles`, and the fairness in
`Batches`), which is beyond the prover's temporal reasoning about fairness. And the
counterexamples of section 3. Every invariant and every action property that a passing run checks
is also proved.

## 5. Not modelled

The repository has some two hundred thousand lines of its own; most of them are
conversions, REST handlers, queries, generated code and calls to other systems,
which keep no state between requests. The models are of the code whose
correctness depends on order. Within it:

* *Answers that get lost.* A failed API call has had no effect. A write that is
  applied and reported as failed would be retried by the code.
* *Watches that lose events.* The informers deliver in order, and the latest state. After a
  broken watch a deletion arrives as `DeletedFinalStateUnknown`, which `enqueueIPAMBlocks` ignores.
* *Addresses as numbers.* Blocks of a pool are numbered, addresses are ordinals in
  a block; CIDR arithmetic and the net library are taken as given.
* *GetUtilization across blocks.* The counts per block are in `IPAMBlock`
  (`CountsAgree`); the sum is not.
* *Pools against each other*: overlap and default-pool admission, see the plan.
* *Quotas*: several resources in one quota; scopes and the matching of resources; the quotas of a
  single namespace, which the accessor never writes; requests that change an object
  and so may lower a usage; namespaces that join or leave a workspace; shutdown of the evaluator.
* *Releases*: two HelmReleases that name the same release of helm in one namespace, which
  nothing in the controller prevents; the readiness check by resource; the history
  list of the status.
* The Calico provider, the binding of pools to namespaces, the LDAP connection pool, the
  audit backend, users, login records and tokens, the cluster controller, network policies and the
  API server: see `PROJECT.json`.

## 6. Plan

Done: the block lists, the IPAM client, its abstract specification and proofs; the
controller's life of a pool, with proofs; the quota evaluator's queue and its abstract
specification, quota admission with the controller, with proofs; the life of a
HelmRelease, with proofs.

Next, in this order:

1. `IPPoolAdmission`: several pools, ValidateCreate (list by the ID label, which
   appears only with the finalizer) and validateDefaultIPPool, requests checked
   concurrently. Properties: labelled pools never overlap unless they were admitted
   together; a default pool remains unless two requests raced. Includes processNS.
2. Faults left out so far: a write whose answer is lost (`IPAM`, `QuotaAdmission`), a watch
   that is re-established (`IPPoolController`).
3. Namespaces that leave a workspace while the quota is being recounted
   (`QuotaAdmission`); two HelmReleases of one helm release (`HelmRelease`).
4. `CalicoProvider`: the mirror of pools in Calico and of their use back.
5. `ChannelPool` (LDAP): connections are owned by exactly one of pool, caller or
   nobody; Get against Close. `AuditBackend`: sender slots are conserved, a slot is never
   returned twice, the worker never blocks for good.
6. Proofs: the admission invariant of 1, and what the faults of 2 leave of the theorems.
