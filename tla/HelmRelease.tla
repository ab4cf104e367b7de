----------------------------- MODULE HelmRelease -----------------------------
(***************************************************************************)
(* The life of one HelmRelease: the application API that creates, upgrades,*)
(* modifies and deletes it (pkg/models/openpitrix/release.go), the         *)
(* controller that installs, upgrades and uninstalls the release of helm   *)
(* (pkg/controller/openpitrix/helmrelease), and the helm wrapper.          *)
(*                                                                         *)
(* The API reads the object from a lister and changes it with a patch that *)
(* carries no resourceVersion.  The controller reads it from a cache of    *)
(* its own; what it writes carries the resourceVersion of its copy.  Both  *)
(* caches may be behind the API server by any number of writes.  An object *)
(* has a name of its own (a uuid), so it is created once.                  *)
(*                                                                         *)
(* A chart is named by the request that brought it.  The release lives in  *)
(* a member cluster, which may be removed.  The controller reads the       *)
(* Cluster from a lister of its own (pkg/utils/clusterclient), for which   *)
(* nobody waits: it is empty when the process starts and may be behind.    *)
(* Delays are left out: a request that is to be looked at again later is   *)
(* queued at once.                                                         *)
(***************************************************************************)
EXTENDS Naturals

CONSTANTS
  MaxEdits,    \* bound: requests that create, upgrade or modify the release
  MaxFaults,   \* bound: API calls, charts and uninstalls that fail, restarts
  MaxWrites,   \* bound: the resourceVersion up to which a state is written again
  None

VARIABLES
  rls,       \* the HelmRelease in the API server
  listed,    \* what the application API reads of the one in its lister
  seen,      \* the one in the controller's cache
  queued,    \* whether the controller is to reconcile it
  pc,        \* where Reconcile is
  copy,      \* the instance Reconcile works on
  outcome,   \* the state createOrUpgradeHelmRelease is about to write
  helm,      \* the release in helm's own storage
  cluster,   \* the cluster the release lives in
  known,     \* what the controller's lister has of it; "gone": nothing
  skipped,   \* the last uninstall was left out though the cluster was there
  edits, faults

objects == <<rls, listed, seen>>
worker  == <<queued, pc, copy, outcome>>
bounds  == <<edits, faults>>
clusters == <<cluster, known, skipped>>
vars    == <<objects, worker, helm, clusters, bounds>>

\* status.state; "new" stands for the empty string of an object just created.
States == {"new", "creating", "created", "active", "upgrading", "upgraded", "failed", "deleting"}
Ready  == {"created", "upgraded", "active"}

\* HelmRelease: spec.version and the chart it stands for, status.state and
\* status.version, the finalizer and the deletion timestamp.
Release == [rv : Nat, version : Nat, chart : Nat, state : States, deployed : Nat,
            finalizer : BOOLEAN, deleting : BOOLEAN]
\* What helm has stored, and the resourceVersion of the object it came from;
\* ok: its status is "deployed".
Deployment == [rv : Nat, version : Nat, chart : Nat, ok : BOOLEAN]

Listing == [version : Nat, state : States]

ASSUME HelmAssumption ==
  /\ MaxEdits \in Nat /\ MaxFaults \in Nat /\ MaxWrites \in Nat
  /\ None \notin Release \cup Deployment \cup Listing

Init ==
  /\ rls = None /\ listed = None /\ seen = None
  /\ queued = FALSE /\ pc = "idle" /\ copy = None /\ outcome = "none"
  /\ helm = None /\ cluster = "there" /\ known = "gone" /\ skipped = FALSE
  /\ edits = 0 /\ faults = 0

Edit == edits < MaxEdits /\ edits' = edits + 1
Fault == faults < MaxFaults /\ faults' = faults + 1

-----------------------------------------------------------------------------
(* The application API                                                     *)

CreateApplication ==
  /\ edits = 0 /\ Edit
  /\ rls' = [rv |-> 1, version |-> 1, chart |-> 1, state |-> "new", deployed |-> 0,
             finalizer |-> FALSE, deleting |-> FALSE]
  /\ UNCHANGED <<listed, seen, worker, helm, clusters, faults>>

\* Mutant: a release may be upgraded in any state.
UpgradeApplicationAnyState ==
  /\ listed # None /\ rls # None
  /\ Edit
  /\ rls' = [rls EXCEPT !.rv = @ + 1, !.version = listed.version + 1, !.chart = edits + 1]
  /\ UNCHANGED <<listed, seen, worker, helm, clusters, faults>>

\* The next version is computed from the lister's copy.
UpgradeApplication ==
  /\ listed # None /\ listed.state \in Ready \cup {"failed"}
  /\ rls # None
  /\ Edit
  /\ rls' = [rls EXCEPT !.rv = @ + 1, !.version = listed.version + 1, !.chart = edits + 1]
  /\ UNCHANGED <<listed, seen, worker, helm, clusters, faults>>

\* Only the description changes.
ModifyApplication ==
  /\ listed # None /\ rls # None
  /\ Edit
  /\ rls' = [rls EXCEPT !.rv = @ + 1]
  /\ UNCHANGED <<listed, seen, worker, helm, clusters, faults>>

\* A deleted object stays as long as it has a finalizer.
Deleted(r) == IF r.finalizer THEN [r EXCEPT !.rv = @ + 1, !.deleting = TRUE] ELSE None

DeleteApplication ==
  /\ listed # None /\ rls # None /\ ~rls.deleting
  /\ rls' = Deleted(rls)
  /\ UNCHANGED <<listed, seen, worker, helm, clusters, bounds>>

-----------------------------------------------------------------------------
(* Caches, the cluster and the garbage collector                           *)

\* spec.version and status.state are all that is read of the lister's copy.
ListingOf(r) == IF r = None THEN None ELSE [version |-> r.version, state |-> r.state]

UpdateLister ==
  /\ listed # ListingOf(rls)
  /\ listed' = ListingOf(rls)
  /\ UNCHANGED <<rls, seen, worker, helm, clusters, bounds>>

\* The controller is told of the change.
Deliver ==
  /\ seen # rls
  /\ seen' = rls
  /\ queued' = TRUE
  /\ UNCHANGED <<rls, listed, pc, copy, outcome, helm, clusters, bounds>>

DeleteCluster ==
  /\ cluster = "there"
  /\ cluster' = "deleting"
  /\ UNCHANGED <<objects, worker, helm, known, skipped, bounds>>

ClusterGone ==
  /\ cluster = "deleting"
  /\ cluster' = "gone"
  /\ helm' = None
  /\ UNCHANGED <<objects, worker, known, skipped, bounds>>

\* The lister of clusters catches up; no release is queued for it.
ListCluster ==
  /\ known # cluster
  /\ known' = cluster
  /\ UNCHANGED <<objects, worker, helm, cluster, skipped, bounds>>

\* A release that has its finalizer has the cluster as its owner.
CollectRelease ==
  /\ cluster = "gone" /\ rls # None /\ rls.finalizer /\ ~rls.deleting
  /\ rls' = Deleted(rls)
  /\ UNCHANGED <<listed, seen, worker, helm, clusters, bounds>>

-----------------------------------------------------------------------------
(* Reconcile                                                               *)

\* Mutant: the write does not depend on the resourceVersion.
CurrentAlways(r) == rls # None

\* Whether the API server accepts a write of the copy r.
Current(r) == rls # None /\ rls.rv = r.rv

\* The copy r is written and the request is done, to be looked at again if q;
\* if the write is refused it is queued again.
Write(r, q) ==
  \/ Current(r) /\ rls' = [r EXCEPT !.rv = rls.rv + 1] /\ queued' = q
  \/ ~Current(r) /\ queued' = TRUE /\ UNCHANGED rls

\* A request is taken for an object that is there, with its finalizer, and
\* not being deleted.
Managed == pc = "idle" /\ queued /\ seen # None /\ seen.finalizer /\ ~seen.deleting

\* Mutant: an active release is left alone whatever its version.
SettledActive ==
  seen # None =>
    \/ seen.state # "new" /\ seen.deleting /\ ~seen.finalizer
    \/ Managed /\ seen.state \in {"deleting", "active"}
    \/ Managed /\ seen.state = "failed" /\ seen.deployed = seen.version

\* The object is gone, or has nothing left to be done.
Settled ==
  seen # None =>
    \/ seen.state # "new" /\ seen.deleting /\ ~seen.finalizer
    \/ Managed /\ seen.state = "deleting"
    \/ Managed /\ seen.state \in {"failed", "active"} /\ seen.deployed = seen.version

Rest ==
  /\ pc = "idle" /\ queued /\ Settled
  /\ queued' = FALSE
  /\ UNCHANGED <<objects, pc, copy, outcome, helm, clusters, bounds>>

StartCreating ==
  /\ pc = "idle" /\ queued /\ seen # None /\ seen.state = "new"
  /\ Write([seen EXCEPT !.state = "creating"], FALSE)
  /\ UNCHANGED <<listed, seen, pc, copy, outcome, helm, clusters, bounds>>

\* The object is deleted instead if the lister does not have the cluster.
AddFinalizer ==
  /\ pc = "idle" /\ queued /\ seen # None
  /\ seen.state # "new" /\ ~seen.deleting /\ ~seen.finalizer
  /\ \/ known # "gone" /\ Write([seen EXCEPT !.finalizer = TRUE], FALSE)
     \/ /\ known = "gone" /\ rls # None
        /\ rls' = (IF rls.deleting THEN rls ELSE Deleted(rls))
        /\ queued' = FALSE
     \/ known = "gone" /\ rls = None /\ queued' = TRUE /\ UNCHANGED rls
  /\ UNCHANGED <<listed, seen, pc, copy, outcome, helm, clusters, bounds>>

MarkUpgrading ==
  /\ Managed /\ seen.state \in Ready /\ seen.deployed # seen.version
  /\ Write([seen EXCEPT !.state = "upgrading"], FALSE)
  /\ UNCHANGED <<listed, seen, pc, copy, outcome, helm, clusters, bounds>>

\* checkReleaseIsReady: it is too late or too early to look, the lister does
\* not have the cluster, or the resources are ready or not.
CheckRelease ==
  /\ Managed /\ seen.state \in {"created", "upgraded"} /\ seen.deployed = seen.version
  /\ \/ queued' \in BOOLEAN /\ UNCHANGED rls
     \/ known = "gone" /\ queued' = TRUE /\ UNCHANGED rls
     \/ known # "gone" /\ helm # None /\ Write([seen EXCEPT !.state = "active"], FALSE)
     \/ known # "gone" /\ seen.rv < MaxWrites /\ Write(seen, TRUE)
  /\ UNCHANGED <<listed, seen, pc, copy, outcome, helm, clusters, bounds>>

-----------------------------------------------------------------------------
(* createOrUpgradeHelmRelease                                              *)

\* What helm stores when it has deployed the copy r, or failed to.
DeploymentOf(r, ok) == [rv |-> r.rv, version |-> r.version, chart |-> r.chart, ok |-> ok]

\* The copy and the outcome go to updateStatus.
Outcome(s) == pc' = "status" /\ copy' = seen /\ outcome' = s /\ queued' = FALSE

\* The wrapper installs if there is no release, takes a release that is
\* deployed for its own, and fails if helm does not answer.
Install ==
  /\ Managed /\ seen.state = "creating" /\ known # "gone"
  /\ \/ helm = None /\ helm' = DeploymentOf(seen, TRUE) /\ Outcome("created")
     \/ helm = None /\ helm' \in {None, DeploymentOf(seen, FALSE)} /\ Outcome("failed")
     \/ helm # None /\ helm.ok /\ UNCHANGED helm /\ Outcome("created")
     \/ helm # None /\ UNCHANGED helm /\ Outcome("failed")
  /\ UNCHANGED <<objects, clusters, bounds>>

\* A failed release is tried again, as an upgrade, until its version is the one
\* that is deployed.
ToUpgrade ==
  \/ seen.state = "upgrading"
  \/ seen.state = "failed" /\ seen.deployed # seen.version

\* Mutant: a failed upgrade is rolled back to the first release.
UpgradeRollsBack ==
  /\ Managed /\ known # "gone" /\ ToUpgrade
  /\ \/ helm # None /\ helm.ok /\ helm' = DeploymentOf(seen, TRUE) /\ Outcome("upgraded")
     \/ /\ seen.state = "failed" => seen.rv < MaxWrites
        /\ helm' = IF helm # None THEN [rv |-> 1, version |-> 1, chart |-> 1, ok |-> TRUE] ELSE helm
        /\ Outcome("failed")
  /\ UNCHANGED <<objects, clusters, bounds>>

\* The wrapper upgrades only a release that is deployed.
Upgrade ==
  /\ Managed /\ known # "gone"
  /\ ToUpgrade
  /\ \/ helm # None /\ helm.ok /\ helm' = DeploymentOf(seen, TRUE) /\ Outcome("upgraded")
     \/ /\ seen.state = "failed" => seen.rv < MaxWrites
        /\ helm' \in {helm} \cup (IF helm # None /\ helm.ok THEN {DeploymentOf(seen, FALSE)}
                                                           ELSE {})
        /\ Outcome("failed")
  /\ UNCHANGED <<objects, clusters, bounds>>

\* The lister does not have the cluster, or the chart cannot be had this time.
NoChart ==
  /\ Managed /\ (seen.state = "creating" \/ ToUpgrade)
  /\ (known = "gone" /\ UNCHANGED faults) \/ Fault
  /\ queued' = TRUE
  /\ UNCHANGED <<objects, pc, copy, outcome, helm, clusters, edits>>

Return == pc' = "idle" /\ copy' = None /\ outcome' = "none"

\* updateStatus: the version is recorded when the release has just been
\* created or upgraded.
Updated(r, s) ==
  [r EXCEPT !.state = s,
            !.deployed = IF s # r.state /\ s \in {"created", "upgraded"} THEN r.version ELSE @]

UpdateStatus ==
  /\ pc = "status"
  /\ Write(Updated(copy, outcome), queued)
  /\ Return
  /\ UNCHANGED <<listed, seen, helm, clusters, bounds>>

-----------------------------------------------------------------------------
(* Deletion                                                                *)

\* Mutant: a release that is said to be deleting is left to whoever said so.
StartUninstallOnce ==
  /\ pc = "idle" /\ queued /\ seen # None /\ seen.deleting /\ seen.finalizer
  /\ \/ /\ seen.state = "deleting"
        /\ queued' = FALSE
        /\ UNCHANGED <<rls, copy, pc>>
     \/ /\ seen.state # "deleting" /\ Current(seen)
        /\ rls' = [seen EXCEPT !.state = "deleting", !.rv = rls.rv + 1]
        /\ copy' = rls' /\ pc' = "uninstall" /\ queued' = FALSE
     \/ /\ seen.state # "deleting" /\ ~Current(seen)
        /\ queued' = TRUE
        /\ UNCHANGED <<rls, copy, pc>>
  /\ UNCHANGED <<listed, seen, outcome, helm, clusters, bounds>>

\* uninstallHelmRelease: the state is written first.
StartUninstall ==
  /\ pc = "idle" /\ queued /\ seen # None /\ seen.deleting /\ seen.finalizer
  /\ \/ /\ seen.state = "deleting"
        /\ copy' = seen /\ pc' = "uninstall" /\ queued' = FALSE
        /\ UNCHANGED rls
     \/ /\ seen.state # "deleting" /\ Current(seen)
        /\ rls' = [seen EXCEPT !.state = "deleting", !.rv = rls.rv + 1]
        /\ copy' = rls' /\ pc' = "uninstall" /\ queued' = FALSE
     \/ /\ seen.state # "deleting" /\ ~Current(seen)
        /\ queued' = TRUE
        /\ UNCHANGED <<rls, copy, pc>>
  /\ UNCHANGED <<listed, seen, outcome, helm, clusters, bounds>>

\* Mutant: nothing is uninstalled.
UninstallSkipped ==
  /\ pc = "uninstall"
  /\ skipped' = (known = "gone" /\ cluster = "there")
  /\ pc' = "finalizer"
  /\ UNCHANGED <<objects, queued, copy, outcome, helm, cluster, known, bounds>>

\* Nothing is uninstalled if the lister does not have the cluster, or has it
\* as being deleted.
Uninstall ==
  /\ pc = "uninstall"
  /\ IF known = "there" THEN helm' = None ELSE UNCHANGED helm
  /\ skipped' = (known = "gone" /\ cluster = "there")
  /\ pc' = "finalizer"
  /\ UNCHANGED <<objects, queued, copy, outcome, cluster, known, bounds>>

\* A cluster that is gone need not answer.
UninstallFails ==
  /\ pc = "uninstall" /\ known = "there"
  /\ \/ cluster = "gone" /\ UNCHANGED <<helm, faults>>
     \/ helm # None /\ helm' \in {helm, [helm EXCEPT !.ok = FALSE]} /\ Fault
  /\ queued' = TRUE
  /\ Return
  /\ UNCHANGED <<objects, clusters, edits>>

RemoveFinalizer ==
  /\ pc = "finalizer"
  /\ \/ Current(copy) /\ rls' = None /\ UNCHANGED queued
     \/ ~Current(copy) /\ queued' = TRUE /\ UNCHANGED rls
  /\ Return
  /\ UNCHANGED <<listed, seen, helm, clusters, bounds>>

-----------------------------------------------------------------------------
(* Failures                                                                *)

\* A call to the API server fails and has no effect.
ApiError ==
  /\ pc # "idle"
  /\ Fault
  /\ queued' = TRUE
  /\ Return
  /\ UNCHANGED <<objects, helm, clusters, edits>>

\* The controller stops; the next one lists the objects before it starts, and
\* does not wait for the clusters.  That this list is current is an assumption
\* on the API server, which could answer it from a cache of its own.
Restart ==
  /\ Fault
  /\ seen' = rls /\ queued' = (rls # None)
  /\ known' = "gone"
  /\ Return
  /\ UNCHANGED <<rls, listed, helm, cluster, skipped, edits>>

-----------------------------------------------------------------------------

Reconcile ==
  \/ Rest \/ StartCreating \/ AddFinalizer \/ MarkUpgrading \/ CheckRelease
  \/ Install \/ Upgrade \/ NoChart \/ UpdateStatus
  \/ StartUninstall \/ Uninstall \/ RemoveFinalizer

Next ==
  \/ CreateApplication \/ UpgradeApplication \/ ModifyApplication \/ DeleteApplication
  \/ UpdateLister \/ Deliver \/ DeleteCluster \/ ClusterGone \/ ListCluster \/ CollectRelease
  \/ Reconcile \/ UninstallFails \/ ApiError \/ Restart

Spec == Init /\ [][Next]_vars

\* The controller goes on, its cache and its lister catch up, and the garbage
\* collector finds a release without its cluster.
FairSpec ==
  Spec /\ WF_vars(Reconcile) /\ WF_vars(Deliver) /\ WF_vars(ListCluster) /\ WF_vars(CollectRelease)

-----------------------------------------------------------------------------
(* Properties                                                              *)

HelmTypeOK ==
  /\ rls \in Release \cup {None} /\ listed \in Listing \cup {None}
  /\ seen \in Release \cup {None} /\ copy \in Release \cup {None}
  /\ pc \in {"idle", "status", "uninstall", "finalizer"} /\ outcome \in States \cup {"none"}
  /\ helm \in Deployment \cup {None} /\ cluster \in {"there", "deleting", "gone"}
  /\ known \in {"there", "deleting", "gone"} /\ skipped \in BOOLEAN
  /\ edits \in Nat /\ faults \in Nat
  /\ queued \in BOOLEAN

\* A HelmRelease that is gone has left nothing behind in its cluster, whatever
\* the controller was doing when it was deleted, unless uninstallHelmRelease
\* last found the lister without a cluster that was there: an object is never
\* removed for any other reason while helm still has its release.
NothingLeft == rls = None /\ cluster = "there" /\ ~skipped => helm = None

\* "current release version": a release that is said to be created, upgraded
\* or active is deployed, in the version its status gives, although an install
\* or an upgrade may have been done twice, from an old copy or before a crash.
VersionDeployed ==
  rls # None /\ rls.state \in Ready /\ cluster # "gone" =>
    helm # None /\ helm.version = rls.deployed

\* What helm has deployed is never replaced by an older HelmRelease.
NeverOlder ==
  [][helm # None /\ helm' # None => helm'.rv >= helm.rv]_vars

\* A deleted release goes away.
DeletionCompletes == rls # None /\ rls.deleting ~> rls = None

\* When nobody changes the release any more it is deployed in the version
\* asked for, has failed, or is being deleted.
ReleaseSettles ==
  <>[](rls # None /\ ~rls.deleting =>
         rls.state = "failed" \/ (rls.state \in Ready /\ rls.deployed = rls.version))

-----------------------------------------------------------------------------
(* The inductive invariant behind NothingLeft, VersionDeployed and         *)
(* NeverOlder                                                              *)

Early == {"new", "creating"}

\* The controller's copy is an earlier state of the object: what an object has
\* gone through it does not go back to.
SeenOK ==
  /\ edits = 0 => rls = None /\ listed = None /\ seen = None /\ helm = None /\ pc = "idle"
  /\ seen = None /\ rls # None => helm = None /\ pc = "idle"
  /\ seen # None /\ rls # None =>
       /\ seen.rv <= rls.rv /\ (seen.rv = rls.rv => seen = rls)
       /\ seen.deleting => rls.deleting
       /\ seen.state = "deleting" => rls.state = "deleting"
       /\ seen.state \notin Early => rls.state \notin Early
  /\ seen # None /\ seen.finalizer /\ ~seen.deleting => rls # None /\ rls.finalizer
  /\ \A r \in {rls, seen} : r # None =>
       /\ r.state = "deleting" => r.deleting
       /\ r.state \in Early => r.version = 1

\* A release is upgraded only after it has been created.
ListedOK ==
  listed # None /\ rls # None /\ listed.state \notin Early => rls.state \notin Early

WorkerOK ==
  /\ pc = "status" =>
       /\ copy # None
       /\ seen # None => copy.rv <= seen.rv
       /\ rls # None /\ copy.rv = rls.rv => copy = rls
       /\ outcome \in {"created", "upgraded", "failed"}
       /\ outcome = "created" => copy.state = "creating"
       /\ outcome = "upgraded" => copy.state \in {"upgrading", "failed"}
       /\ outcome # "failed" /\ cluster # "gone" => helm # None /\ helm.version = copy.version
       /\ ~copy.deleting
  /\ pc \in {"uninstall", "finalizer"} =>
       /\ copy # None /\ copy.deleting
       /\ rls # None => rls.deleting /\ rls.state = "deleting"
       /\ seen # None => seen.deleting
  /\ pc = "finalizer" /\ cluster = "there" /\ ~skipped => helm = None

HelmOK ==
  /\ helm # None /\ cluster = "there" /\ ~skipped => rls # None /\ rls.finalizer
  /\ helm # None /\ rls # None => helm.rv <= rls.rv
  /\ helm # None /\ seen # None => helm.rv <= seen.rv
  /\ helm # None /\ seen # None /\ seen.state \in Early => helm.version = 1
  /\ rls # None /\ rls.state \in Ready /\ seen # None /\ seen.state \in {"upgrading", "failed"} =>
       seen.version = rls.deployed

\* A lister that has the cluster as being deleted is right about it.
ClusterOK == known = "deleting" => cluster # "there"

HelmInv ==
  HelmTypeOK /\ SeenOK /\ ListedOK /\ WorkerOK /\ HelmOK /\ ClusterOK /\ NothingLeft
  /\ VersionDeployed

-----------------------------------------------------------------------------
(* What the code says and does not do                                      *)

\* HelmReleaseSpec.Version: "expected release version, when this version is not
\* equal status.version, the release need upgrade", and "this filed should be
\* modified when any filed of the spec modified": equal versions mean that the
\* chart asked for is the one deployed.
VersionTellsChart ==
  rls # None /\ rls.state \in Ready /\ rls.deployed = rls.version /\ cluster # "gone" =>
    helm.chart = rls.chart
=============================================================================
