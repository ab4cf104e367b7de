-------------------------- MODULE HelmReleaseProofs --------------------------
(***************************************************************************)
(* The life of a HelmRelease, for any number of requests, failures and     *)
(* restarts: a release that is gone leaves nothing behind unless its       *)
(* uninstall was skipped for want of a lister that had the cluster, the    *)
(* version in the status is the one deployed, and helm never goes back to  *)
(* an older HelmRelease.                                                   *)
(***************************************************************************)
EXTENDS HelmRelease, TLAPS

USE HelmAssumption
USE DEF States, Ready, Early, clusters

LEMMA InitInv == Init => HelmInv
<1> SUFFICES ASSUME Init PROVE HelmInv
  OBVIOUS
<1>1. queued \in BOOLEAN
  BY Zenon DEF Init
<1>2. HelmTypeOK
  BY <1>1 DEF Init, HelmTypeOK
<1>3. SeenOK /\ ListedOK /\ WorkerOK /\ HelmOK /\ ClusterOK /\ NothingLeft /\ VersionDeployed
  BY DEF Init, SeenOK, ListedOK, WorkerOK, HelmOK, ClusterOK, NothingLeft, VersionDeployed
<1> QED BY <1>2, <1>3 DEF HelmInv

LEMMA Real == (\A r \in Release : r # None) /\ (\A d \in Deployment : d # None)
              /\ (\A l \in Listing : l # None)
BY Zenon DEF HelmAssumption

\* The fields of an object after a write of some of them.
LEMMA Fields ==
  ASSUME NEW r \in Release, NEW n \in Nat
  PROVE  /\ r.rv \in Nat /\ r.version \in Nat /\ r.state \in States /\ r.deployed \in Nat
         /\ \A s \in States : LET x == [[r EXCEPT !.state = s] EXCEPT !.rv = n] IN
              x \in Release /\ x.rv = n /\ x.version = r.version /\ x.chart = r.chart
              /\ x.state = s /\ x.deployed = r.deployed /\ x.finalizer = r.finalizer
              /\ x.deleting = r.deleting
         /\ LET x == [[r EXCEPT !.finalizer = TRUE] EXCEPT !.rv = n] IN
              x \in Release /\ x.rv = n /\ x.version = r.version /\ x.chart = r.chart
              /\ x.state = r.state /\ x.deployed = r.deployed /\ x.finalizer
              /\ x.deleting = r.deleting
         /\ LET x == [r EXCEPT !.rv = n] IN
              x \in Release /\ x.rv = n /\ x.version = r.version /\ x.chart = r.chart
              /\ x.state = r.state /\ x.deployed = r.deployed /\ x.finalizer = r.finalizer
              /\ x.deleting = r.deleting
BY DEF Release

-----------------------------------------------------------------------------
(* Steps by what they change                                               *)

\* The request is queued again or not, and nothing else changes.
LEMMA SameInv ==
  ASSUME HelmInv, UNCHANGED <<objects, pc, copy, outcome, helm, clusters, edits>>,
         queued' \in BOOLEAN, faults' \in Nat
  PROVE  HelmInv'
<1> USE DEF objects
<1>1. HelmTypeOK'
  BY DEF HelmInv, HelmTypeOK
<1>2. SeenOK' /\ ListedOK'
  BY DEF HelmInv, SeenOK, ListedOK
<1>3. WorkerOK' /\ HelmOK' /\ ClusterOK' /\ NothingLeft' /\ VersionDeployed'
  BY DEF HelmInv, WorkerOK, HelmOK, ClusterOK, NothingLeft, VersionDeployed
<1> QED BY <1>1, <1>2, <1>3 DEF HelmInv

\* Reconcile returns without having written.
LEMMA ReturnInv ==
  ASSUME HelmInv, Return, UNCHANGED <<objects, helm, clusters, edits>>,
         queued' \in BOOLEAN, faults' \in Nat
  PROVE  HelmInv'
<1> USE DEF objects, Return
<1>1. HelmTypeOK'
  BY DEF HelmInv, HelmTypeOK
<1>2. SeenOK' /\ ListedOK'
  BY DEF HelmInv, SeenOK, ListedOK
<1>3. WorkerOK' /\ HelmOK' /\ ClusterOK' /\ NothingLeft' /\ VersionDeployed'
  BY DEF HelmInv, WorkerOK, HelmOK, ClusterOK, NothingLeft, VersionDeployed
<1> QED BY <1>1, <1>2, <1>3 DEF HelmInv

\* Between two steps the object is written, from a copy that is the stored one.
LEMMA PutInv ==
  ASSUME HelmInv, pc = "idle", seen # None, rls = seen,
         NEW r \in Release, rls' = r,
         r.rv = rls.rv + 1, r.version = rls.version, r.deployed = rls.deployed,
         r.deleting = rls.deleting, rls.finalizer => r.finalizer,
         r.state = "deleting" <=> rls.state = "deleting",
         rls.state \notin Early => r.state \notin Early,
         r.state \in Ready => rls.state \in Ready,
         UNCHANGED <<listed, seen, pc, copy, outcome, helm, clusters, bounds>>,
         queued' \in BOOLEAN
  PROVE  HelmInv'
<1> USE DEF bounds
<1>0. r # None /\ rls \in Release /\ rls.rv \in Nat /\ rls # None
  <2>1. rls \in Release
    BY DEF HelmInv, HelmTypeOK
  <2>2. rls.rv \in Nat
    BY <2>1, Fields
  <2> QED BY <2>1, <2>2, Real
<1>1. HelmTypeOK'
  BY DEF HelmInv, HelmTypeOK
<1>2. SeenOK'
  <2>1. edits # 0 /\ (seen.finalizer /\ ~seen.deleting => rls.finalizer)
        /\ (seen.state = "deleting" => seen.deleting) /\ (seen.state \in Early => seen.version = 1)
    BY <1>0 DEF HelmInv, SeenOK
  <2>2. seen.rv <= r.rv /\ seen.rv # r.rv
    BY <1>0
  <2> QED BY <1>0, <2>1, <2>2 DEF SeenOK
<1>3. ListedOK'
  BY <1>0 DEF HelmInv, ListedOK
<1>4. WorkerOK'
  BY DEF HelmInv, WorkerOK
<1>5. HelmOK'
  <2>1. helm # None => helm.rv \in Nat
    BY DEF HelmInv, HelmTypeOK, Deployment
  <2>2. helm # None => helm.rv <= seen.rv /\ helm.rv <= r.rv
    BY <1>0, <2>1 DEF HelmInv, HelmOK
  <2>3. helm # None /\ cluster = "there" /\ ~skipped => rls.finalizer
    BY <1>0 DEF HelmInv, HelmOK
  <2>4. helm # None /\ seen.state \in Early => helm.version = 1
    BY <1>0 DEF HelmInv, HelmOK
  <2> QED BY <1>0, <2>2, <2>3, <2>4 DEF HelmOK
<1>6. ClusterOK' /\ NothingLeft' /\ VersionDeployed'
  BY <1>0 DEF HelmInv, ClusterOK, NothingLeft, VersionDeployed
<1> QED BY <1>1, <1>2, <1>3, <1>4, <1>5, <1>6 DEF HelmInv

\* Helm has been called for the copy that was seen: it has kept what it had, or
\* has stored that copy.
LEMMA HelmCallInv ==
  ASSUME HelmInv, Managed, NEW h, helm' = h,
         h \in {helm, DeploymentOf(seen, TRUE), DeploymentOf(seen, FALSE)},
         NEW s \in {"created", "upgraded", "failed"}, Outcome(s),
         s = "created" => seen.state = "creating",
         s = "upgraded" => ToUpgrade,
         s # "failed" => h # None /\ h.version = seen.version,
         h # helm => helm = None \/ ToUpgrade,
         UNCHANGED <<objects, clusters, bounds>>
  PROVE  HelmInv'
<1> USE DEF objects, bounds, Outcome
<1>0. /\ pc = "idle" /\ seen \in Release /\ seen # None /\ seen.finalizer /\ ~seen.deleting
      /\ rls \in Release /\ rls # None /\ rls.finalizer
      /\ seen.rv \in Nat /\ rls.rv \in Nat /\ seen.rv <= rls.rv
  BY Fields DEF HelmInv, HelmTypeOK, SeenOK, Managed
<1>1. /\ \A b \in BOOLEAN : /\ DeploymentOf(seen, b) \in Deployment
                            /\ DeploymentOf(seen, b).rv = seen.rv
                            /\ DeploymentOf(seen, b).version = seen.version
      /\ helm # None => helm.rv \in Nat
  BY <1>0 DEF DeploymentOf, Deployment, Release, HelmInv, HelmTypeOK
<1>a. h # None => \/ h = helm
                  \/ h.rv = seen.rv /\ h.version = seen.version
  BY <1>1
<1>b. helm # None => h # None
  BY <1>1, Real
<1>2. HelmTypeOK'
  <2>1. h \in Deployment \cup {None}
    BY <1>1 DEF HelmInv, HelmTypeOK
  <2>2. queued' \in BOOLEAN
    OBVIOUS
  <2> QED BY <2>1, <2>2, <1>0 DEF HelmInv, HelmTypeOK
<1>3. SeenOK' /\ ListedOK'
  BY <1>0 DEF HelmInv, SeenOK, ListedOK
<1>4. WorkerOK'
  BY <1>0 DEF HelmInv, WorkerOK, SeenOK, ToUpgrade
<1>5. HelmOK'
  <2>1. h # None => h.rv <= rls.rv /\ h.rv <= seen.rv
    BY <1>0, <1>1, <1>a DEF HelmInv, HelmOK
  <2>2. h # None /\ seen.state \in Early => h.version = 1
    BY <1>0, <1>1, <1>a DEF HelmInv, HelmOK, SeenOK
  <2>3. rls.state \in Ready /\ seen.state \in {"upgrading", "failed"} => seen.version = rls.deployed
    BY <1>0 DEF HelmInv, HelmOK
  <2> QED BY <1>0, <2>1, <2>2, <2>3 DEF HelmOK
<1>6. ClusterOK' /\ NothingLeft' /\ VersionDeployed'
  <2>1. ASSUME rls.state \in Ready, cluster # "gone" PROVE h # None /\ h.version = rls.deployed
    <3>1. helm # None /\ helm.version = rls.deployed
      BY <1>0, <2>1 DEF HelmInv, VersionDeployed
    <3>2. CASE h = helm
      BY <3>1, <3>2
    <3>3. CASE h # helm
      BY <1>0, <1>a, <1>b, <2>1, <3>1, <3>3 DEF ToUpgrade, HelmInv, HelmOK
    <3> QED BY <3>2, <3>3
  <2> QED BY <1>0, <2>1 DEF HelmInv, ClusterOK, NothingLeft, VersionDeployed
<1> QED BY <1>2, <1>3, <1>4, <1>5, <1>6 DEF HelmInv

-----------------------------------------------------------------------------
(* The application API, the caches, the cluster and the garbage collector  *)

\* The object is created; nobody has seen it and helm has nothing of it.
LEMMA CreateApplicationInv == HelmInv /\ CreateApplication => HelmInv'
<1> SUFFICES ASSUME HelmInv, CreateApplication PROVE HelmInv'
  OBVIOUS
<1> USE DEF objects, worker, bounds, CreateApplication, Edit
<1>0. /\ rls' \in Release /\ rls' # None /\ rls'.rv = 1 /\ rls'.version = 1
      /\ rls'.state = "new" /\ ~rls'.deleting
  BY Real DEF Release
<1>1. /\ edits' \in Nat /\ edits' # 0
      /\ rls = None /\ listed' = None /\ seen' = None /\ helm' = None /\ pc' = "idle"
      /\ ClusterOK'
  BY DEF HelmInv, HelmTypeOK, SeenOK, ClusterOK
<1>2. HelmTypeOK'
  BY <1>0, <1>1 DEF HelmInv, HelmTypeOK
<1> HIDE DEF CreateApplication
<1>3. SeenOK' /\ ListedOK' /\ HelmOK' /\ ClusterOK' /\ NothingLeft' /\ VersionDeployed'
  BY <1>0, <1>1 DEF SeenOK, ListedOK, HelmOK, NothingLeft, VersionDeployed
<1>4. WorkerOK'
  BY <1>1 DEF WorkerOK
<1> QED BY <1>2, <1>3, <1>4 DEF HelmInv

\* A release that has been created, whatever has become of it since, gets
\* another version and chart.
LEMMA UpgradeApplicationInv == HelmInv /\ UpgradeApplication => HelmInv'
<1> SUFFICES ASSUME HelmInv, UpgradeApplication PROVE HelmInv'
  OBVIOUS
<1> USE DEF objects, worker, bounds
<1>0. /\ rls \in Release /\ rls # None /\ listed \in Listing /\ listed # None
      /\ listed.state \notin Early /\ edits \in Nat /\ edits' = edits + 1
      /\ rls' = [rls EXCEPT !.rv = @ + 1, !.version = listed.version + 1, !.chart = edits + 1]
      /\ UNCHANGED <<listed, seen, worker, helm, clusters, faults>>
  BY DEF HelmInv, HelmTypeOK, UpgradeApplication, Edit
<1>1. /\ rls' \in Release /\ rls' # None /\ rls.rv \in Nat /\ rls'.rv = rls.rv + 1
      /\ rls'.state = rls.state /\ rls'.deployed = rls.deployed
      /\ rls'.finalizer = rls.finalizer /\ rls'.deleting = rls.deleting
  <2>1. rls.rv \in Nat /\ listed.version + 1 \in Nat /\ edits + 1 \in Nat
    BY <1>0 DEF Release, Listing
  <2> DEFINE n == rls.rv + 1 v == listed.version + 1 c == edits + 1
  <2>2. rls' = [rls EXCEPT !.rv = n, !.version = v, !.chart = c]
    BY <1>0
  <2>3. n \in Nat /\ v \in Nat /\ c \in Nat
    BY <2>1
  <2> HIDE DEF n, v, c
  <2>4. /\ rls' \in Release /\ rls'.rv = n /\ rls'.state = rls.state /\ rls'.deployed = rls.deployed
        /\ rls'.finalizer = rls.finalizer /\ rls'.deleting = rls.deleting
    <3>1. rls \in Release
      BY <1>0
    <3> QED BY ONLY <3>1, <2>2, <2>3 DEF Release, States
  <2> QED BY <2>1, <2>4, Real DEF n
<1>2. rls.state \notin Early
  BY <1>0 DEF HelmInv, ListedOK
<1>3. UNCHANGED <<listed, seen, worker, helm, clusters, faults>> /\ edits' \in Nat /\ edits' # 0
  BY <1>0
<1>4. /\ seen # None => seen \in Release /\ seen.rv \in Nat
      /\ copy # None => copy \in Release /\ copy.rv \in Nat
      /\ helm # None => helm.rv \in Nat
  BY DEF HelmInv, HelmTypeOK, Release, Deployment
<1>5. HelmTypeOK'
  BY <1>1, <1>3 DEF HelmInv, HelmTypeOK
<1>6. SeenOK' /\ ListedOK'
  BY <1>0, <1>1, <1>2, <1>3, <1>4 DEF HelmInv, SeenOK, ListedOK
<1>7. WorkerOK'
  BY <1>0, <1>1, <1>3, <1>4 DEF HelmInv, WorkerOK, SeenOK
<1>8. HelmOK' /\ ClusterOK' /\ NothingLeft' /\ VersionDeployed'
  BY <1>0, <1>1, <1>3, <1>4 DEF HelmInv, HelmOK, ClusterOK, NothingLeft, VersionDeployed
<1> QED BY <1>5, <1>6, <1>7, <1>8 DEF HelmInv

\* Only the resourceVersion changes.
LEMMA ModifyApplicationInv == HelmInv /\ ModifyApplication => HelmInv'
<1> SUFFICES ASSUME HelmInv, ModifyApplication PROVE HelmInv'
  OBVIOUS
<1> USE DEF objects, worker, bounds, ModifyApplication, Edit
<1>1. HelmTypeOK'
  BY DEF HelmInv, HelmTypeOK, Release, Deployment
<1>2. SeenOK'
  BY Real DEF HelmInv, HelmTypeOK, SeenOK, WorkerOK, Release
<1>3. ListedOK'
  BY Real DEF HelmInv, HelmTypeOK, SeenOK, ListedOK, Release
<1>4. WorkerOK'
  BY Real DEF HelmInv, HelmTypeOK, SeenOK, WorkerOK, HelmOK, Release
<1>5. HelmOK'
  BY Real DEF HelmInv, HelmTypeOK, SeenOK, HelmOK, Release, Deployment
<1>6. ClusterOK' /\ NothingLeft' /\ VersionDeployed'
  BY Real DEF HelmInv, HelmTypeOK, SeenOK, HelmOK, ClusterOK, NothingLeft, VersionDeployed, Release
<1> QED BY <1>1, <1>2, <1>3, <1>4, <1>5, <1>6 DEF HelmInv

\* The object is deleted: it goes at once if it has no finalizer, and then
\* helm has nothing of it.
LEMMA DeletedInv ==
  ASSUME HelmInv, rls # None, ~rls.deleting, rls' = Deleted(rls), queued' \in BOOLEAN,
         UNCHANGED <<listed, seen, pc, copy, outcome, helm, clusters, bounds>>
  PROVE  HelmInv'
<1> USE DEF bounds
<1>0. rls \in Release /\ rls.rv \in Nat
  BY DEF HelmInv, HelmTypeOK, Release
<1>1. CASE rls.finalizer
  <2>1. /\ rls' \in Release /\ rls' # None /\ rls'.rv = rls.rv + 1 /\ rls'.version = rls.version
        /\ rls'.state = rls.state /\ rls'.deployed = rls.deployed
        /\ rls'.finalizer /\ rls'.deleting
    <3> DEFINE n == rls.rv + 1
    <3>1. rls' = [rls EXCEPT !.rv = n, !.deleting = TRUE] /\ n \in Nat
      BY <1>0, <1>1 DEF Deleted
    <3> HIDE DEF n
    <3>2. /\ rls' \in Release /\ rls'.rv = n /\ rls'.version = rls.version
          /\ rls'.state = rls.state /\ rls'.deployed = rls.deployed
          /\ rls'.finalizer = rls.finalizer /\ rls'.deleting
      <4>1. rls \in Release
        BY <1>0
      <4> QED BY ONLY <4>1, <3>1 DEF Release, States
    <3> QED BY <1>1, <3>2, Real DEF n
  <2>2. /\ seen # None => seen \in Release /\ seen.rv \in Nat
        /\ copy # None => copy \in Release /\ copy.rv \in Nat
        /\ helm # None => helm.rv \in Nat
    BY DEF HelmInv, HelmTypeOK, Release, Deployment
  <2>3. HelmTypeOK'
    BY <2>1 DEF HelmInv, HelmTypeOK
  <2>4. SeenOK' /\ ListedOK'
    BY <1>0, <1>1, <2>1, <2>2 DEF HelmInv, SeenOK, ListedOK
  <2>5. WorkerOK'
    BY <1>0, <2>1, <2>2 DEF HelmInv, WorkerOK, SeenOK
  <2>6. HelmOK' /\ ClusterOK' /\ NothingLeft' /\ VersionDeployed'
    BY <1>0, <1>1, <2>1, <2>2 DEF HelmInv, HelmOK, ClusterOK, NothingLeft, VersionDeployed
  <2> QED BY <2>3, <2>4, <2>5, <2>6 DEF HelmInv
<1>2. CASE ~rls.finalizer
  <2>1. rls' = None
    BY <1>2 DEF Deleted
  <2>2. helm # None => cluster # "there" \/ skipped
    BY <1>2 DEF HelmInv, HelmOK
  <2>3. seen # None => ~(seen.finalizer /\ ~seen.deleting)
    BY <1>2 DEF HelmInv, SeenOK
  <2>4. HelmTypeOK'
    BY <2>1 DEF HelmInv, HelmTypeOK
  <2>5. SeenOK' /\ ListedOK'
    BY <2>1, <2>3 DEF HelmInv, SeenOK, ListedOK
  <2>6. WorkerOK'
    BY <2>1 DEF HelmInv, WorkerOK
  <2>7. HelmOK' /\ ClusterOK' /\ NothingLeft' /\ VersionDeployed'
    BY <2>1, <2>2 DEF HelmInv, HelmOK, ClusterOK, NothingLeft, VersionDeployed
  <2> QED BY <2>4, <2>5, <2>6, <2>7 DEF HelmInv
<1> QED BY <1>1, <1>2

\* By a user or by the garbage collector.
LEMMA DeleteApplicationInv == HelmInv /\ (DeleteApplication \/ CollectRelease) => HelmInv'
<1>1. HelmInv => queued \in BOOLEAN
  BY Zenon DEF HelmInv, HelmTypeOK
<1>2. DeleteApplication \/ CollectRelease =>
        /\ rls # None /\ ~rls.deleting /\ rls' = Deleted(rls) /\ queued' = queued
        /\ UNCHANGED <<listed, seen, pc, copy, outcome, helm, clusters, bounds>>
  BY DEF DeleteApplication, CollectRelease, worker
<1> QED BY <1>1, <1>2, DeletedInv

\* The lister has another earlier state of the object.
LEMMA UpdateListerInv == HelmInv /\ UpdateLister => HelmInv'
<1> SUFFICES ASSUME HelmInv, UpdateLister PROVE HelmInv'
  OBVIOUS
<1> USE DEF objects, worker, bounds, UpdateLister
<1>0. /\ rls = None => listed' = None
      /\ rls # None => listed' \in Listing /\ listed'.state = rls.state
  BY DEF ListingOf, Listing, Release, HelmInv, HelmTypeOK
<1>1. HelmTypeOK'
  BY <1>0 DEF HelmInv, HelmTypeOK
<1>2. SeenOK'
  BY <1>0 DEF HelmInv, SeenOK
<1>3. ListedOK'
  BY <1>0 DEF ListedOK
<1>4. WorkerOK' /\ HelmOK' /\ ClusterOK' /\ NothingLeft' /\ VersionDeployed'
  BY DEF HelmInv, WorkerOK, HelmOK, ClusterOK, NothingLeft, VersionDeployed
<1> QED BY <1>1, <1>2, <1>3, <1>4 DEF HelmInv

\* What the controller now knows is the object itself.
LEMMA DeliverInv == HelmInv /\ Deliver => HelmInv'
<1> SUFFICES ASSUME HelmInv, Deliver PROVE HelmInv'
  OBVIOUS
<1> USE DEF objects, worker, bounds, Deliver
<1>1. HelmTypeOK'
  BY DEF HelmInv, HelmTypeOK, Release, Deployment
<1>2. SeenOK'
  BY Real DEF HelmInv, HelmTypeOK, SeenOK, WorkerOK, Release
<1>3. ListedOK'
  BY Real DEF HelmInv, HelmTypeOK, SeenOK, ListedOK, Release
<1>4. WorkerOK'
  BY Real DEF HelmInv, HelmTypeOK, SeenOK, WorkerOK, HelmOK, Release
<1>5. HelmOK'
  BY Real DEF HelmInv, HelmTypeOK, SeenOK, HelmOK, Release, Deployment
<1>6. ClusterOK' /\ NothingLeft' /\ VersionDeployed'
  BY Real DEF HelmInv, HelmTypeOK, SeenOK, HelmOK, ClusterOK, NothingLeft, VersionDeployed, Release
<1> QED BY <1>1, <1>2, <1>3, <1>4, <1>5, <1>6 DEF HelmInv

\* Nothing but the cluster changes.
LEMMA DeleteClusterInv == HelmInv /\ DeleteCluster => HelmInv'
<1> SUFFICES ASSUME HelmInv, DeleteCluster PROVE HelmInv'
  OBVIOUS
<1> USE DEF objects, worker, bounds, DeleteCluster
<1>1. HelmTypeOK'
  BY DEF HelmInv, HelmTypeOK, Release, Deployment
<1>2. SeenOK'
  BY Real DEF HelmInv, HelmTypeOK, SeenOK, WorkerOK, Release
<1>3. ListedOK'
  BY Real DEF HelmInv, HelmTypeOK, SeenOK, ListedOK, Release
<1>4. WorkerOK'
  BY Real DEF HelmInv, HelmTypeOK, SeenOK, WorkerOK, HelmOK, Release
<1>5. HelmOK'
  BY Real DEF HelmInv, HelmTypeOK, SeenOK, HelmOK, Release, Deployment
<1>6. ClusterOK' /\ NothingLeft' /\ VersionDeployed'
  BY Real DEF HelmInv, HelmTypeOK, SeenOK, HelmOK, ClusterOK, NothingLeft, VersionDeployed, Release
<1> QED BY <1>1, <1>2, <1>3, <1>4, <1>5, <1>6 DEF HelmInv

\* With the cluster goes what helm has stored there.
LEMMA ClusterGoneInv == HelmInv /\ ClusterGone => HelmInv'
<1> SUFFICES ASSUME HelmInv, ClusterGone PROVE HelmInv'
  OBVIOUS
<1> USE DEF objects, worker, bounds, ClusterGone
<1>1. HelmTypeOK'
  BY DEF HelmInv, HelmTypeOK, Release, Deployment
<1>2. SeenOK'
  BY Real DEF HelmInv, HelmTypeOK, SeenOK, WorkerOK, Release
<1>3. ListedOK'
  BY Real DEF HelmInv, HelmTypeOK, SeenOK, ListedOK, Release
<1>4. WorkerOK'
  BY Real DEF HelmInv, HelmTypeOK, SeenOK, WorkerOK, HelmOK, Release
<1>5. HelmOK'
  BY Real DEF HelmInv, HelmTypeOK, SeenOK, HelmOK, Release, Deployment
<1>6. ClusterOK' /\ NothingLeft' /\ VersionDeployed'
  BY Real DEF HelmInv, HelmTypeOK, SeenOK, HelmOK, ClusterOK, NothingLeft, VersionDeployed, Release
<1> QED BY <1>1, <1>2, <1>3, <1>4, <1>5, <1>6 DEF HelmInv

\* The lister knows what has become of the cluster.
LEMMA ListClusterInv == HelmInv /\ ListCluster => HelmInv'
<1> SUFFICES ASSUME HelmInv, ListCluster PROVE HelmInv'
  OBVIOUS
<1> USE DEF objects, worker, bounds, ListCluster
<1>1. HelmTypeOK'
  BY DEF HelmInv, HelmTypeOK
<1>2. SeenOK' /\ ListedOK'
  BY DEF HelmInv, SeenOK, ListedOK
<1>3. WorkerOK' /\ HelmOK' /\ ClusterOK' /\ NothingLeft' /\ VersionDeployed'
  BY DEF HelmInv, WorkerOK, HelmOK, ClusterOK, NothingLeft, VersionDeployed
<1> QED BY <1>1, <1>2, <1>3 DEF HelmInv

\* Reconcile is cut off wherever it was; its copy is dropped.
LEMMA RestartInv == HelmInv /\ Restart => HelmInv'
<1> SUFFICES ASSUME HelmInv, Restart PROVE HelmInv'
  OBVIOUS
<1> USE DEF objects, worker, bounds, Restart, Fault, Return
<1>1. HelmTypeOK'
  BY DEF HelmInv, HelmTypeOK, Release, Deployment
<1>2. SeenOK'
  BY Real DEF HelmInv, HelmTypeOK, SeenOK, WorkerOK, Release
<1>3. ListedOK'
  BY Real DEF HelmInv, HelmTypeOK, SeenOK, ListedOK, Release
<1>4. WorkerOK'
  BY Real DEF HelmInv, HelmTypeOK, SeenOK, WorkerOK, HelmOK, Release
<1>5. HelmOK'
  BY Real DEF HelmInv, HelmTypeOK, SeenOK, HelmOK, Release, Deployment
<1>6. ClusterOK' /\ NothingLeft' /\ VersionDeployed'
  BY Real DEF HelmInv, HelmTypeOK, SeenOK, HelmOK, ClusterOK, NothingLeft, VersionDeployed, Release
<1> QED BY <1>1, <1>2, <1>3, <1>4, <1>5, <1>6 DEF HelmInv

-----------------------------------------------------------------------------
(* Reconcile                                                               *)

\* What a request taken up knows of the object.
LEMMA Taken ==
  ASSUME HelmInv, seen # None
  PROVE  /\ seen \in Release
         /\ Current(seen) => rls = seen /\ rls.rv + 1 \in Nat
BY DEF HelmInv, HelmTypeOK, SeenOK, Current, Release

\* A step that writes another state.
LEMMA WriteStateInv ==
  ASSUME HelmInv, pc = "idle", seen # None, NEW s \in States, NEW q \in BOOLEAN,
         s # "deleting", seen.state # "deleting",
         seen.state \notin Early => s \notin Early,
         s \in Ready => seen.state \in Ready,
         Write([seen EXCEPT !.state = s], q),
         UNCHANGED <<listed, seen, pc, copy, outcome, helm, clusters, bounds>>
  PROVE  HelmInv'
<1> DEFINE r == [seen EXCEPT !.state = s]
<1>0. seen \in Release /\ r.rv = seen.rv
  BY Taken DEF Release
<1>1. CASE Current(r) /\ rls' = [r EXCEPT !.rv = rls.rv + 1] /\ queued' = q
  <2> DEFINE n == rls.rv + 1
  <2>1. rls = seen /\ n \in Nat
    BY <1>0, <1>1, Taken DEF Current
  <2>2. rls' = [[seen EXCEPT !.state = s] EXCEPT !.rv = n]
    BY <1>1
  <2> HIDE DEF n
  <2>3. /\ rls' \in Release /\ rls'.rv = n /\ rls'.version = seen.version /\ rls'.state = s
        /\ rls'.deployed = seen.deployed /\ rls'.finalizer = seen.finalizer
        /\ rls'.deleting = seen.deleting
    BY <1>0, <2>1, <2>2 DEF Release
  <2> QED BY <1>1, <2>1, <2>3, PutInv DEF n
<1>2. CASE ~Current(r) /\ queued' = TRUE /\ UNCHANGED rls
  BY <1>2, SameInv DEF objects, bounds, HelmInv, HelmTypeOK
<1> QED BY <1>1, <1>2 DEF Write

LEMMA RestInv == HelmInv /\ (Rest \/ NoChart) => HelmInv'
<1>1. HelmInv /\ Rest => HelmInv'
  BY SameInv DEF Rest, bounds, HelmInv, HelmTypeOK
<1>2. HelmInv /\ NoChart => HelmInv'
  <2> SUFFICES ASSUME HelmInv, NoChart PROVE HelmInv'
    OBVIOUS
  <2>1. faults' \in Nat
    BY DEF NoChart, Fault, HelmInv, HelmTypeOK
  <2>2. queued' \in BOOLEAN /\ UNCHANGED <<objects, pc, copy, outcome, helm, clusters, edits>>
    BY DEF NoChart
  <2> QED BY <2>1, <2>2, SameInv
<1> QED BY <1>1, <1>2

LEMMA StartCreatingInv == HelmInv /\ StartCreating => HelmInv'
BY WriteStateInv DEF StartCreating

LEMMA MarkUpgradingInv == HelmInv /\ MarkUpgrading => HelmInv'
BY WriteStateInv DEF MarkUpgrading, Managed

LEMMA AddFinalizerInv == HelmInv /\ AddFinalizer => HelmInv'
<1> SUFFICES ASSUME HelmInv, AddFinalizer PROVE HelmInv'
  OBVIOUS
<1> DEFINE r == [seen EXCEPT !.finalizer = TRUE]
<1>0. /\ pc = "idle" /\ seen # None /\ seen \in Release /\ r.rv = seen.rv
      /\ UNCHANGED <<listed, seen, pc, copy, outcome, helm, clusters, bounds>>
  BY Taken DEF AddFinalizer, Release
<1>1. CASE Current(r) /\ rls' = [r EXCEPT !.rv = rls.rv + 1] /\ queued' = FALSE
  <2> DEFINE n == rls.rv + 1
  <2>1. rls = seen /\ n \in Nat
    BY <1>0, <1>1, Taken DEF Current
  <2>2. rls' = [[seen EXCEPT !.finalizer = TRUE] EXCEPT !.rv = n]
    BY <1>1
  <2> HIDE DEF n
  <2>3. /\ rls' \in Release /\ rls'.rv = n /\ rls'.version = seen.version
        /\ rls'.state = seen.state /\ rls'.deployed = seen.deployed /\ rls'.finalizer
        /\ rls'.deleting = seen.deleting
    BY <1>0, <2>1, <2>2 DEF Release
  <2> QED BY <1>0, <1>1, <2>1, <2>3, PutInv DEF n
<1>2. CASE queued' = TRUE /\ UNCHANGED rls
  BY <1>0, <1>2, SameInv DEF objects, bounds, HelmInv, HelmTypeOK
<1>3. CASE rls # None /\ rls' = (IF rls.deleting THEN rls ELSE Deleted(rls)) /\ queued' = FALSE
  <2>1. CASE rls.deleting
    BY <1>0, <1>3, <2>1, SameInv DEF objects, bounds, HelmInv, HelmTypeOK
  <2>2. CASE ~rls.deleting
    BY <1>0, <1>3, <2>2, DeletedInv
  <2> QED BY <2>1, <2>2
<1> QED BY <1>1, <1>2, <1>3 DEF AddFinalizer, Write

LEMMA CheckReleaseInv == HelmInv /\ CheckRelease => HelmInv'
<1> SUFFICES ASSUME HelmInv, CheckRelease PROVE HelmInv'
  OBVIOUS
<1>0. /\ pc = "idle" /\ seen # None /\ seen.state \in {"created", "upgraded"} /\ seen \in Release
      /\ UNCHANGED <<listed, seen, pc, copy, outcome, helm, clusters, bounds>>
  BY Taken DEF CheckRelease, Managed
<1>1. CASE queued' \in BOOLEAN /\ UNCHANGED rls
  BY <1>0, <1>1, SameInv DEF objects, bounds, HelmInv, HelmTypeOK
<1>2. CASE Write([seen EXCEPT !.state = "active"], FALSE)
  BY <1>0, <1>2, WriteStateInv
<1>3. CASE Write(seen, TRUE)
  <2>1. seen = [seen EXCEPT !.state = seen.state] /\ seen.state \in States
    BY <1>0 DEF Release
  <2>2. Write([seen EXCEPT !.state = seen.state], TRUE)
    BY <1>3, <2>1
  <2> QED BY <1>0, <2>1, <2>2, WriteStateInv
<1> QED BY <1>1, <1>2, <1>3 DEF CheckRelease

LEMMA InstallInv == HelmInv /\ Install => HelmInv'
<1> SUFFICES ASSUME HelmInv, Install PROVE HelmInv'
  OBVIOUS
<1> USE DEF Install
<1>0. /\ Managed /\ seen.state = "creating" /\ UNCHANGED <<objects, clusters, bounds>>
      /\ seen \in Release /\ \A b \in BOOLEAN : DeploymentOf(seen, b) # None
      /\ DeploymentOf(seen, TRUE).version = seen.version
  BY Taken, Real DEF Managed, DeploymentOf, Deployment, Release
<1>1. CASE helm = None /\ helm' = DeploymentOf(seen, TRUE) /\ Outcome("created")
  BY <1>0, <1>1, HelmCallInv
<1>2. CASE helm = None /\ helm' \in {None, DeploymentOf(seen, FALSE)} /\ Outcome("failed")
  BY <1>0, <1>2, HelmCallInv
<1>3. CASE helm # None /\ helm.ok /\ UNCHANGED helm /\ Outcome("created")
  <2>1. helm.version = seen.version
    BY <1>0, <1>3 DEF HelmInv, HelmOK, SeenOK, Managed
  <2> QED BY <1>0, <1>3, <2>1, HelmCallInv
<1>4. CASE helm # None /\ UNCHANGED helm /\ Outcome("failed")
  BY <1>0, <1>4, HelmCallInv
<1> QED BY <1>1, <1>2, <1>3, <1>4

LEMMA UpgradeInv == HelmInv /\ Upgrade => HelmInv'
<1> SUFFICES ASSUME HelmInv, Upgrade PROVE HelmInv'
  OBVIOUS
<1> USE DEF Upgrade
<1>0. /\ Managed /\ ToUpgrade /\ UNCHANGED <<objects, clusters, bounds>>
      /\ seen \in Release /\ \A b \in BOOLEAN : DeploymentOf(seen, b) # None
      /\ DeploymentOf(seen, TRUE).version = seen.version
  BY Taken, Real DEF Managed, DeploymentOf, Deployment, Release
<1>1. CASE helm # None /\ helm.ok /\ helm' = DeploymentOf(seen, TRUE) /\ Outcome("upgraded")
  BY <1>0, <1>1, HelmCallInv
<1>2. CASE /\ helm' \in {helm} \cup (IF helm # None /\ helm.ok THEN {DeploymentOf(seen, FALSE)}
                                                             ELSE {})
           /\ Outcome("failed")
  <2>1. helm' \in {helm, DeploymentOf(seen, FALSE)}
    BY <1>2
  <2> QED BY <1>0, <1>2, <2>1, HelmCallInv
<1> QED BY <1>1, <1>2

\* The copy that is written back is the one in the cache, so that what has been
\* deployed for it is still what helm has.
LEMMA UpdateStatusInv == HelmInv /\ UpdateStatus => HelmInv'
<1> SUFFICES ASSUME HelmInv, UpdateStatus PROVE HelmInv'
  OBVIOUS
<1> DEFINE u == Updated(copy, outcome)
<1>0. /\ pc = "status" /\ Write(u, queued) /\ Return
      /\ UNCHANGED <<listed, seen, helm, clusters, bounds>>
  BY DEF UpdateStatus
<1>1. copy \in Release /\ copy # None /\ u.rv = copy.rv /\ queued \in BOOLEAN
  <2>1. copy \in Release /\ copy # None
    BY <1>0 DEF HelmInv, HelmTypeOK, WorkerOK
  <2>2. queued \in BOOLEAN
    BY Zenon DEF HelmInv, HelmTypeOK
  <2> QED BY <2>1, <2>2 DEF Updated, Release
<1>2. CASE ~Current(u) /\ queued' = TRUE /\ UNCHANGED rls
  BY <1>0, <1>2, ReturnInv DEF objects, bounds, HelmInv, HelmTypeOK
<1>3. CASE Current(u) /\ rls' = [u EXCEPT !.rv = rls.rv + 1] /\ queued' = queued
  <2> DEFINE n == rls.rv + 1
  <2>1. /\ rls # None /\ rls = copy /\ rls \in Release /\ rls.rv \in Nat /\ n \in Nat
    BY <1>0, <1>1, <1>3 DEF Current, HelmInv, WorkerOK, Release
  <2>2. /\ seen # None /\ seen = rls
    BY <1>0, <2>1 DEF HelmInv, HelmTypeOK, SeenOK, WorkerOK, Release
  <2>3. /\ outcome \in {"created", "upgraded", "failed"} /\ ~rls.deleting
        /\ outcome = "created" => rls.state = "creating"
        /\ outcome = "upgraded" => rls.state \in {"upgrading", "failed"}
        /\ outcome # "failed" /\ cluster # "gone" => helm # None /\ helm.version = rls.version
    BY <1>0, <2>1 DEF HelmInv, WorkerOK
  <2>4. rls' = [[rls EXCEPT !.state = outcome,
                            !.deployed = IF outcome = "failed" THEN @ ELSE rls.version]
                  EXCEPT !.rv = n]
    BY <1>3, <2>1, <2>3 DEF Updated
  <2> HIDE DEF n, u
  <2>5. /\ rls' \in Release /\ rls'.rv = n /\ rls'.version = rls.version /\ rls'.state = outcome
        /\ rls'.finalizer = rls.finalizer /\ ~rls'.deleting
        /\ outcome # "failed" => rls'.deployed = rls.version
    BY <2>1, <2>3, <2>4 DEF Release
  <2>6. rls' # None /\ pc' = "idle" /\ copy' = None /\ outcome' = "none"
        /\ UNCHANGED <<listed, seen, helm, clusters, edits, faults>>
    BY <1>0, <2>5, Real DEF Return, bounds
  <2>7. HelmTypeOK'
    BY <1>1, <1>3, <2>5, <2>6 DEF HelmInv, HelmTypeOK
  <2>8. rls'.rv > rls.rv
    BY <2>1, <2>5 DEF n
  <2>9. SeenOK' /\ ListedOK' /\ WorkerOK'
    BY <2>1, <2>2, <2>3, <2>5, <2>6, <2>8 DEF HelmInv, SeenOK, ListedOK, WorkerOK
  <2>10. HelmOK'
    <3>1. helm # None => helm.rv \in Nat
      BY DEF HelmInv, HelmTypeOK, Deployment
    <3> QED BY <2>1, <2>2, <2>3, <2>5, <2>6, <2>8, <3>1 DEF HelmInv, HelmOK, n
  <2>11. ClusterOK' /\ NothingLeft' /\ VersionDeployed'
    BY <2>3, <2>5, <2>6 DEF HelmInv, ClusterOK, NothingLeft, VersionDeployed
  <2> QED BY <2>7, <2>9, <2>10, <2>11 DEF HelmInv
<1> QED BY <1>0, <1>2, <1>3 DEF Write

-----------------------------------------------------------------------------
(* Deletion                                                                *)

LEMMA StartUninstallInv == HelmInv /\ StartUninstall => HelmInv'
<1> SUFFICES ASSUME HelmInv, StartUninstall PROVE HelmInv'
  OBVIOUS
<1>0. /\ pc = "idle" /\ seen # None /\ seen.deleting /\ seen.finalizer /\ seen \in Release
      /\ UNCHANGED <<listed, seen, outcome, helm, clusters, edits, faults>>
  BY Taken DEF StartUninstall, bounds
<1>1. CASE ~Current(seen) /\ queued' = TRUE /\ UNCHANGED <<rls, copy, pc>>
  BY <1>0, <1>1, SameInv DEF objects, HelmInv, HelmTypeOK
<1>2. CASE /\ seen.state = "deleting" /\ copy' = seen /\ pc' = "uninstall"
           /\ queued' = FALSE /\ UNCHANGED rls
  <2>1. HelmTypeOK'
    BY <1>0, <1>2 DEF HelmInv, HelmTypeOK
  <2>2. SeenOK' /\ ListedOK'
    BY <1>0, <1>2 DEF HelmInv, SeenOK, ListedOK
  <2>3. WorkerOK'
    BY <1>0, <1>2 DEF HelmInv, SeenOK, WorkerOK
  <2>4. HelmOK' /\ ClusterOK' /\ NothingLeft' /\ VersionDeployed'
    BY <1>0, <1>2 DEF HelmInv, HelmOK, ClusterOK, NothingLeft, VersionDeployed
  <2> QED BY <2>1, <2>2, <2>3, <2>4 DEF HelmInv
<1>3. CASE /\ seen.state # "deleting" /\ Current(seen)
           /\ rls' = [seen EXCEPT !.state = "deleting", !.rv = rls.rv + 1]
           /\ copy' = rls' /\ pc' = "uninstall" /\ queued' = FALSE
  <2> DEFINE n == rls.rv + 1
  <2>1. rls = seen /\ n \in Nat /\ rls.rv \in Nat
    BY <1>0, <1>3, Taken DEF Release
  <2>2. rls' = [seen EXCEPT !.state = "deleting", !.rv = n]
    BY <1>3
  <2> HIDE DEF n
  <2>3. /\ rls' \in Release /\ rls'.rv = n /\ rls'.version = seen.version
        /\ rls'.state = "deleting" /\ rls'.finalizer = seen.finalizer /\ rls'.deleting
    BY <1>0, <2>1, <2>2 DEF Release
  <2>4. rls' # None /\ rls'.rv > rls.rv
    BY <2>1, <2>3, Real DEF n
  <2>5. copy' = rls' /\ pc' = "uninstall" /\ queued' = FALSE
    BY <1>3
  <2>6. HelmTypeOK'
    BY <1>0, <2>3, <2>5 DEF HelmInv, HelmTypeOK
  <2>7. SeenOK' /\ ListedOK' /\ WorkerOK'
    BY <1>0, <2>1, <2>3, <2>4, <2>5 DEF HelmInv, SeenOK, ListedOK, WorkerOK
  <2>8. HelmOK'
    <3>1. helm # None => helm.rv \in Nat
      BY DEF HelmInv, HelmTypeOK, Deployment
    <3> QED BY <1>0, <2>1, <2>3, <2>4, <3>1 DEF HelmInv, HelmOK, n
  <2>9. ClusterOK' /\ NothingLeft' /\ VersionDeployed'
    BY <1>0, <2>3, <2>4 DEF HelmInv, ClusterOK, NothingLeft, VersionDeployed
  <2> QED BY <2>6, <2>7, <2>8, <2>9 DEF HelmInv
<1> QED BY <1>1, <1>2, <1>3 DEF StartUninstall

LEMMA UninstallInv == HelmInv /\ Uninstall => HelmInv'
<1> SUFFICES ASSUME HelmInv, Uninstall PROVE HelmInv'
  OBVIOUS
<1> USE DEF objects, bounds
<1>0. /\ pc = "uninstall" /\ pc' = "finalizer" /\ helm' \in {helm, None}
      /\ cluster = "there" /\ ~skipped' => helm' = None
      /\ skipped' \in BOOLEAN
      /\ UNCHANGED <<objects, queued, copy, outcome, cluster, known, bounds>>
  BY DEF Uninstall, HelmInv, HelmTypeOK, ClusterOK
<1>1. HelmTypeOK'
  BY <1>0 DEF HelmInv, HelmTypeOK
<1>2. SeenOK' /\ ListedOK'
  BY <1>0 DEF HelmInv, SeenOK, ListedOK
<1>3. WorkerOK'
  BY <1>0 DEF HelmInv, WorkerOK
<1>4. HelmOK' /\ ClusterOK' /\ NothingLeft'
  BY <1>0 DEF HelmInv, HelmOK, ClusterOK, NothingLeft
<1>5. VersionDeployed'
  BY <1>0 DEF HelmInv, WorkerOK, VersionDeployed
<1> QED BY <1>1, <1>2, <1>3, <1>4, <1>5 DEF HelmInv

LEMMA UninstallFailsInv == HelmInv /\ UninstallFails => HelmInv'
<1> SUFFICES ASSUME HelmInv, UninstallFails PROVE HelmInv'
  OBVIOUS
<1> USE DEF objects
<1>0. Return /\ queued' = TRUE /\ faults' \in Nat /\ UNCHANGED <<objects, clusters, edits>>
  BY DEF UninstallFails, Fault, HelmInv, HelmTypeOK
<1>1. CASE UNCHANGED helm
  BY <1>0, <1>1, ReturnInv
<1>2. CASE helm # None /\ helm' = [helm EXCEPT !.ok = FALSE]
  <2>1. /\ helm' \in Deployment /\ helm' # None
        /\ helm'.rv = helm.rv /\ helm'.version = helm.version
    BY <1>2, Real DEF Deployment, HelmInv, HelmTypeOK
  <2>2. HelmTypeOK'
    BY <1>0, <2>1 DEF HelmInv, HelmTypeOK, Return
  <2>3. SeenOK' /\ ListedOK' /\ WorkerOK'
    BY <1>0, <1>2, <2>1 DEF HelmInv, SeenOK, ListedOK, WorkerOK, Return
  <2>4. HelmOK' /\ ClusterOK' /\ NothingLeft' /\ VersionDeployed'
    BY <1>0, <1>2, <2>1 DEF HelmInv, HelmOK, ClusterOK, NothingLeft, VersionDeployed
  <2> QED BY <2>2, <2>3, <2>4 DEF HelmInv
<1> QED BY <1>1, <1>2 DEF UninstallFails

LEMMA RemoveFinalizerInv == HelmInv /\ RemoveFinalizer => HelmInv'
<1> SUFFICES ASSUME HelmInv, RemoveFinalizer PROVE HelmInv'
  OBVIOUS
<1> USE DEF bounds
<1>0. pc = "finalizer" /\ Return /\ UNCHANGED <<listed, seen, helm, clusters, bounds>>
  BY DEF RemoveFinalizer
<1>1. CASE ~Current(copy) /\ queued' = TRUE /\ UNCHANGED rls
  BY <1>0, <1>1, ReturnInv DEF objects, HelmInv, HelmTypeOK
<1>2. CASE Current(copy) /\ rls' = None /\ UNCHANGED queued
  <2>1. /\ pc' = "idle" /\ copy' = None /\ outcome' = "none"
        /\ cluster = "there" /\ ~skipped => helm = None
        /\ seen # None => seen.deleting
    BY <1>0 DEF Return, HelmInv, WorkerOK
  <2>2. HelmTypeOK'
    BY <1>0, <1>2, <2>1 DEF HelmInv, HelmTypeOK
  <2>3. SeenOK' /\ ListedOK' /\ WorkerOK'
    BY <1>0, <1>2, <2>1 DEF HelmInv, SeenOK, ListedOK, WorkerOK
  <2>4. HelmOK' /\ ClusterOK' /\ NothingLeft' /\ VersionDeployed'
    BY <1>0, <1>2, <2>1 DEF HelmInv, HelmOK, ClusterOK, NothingLeft, VersionDeployed
  <2> QED BY <2>2, <2>3, <2>4 DEF HelmInv
<1> QED BY <1>1, <1>2 DEF RemoveFinalizer

LEMMA ApiErrorInv == HelmInv /\ ApiError => HelmInv'
BY ReturnInv DEF ApiError, Fault, HelmInv, HelmTypeOK

-----------------------------------------------------------------------------

LEMMA NextInv == HelmInv /\ [Next]_vars => HelmInv'
<1>1. HelmInv /\ UNCHANGED vars => HelmInv'
  <2>1. HelmInv => queued \in BOOLEAN /\ faults \in Nat
    BY Zenon DEF HelmInv, HelmTypeOK
  <2> QED BY <2>1, SameInv DEF vars, worker, bounds
<1> QED
  BY <1>1, CreateApplicationInv, UpgradeApplicationInv, ModifyApplicationInv,
     DeleteApplicationInv, UpdateListerInv, DeliverInv, DeleteClusterInv, ClusterGoneInv,
     ListClusterInv,
     RestInv, StartCreatingInv, AddFinalizerInv, MarkUpgradingInv, CheckReleaseInv,
     InstallInv, UpgradeInv, UpdateStatusInv, StartUninstallInv, UninstallInv,
     UninstallFailsInv, RemoveFinalizerInv, ApiErrorInv, RestartInv
  DEF Next, Reconcile

\* The inductive invariant holds in every state, for any number of requests,
\* failed calls and restarts of the controller.
THEOREM HelmInvariant == Spec => []HelmInv
BY InitInv, NextInv, PTL DEF Spec

\* A HelmRelease that is gone has left nothing in its cluster: whatever Install
\* or Upgrade deployed from a stale copy is uninstalled before the finalizer goes,
\* unless uninstallHelmRelease last found no cluster in a lister that is behind.
THEOREM NothingIsLeft == Spec => []NothingLeft
<1>1. HelmInv => NothingLeft
  BY DEF HelmInv
<1> QED BY <1>1, HelmInvariant, PTL

\* status.version is the version helm has deployed whenever updateStatus has
\* said created or upgraded, although helm calls are repeated.
THEOREM StatusVersionDeployed == Spec => []VersionDeployed
<1>1. HelmInv => VersionDeployed
  BY DEF HelmInv
<1> QED BY <1>1, HelmInvariant, PTL

\* Install and Upgrade never replace what helm has by an older HelmRelease: the
\* controller's cache only moves forward.
THEOREM HelmNeverOlder == Spec => NeverOlder
<1> DEFINE Grows == helm # None /\ helm' # None => helm'.rv >= helm.rv
<1>1. HelmInv /\ [Next]_vars => [Grows]_vars
  <2> SUFFICES ASSUME HelmInv, Next PROVE Grows
    BY DEF vars
  <2>1. helm # None => helm \in Deployment /\ helm.rv \in Nat
    BY DEF HelmInv, HelmTypeOK, Deployment
  <2>2. CASE UNCHANGED helm
    BY <2>1, <2>2
  <2>3. CASE Install
    <3>1. helm = None \/ helm' = helm
      BY <2>3 DEF Install
    <3> QED BY <2>1, <3>1
  <2>4. CASE Upgrade
    <3>1. seen # None /\ DeploymentOf(seen, TRUE).rv = seen.rv /\ DeploymentOf(seen, FALSE).rv = seen.rv
          /\ seen.rv \in Nat
      BY <2>4, Taken DEF Upgrade, Managed, DeploymentOf, Release
    <3>2. helm # None => helm.rv <= seen.rv
      BY <3>1 DEF HelmInv, HelmOK
    <3>3. helm' = helm \/ helm' = DeploymentOf(seen, TRUE) \/ helm' = DeploymentOf(seen, FALSE)
      BY <2>4 DEF Upgrade
    <3>4. helm' = helm \/ helm'.rv = seen.rv
      BY <3>1, <3>3
    <3>5. CASE helm' = helm
      BY <2>1, <3>5
    <3>6. CASE helm'.rv = seen.rv
      BY <2>1, <3>1, <3>2, <3>6
    <3> QED BY <3>4, <3>5, <3>6
  <2>5. CASE UninstallFails
    BY <2>1, <2>5 DEF UninstallFails, Deployment
  <2>6. CASE helm' = None
    BY <2>6
  <2> QED
    BY <2>2, <2>3, <2>4, <2>5, <2>6
    DEF Next, Reconcile, CreateApplication, UpgradeApplication, ModifyApplication,
        DeleteApplication, UpdateLister, Deliver, DeleteCluster, ClusterGone, ListCluster,
        CollectRelease,
        Rest, StartCreating, AddFinalizer, MarkUpgrading, CheckRelease, NoChart, UpdateStatus,
        StartUninstall, Uninstall, RemoveFinalizer, ApiError, Restart
<1> QED BY <1>1, HelmInvariant, PTL DEF Spec, NeverOlder
=============================================================================
