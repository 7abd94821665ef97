----------------------- MODULE PatternFinalizer_proofs ----------------------
(***************************************************************************)
(* Safety of PatternFinalizer: the order of the phases, what is gone when  *)
(* the hub's turn comes, what is left in the end, and that all of it is    *)
(* the deletion PhasedDeletion promises.                                   *)
(***************************************************************************)
EXTENDS PatternFinalizer_types, FinalizerRefinement

-----------------------------------------------------------------------------
(* The inductive invariant. *)

NotAfter(p, q) ==
  \/ p = "" \/ p = q \/ q = "DeleteHub"
  \/ p = "DeleteSpokeChildApps" /\ q # ""
  \/ p = "DeleteSpoke" /\ q = "DeleteHubChildApps"

HubPhases == {"DeleteHubChildApps", "DeleteHub"}

(* A copy that counts as current is the stored Pattern, and any copy is of *)
(* an earlier time: no later in the phases, and no more deleted.           *)
Copies ==
  /\ cacheCurrent => cache = pattern
  /\ instCurrent => instance = pattern /\ pattern.exists
  /\ NotAfter(cache.phase, pattern.phase)
  /\ NotAfter(instance.phase, pattern.phase)
  /\ cache.deleting => pattern.deleting
  /\ instance.deleting => pattern.deleting

(* Only a Pattern under deletion is finalized and has a phase. *)
Deleting ==
  /\ pattern.phase # "" => pattern.deleting
  /\ pc \notin {"Get", "configure", "reconcileApplication", "actionPerformed"}
       => instance.deleting

(* The hub's cleanup has not begun before the stored phase says so. *)
HubAfterPhase ==
  app.param = "DeleteChildApps" \/ app.state = "deleting" \/ applied = "DeleteChildApps"
    => pattern.phase \in HubPhases

(* Spokes come with ACM, and before the hub phases nothing takes ACM away; *)
(* ManagedClusters never outlive it.                                       *)
NothingWithoutAcm ==
  AcmApp \notin hubApps =>
    /\ \A k \in Clusters : clusters[k] = "none"
    /\ pattern.phase \notin HubPhases => spokes = {} /\ spokeApps = {}

(* What a phase presupposes of the spokes holds when it is stored, and     *)
(* already when it is about to be.                                         *)
ClearedFor(phase) ==
  /\ phase = "DeleteSpoke" => spokeApps = {}
  /\ phase \in HubPhases => spokes = {} /\ spokeApps = {}
SpokesTold == slips \intersect {"hub", "search", "late"} = {}
Cleared ==
  SpokesTold => /\ ClearedFor(pattern.phase)
                /\ pc = "updateDeletionPhase" => ClearedFor(goal)

(* No cluster is attached when the Application is about to be told, or was *)
(* told, to drop its children, nor in the last phase.                      *)
ClustersTold == slips \intersect {"hub", "clusters", "late"} = {}
AboutToPrune ==
  \/ HubCleanupBegun
  \/ pattern.phase = "DeleteHub"
  \/ pc = "updateApplication" /\ instance.phase = "DeleteHubChildApps"
  \/ pc = "updateDeletionPhase" /\ goal = "DeleteHub"
Detached ==
  ClustersTold /\ AboutToPrune => \A k \in Clusters : clusters[k] = "none"

IInv == /\ Typed /\ Copies /\ Deleting /\ HubAfterPhase
        /\ NothingWithoutAcm /\ Cleared /\ Detached

-----------------------------------------------------------------------------
(* The order of the phases. *)

(* An edge leads to a later phase. *)
LEMMA Onward ==
  ASSUME NEW p, NEW q, NEW r, NotAfter(p, q), <<q, r>> \in PhaseEdges
  PROVE  NotAfter(p, r)
<1>1. \/ q = "" /\ r = "DeleteSpokeChildApps"
      \/ q = "" /\ r = "DeleteHubChildApps"
      \/ q = "DeleteSpokeChildApps" /\ r = "DeleteSpoke"
      \/ q = "DeleteSpoke" /\ r = "DeleteHubChildApps"
      \/ q = "DeleteHubChildApps" /\ r = "DeleteHub"
  BY DEF PhaseEdges
<1>2. QED
  BY <1>1 DEF NotAfter

(* From the hub phases on there is no way back. *)
LEMMA HubStays ==
  ASSUME NEW p, NEW q, p \in HubPhases, NotAfter(p, q)
  PROVE  q \in HubPhases /\ (p = "DeleteHub" => q = p)
  BY DEF NotAfter, HubPhases

(* After DeleteSpoke there are only the hub phases. *)
LEMMA AfterSpoke ==
  ASSUME NEW q, NotAfter("DeleteSpoke", q)
  PROVE  q \in {"DeleteSpoke"} \union HubPhases
  BY DEF NotAfter, HubPhases

-----------------------------------------------------------------------------
(* The reconciler's steps. *)

(* The reconciler's copy is the cache's, which is no later than the store. *)
LEMMA GetSafe ==
  ASSUME IInv, Get
  PROVE  Copies' /\ Deleting' /\ HubAfterPhase' /\ NothingWithoutAcm' /\ Cleared' /\ Detached'
<1> USE DEF Get, Typed, TypeOK, EnvTypeOK, StoreTypes, Pattern, IInv, appVars, childVars,
      spokeVars, budgetVars, GoTo, InstanceOnly, NoFault
<1>1. Copies'
  BY DEF Copies, NotAfter
<1>2. Deleting'
  BY DEF Deleting
<1>3. HubAfterPhase'
  BY DEF HubAfterPhase
<1>4. NothingWithoutAcm'
  BY DEF NothingWithoutAcm, AcmHub
<1>5. Cleared'
  BY DEF Cleared, ClearedFor, SpokesTold
<1>6. Detached'
  BY DEF Detached, AboutToPrune, HubCleanupBegun, ClustersTold
<1>7. QED
  BY <1>1, <1>2, <1>3, <1>4, <1>5, <1>6

(* The finalizer is stored with a copy that is current, so the phase stays. *)
LEMMA ConfigureSafe ==
  ASSUME IInv, Configure
  PROVE  Copies' /\ Deleting' /\ HubAfterPhase' /\ NothingWithoutAcm' /\ Cleared' /\ Detached'
<1> USE DEF Configure, Typed, TypeOK, EnvTypeOK, StoreTypes, Pattern, IInv, storeVars,
      appVars, childVars, spokeVars, budgetVars, GoTo, Fails, InstanceOnly, NoFault, Fault,
      Accepted
<1>1. Copies'
  BY DEF Copies
<1>2. Deleting'
  BY DEF Deleting, Copies
<1>3. HubAfterPhase'
  BY DEF HubAfterPhase, Copies
<1>4. NothingWithoutAcm'
  BY DEF NothingWithoutAcm, AcmHub, Copies
<1>5. Cleared'
  BY DEF Cleared, ClearedFor, SpokesTold, Copies
<1>6. Detached'
  <2>1. pattern'.phase = pattern.phase
    BY DEF Copies
  <2>2. AboutToPrune' => AboutToPrune
    BY <2>1 DEF AboutToPrune, HubCleanupBegun
  <2>3. QED
    BY <2>2 DEF Detached, ClustersTold
<1>7. QED
  BY <1>1, <1>2, <1>3, <1>4, <1>5, <1>6

(* The Application is created, or told to drop nothing. *)
LEMMA ReconcileApplicationSafe ==
  ASSUME IInv, ReconcileApplication
  PROVE  Copies' /\ Deleting' /\ HubAfterPhase' /\ NothingWithoutAcm' /\ Cleared' /\ Detached'
<1> USE DEF ReconcileApplication, Typed, TypeOK, EnvTypeOK, StoreTypes, Pattern, IInv,
      storeVars, childVars, spokeVars, budgetVars, NoFault, Fault
<1>1. Copies'
  BY DEF Copies
<1>2. Deleting'
  BY DEF Deleting
<1>3. HubAfterPhase'
  BY DEF HubAfterPhase, AppTypes, App, NoApp
<1>4. NothingWithoutAcm'
  BY DEF NothingWithoutAcm, AcmHub
<1>5. Cleared'
  BY DEF Cleared, ClearedFor, SpokesTold
<1>6. Detached'
  <2>1. HubCleanupBegun' => HubCleanupBegun
    BY DEF HubCleanupBegun, AppTypes, App, NoApp
  <2>2. AboutToPrune' => AboutToPrune
    BY <2>1 DEF AboutToPrune
  <2>3. QED
    BY <2>2 DEF Detached, ClustersTold
<1>7. QED
  BY <1>1, <1>2, <1>3, <1>4, <1>5, <1>6

(* An accepted status is that of the stored Pattern. *)
LEMMA ActionPerformedSafe ==
  ASSUME IInv, ActionPerformed
  PROVE  Copies' /\ Deleting' /\ HubAfterPhase' /\ NothingWithoutAcm' /\ Cleared' /\ Detached'
<1> USE DEF ActionPerformed, Typed, TypeOK, EnvTypeOK, StoreTypes, Pattern, IInv, appVars,
      childVars, spokeVars, budgetVars, GoTo, InstanceOnly, Return, NoFault, Accepted
<1>1. Copies'
  <2>1. pattern' = pattern
    BY DEF Copies
  <2>2. NotAfter(instance'.phase, pattern'.phase)
    BY DEF NoPattern, NotAfter
  <2>3. cache' = cache
    OBVIOUS
  <2>4. NotAfter(cache'.phase, pattern'.phase)
    BY <2>1, <2>3 DEF Copies, NotAfter
  <2>5. cacheCurrent' => cache' = pattern'
    BY <2>1, <2>3 DEF Copies
  <2>6. ~instance'.deleting /\ ~instCurrent'
    BY DEF NoPattern
  <2>7. cache'.deleting => pattern'.deleting
    BY <2>1, <2>3 DEF Copies
  <2>8. QED
    BY <2>2, <2>4, <2>5, <2>6, <2>7 DEF Copies
<1>2. Deleting'
  BY DEF Deleting, Copies
<1>3. HubAfterPhase'
  BY DEF HubAfterPhase, Copies
<1>4. NothingWithoutAcm'
  <2>1. pattern'.phase = pattern.phase
    BY DEF Copies
  <2>2. QED
    BY <2>1 DEF NothingWithoutAcm, AcmHub
<1>5. Cleared'
  BY DEF Cleared, ClearedFor, SpokesTold, Copies
<1>6. Detached'
  BY DEF Detached, AboutToPrune, HubCleanupBegun, ClustersTold, Copies
<1>7. QED
  BY <1>1, <1>2, <1>3, <1>4, <1>5, <1>6

(* Nothing outside the reconciler changes. *)
LEMMA ApplyDefaultsSafe ==
  ASSUME IInv, ApplyDefaults
  PROVE  Copies' /\ Deleting' /\ HubAfterPhase' /\ NothingWithoutAcm' /\ Cleared' /\ Detached'
<1> USE DEF ApplyDefaults, Typed, TypeOK, EnvTypeOK, StoreTypes, Pattern, IInv, storeVars,
      appVars, childVars, spokeVars, budgetVars, GoTo, Quiet, InstanceOnly, NoFault, Slip
<1>1. Copies'
  BY DEF Copies
<1>2. Deleting'
  BY DEF Deleting
<1>3. HubAfterPhase'
  BY DEF HubAfterPhase
<1>4. NothingWithoutAcm'
  BY DEF NothingWithoutAcm, AcmHub
<1>5. Cleared'
  BY DEF Cleared, ClearedFor, SpokesTold
<1>6. Detached'
  BY DEF Detached, AboutToPrune, HubCleanupBegun, ClustersTold
<1>7. QED
  BY <1>1, <1>2, <1>3, <1>4, <1>5, <1>6

(* The phase read decides the step; in DeleteHub clusters are gone already. *)
LEMMA GetApplicationSafe ==
  ASSUME IInv, GetApplication
  PROVE  Copies' /\ Deleting' /\ HubAfterPhase' /\ NothingWithoutAcm' /\ Cleared' /\ Detached'
<1> USE DEF GetApplication, Typed, TypeOK, EnvTypeOK, StoreTypes, Pattern, IInv, storeVars,
      childVars, spokeVars, budgetVars, GoTo, NoFault, Slip
<1>1. Copies'
  BY DEF Copies
<1>2. Deleting'
  BY DEF Deleting
<1>3. HubAfterPhase'
  BY DEF HubAfterPhase
<1>4. NothingWithoutAcm'
  BY DEF NothingWithoutAcm, AcmHub
<1>5. Cleared'
  BY DEF Cleared, ClearedFor, SpokesTold
<1>6. Detached'
  BY DEF Detached, AboutToPrune, HubCleanupBegun, ClustersTold
<1>7. QED
  BY <1>1, <1>2, <1>3, <1>4, <1>5, <1>6

(* Without a hub there is nothing on spokes, nor a cluster. *)
LEMMA HaveACMHubSafe ==
  ASSUME IInv, HaveACMHub
  PROVE  Copies' /\ Deleting' /\ HubAfterPhase' /\ NothingWithoutAcm' /\ Cleared' /\ Detached'
<1> USE DEF HaveACMHub, Typed, TypeOK, EnvTypeOK, StoreTypes, Pattern, IInv, storeVars,
      appVars, childVars, spokeVars, budgetVars, StorePhase, Quiet, InstanceOnly, NoFault,
      Slip
<1>1. Copies'
  BY DEF Copies
<1>2. Deleting'
  BY DEF Deleting
<1>3. HubAfterPhase'
  BY DEF HubAfterPhase
<1>4. NothingWithoutAcm'
  BY DEF NothingWithoutAcm, AcmHub
<1>5. Cleared'
  BY DEF Cleared, ClearedFor, SpokesTold, HubPhases, NothingWithoutAcm, AcmHub, StepPhase,
     Copies
<1>6. Detached'
  BY DEF Detached, AboutToPrune, HubCleanupBegun, ClustersTold
<1>7. QED
  BY <1>1, <1>2, <1>3, <1>4, <1>5, <1>6

(* What the new phase presupposes holds since it was decided on. *)
LEMMA UpdateDeletionPhaseSafe ==
  ASSUME IInv, UpdateDeletionPhase
  PROVE  Copies' /\ Deleting' /\ HubAfterPhase' /\ NothingWithoutAcm' /\ Cleared' /\ Detached'
<1> USE DEF UpdateDeletionPhase, Typed, TypeOK, EnvTypeOK, StoreTypes, Pattern, IInv,
      storeVars, appVars, childVars, spokeVars, budgetVars, GoTo, InstanceOnly, NoFault,
      Fault, Accepted
<1>1. Copies'
  <2>1. pattern' = pattern \/ <<pattern.phase, pattern'.phase>> \in PhaseEdges
    <3>1. CASE pattern' = pattern
      BY <3>1
    <3>2. CASE Accepted /\ pattern' = [pattern EXCEPT !.phase = goal]
      <4>1. instance = pattern /\ pattern'.phase = goal
        BY <3>2 DEF Copies
      <4>2. QED
        BY <4>1 DEF StepPhase
    <3>3. QED
      BY <3>1, <3>2
  <2>2. NotAfter(cache.phase, pattern'.phase) /\ NotAfter(instance.phase, pattern'.phase)
    BY <2>1, Onward DEF Copies
  <2>3. QED
    BY <2>2 DEF Copies
<1>2. Deleting'
  BY DEF Deleting, Copies
<1>3. HubAfterPhase'
  <2>1. pattern' = pattern \/ <<pattern.phase, pattern'.phase>> \in PhaseEdges
    <3>1. CASE pattern' = pattern
      BY <3>1
    <3>2. CASE Accepted /\ pattern' = [pattern EXCEPT !.phase = goal]
      <4>1. instance = pattern /\ pattern'.phase = goal
        BY <3>2 DEF Copies
      <4>2. QED
        BY <4>1 DEF StepPhase
    <3>3. QED
      BY <3>1, <3>2
  <2>2. pattern.phase \in HubPhases => pattern'.phase \in HubPhases
    BY <2>1 DEF PhaseEdges, HubPhases
  <2>3. QED
    BY <2>2 DEF HubAfterPhase
<1>4. NothingWithoutAcm'
  BY DEF NothingWithoutAcm, AcmHub, HubPhases, StepPhase, PhaseEdges, Copies
<1>5. Cleared'
  BY DEF Cleared, ClearedFor, SpokesTold, Copies
<1>6. Detached'
  BY DEF Detached, AboutToPrune, HubCleanupBegun, ClustersTold, Copies
<1>7. QED
  BY <1>1, <1>2, <1>3, <1>4, <1>5, <1>6

(* Children are dropped in a hub phase only, with the clusters detached. *)
LEMMA UpdateApplicationSafe ==
  ASSUME IInv, UpdateApplication
  PROVE  Copies' /\ Deleting' /\ HubAfterPhase' /\ NothingWithoutAcm' /\ Cleared' /\ Detached'
<1> USE DEF UpdateApplication, Typed, TypeOK, EnvTypeOK, StoreTypes, Pattern, IInv, storeVars,
      childVars, spokeVars, budgetVars, GoTo, Fails, NoFault, Fault
<1>1. Copies'
  BY DEF Copies
<1>2. Deleting'
  BY DEF Deleting
<1>3. HubAfterPhase'
  <2>1. instance.phase \in HubPhases => pattern.phase \in HubPhases
    BY HubStays DEF Copies
  <2>2. QED
    BY <2>1 DEF HubAfterPhase, HubPhases, StepPhase, DeletePattern, AppTypes, App
<1>4. NothingWithoutAcm'
  BY DEF NothingWithoutAcm, AcmHub
<1>5. Cleared'
  BY DEF Cleared, ClearedFor, SpokesTold
<1>6. Detached'
  BY DEF Detached, AboutToPrune, HubCleanupBegun, ClustersTold, StepPhase, DeletePattern,
     AppTypes, App
<1>7. QED
  BY <1>1, <1>2, <1>3, <1>4, <1>5, <1>6

(* Only the requested operation changes. *)
LEMMA SyncApplicationSafe ==
  ASSUME IInv, SyncApplication
  PROVE  Copies' /\ Deleting' /\ HubAfterPhase' /\ NothingWithoutAcm' /\ Cleared' /\ Detached'
<1> USE DEF SyncApplication, Typed, TypeOK, EnvTypeOK, StoreTypes, Pattern, IInv, storeVars,
      childVars, spokeVars, budgetVars, GoTo, Fails, NoFault, Fault
<1>1. Copies'
  BY DEF Copies
<1>2. Deleting'
  BY DEF Deleting
<1>3. HubAfterPhase'
  BY DEF HubAfterPhase, AppTypes, App
<1>4. NothingWithoutAcm'
  BY DEF NothingWithoutAcm, AcmHub
<1>5. Cleared'
  BY DEF Cleared, ClearedFor, SpokesTold
<1>6. Detached'
  BY DEF Detached, AboutToPrune, HubCleanupBegun, ClustersTold, AppTypes, App
<1>7. QED
  BY <1>1, <1>2, <1>3, <1>4, <1>5, <1>6

(* No children means no ACM, and so no clusters. *)
LEMMA GetChildApplicationsSafe ==
  ASSUME IInv, GetChildApplications
  PROVE  Copies' /\ Deleting' /\ HubAfterPhase' /\ NothingWithoutAcm' /\ Cleared' /\ Detached'
<1> USE DEF GetChildApplications, Typed, TypeOK, EnvTypeOK, StoreTypes, Pattern, IInv,
      storeVars, appVars, spokeVars, budgetVars, GoTo, StorePhase, Fails, NoFault, Fault
<1>1. Copies'
  BY DEF Copies
<1>2. Deleting'
  BY DEF Deleting
<1>3. HubAfterPhase'
  BY DEF HubAfterPhase
<1>4. NothingWithoutAcm'
  BY DEF NothingWithoutAcm, AcmHub
<1>5. Cleared'
  BY DEF Cleared, ClearedFor, SpokesTold, HubPhases, NotAfter, Copies
<1>6. Detached'
  BY DEF Detached, AboutToPrune, HubCleanupBegun, ClustersTold, NothingWithoutAcm
<1>7. QED
  BY <1>1, <1>2, <1>3, <1>4, <1>5, <1>6

(* Nothing remains of what was asked for, and before that of the children. *)
LEMMA CheckSpokeApplicationsGoneSafe ==
  ASSUME IInv, CheckSpokeApplicationsGone
  PROVE  Copies' /\ Deleting' /\ HubAfterPhase' /\ NothingWithoutAcm' /\ Cleared' /\ Detached'
<1> USE DEF CheckSpokeApplicationsGone, Typed, TypeOK, EnvTypeOK, StoreTypes, Pattern, IInv,
      storeVars, appVars, childVars, spokeVars, budgetVars, GoTo, StorePhase, Fails, Quiet,
      InstanceOnly, NoFault, Fault, Slip
<1>1. Copies'
  BY DEF Copies
<1>2. Deleting'
  BY DEF Deleting
<1>3. HubAfterPhase'
  BY DEF HubAfterPhase
<1>4. NothingWithoutAcm'
  BY DEF NothingWithoutAcm, AcmHub
<1>5. Cleared'
  <2>1. CASE pc' # "updateDeletionPhase"
    BY <2>1 DEF Cleared, ClearedFor, SpokesTold
  <2>2. CASE pc' = "updateDeletionPhase" /\ instance.phase = "DeleteSpoke"
    <3>1. pattern.phase \in {"DeleteSpoke"} \union HubPhases
      BY <2>2, AfterSpoke DEF Copies
    <3>2. QED
      BY <2>2, <3>1 DEF Cleared, ClearedFor, SpokesTold, HubPhases
  <2>3. CASE pc' = "updateDeletionPhase" /\ instance.phase # "DeleteSpoke"
    BY <2>3 DEF Cleared, ClearedFor, SpokesTold, HubPhases
  <2>4. QED
    BY <2>1, <2>2, <2>3
<1>6. Detached'
  BY DEF Detached, AboutToPrune, HubCleanupBegun, ClustersTold
<1>7. QED
  BY <1>1, <1>2, <1>3, <1>4, <1>5, <1>6

(* The way on is free when there is no hub or no cluster. *)
LEMMA ListManagedClustersSafe ==
  ASSUME IInv, ListManagedClusters
  PROVE  Copies' /\ Deleting' /\ HubAfterPhase' /\ NothingWithoutAcm' /\ Cleared' /\ Detached'
<1> USE DEF ListManagedClusters, Typed, TypeOK, EnvTypeOK, StoreTypes, Pattern, IInv,
      storeVars, appVars, childVars, spokeVars, budgetVars, GoTo, Quiet, InstanceOnly,
      NoFault, Slip
<1>1. Copies'
  BY DEF Copies
<1>2. Deleting'
  BY DEF Deleting
<1>3. HubAfterPhase'
  BY DEF HubAfterPhase
<1>4. NothingWithoutAcm'
  BY DEF NothingWithoutAcm, AcmHub
<1>5. Cleared'
  BY DEF Cleared, ClearedFor, SpokesTold
<1>6. Detached'
  BY DEF Detached, AboutToPrune, HubCleanupBegun, ClustersTold, NothingWithoutAcm, AcmHub
<1>7. QED
  BY <1>1, <1>2, <1>3, <1>4, <1>5, <1>6

(* The way on is free when the second list is empty. *)
LEMMA DeleteManagedClustersSafe ==
  ASSUME IInv, DeleteManagedClusters
  PROVE  Copies' /\ Deleting' /\ HubAfterPhase' /\ NothingWithoutAcm' /\ Cleared' /\ Detached'
<1> USE DEF DeleteManagedClusters, Typed, TypeOK, EnvTypeOK, StoreTypes, Pattern, IInv,
      storeVars, appVars, childVars, budgetVars, GoTo, Fails, NoFault, Fault
<1>1. Copies'
  BY DEF Copies
<1>2. Deleting'
  BY DEF Deleting
<1>3. HubAfterPhase'
  BY DEF HubAfterPhase
<1>4. NothingWithoutAcm'
  BY DEF NothingWithoutAcm, AcmHub
<1>5. Cleared'
  BY DEF Cleared, ClearedFor, SpokesTold
<1>6. Detached'
  <2>1. CASE clusters' = clusters /\ \A k \in Clusters : clusters[k] = "none"
    BY <2>1 DEF Detached
  <2>2. CASE pc' = "actionPerformed"
    <3>1. AboutToPrune' => AboutToPrune
      BY <2>2 DEF AboutToPrune, HubCleanupBegun
    <3>2. (\A k \in Clusters : clusters[k] = "none") => \A k \in Clusters : clusters'[k] = "none"
      BY <2>2
    <3>3. QED
      BY <3>1, <3>2 DEF Detached, ClustersTold
  <2>3. QED
    BY <2>1, <2>2
<1>7. QED
  BY <1>1, <1>2, <1>3, <1>4, <1>5, <1>6

(* The phase is DeleteHub, in the store as well. *)
LEMMA RemoveApplicationSafe ==
  ASSUME IInv, RemoveApplication
  PROVE  Copies' /\ Deleting' /\ HubAfterPhase' /\ NothingWithoutAcm' /\ Cleared' /\ Detached'
<1> USE DEF RemoveApplication, Typed, TypeOK, EnvTypeOK, StoreTypes, Pattern, IInv, storeVars,
      childVars, spokeVars, budgetVars, GoTo, Fails, NoFault, Fault
<1>1. Copies'
  BY DEF Copies
<1>2. Deleting'
  BY DEF Deleting
<1>3. HubAfterPhase'
  <2>1. instance.phase \in HubPhases => pattern.phase \in HubPhases
    BY HubStays DEF Copies
  <2>2. QED
    BY <2>1 DEF HubAfterPhase, HubPhases, StepPhase, DeletePattern, AppTypes, App
<1>4. NothingWithoutAcm'
  BY DEF NothingWithoutAcm, AcmHub
<1>5. Cleared'
  BY DEF Cleared, ClearedFor, SpokesTold
<1>6. Detached'
  <2>1. pattern.phase = "DeleteHub"
    BY HubStays DEF Copies, StepPhase, HubPhases
  <2>2. QED
    BY <2>1 DEF Detached, AboutToPrune, ClustersTold
<1>7. QED
  BY <1>1, <1>2, <1>3, <1>4, <1>5, <1>6

(* Only the ConsoleLink changes. *)
LEMMA RemoveConsoleLinkSafe ==
  ASSUME IInv, RemoveConsoleLink
  PROVE  Copies' /\ Deleting' /\ HubAfterPhase' /\ NothingWithoutAcm' /\ Cleared' /\ Detached'
<1> USE DEF RemoveConsoleLink, Typed, TypeOK, EnvTypeOK, StoreTypes, Pattern, IInv, storeVars,
      appVars, childVars, spokeVars, budgetVars, Quiet, InstanceOnly, NoFault, Fault
<1>1. Copies'
  BY DEF Copies
<1>2. Deleting'
  BY DEF Deleting
<1>3. HubAfterPhase'
  BY DEF HubAfterPhase
<1>4. NothingWithoutAcm'
  BY DEF NothingWithoutAcm, AcmHub
<1>5. Cleared'
  BY DEF Cleared, ClearedFor, SpokesTold
<1>6. Detached'
  BY DEF Detached, AboutToPrune, HubCleanupBegun, ClustersTold
<1>7. QED
  BY <1>1, <1>2, <1>3, <1>4, <1>5, <1>6

(* The Pattern goes with the phase it has. *)
LEMMA RemoveFinalizerSafe ==
  ASSUME IInv, RemoveFinalizer
  PROVE  Copies' /\ Deleting' /\ HubAfterPhase' /\ NothingWithoutAcm' /\ Cleared' /\ Detached'
<1> USE DEF RemoveFinalizer, Typed, TypeOK, EnvTypeOK, StoreTypes, Pattern, IInv, appVars,
      childVars, spokeVars, budgetVars, GoTo, InstanceOnly, Return, NoFault, Fault, Accepted
<1>1. Copies'
  <2>1. pattern'.phase = pattern.phase /\ pattern'.deleting = pattern.deleting
    OBVIOUS
  <2>2. NotAfter(instance'.phase, pattern'.phase)
    BY DEF NoPattern, NotAfter
  <2>3. cache' = cache
    OBVIOUS
  <2>4. NotAfter(cache'.phase, pattern'.phase)
    BY <2>1, <2>3 DEF Copies, NotAfter
  <2>5. cacheCurrent' => cache' = pattern'
    BY <2>1, <2>3 DEF Copies
  <2>6. ~instance'.deleting /\ ~instCurrent'
    BY DEF NoPattern
  <2>7. cache'.deleting => pattern'.deleting
    BY <2>1, <2>3 DEF Copies
  <2>8. QED
    BY <2>2, <2>4, <2>5, <2>6, <2>7 DEF Copies
<1>2. Deleting'
  BY DEF Deleting
<1>3. HubAfterPhase'
  BY DEF HubAfterPhase
<1>4. NothingWithoutAcm'
  BY DEF NothingWithoutAcm, AcmHub
<1>5. Cleared'
  BY DEF Cleared, ClearedFor, SpokesTold
<1>6. Detached'
  BY DEF Detached, AboutToPrune, HubCleanupBegun, ClustersTold
<1>7. QED
  BY <1>1, <1>2, <1>3, <1>4, <1>5, <1>6

(* The new cache is the stored Pattern. *)
LEMMA CrashSafe ==
  ASSUME IInv, Crash
  PROVE  Copies' /\ Deleting' /\ HubAfterPhase' /\ NothingWithoutAcm' /\ Cleared' /\ Detached'
<1> USE DEF Crash, Typed, TypeOK, EnvTypeOK, StoreTypes, Pattern, IInv, appVars, childVars,
      spokeVars, budgetVars, GoTo, InstanceOnly, Return, NoFault, Fault
<1>1. Copies'
  <2>1. pattern' = pattern
    OBVIOUS
  <2>2. NotAfter(instance'.phase, pattern'.phase)
    BY DEF NoPattern, NotAfter
  <2>3. cache' = pattern'
    OBVIOUS
  <2>4. NotAfter(cache'.phase, pattern'.phase)
    BY <2>1, <2>3 DEF Copies, NotAfter
  <2>5. cacheCurrent' => cache' = pattern'
    BY <2>1, <2>3 DEF Copies
  <2>6. ~instance'.deleting /\ ~instCurrent'
    BY DEF NoPattern
  <2>7. cache'.deleting => pattern'.deleting
    BY <2>1, <2>3 DEF Copies
  <2>8. QED
    BY <2>2, <2>4, <2>5, <2>6, <2>7 DEF Copies
<1>2. Deleting'
  BY DEF Deleting
<1>3. HubAfterPhase'
  BY DEF HubAfterPhase
<1>4. NothingWithoutAcm'
  BY DEF NothingWithoutAcm, AcmHub
<1>5. Cleared'
  BY DEF Cleared, ClearedFor, SpokesTold
<1>6. Detached'
  BY DEF Detached, AboutToPrune, HubCleanupBegun, ClustersTold
<1>7. QED
  BY <1>1, <1>2, <1>3, <1>4, <1>5, <1>6

-----------------------------------------------------------------------------
(* The steps of the others. *)

(* The user deletes, edits and imports; Argo CD, ACM and the spokes do     *)
(* their work; the cache catches up.                                       *)
LEMMA EnvironmentSafe ==
  ASSUME IInv, Environment
  PROVE  Copies' /\ Deleting' /\ HubAfterPhase' /\ NothingWithoutAcm' /\ Cleared' /\ Detached'
<1> USE DEF Typed, TypeOK, EnvTypeOK, StoreTypes, Pattern, IInv, storeVars, appVars, childVars,
      spokeVars, opVars, budgetVars, Copies, Deleting, HubAfterPhase, NothingWithoutAcm, Cleared,
      Detached
<1> DEFINE Safe == Copies /\ Deleting /\ HubAfterPhase /\ NothingWithoutAcm /\ Cleared /\ Detached
<1>0. UNCHANGED opVars
  BY DEF Environment
<1>1. CASE UserDeletes
  BY <1>0, <1>1 DEF UserDeletes, HubPhases, AcmHub, ClearedFor, SpokesTold, AboutToPrune,
     HubCleanupBegun, ClustersTold, Arrives, AppTypes, App, SpokeTypes, OthersWrite
<1>2. CASE UserAnnotates
  BY <1>0, <1>2 DEF UserAnnotates, HubPhases, AcmHub, ClearedFor, SpokesTold, AboutToPrune,
     HubCleanupBegun, ClustersTold, Arrives, AppTypes, App, SpokeTypes, OthersWrite
<1>3. CASE UserDisowns
  BY <1>0, <1>3 DEF UserDisowns, HubPhases, AcmHub, ClearedFor, SpokesTold, AboutToPrune,
     HubCleanupBegun, ClustersTold, Arrives, AppTypes, App, SpokeTypes, OthersWrite
<1>4. CASE CacheSync
  <2>1. Copies' /\ Deleting'
    BY <1>0, <1>4 DEF CacheSync, NotAfter
  <2>2. (HubAfterPhase /\ NothingWithoutAcm /\ Cleared /\ Detached)'
    BY <1>0, <1>4 DEF CacheSync, HubPhases, AcmHub, ClearedFor, SpokesTold, AboutToPrune,
       HubCleanupBegun, ClustersTold
  <2>3. QED
    BY <2>1, <2>2
<1>5. CASE ArgoSyncs
  BY <1>0, <1>5 DEF ArgoSyncs, HubPhases, AcmHub, ClearedFor, SpokesTold, AboutToPrune,
     HubCleanupBegun, ClustersTold, Arrives, AppTypes, App, SpokeTypes, OthersWrite
<1>6. CASE ArgoDropsApp
  BY <1>0, <1>6 DEF ArgoDropsApp, HubPhases, AcmHub, ClearedFor, SpokesTold, AboutToPrune,
     HubCleanupBegun, ClustersTold, Arrives, AppTypes, App, SpokeTypes, OthersWrite
<1>7. ASSUME NEW k \in Clusters, UserImports(k)
      PROVE  Safe'
  BY <1>0, <1>7 DEF UserImports, HubPhases, AcmHub, ClearedFor, SpokesTold, AboutToPrune,
     HubCleanupBegun, ClustersTold, Arrives, AppTypes, App, SpokeTypes, OthersWrite
<1>8. ASSUME NEW k \in Clusters, SpokeInstalls(k)
      PROVE  Safe'
  BY <1>0, <1>8 DEF SpokeInstalls, HubPhases, AcmHub, ClearedFor, SpokesTold, AboutToPrune,
     HubCleanupBegun, ClustersTold, Arrives, AppTypes, App, SpokeTypes, OthersWrite
<1>9. ASSUME NEW k \in Clusters, SpokeDropsChildren(k)
      PROVE  Safe'
  BY <1>0, <1>9 DEF SpokeDropsChildren, HubPhases, AcmHub, ClearedFor, SpokesTold, AboutToPrune,
     HubCleanupBegun, ClustersTold, Arrives, AppTypes, App, SpokeTypes, OthersWrite
<1>10. ASSUME NEW k \in Clusters, SpokeDropsApp(k)
      PROVE  Safe'
  BY <1>0, <1>10 DEF SpokeDropsApp, HubPhases, AcmHub, ClearedFor, SpokesTold, AboutToPrune,
     HubCleanupBegun, ClustersTold, Arrives, AppTypes, App, SpokeTypes, OthersWrite
<1>11. ASSUME NEW k \in Clusters, ClusterDetaches(k)
      PROVE  Safe'
  BY <1>0, <1>11 DEF ClusterDetaches, HubPhases, AcmHub, ClearedFor, SpokesTold, AboutToPrune,
     HubCleanupBegun, ClustersTold, Arrives, AppTypes, App, SpokeTypes, OthersWrite
<1>12. ASSUME NEW c \in HubApps, ArgoInstalls(c)
      PROVE  Safe'
  BY <1>0, <1>12 DEF ArgoInstalls, HubPhases, AcmHub, ClearedFor, SpokesTold, AboutToPrune,
     HubCleanupBegun, ClustersTold, Arrives, AppTypes, App, SpokeTypes, OthersWrite
<1>13. ASSUME NEW c \in HubApps, ArgoSyncsChild(c)
      PROVE  Safe'
  BY <1>0, <1>13 DEF ArgoSyncsChild, HubPhases, AcmHub, ClearedFor, SpokesTold, AboutToPrune,
     HubCleanupBegun, ClustersTold, Arrives, AppTypes, App, SpokeTypes, OthersWrite
<1>14. ASSUME NEW c \in HubApps, ArgoRemoves(c)
      PROVE  Safe'
  BY <1>0, <1>14 DEF ArgoRemoves, HubPhases, AcmHub, ClearedFor, SpokesTold, AboutToPrune,
     HubCleanupBegun, ClustersTold, Arrives, AppTypes, App, SpokeTypes, OthersWrite
<1>15. QED
  BY <1>1, <1>2, <1>3, <1>4, <1>5, <1>6, <1>7,
     <1>8, <1>9, <1>10, <1>11, <1>12, <1>13, <1>14 DEF Environment, UserNext, ServiceNext

-----------------------------------------------------------------------------
(* The theorems. *)

(* Nothing has begun in the first state. *)
LEMMA SafeInit == Init => IInv
<1>1. Init => Copies /\ Deleting
  <2> SUFFICES ASSUME Init PROVE Copies /\ Deleting
    OBVIOUS
  <2>1. pattern.phase = "" /\ cache = pattern /\ pc = "Get"
    BY DEF Init, EnvInit
  <2>2. instance.phase = "" /\ ~instance.deleting /\ ~instCurrent
    BY DEF Init, EnvInit, NoPattern
  <2>3. QED
    BY <2>1, <2>2 DEF Copies, NotAfter, Deleting
<1>2. Init => HubAfterPhase
  <2> SUFFICES ASSUME Init PROVE HubAfterPhase
    OBVIOUS
  <2>1. app.param = "none" /\ app.state = "absent" /\ applied = "unsynced"
    BY DEF Init, EnvInit, NoApp
  <2>2. QED
    BY <2>1 DEF HubAfterPhase
<1>3. Init => NothingWithoutAcm
  BY DEF Init, EnvInit, NothingWithoutAcm
<1>4. Init => Cleared /\ Detached
  BY DEF Init, EnvInit, Cleared, ClearedFor, HubPhases, Detached
<1>5. QED
  BY TypedInit, <1>1, <1>2, <1>3, <1>4 DEF IInv

(* IInv is inductive. *)
LEMMA SafeStep == IInv /\ [Next]_vars => IInv'
<1>1. ASSUME IInv, Reconcile PROVE IInv'
  BY <1>1, TypedStep, GetSafe, ConfigureSafe, ReconcileApplicationSafe, ActionPerformedSafe,
     ApplyDefaultsSafe, GetApplicationSafe, HaveACMHubSafe, UpdateDeletionPhaseSafe,
     UpdateApplicationSafe, SyncApplicationSafe, GetChildApplicationsSafe,
     CheckSpokeApplicationsGoneSafe, ListManagedClustersSafe, DeleteManagedClustersSafe,
     RemoveApplicationSafe, RemoveConsoleLinkSafe, RemoveFinalizerSafe
     DEF Reconcile, Next, IInv
<1>2. ASSUME IInv, Crash \/ Environment PROVE IInv'
  BY <1>2, TypedStep, CrashSafe, EnvironmentSafe DEF Next, IInv
<1>3. ASSUME IInv, UNCHANGED vars PROVE IInv'
  <2>1. Typed'
    BY <1>3, TypedStep DEF IInv
  <2>2. (Copies /\ Deleting /\ HubAfterPhase /\ NothingWithoutAcm /\ Cleared /\ Detached)'
    BY <1>3 DEF IInv, Copies, Deleting, HubAfterPhase, NothingWithoutAcm, AcmHub, Cleared,
       ClearedFor, SpokesTold, Detached, AboutToPrune, HubCleanupBegun, ClustersTold,
       vars, envVars, opVars, storeVars, appVars, childVars, spokeVars, budgetVars
  <2>3. QED
    BY <2>1, <2>2 DEF IInv
<1>4. QED
  BY <1>1, <1>2, <1>3 DEF Next

(* A phase is stored by updateDeletionPhase alone, from a copy that was    *)
(* still the stored Pattern: the status write that ends the same           *)
(* reconciliation carries an older version and is refused.                 *)
LEMMA PhaseStep ==
  IInv /\ [Next]_vars
    => (pattern'.phase # pattern.phase => <<pattern.phase, pattern'.phase>> \in PhaseEdges)
<1> SUFFICES ASSUME IInv, [Next]_vars, pattern'.phase # pattern.phase
             PROVE  <<pattern.phase, pattern'.phase>> \in PhaseEdges
  OBVIOUS
<1> USE DEF IInv, Typed, TypeOK, EnvTypeOK, StoreTypes, Pattern, storeVars
<1>1. CASE UpdateDeletionPhase
  <2>1. Accepted /\ pattern' = [pattern EXCEPT !.phase = goal]
    BY <1>1 DEF UpdateDeletionPhase
  <2>2. pattern'.phase = goal /\ instance = pattern
    BY <2>1 DEF Accepted, Copies
  <2>3. <<instance.phase, goal>> \in PhaseEdges
    BY <1>1 DEF UpdateDeletionPhase, StepPhase
  <2>4. QED
    BY <2>2, <2>3
<1>2. CASE Configure
  BY <1>2 DEF Configure, Fails, Accepted, Copies
<1>3. CASE ActionPerformed
  BY <1>3 DEF ActionPerformed, Accepted, Copies
<1>4. CASE RemoveFinalizer
  BY <1>4 DEF RemoveFinalizer
<1>5. CASE Environment
  <2>1. CASE UserDeletes \/ UserAnnotates
    BY <2>1 DEF UserDeletes, UserAnnotates, OthersWrite
  <2>2. CASE ~(UserDeletes \/ UserAnnotates)
    BY <1>5, <2>2 DEF Environment, UserNext, ServiceNext, UserDisowns, UserImports, CacheSync,
       ArgoSyncs, ArgoDropsApp, ArgoInstalls, ArgoSyncsChild, ArgoRemoves, SpokeInstalls,
       SpokeDropsChildren, SpokeDropsApp, ClusterDetaches
  <2>3. QED
    BY <2>1, <2>2
<1>6. CASE UNCHANGED vars
  BY <1>6 DEF vars, envVars
<1>7. CASE Crash
  BY <1>7 DEF Crash
<1>8. CASE Get \/ ReconcileApplication \/ ApplyDefaults \/ GetApplication \/ HaveACMHub
  BY <1>8 DEF Get, ReconcileApplication, ApplyDefaults, GetApplication, HaveACMHub, Quiet
<1>9. CASE UpdateApplication \/ SyncApplication \/ GetChildApplications
           \/ CheckSpokeApplicationsGone
  BY <1>9 DEF UpdateApplication, SyncApplication, GetChildApplications,
     CheckSpokeApplicationsGone, Quiet
<1>10. CASE ListManagedClusters \/ DeleteManagedClusters \/ RemoveApplication
            \/ RemoveConsoleLink
  BY <1>10 DEF ListManagedClusters, DeleteManagedClusters, RemoveApplication,
     RemoveConsoleLink, Quiet
<1>11. QED
  BY <1>1, <1>2, <1>3, <1>4, <1>5, <1>6, <1>7, <1>8, <1>9, <1>10 DEF Next, Reconcile

(* The stored DeletionPhase takes the edges of finalizeObject only, for    *)
(* any interleaving of stale caches, crashes, failed and refused writes.   *)
THEOREM PhasesInOrder == Spec => PhaseAdvances
<1>1. IInv /\ [Next]_vars
        => [pattern'.phase # pattern.phase => <<pattern.phase, pattern'.phase>> \in PhaseEdges]_vars
  BY PhaseStep
<1>2. QED
  BY SafeInit, SafeStep, <1>1, PTL DEF Spec, PhaseAdvances

(* When deleteHubApps tells the hub's Application to drop its children, or *)
(* the Application is deleted, no spoke has anything of the pattern left.  *)
THEOREM SpokesFirst == Spec => []SpokesClearedBeforeHub
<1>1. IInv => SpokesClearedBeforeHub
  BY DEF IInv, SpokesClearedBeforeHub, HubCleanupBegun, HubAfterPhase, Cleared, ClearedFor, SpokesTold
<1>2. QED
  BY SafeInit, SafeStep, <1>1, PTL DEF Spec

(* By then deleteManagedClusters has found no cluster attached, and none   *)
(* has come back.                                                          *)
THEOREM ClustersFirst == Spec => []ClustersDetachedBeforeHub
<1>1. IInv => ClustersDetachedBeforeHub
  BY DEF IInv, ClustersDetachedBeforeHub, Detached, AboutToPrune, ClustersTold
<1>2. QED
  BY SafeInit, SafeStep, <1>1, PTL DEF Spec

-----------------------------------------------------------------------------
(* The spokes: children before the application that owns them.             *)

(* Spokes are told to drop their app of apps only in a deletion.           *)
Told ==
  app.param = "DeleteSpoke" \/ applied = "DeleteSpoke" \/ policy = "pruned" => pattern.deleting

(* Somebody knows of the phase DeleteSpoke, or is about to store it.       *)
SpokePhaseBegun ==
  \/ pattern.phase = "DeleteSpoke" \/ cache.phase = "DeleteSpoke" \/ instance.phase = "DeleteSpoke"
  \/ app.param = "DeleteSpoke" \/ applied = "DeleteSpoke" \/ policy = "pruned"
  \/ pc = "updateDeletionPhase" /\ goal = "DeleteSpoke"
SearchTold == slips \intersect {"search", "late"} = {}
Childless == SearchTold /\ SpokePhaseBegun => spokeApps = {}

SpokeInv == IInv /\ Told /\ Childless

(* Steps after which nobody knows more than before, and spokes have no     *)
(* more than they had.                                                     *)
LEMMA NothingLearnt ==
  ASSUME SpokeInv, pattern.deleting => pattern'.deleting,
         slips \subseteq slips', spokeApps' \subseteq spokeApps,
         app'.param = "DeleteSpoke" => SpokePhaseBegun /\ pattern.deleting,
         applied' = "DeleteSpoke" => applied = "DeleteSpoke" \/ app.param = "DeleteSpoke",
         policy' = "pruned" => policy = "pruned" \/ applied = "DeleteSpoke",
         pattern'.phase = "DeleteSpoke" => SpokePhaseBegun,
         cache'.phase = "DeleteSpoke" => SpokePhaseBegun,
         instance'.phase = "DeleteSpoke" => SpokePhaseBegun,
         SearchTold' /\ pc' = "updateDeletionPhase" /\ goal' = "DeleteSpoke"
           => SpokePhaseBegun \/ spokeApps = {}
  PROVE  Told' /\ Childless'
<1>1. Told'
  BY DEF SpokeInv, Told
<1>2. SearchTold' => SearchTold
  BY DEF SearchTold
<1>3. SearchTold' /\ SpokePhaseBegun' => SpokePhaseBegun \/ spokeApps = {}
  BY DEF SpokePhaseBegun
<1>4. Childless'
  BY <1>2, <1>3 DEF SpokeInv, Childless
<1>5. QED
  BY <1>1, <1>4

LEMMA SlipsGrow ==
  ASSUME [Next]_vars
  PROVE  slips \subseteq slips'
<1>1. \/ UNCHANGED slips \/ \E kind : slips' = slips \union {kind}
  BY DEF Next, Reconcile, Environment, UserNext, ServiceNext, vars, envVars, budgetVars,
         Get, Configure, ReconcileApplication, ActionPerformed, ApplyDefaults, GetApplication,
         HaveACMHub, UpdateDeletionPhase, UpdateApplication, SyncApplication, GetChildApplications,
         CheckSpokeApplicationsGone, ListManagedClusters, DeleteManagedClusters, RemoveApplication,
         RemoveConsoleLink, RemoveFinalizer, Crash, UserDeletes, UserAnnotates, UserDisowns,
         UserImports, CacheSync, ArgoSyncs, ArgoDropsApp, ArgoInstalls, ArgoSyncsChild, ArgoRemoves,
         SpokeInstalls, SpokeDropsChildren, SpokeDropsApp, ClusterDetaches, Fails, Fault, NoFault,
         Slip, Arrives
<1>2. QED
  BY <1>1

(* The reconciler writes the Application in a deletion, for a phase it has *)
(* read.                                                                   *)
LEMMA ReconcilerTells ==
  ASSUME SpokeInv, Reconcile \/ Crash
  PROVE  /\ app'.param = "DeleteSpoke" => SpokePhaseBegun /\ pattern.deleting
         /\ UNCHANGED <<applied, policy, spokes, spokeApps>>
<1> USE DEF Typed, TypeOK, EnvTypeOK, IInv, SpokeInv, storeVars, appVars, childVars, spokeVars
<1>1. UNCHANGED <<applied, policy, spokes, spokeApps>>
  BY DEF Reconcile, Get, Configure, ReconcileApplication, ActionPerformed, ApplyDefaults,
         GetApplication, HaveACMHub, UpdateDeletionPhase, UpdateApplication, SyncApplication,
         GetChildApplications, CheckSpokeApplicationsGone, ListManagedClusters,
         DeleteManagedClusters, RemoveApplication, RemoveConsoleLink, RemoveFinalizer, Crash,
         InstanceOnly, Quiet
<1>2. CASE UpdateApplication
  <2>1. instance.deleting /\ pattern.deleting
    BY <1>2 DEF UpdateApplication, Deleting, Copies
  <2>2. app' = app \/ app' = [app EXCEPT !.param = DeletePattern(instance.phase)]
    BY <1>2 DEF UpdateApplication
  <2>3. app'.param = "DeleteSpoke" => app.param = "DeleteSpoke" \/ instance.phase = "DeleteSpoke"
    BY <2>2 DEF AppTypes, App, DeletePattern
  <2>4. QED
    BY <1>1, <2>1, <2>3 DEF SpokePhaseBegun
<1>3. CASE app'.param = "DeleteSpoke" => app.param = "DeleteSpoke"
  BY <1>1, <1>3 DEF SpokePhaseBegun, Told
<1>4. CASE ReconcileApplication \/ SyncApplication \/ RemoveApplication
  BY <1>3, <1>4 DEF ReconcileApplication, SyncApplication, RemoveApplication, AppTypes, App, NoApp
<1>5. CASE UNCHANGED app
  BY <1>3, <1>5
<1>6. UpdateApplication \/ ReconcileApplication \/ SyncApplication \/ RemoveApplication
      \/ UNCHANGED app
  BY DEF Reconcile, Get, Configure, ActionPerformed, ApplyDefaults,
         GetApplication, HaveACMHub, UpdateDeletionPhase, GetChildApplications,
         CheckSpokeApplicationsGone, ListManagedClusters, DeleteManagedClusters,
         RemoveConsoleLink, RemoveFinalizer, Crash, InstanceOnly, Quiet
<1>7. QED
  BY <1>2, <1>4, <1>5, <1>6

(* A phase that a copy or the store has was known before; and the phase    *)
(* DeleteSpoke is decided on only when the search has found no children.   *)
LEMMA ReconcilerLearns ==
  ASSUME SpokeInv, Reconcile \/ Crash
  PROVE  /\ pattern.deleting => pattern'.deleting
         /\ pattern'.phase = "DeleteSpoke" => SpokePhaseBegun
         /\ cache'.phase = "DeleteSpoke" => SpokePhaseBegun
         /\ instance'.phase = "DeleteSpoke" => SpokePhaseBegun
         /\ SearchTold' /\ pc' = "updateDeletionPhase" /\ goal' = "DeleteSpoke"
              => SpokePhaseBegun \/ spokeApps = {}
<1> USE DEF Typed, TypeOK, EnvTypeOK, StoreTypes, Pattern, IInv, SpokeInv, storeVars, SpokePhaseBegun
<1>1. CASE Get \/ Configure
  BY <1>1 DEF Get, Configure, GoTo, Fails, Accepted, Copies
<1>2. CASE ActionPerformed \/ RemoveFinalizer \/ Crash
  <2>1. pc' = "Get" /\ instance'.phase = ""
    <3>1. Return
      BY <1>2 DEF ActionPerformed, RemoveFinalizer, Crash
    <3>2. pc' = "Get" /\ instance' = NoPattern
      BY <3>1 DEF Return
    <3>3. NoPattern.phase = ""
      BY DEF NoPattern
    <3>4. QED
      BY <3>2, <3>3
  <2>2. ASSUME ActionPerformed
        PROVE  pattern'.phase = pattern.phase /\ pattern'.deleting = pattern.deleting
    <3>1. CASE Accepted
      BY <2>2, <3>1 DEF ActionPerformed, Accepted, Copies
    <3>2. CASE ~Accepted
      BY <2>2, <3>2 DEF ActionPerformed
    <3>3. QED
      BY <3>1, <3>2
  <2>3. ASSUME RemoveFinalizer
        PROVE  pattern'.phase = pattern.phase /\ pattern'.deleting = pattern.deleting
    BY <2>3 DEF RemoveFinalizer
  <2>4. ASSUME Crash
        PROVE  pattern' = pattern /\ cache' = pattern
    BY <2>4 DEF Crash
  <2>5. ActionPerformed \/ RemoveFinalizer => cache' = cache
    BY DEF ActionPerformed, RemoveFinalizer
  <2>6. QED
    BY <1>2, <2>1, <2>2, <2>3, <2>4, <2>5
<1>3. CASE UpdateDeletionPhase
  BY <1>3 DEF UpdateDeletionPhase, GoTo
<1>4. CASE CheckSpokeApplicationsGone
  <2>1. UNCHANGED storeVars
    BY <1>4 DEF CheckSpokeApplicationsGone, Quiet
  <2>2. ASSUME SearchTold', pc' = "updateDeletionPhase", goal' = "DeleteSpoke"
        PROVE  spokeApps = {}
    <3>1. "search" \notin slips'
      BY <2>2 DEF SearchTold
    <3>2. instance.phase # "DeleteSpoke"
      BY <1>4, <2>2 DEF CheckSpokeApplicationsGone, Fails, GoTo, StorePhase
    <3>3. QED
      BY <1>4, <2>2, <3>1, <3>2 DEF CheckSpokeApplicationsGone, Fails, GoTo, StorePhase, Slip
  <2>3. QED
    BY <2>1, <2>2
<1>5. CASE UNCHANGED storeVars /\ (pc' # "updateDeletionPhase" \/ goal' # "DeleteSpoke")
  BY <1>5
<1>6. CASE HaveACMHub \/ GetChildApplications
  <2>1. UNCHANGED storeVars
    BY <1>6 DEF HaveACMHub, GetChildApplications, Quiet
  <2>2. pc' # "updateDeletionPhase" \/ goal' # "DeleteSpoke"
    BY <1>6 DEF HaveACMHub, GetChildApplications, StorePhase, GoTo, Fails
  <2>3. QED
    BY <1>5, <2>1, <2>2
<1>7. CASE ReconcileApplication \/ ApplyDefaults \/ GetApplication
  <2>1. pc' # "updateDeletionPhase"
    BY <1>7 DEF ReconcileApplication, ApplyDefaults, GetApplication, GoTo
  <2>2. QED
    BY <1>5, <1>7, <2>1 DEF ReconcileApplication, ApplyDefaults, GetApplication, Quiet
<1>8. CASE UpdateApplication \/ SyncApplication \/ ListManagedClusters
  <2>1. pc' # "updateDeletionPhase"
    BY <1>8 DEF UpdateApplication, SyncApplication, ListManagedClusters, GoTo, Fails
  <2>2. QED
    BY <1>5, <1>8, <2>1 DEF UpdateApplication, SyncApplication, ListManagedClusters, Quiet
<1>9. CASE DeleteManagedClusters \/ RemoveApplication \/ RemoveConsoleLink
  <2>1. pc' # "updateDeletionPhase"
    BY <1>9 DEF DeleteManagedClusters, RemoveApplication, RemoveConsoleLink, GoTo, Fails
  <2>2. QED
    BY <1>5, <1>9, <2>1 DEF DeleteManagedClusters, RemoveApplication, RemoveConsoleLink, Quiet
<1>10. QED
  BY <1>1, <1>2, <1>3, <1>4, <1>6, <1>7, <1>8, <1>9 DEF Reconcile

LEMMA EnvironmentTells ==
  ASSUME SpokeInv, [Next]_vars, Environment
  PROVE  Told' /\ Childless'
<1> USE DEF Typed, TypeOK, EnvTypeOK, StoreTypes, Pattern, IInv, SpokeInv, storeVars, appVars,
        childVars, spokeVars, opVars
<1>0. UNCHANGED opVars /\ slips \subseteq slips'
  BY SlipsGrow DEF Environment
<1>1. ASSUME NEW k \in Clusters, SpokeInstalls(k)
      PROVE  Told' /\ Childless'
  <2>1. Told'
    BY <1>1 DEF SpokeInstalls, Told
  <2>2. CASE pattern.deleting
    BY <1>1, <2>1, <2>2 DEF SpokeInstalls, Arrives, Childless, SearchTold
  <2>3. CASE ~pattern.deleting
    <3>1. pattern.phase = "" /\ cache.phase = "" /\ instance.phase = ""
      BY <2>3 DEF Deleting, Copies, NotAfter
    <3>2. pc # "updateDeletionPhase"
      BY <2>3 DEF Deleting, Copies
    <3>3. ~SpokePhaseBegun'
      BY <1>0, <1>1, <2>3, <3>1, <3>2 DEF SpokeInstalls, SpokePhaseBegun, Told
    <3>4. QED
      BY <2>1, <3>3 DEF Childless
  <2>4. QED
    BY <2>2, <2>3
<1>2. CASE UserDeletes \/ UserAnnotates
  <2>1. /\ pattern'.phase = pattern.phase /\ (pattern.deleting => pattern'.deleting)
        /\ UNCHANGED <<cache, instance, app, applied, policy, spokeApps>>
    BY <1>2 DEF UserDeletes, UserAnnotates, OthersWrite
  <2>2. QED
    BY <1>0, <2>1, NothingLearnt DEF SpokePhaseBegun, Told
<1>3. CASE UserDisowns \/ ArgoSyncs \/ ArgoDropsApp
  <2>1. /\ app'.param = app.param /\ (applied' = applied \/ applied' = app.param)
        /\ UNCHANGED <<pattern, cache, instance, policy, spokeApps>>
    BY <1>3 DEF UserDisowns, ArgoSyncs, ArgoDropsApp, AppTypes, App
  <2>2. QED
    BY <1>0, <2>1, NothingLearnt DEF SpokePhaseBegun, Told
<1>4. CASE CacheSync
  <2>1. cache' = pattern /\ UNCHANGED <<pattern, instance, app, applied, policy, spokeApps>>
    BY <1>4 DEF CacheSync
  <2>2. QED
    BY <1>0, <2>1, NothingLearnt DEF SpokePhaseBegun, Told
<1>5. CASE \/ \E k \in Clusters : UserImports(k) \/ SpokeDropsChildren(k) \/ SpokeDropsApp(k)
                               \/ ClusterDetaches(k)
           \/ \E c \in HubApps : ArgoInstalls(c) \/ ArgoRemoves(c) \/ ArgoSyncsChild(c)
  <2>1. /\ UNCHANGED <<pattern, cache, instance, app, applied>> /\ spokeApps' \subseteq spokeApps
        /\ policy' = "pruned" => policy = "pruned" \/ applied = "DeleteSpoke"
    BY <1>5 DEF UserImports, SpokeDropsChildren, SpokeDropsApp, ClusterDetaches, ArgoInstalls,
                ArgoRemoves, ArgoSyncsChild
  <2>2. QED
    BY <1>0, <2>1, NothingLearnt DEF SpokePhaseBegun, Told
<1>6. QED
  BY <1>1, <1>2, <1>3, <1>4, <1>5 DEF Environment, UserNext, ServiceNext

LEMMA SpokeStep == SpokeInv /\ [Next]_vars => SpokeInv'
<1> SUFFICES ASSUME SpokeInv, [Next]_vars
             PROVE  SpokeInv'
  OBVIOUS
<1>1. IInv'
  BY SafeStep DEF SpokeInv
<1>2. CASE Reconcile \/ Crash
  BY <1>1, <1>2, ReconcilerTells, ReconcilerLearns, SlipsGrow, NothingLearnt DEF SpokeInv
<1>3. CASE Environment
  BY <1>1, <1>3, EnvironmentTells DEF SpokeInv
<1>4. CASE UNCHANGED vars
  BY <1>1, <1>4 DEF SpokeInv, Told, Childless, SearchTold, SpokePhaseBegun, vars, envVars, opVars,
     storeVars, appVars, spokeVars, budgetVars
<1>5. QED
  BY <1>2, <1>3, <1>4 DEF Next

LEMMA SpokeInit == Init => SpokeInv
<1>1. Init => Told
  <2> SUFFICES ASSUME Init PROVE Told
    OBVIOUS
  <2>1. app.param = "none"
    BY DEF Init, EnvInit, NoApp
  <2>2. applied = "unsynced" /\ policy = "install"
    BY DEF Init, EnvInit
  <2>3. QED
    BY <2>1, <2>2 DEF Told
<1>2. Init => Childless
  BY DEF Init, EnvInit, Childless
<1>3. QED
  BY SafeInit, <1>1, <1>2 DEF SpokeInv

(* A spoke's app of apps goes only when its children are gone: the phase   *)
(* DeleteSpoke is stored after the search has found none, and the policies *)
(* that prune follow that phase through the Application and Argo CD.       *)
THEOREM ChildrenBeforeParents == Spec => SpokeChildrenFirst
<1>1. SpokeInv /\ [Next]_vars
        => [\A k \in spokes : k \notin spokes' /\ slips \intersect {"search", "late"} = {}
              => k \notin spokeApps]_vars
  <2> SUFFICES ASSUME SpokeInv, [Next]_vars, NEW k \in spokes, k \notin spokes',
                      slips \intersect {"search", "late"} = {}
               PROVE  k \notin spokeApps
    OBVIOUS
  <2>1. \E j \in Clusters : SpokeDropsApp(j)
    <3>1. ~UNCHANGED spokes
      OBVIOUS
    <3>2. ~(Reconcile \/ Crash)
      BY <3>1, ReconcilerTells
    <3>3. ~UNCHANGED vars
      BY <3>1 DEF vars, envVars, spokeVars
    <3>4. Environment
      BY <3>2, <3>3 DEF Next
    <3>5. QED
      BY <3>1, <3>4 DEF Environment, UserNext, ServiceNext, UserDeletes, UserAnnotates, UserDisowns,
         UserImports, CacheSync, ArgoSyncs, ArgoDropsApp, ArgoInstalls, ArgoSyncsChild, ArgoRemoves,
         SpokeInstalls, SpokeDropsChildren, ClusterDetaches, spokeVars
  <2>2. policy = "pruned"
    BY <2>1 DEF SpokeDropsApp
  <2>3. QED
    BY <2>2 DEF SpokeInv, Childless, SearchTold, SpokePhaseBegun
<1>2. QED
  BY SpokeInit, SpokeStep, <1>1, PTL DEF Spec, SpokeChildrenFirst

-----------------------------------------------------------------------------
(* Nothing is left behind: what the end of a deletion rests on.            *)

(* The Application is there only for a Pattern that has, or had, the       *)
(* finalizer: creating it comes after a reconciliation that stored one.    *)
Kept == pattern.finalizer \/ pattern.deleting
Held ==
  /\ cache.finalizer => Kept
  /\ pc = "configure" /\ instance.finalizer => Kept
  /\ pc = "reconcileApplication" => Kept
  /\ app.state # "absent" => Kept
  /\ ~pattern.exists /\ ~pattern.deleting => ~pattern.finalizer

(* Once finalized, the Pattern is not taken for a living one: the cache    *)
(* is as late as any copy the reconciler took from it.                     *)
Gone == ~pattern.exists /\ pattern.deleting
Noticed ==
  /\ instance.deleting => cache.deleting
  /\ Gone => cache.deleting
  /\ pc = "reconcileApplication" => ~instance.deleting
  /\ Gone /\ pc \in {"configure", "reconcileApplication"} => instance.deleting

(* The Application goes after its children. *)
Emptied == app.state = "absent" => hubApps = {}

(* The finalizer goes when nothing is left to do, or by a mistake. *)
Finished == pc \in {"removeConsoleLink", "removeFinalizer"} \/ Gone
Ended == slips = {} /\ app.owned /\ Finished => app.state # "live"

LeftInv == IInv /\ Held /\ Noticed /\ Emptied /\ Ended

(* The steps of the finalizer that leave the copies, and thereby what they *)
(* say of the Pattern, alone.                                              *)
LEMMA CopiesKept ==
  ASSUME LeftInv, UNCHANGED storeVars,
         pc' \notin {"configure", "reconcileApplication"},
         app'.state # "absent" => app.state # "absent"
  PROVE  Held' /\ Noticed'
  BY DEF LeftInv, Held, Noticed, Kept, Gone, storeVars

(* The Application's cascade leaves the children to Argo CD. *)
LEMMA AppKept ==
  ASSUME LeftInv, hubApps' \subseteq hubApps, app'.state = "absent" => app.state = "absent"
  PROVE  Emptied'
  BY DEF LeftInv, Emptied

(* Steps that neither finish the deletion nor bring the Application back. *)
LEMMA EndKept ==
  ASSUME LeftInv, slips \subseteq slips', Finished' => Finished,
         app'.owned => app.owned, app'.state = "live" => app.state = "live"
  PROVE  Ended'
  BY DEF LeftInv, Ended

LEMMA OrdinaryLeaves ==
  ASSUME LeftInv, [Next]_vars, Get \/ Configure \/ ReconcileApplication
  PROVE  Held' /\ Noticed' /\ Emptied' /\ Ended'
<1> USE DEF Typed, TypeOK, EnvTypeOK, StoreTypes, AppTypes, Pattern, App, IInv, LeftInv, storeVars,
        appVars, childVars
<1>0. slips \subseteq slips'
  BY SlipsGrow
<1>1. CASE Get
  <2>1. /\ pc' = "configure" /\ instance' = cache
        /\ UNCHANGED <<pattern, cache, app, hubApps, slips>>
    BY <1>1 DEF Get, GoTo, InstanceOnly, NoFault, budgetVars
  <2>2. Held' /\ Noticed'
    BY <2>1 DEF Held, Noticed, Kept, Gone
  <2>3. Emptied' /\ Ended'
    BY <1>0, <2>1, AppKept, EndKept DEF Finished, Gone
  <2>4. QED
    BY <2>2, <2>3
<1>2. CASE Configure
  <2>1. /\ UNCHANGED <<app, hubApps, cache>> /\ instance'.deleting = instance.deleting
        /\ pc' \notin {"configure", "removeConsoleLink", "removeFinalizer"}
    BY <1>2 DEF Configure, GoTo, Fails, InstanceOnly
  <2>2. /\ pattern'.exists = pattern.exists /\ pattern'.deleting = pattern.deleting
        /\ pattern.finalizer => pattern'.finalizer
        /\ ~pattern.exists => pattern' = pattern
    BY <1>2 DEF Configure, Fails, Accepted, Copies
  <2>3. pc' = "reconcileApplication" => Kept /\ ~instance.deleting
    BY <1>2 DEF Configure, GoTo, Fails, Held
  <2>4. Held'
    BY <2>1, <2>2, <2>3 DEF Held, Kept
  <2>5. pc = "configure"
    BY <1>2 DEF Configure
  <2>6. Noticed'
    BY <2>1, <2>2, <2>3, <2>5 DEF Noticed, Gone
  <2>7. Emptied' /\ Ended'
    BY <1>0, <2>1, <2>2, AppKept, EndKept DEF Finished, Gone
  <2>8. QED
    BY <2>4, <2>6, <2>7
<1>3. CASE ReconcileApplication
  <2>1. /\ pc = "reconcileApplication" /\ pc' = "actionPerformed"
        /\ UNCHANGED storeVars /\ UNCHANGED hubApps
    BY <1>3 DEF ReconcileApplication
  <2>2. Kept /\ ~Gone
    BY <2>1 DEF Held, Noticed
  <2>3. Held' /\ Noticed'
    BY <2>1, <2>2 DEF Held, Noticed, Kept, Gone
  <2>4. app'.state = "absent" => app.state = "absent"
    BY <1>3 DEF ReconcileApplication, NoApp
  <2>5. Emptied'
    BY <2>1, <2>4, AppKept
  <2>6. ~Finished'
    BY <2>1, <2>2 DEF Finished, Gone
  <2>7. QED
    BY <2>3, <2>5, <2>6 DEF Ended
<1>4. QED
  BY <1>1, <1>2, <1>3

(* The steps of the deletion before its last ones. *)
LEMMA PhasesLeave ==
  ASSUME LeftInv, [Next]_vars,
         \/ HaveACMHub \/ UpdateApplication \/ SyncApplication \/ GetChildApplications
         \/ CheckSpokeApplicationsGone \/ ListManagedClusters \/ DeleteManagedClusters
  PROVE  Held' /\ Noticed' /\ Emptied' /\ Ended'
<1> USE DEF Typed, TypeOK, EnvTypeOK, AppTypes, App, IInv, LeftInv
<1>0. slips \subseteq slips'
  BY SlipsGrow
<1>1. UNCHANGED storeVars /\ UNCHANGED hubApps
  BY DEF HaveACMHub, UpdateApplication, SyncApplication, GetChildApplications,
     CheckSpokeApplicationsGone, ListManagedClusters, DeleteManagedClusters, Quiet, InstanceOnly,
     childVars
<1>2. app'.state = app.state /\ app'.owned = app.owned
  <2>1. CASE UpdateApplication \/ SyncApplication
    BY <2>1 DEF UpdateApplication, SyncApplication
  <2>2. CASE ~(UpdateApplication \/ SyncApplication)
    BY <2>2 DEF HaveACMHub, GetChildApplications, CheckSpokeApplicationsGone, ListManagedClusters,
       DeleteManagedClusters, Quiet, InstanceOnly, appVars
  <2>3. QED
    BY <2>1, <2>2
<1>3. pc' \in {"actionPerformed", "updateDeletionPhase", "syncApplication", "getChildApplications",
               "checkSpokeApplicationsGone", "listManagedClusters", "deleteManagedClusters",
               "updateApplication"}
  <2>1. CASE HaveACMHub \/ CheckSpokeApplicationsGone
    BY <2>1 DEF HaveACMHub, CheckSpokeApplicationsGone, StorePhase, Fails, GoTo
  <2>2. CASE UpdateApplication \/ SyncApplication
    BY <2>2 DEF UpdateApplication, SyncApplication, Fails, GoTo
  <2>3. CASE GetChildApplications
    BY <2>3 DEF GetChildApplications, StorePhase, Fails, GoTo
  <2>4. CASE ListManagedClusters \/ DeleteManagedClusters
    BY <2>4 DEF ListManagedClusters, DeleteManagedClusters, Fails, GoTo
  <2>5. QED
    BY <2>1, <2>2, <2>3, <2>4
<1>4. Finished' => Finished
  BY <1>1, <1>3 DEF Finished, Gone, storeVars
<1>5. QED
  BY <1>0, <1>1, <1>2, <1>3, <1>4, CopiesKept, AppKept, EndKept

(* The finalizer ends early by a slip alone; otherwise because the         *)
(* Application is gone, not the Pattern's own, or just deleted.            *)
LEMMA LastStepsLeave ==
  ASSUME LeftInv, [Next]_vars,
         ApplyDefaults \/ GetApplication \/ RemoveApplication \/ RemoveConsoleLink
  PROVE  Held' /\ Noticed' /\ Emptied' /\ Ended'
<1> USE DEF Typed, TypeOK, EnvTypeOK, AppTypes, App, IInv, LeftInv
<1>0. slips \subseteq slips'
  BY SlipsGrow
<1>1. UNCHANGED storeVars /\ UNCHANGED hubApps /\ app'.owned = app.owned
  <2>1. CASE RemoveApplication
    BY <2>1 DEF RemoveApplication, childVars
  <2>2. CASE ~RemoveApplication
    BY <2>2 DEF ApplyDefaults, GetApplication, RemoveConsoleLink, Quiet, InstanceOnly, appVars,
       childVars
  <2>3. QED
    BY <2>1, <2>2
<1>2. /\ app'.state = "absent" <=> app.state = "absent"
      /\ app'.state = "live" => app.state = "live"
  <2>1. CASE RemoveApplication
    BY <2>1 DEF RemoveApplication
  <2>2. CASE ~RemoveApplication
    BY <2>2 DEF ApplyDefaults, GetApplication, RemoveConsoleLink, Quiet, InstanceOnly, appVars
  <2>3. QED
    BY <2>1, <2>2
<1>3. pc' \notin {"configure", "reconcileApplication"}
  <2>1. CASE ApplyDefaults
    BY <2>1 DEF ApplyDefaults, GoTo
  <2>2. CASE GetApplication
    BY <2>2 DEF GetApplication, GoTo
  <2>3. CASE RemoveApplication \/ RemoveConsoleLink
    BY <2>3 DEF RemoveApplication, RemoveConsoleLink, Fails, GoTo
  <2>4. QED
    BY <2>1, <2>2, <2>3
<1>4. Held' /\ Noticed' /\ Emptied'
  BY <1>1, <1>2, <1>3, CopiesKept, AppKept
<1>5. Gone' = Gone
  BY <1>1 DEF Gone, storeVars
<1>6. CASE ApplyDefaults
  <2>1. pc' \in {"removeConsoleLink", "removeFinalizer"} => slips' # {}
    BY <1>6 DEF ApplyDefaults, GoTo, Slip
  <2>2. QED
    BY <1>0, <1>1, <1>2, <1>4, <1>5, <2>1 DEF Ended, Finished
<1>7. CASE GetApplication
  <2>1. pc' \in {"removeConsoleLink", "removeFinalizer"}
          => slips' # {} \/ app.state = "absent" \/ ~app.owned
    BY <1>7 DEF GetApplication, GoTo, Slip
  <2>2. QED
    BY <1>0, <1>1, <1>2, <1>4, <1>5, <2>1 DEF Ended, Finished
<1>8. CASE RemoveApplication
  <2>1. pc' \in {"removeConsoleLink", "removeFinalizer"} => app'.state = "deleting"
    BY <1>8 DEF RemoveApplication, Fails, GoTo
  <2>2. QED
    BY <1>0, <1>1, <1>2, <1>4, <1>5, <2>1 DEF Ended, Finished
<1>9. CASE RemoveConsoleLink
  <2>1. pc = "removeConsoleLink"
    BY <1>9 DEF RemoveConsoleLink
  <2>2. QED
    BY <1>0, <1>1, <1>2, <1>4, <1>5, <2>1, EndKept DEF Finished
<1>10. QED
  BY <1>6, <1>7, <1>8, <1>9

(* The steps that write the Pattern, and the restart. *)
LEMMA WritesLeave ==
  ASSUME LeftInv, [Next]_vars,
         UpdateDeletionPhase \/ ActionPerformed \/ RemoveFinalizer \/ Crash
  PROVE  Held' /\ Noticed' /\ Emptied' /\ Ended'
<1> USE DEF Typed, TypeOK, EnvTypeOK, StoreTypes, Pattern, IInv, LeftInv
<1>0. slips \subseteq slips'
  BY SlipsGrow
<1>1. UNCHANGED <<app, hubApps>>
  BY DEF UpdateDeletionPhase, ActionPerformed, RemoveFinalizer, Crash, InstanceOnly, appVars,
     childVars
<1>2. Emptied'
  BY <1>1, AppKept
<1>3. CASE UpdateDeletionPhase
  <2>1. /\ pc' = "actionPerformed" /\ UNCHANGED <<cache, instance>>
        /\ pattern'.exists = pattern.exists /\ pattern'.deleting = pattern.deleting
        /\ pattern'.finalizer = pattern.finalizer
    BY <1>3 DEF UpdateDeletionPhase, GoTo, storeVars
  <2>2. Held' /\ Noticed'
    BY <1>1, <2>1 DEF Held, Noticed, Kept, Gone
  <2>3. Ended'
    BY <1>0, <1>1, <2>1, EndKept DEF Finished, Gone
  <2>4. QED
    BY <1>2, <2>2, <2>3
<1>4. CASE ActionPerformed
  <2>1. Return /\ UNCHANGED cache
    BY <1>4 DEF ActionPerformed
  <2>2. pc' = "Get" /\ ~instance'.deleting
    BY <2>1 DEF Return, NoPattern
  <2>3. /\ pattern'.exists = pattern.exists /\ pattern'.deleting = pattern.deleting
        /\ pattern'.finalizer = pattern.finalizer
    <3>1. pattern' = pattern \/ pattern' = [pattern EXCEPT !.phase = instance.phase]
      BY <1>4 DEF ActionPerformed
    <3>2. QED
      BY <3>1
  <2>4. Held' /\ Noticed'
    BY <1>1, <2>1, <2>2, <2>3 DEF Held, Noticed, Kept, Gone
  <2>5. Ended'
    BY <1>0, <1>1, <2>2, <2>3, EndKept DEF Finished, Gone
  <2>6. QED
    BY <1>2, <2>4, <2>5
<1>5. CASE RemoveFinalizer
  <2>1. Return /\ UNCHANGED cache /\ pc = "removeFinalizer"
    BY <1>5 DEF RemoveFinalizer
  <2>2. pc' = "Get" /\ ~instance'.deleting
    BY <2>1 DEF Return, NoPattern
  <2>3. instance.deleting /\ pattern.deleting /\ cache.deleting
    BY <2>1 DEF Deleting, Copies, Noticed
  <2>4. pattern'.deleting
    BY <1>5, <2>3 DEF RemoveFinalizer
  <2>5. Held' /\ Noticed'
    BY <2>1, <2>2, <2>3, <2>4 DEF Held, Noticed, Kept, Gone
  <2>6. Finished
    BY <2>1 DEF Finished
  <2>7. Ended'
    BY <1>0, <1>1, <2>6, EndKept
  <2>8. QED
    BY <1>2, <2>5, <2>7
<1>6. CASE Crash
  <2>1. Return /\ pattern' = pattern /\ cache' = pattern
    BY <1>6 DEF Crash
  <2>2. pc' = "Get" /\ ~instance'.deleting
    BY <2>1 DEF Return, NoPattern
  <2>3. Held' /\ Noticed'
    BY <1>1, <2>1, <2>2 DEF Held, Noticed, Kept, Gone
  <2>4. Ended'
    BY <1>0, <1>1, <2>1, <2>2, EndKept DEF Finished, Gone
  <2>5. QED
    BY <1>2, <2>3, <2>4
<1>7. QED
  BY <1>3, <1>4, <1>5, <1>6

(* The environment neither creates the Application nor gives it back. *)
LEMMA EnvironmentLeaves ==
  ASSUME LeftInv, [Next]_vars, Environment
  PROVE  Held' /\ Noticed' /\ Emptied' /\ Ended'
<1> USE DEF Typed, TypeOK, EnvTypeOK, StoreTypes, AppTypes, ChildTypes, Pattern, App, IInv, LeftInv
<1>0. slips \subseteq slips' /\ UNCHANGED pc
  BY SlipsGrow DEF Environment, opVars
<1>1. CASE UserDeletes
  <2>1. /\ pattern.exists /\ ~pattern.deleting
        /\ UNCHANGED <<cache, instance, app, hubApps>>
        /\ IF pattern.finalizer THEN pattern' = [pattern EXCEPT !.deleting = TRUE]
                                ELSE pattern' = [pattern EXCEPT !.exists = FALSE]
    BY <1>1 DEF UserDeletes, OthersWrite, appVars, childVars
  <2>2. /\ ~Gone' /\ Kept' = Kept
        /\ ~pattern'.exists /\ ~pattern'.deleting => ~pattern'.finalizer
    <3>1. CASE pattern.finalizer
      BY <2>1, <3>1 DEF Gone, Kept
    <3>2. CASE ~pattern.finalizer
      BY <2>1, <3>2 DEF Gone, Kept
    <3>3. QED
      BY <3>1, <3>2
  <2>3. Held' /\ Noticed'
    BY <1>0, <2>1, <2>2 DEF Held, Noticed
  <2>4. Emptied' /\ Ended'
    BY <1>0, <2>1, <2>2, AppKept, EndKept DEF Finished
  <2>5. QED
    BY <2>3, <2>4
<1>2. CASE UserAnnotates
  <2>1. /\ pattern.exists /\ pattern' = [pattern EXCEPT !.prune = ~@]
        /\ UNCHANGED <<cache, instance, app, hubApps>>
    BY <1>2 DEF UserAnnotates, OthersWrite, appVars, childVars
  <2>2. /\ pattern'.exists = pattern.exists /\ pattern'.deleting = pattern.deleting
        /\ pattern'.finalizer = pattern.finalizer
    BY <2>1
  <2>3. Held' /\ Noticed'
    BY <1>0, <2>1, <2>2 DEF Held, Noticed, Kept, Gone
  <2>4. Emptied' /\ Ended'
    BY <1>0, <2>1, <2>2, AppKept, EndKept DEF Finished, Gone
  <2>5. QED
    BY <2>3, <2>4
<1>3. CASE CacheSync
  <2>1. cache' = pattern /\ UNCHANGED <<pattern, instance, app, hubApps>>
    BY <1>3 DEF CacheSync, appVars, childVars
  <2>2. Held'
    BY <1>0, <2>1 DEF Held, Kept
  <2>3. Noticed'
    BY <1>0, <2>1 DEF Noticed, Gone, Copies
  <2>4. Emptied' /\ Ended'
    BY <1>0, <2>1, AppKept, EndKept DEF Finished, Gone
  <2>5. QED
    BY <2>2, <2>3, <2>4
<1>4. CASE UserDisowns \/ ArgoSyncs \/ ArgoDropsApp
  <2>1. UNCHANGED storeVars /\ UNCHANGED hubApps
    BY <1>4 DEF UserDisowns, ArgoSyncs, ArgoDropsApp, childVars
  <2>2. /\ app'.owned => app.owned
        /\ app'.state = "live" => app.state = "live"
        /\ app'.state # "absent" => app.state # "absent"
    BY <1>4 DEF UserDisowns, ArgoSyncs, ArgoDropsApp
  <2>3. Held' /\ Noticed'
    BY <1>0, <2>1, <2>2 DEF Held, Noticed, Kept, Gone, storeVars
  <2>4. app'.state = "absent" /\ app.state # "absent" => hubApps = {}
    BY <1>4 DEF UserDisowns, ArgoSyncs, ArgoDropsApp
  <2>5. Emptied'
    BY <2>1, <2>4 DEF Emptied
  <2>6. Ended'
    BY <1>0, <2>1, <2>2, EndKept DEF Finished, Gone, storeVars
  <2>7. QED
    BY <2>3, <2>5, <2>6
<1>5. CASE \E k \in Clusters : \/ UserImports(k) \/ SpokeInstalls(k) \/ SpokeDropsChildren(k)
                               \/ SpokeDropsApp(k) \/ ClusterDetaches(k)
  <2>1. UNCHANGED storeVars /\ UNCHANGED <<app, hubApps>>
    BY <1>5 DEF UserImports, SpokeInstalls, SpokeDropsChildren, SpokeDropsApp, ClusterDetaches,
       appVars, childVars
  <2>2. Held' /\ Noticed' /\ Emptied' /\ Ended'
    BY <1>0, <2>1, AppKept, EndKept DEF Held, Noticed, Kept, Gone, storeVars, Finished
  <2>3. QED
    BY <2>2
<1>6. ASSUME NEW c \in HubApps, ArgoInstalls(c) \/ ArgoSyncsChild(c) \/ ArgoRemoves(c)
      PROVE  Held' /\ Noticed' /\ Emptied' /\ Ended'
  <2>1. UNCHANGED storeVars /\ UNCHANGED app
    BY <1>6 DEF ArgoInstalls, ArgoSyncsChild, ArgoRemoves, appVars
  <2>2. app.state = "absent" => hubApps' \subseteq hubApps
    BY <1>6 DEF ArgoInstalls, ArgoSyncsChild, ArgoRemoves
  <2>3. Emptied'
    BY <2>1, <2>2 DEF Emptied
  <2>4. Held' /\ Noticed' /\ Ended'
    BY <1>0, <2>1, EndKept DEF Held, Noticed, Kept, Gone, storeVars, Finished
  <2>5. QED
    BY <2>3, <2>4
<1>7. QED
  BY <1>1, <1>2, <1>3, <1>4, <1>5, <1>6 DEF Environment, UserNext, ServiceNext

LEMMA LeftInit == Init => LeftInv
<1> SUFFICES ASSUME Init
             PROVE  Held /\ Noticed /\ Emptied /\ Ended
  BY SafeInit DEF LeftInv
<1>1. /\ pattern.exists /\ ~pattern.deleting /\ ~pattern.finalizer
      /\ cache = pattern
  BY DEF Init, EnvInit
<1>2. pc = "Get"
  BY DEF Init
<1>3. app.state = "absent" /\ hubApps = {} /\ ~instance.deleting
  BY DEF Init, EnvInit, NoApp, NoPattern
<1>4. Held /\ Noticed
  BY <1>1, <1>2, <1>3 DEF Held, Noticed, Kept, Gone
<1>5. Emptied /\ Ended
  BY <1>3 DEF Emptied, Ended
<1>6. QED
  BY <1>4, <1>5

LEMMA LeftStep == LeftInv /\ [Next]_vars => LeftInv'
<1> SUFFICES ASSUME LeftInv, [Next]_vars
             PROVE  LeftInv'
  OBVIOUS
<1>1. IInv'
  BY SafeStep DEF LeftInv
<1>2. CASE Reconcile
  BY <1>1, <1>2, OrdinaryLeaves, PhasesLeave, LastStepsLeave, WritesLeave DEF LeftInv, Reconcile
<1>3. CASE Crash \/ Environment
  BY <1>1, <1>3, WritesLeave, EnvironmentLeaves DEF LeftInv
<1>4. CASE UNCHANGED vars
  <2>1. UNCHANGED <<pattern, cache, instance, app, hubApps, slips, pc>>
    BY <1>4 DEF vars, envVars, opVars, storeVars, appVars, childVars, budgetVars
  <2>2. Held' /\ Noticed' /\ Emptied' /\ Ended'
    BY <2>1 DEF LeftInv, Held, Noticed, Emptied, Ended, Finished, Kept, Gone
  <2>3. QED
    BY <1>1, <2>2 DEF LeftInv
<1>5. QED
  BY <1>2, <1>3, <1>4 DEF Next

(* When the Pattern is gone, and nothing misled the finalizer, there is    *)
(* nothing left of the pattern but what Argo CD's cascade is about to      *)
(* remove.                                                                 *)
THEOREM NothingStays == Spec => []NothingLeftBehind
<1>1. LeftInv => NothingLeftBehind
  <2> SUFFICES ASSUME LeftInv, ~pattern.exists, slips = {}, app.owned
               PROVE  /\ app.state # "live"
                      /\ spokes = {} /\ spokeApps = {}
                      /\ \A k \in Clusters : clusters[k] = "none"
    BY DEF NothingLeftBehind
  <2> USE DEF LeftInv, IInv
  <2>1. app.state \in {"absent", "live", "deleting"}
    BY DEF Typed, TypeOK, EnvTypeOK, AppTypes, App
  <2>2. app.state # "live"
    BY DEF Held, Kept, Ended, Finished, Gone
  <2>3. CASE app.state = "deleting"
    <3>1. HubCleanupBegun /\ pattern.phase \in HubPhases
      BY <2>3 DEF HubCleanupBegun, HubAfterPhase
    <3>2. SpokesTold /\ ClustersTold
      BY DEF SpokesTold, ClustersTold
    <3>3. QED
      BY <2>2, <3>1, <3>2 DEF Cleared, ClearedFor, Detached, AboutToPrune
  <2>4. CASE app.state = "absent"
    <3>1. AcmApp \notin hubApps
      BY <2>4 DEF Emptied
    <3>2. SpokesTold
      BY DEF SpokesTold
    <3>3. QED
      BY <2>2, <3>1, <3>2 DEF NothingWithoutAcm, Cleared, ClearedFor
  <2>5. QED
    BY <2>1, <2>2, <2>3, <2>4
<1>2. QED
  BY LeftInit, LeftStep, <1>1, PTL DEF Spec

-----------------------------------------------------------------------------
(* The finalizer implements the phased deletion, when every answer is true.*)

(* A Pattern under deletion has the prune annotation, in all copies.       *)
Pruned ==
  /\ pattern.deleting => pattern.prune
  /\ cache.deleting => cache.prune
  /\ instance.deleting => instance.prune

(* Whoever stores a phase has read the deletion, and the cache with him.   *)
PhaseSeen ==
  /\ pattern.phase # "" => cache.deleting
  /\ pattern.phase # "" /\ pc \in {"configure", "reconcileApplication"} => instance.deleting

(* What the Application, Argo CD, the policies and the clusters have been  *)
(* told follows the stored phase.                                          *)
Reached(value) ==
  /\ value = "DeleteSpokeChildApps" => pattern.phase # ""
  /\ value = "DeleteSpoke" => NotAfter("DeleteSpoke", pattern.phase)
Followed ==
  /\ Reached(app.param) /\ Reached(applied)
  /\ policy = "deleteChildren" => Reached("DeleteSpokeChildApps")
  /\ policy = "pruned" => Reached("DeleteSpoke")
  /\ \A k \in Clusters : clusters[k] = "terminating" => pattern.phase \in HubPhases

(* The deletion starts with an Application, and on the hub only when no    *)
(* cluster is attached.                                                    *)
Started ==
  /\ pc \in {"haveACMHub", "updateDeletionPhase"} /\ instCurrent /\ instance.phase = ""
       => app.state # "absent"
  /\ pc = "updateDeletionPhase" /\ instance.phase = "" /\ goal = "DeleteHubChildApps"
       => \A k \in Clusters : clusters[k] = "none"

(* Nobody works on the phases of a Pattern that is gone, but from an old   *)
(* copy, and then the Application is going.                                *)
PhaseCalls ==
  {"haveACMHub", "updateDeletionPhase", "updateApplication", "syncApplication",
   "getChildApplications", "checkSpokeApplicationsGone", "listManagedClusters",
   "deleteManagedClusters", "removeApplication"}
Over == Gone /\ pc \in PhaseCalls => app.state # "live"

Faithful == slips = {} /\ Pruned /\ PhaseSeen /\ Followed /\ Started /\ Over
TrueInv == LeftInv /\ Faithful

(* How the stored Pattern and its copies move. *)
LEMMA CacheMoves ==
  ASSUME [Next]_vars
  PROVE  cache' = cache \/ cache' = pattern
BY DEF Next, Reconcile, Environment, UserNext, ServiceNext, vars, envVars, storeVars,
       Get, Configure, ReconcileApplication, ActionPerformed, ApplyDefaults, GetApplication,
       HaveACMHub, UpdateDeletionPhase, UpdateApplication, SyncApplication, GetChildApplications,
       CheckSpokeApplicationsGone, ListManagedClusters, DeleteManagedClusters, RemoveApplication,
       RemoveConsoleLink, RemoveFinalizer, Crash, UserDeletes, UserAnnotates, UserDisowns,
       UserImports, CacheSync, ArgoSyncs, ArgoDropsApp, ArgoInstalls, ArgoSyncsChild, ArgoRemoves,
       SpokeInstalls, SpokeDropsChildren, SpokeDropsApp, ClusterDetaches, Quiet, OthersWrite

LEMMA InstanceMoves ==
  ASSUME IInv, [Next]_vars
  PROVE  \/ /\ UNCHANGED instance
            /\ pc' = pc \/ pc' \notin {"configure", "reconcileApplication"}
         \/ pc = "configure" /\ ~instance.deleting /\ UNCHANGED instance
         \/ pc' = "Get" /\ instance' = NoPattern
         \/ pc' = "configure" /\ instance' = cache
         \/ pc' = "actionPerformed" /\ instance' = [instance EXCEPT !.finalizer = TRUE]
<1>1. CASE Get
  BY <1>1 DEF Get, GoTo
<1>2. CASE Configure
  BY <1>2 DEF Configure, Fails, GoTo, storeVars
<1>3. CASE ActionPerformed \/ RemoveFinalizer \/ Crash
  BY <1>3 DEF ActionPerformed, RemoveFinalizer, Crash, Return
<1>4. CASE UpdateDeletionPhase
  BY <1>4 DEF UpdateDeletionPhase, GoTo, storeVars
<1>5. CASE ReconcileApplication \/ ApplyDefaults \/ GetApplication
  BY <1>5 DEF ReconcileApplication, ApplyDefaults, GetApplication, GoTo, Quiet, storeVars
<1>6. CASE HaveACMHub \/ CheckSpokeApplicationsGone \/ ListManagedClusters
  BY <1>6 DEF HaveACMHub, CheckSpokeApplicationsGone, ListManagedClusters, StorePhase, Fails, GoTo,
     Quiet, storeVars
<1>7. CASE UpdateApplication \/ SyncApplication \/ GetChildApplications
  <2>1. UNCHANGED instance
    BY <1>7 DEF UpdateApplication, SyncApplication, GetChildApplications, storeVars
  <2>2. pc' \notin {"configure", "reconcileApplication"}
    <3>1. CASE UpdateApplication
      BY <3>1 DEF UpdateApplication, Fails, GoTo
    <3>2. CASE SyncApplication
      BY <3>2 DEF SyncApplication, Fails, GoTo
    <3>3. CASE GetChildApplications
      BY <3>3 DEF GetChildApplications, StorePhase, Fails, GoTo
    <3>4. QED
      BY <1>7, <3>1, <3>2, <3>3
  <2>3. QED
    BY <2>1, <2>2
<1>8. CASE DeleteManagedClusters \/ RemoveApplication \/ RemoveConsoleLink
  BY <1>8 DEF DeleteManagedClusters, RemoveApplication, RemoveConsoleLink, Fails, GoTo, Quiet,
     storeVars
<1>9. CASE Environment
  <2>1. UNCHANGED pc
    BY <1>9 DEF Environment, opVars
  <2>2. UNCHANGED instance
    BY <1>9 DEF Environment, UserNext, ServiceNext, UserDeletes, UserAnnotates, UserDisowns,
       UserImports, CacheSync, ArgoSyncs, ArgoDropsApp, ArgoInstalls, ArgoSyncsChild, ArgoRemoves,
       SpokeInstalls, SpokeDropsChildren, SpokeDropsApp, ClusterDetaches, OthersWrite, storeVars
  <2>3. QED
    BY <2>1, <2>2
<1>10. CASE UNCHANGED vars
  BY <1>10 DEF vars, envVars, storeVars, opVars
<1>11. QED
  BY <1>1, <1>2, <1>3, <1>4, <1>5, <1>6, <1>7, <1>8, <1>9, <1>10 DEF Next, Reconcile

(* Of the stored Pattern a step changes one thing at a time. *)
LEMMA PatternMoves ==
  ASSUME IInv, [Next]_vars
  PROVE  \/ /\ pattern'.exists = pattern.exists /\ pattern'.deleting = pattern.deleting
            /\ pattern'.phase = pattern.phase /\ pattern'.prune = pattern.prune
         \/ UserDeletes
         \/ UserAnnotates
         \/ (UpdateDeletionPhase /\ Accepted)
         \/ (RemoveFinalizer /\ Accepted)
<1> USE DEF Typed, TypeOK, EnvTypeOK, StoreTypes, Pattern, IInv, storeVars
<1>1. CASE Configure
  BY <1>1 DEF Configure, Fails, Accepted, Copies
<1>2. CASE ActionPerformed
  <2>1. CASE Accepted
    <3>1. pattern' = [pattern EXCEPT !.phase = instance.phase] /\ instance = pattern
      BY <1>2, <2>1 DEF ActionPerformed, Accepted, Copies
    <3>2. QED
      BY <3>1
  <2>2. CASE ~Accepted
    BY <1>2, <2>2 DEF ActionPerformed
  <2>3. QED
    BY <2>1, <2>2
<1>3. CASE RemoveFinalizer \/ UpdateDeletionPhase
  BY <1>3 DEF RemoveFinalizer, UpdateDeletionPhase
<1>4. CASE Environment
  <2>1. CASE UserDeletes \/ UserAnnotates
    BY <2>1
  <2>2. CASE ~(UserDeletes \/ UserAnnotates)
    BY <1>4, <2>2 DEF Environment, UserNext, ServiceNext, UserDisowns, UserImports, CacheSync,
       ArgoSyncs, ArgoDropsApp, ArgoInstalls, ArgoSyncsChild, ArgoRemoves, SpokeInstalls,
       SpokeDropsChildren, SpokeDropsApp, ClusterDetaches
  <2>3. QED
    BY <2>1, <2>2
<1>5. CASE Crash \/ UNCHANGED vars
  BY <1>5 DEF Crash, vars, envVars
<1>6. CASE Get \/ ReconcileApplication \/ ApplyDefaults \/ GetApplication \/ HaveACMHub
           \/ UpdateApplication \/ SyncApplication \/ GetChildApplications
           \/ CheckSpokeApplicationsGone
  BY <1>6 DEF Get, ReconcileApplication, ApplyDefaults, GetApplication, HaveACMHub, Quiet,
     UpdateApplication, SyncApplication, GetChildApplications, CheckSpokeApplicationsGone
<1>7. CASE ListManagedClusters \/ DeleteManagedClusters \/ RemoveApplication
           \/ RemoveConsoleLink
  BY <1>7 DEF ListManagedClusters, DeleteManagedClusters, RemoveApplication,
     RemoveConsoleLink, Quiet
<1>8. QED
  BY <1>1, <1>2, <1>3, <1>4, <1>5, <1>6, <1>7 DEF Next, Reconcile

(* With true answers no slip is added: a Pattern that is finalized has its *)
(* annotation, and nothing arrives late.                                   *)
LEMMA AnswersStayTrue ==
  ASSUME Slips = {}, TrueInv, [Next]_vars
  PROVE  slips' = {}
<1> USE DEF TrueInv, LeftInv, IInv, Faithful
<1>1. ASSUME NEW kind, Slip(kind) PROVE FALSE
  BY <1>1 DEF Slip
<1>2. Arrives => UNCHANGED slips
  BY DEF Arrives
<1>3. CASE ApplyDefaults
  <2>1. instance.prune
    BY <1>3 DEF ApplyDefaults, Deleting, Pruned
  <2>2. UNCHANGED slips
    BY <1>1, <1>3, <2>1 DEF ApplyDefaults, NoFault, budgetVars
  <2>3. QED
    BY <2>2
<1>4. CASE Environment
  BY <1>2, <1>4 DEF Environment, UserNext, ServiceNext, UserDeletes, UserAnnotates, UserDisowns,
     UserImports, CacheSync, ArgoSyncs, ArgoDropsApp, ArgoInstalls, ArgoSyncsChild, ArgoRemoves,
     SpokeInstalls, SpokeDropsChildren, SpokeDropsApp, ClusterDetaches, budgetVars
<1>5. CASE GetApplication \/ HaveACMHub \/ CheckSpokeApplicationsGone \/ ListManagedClusters
  BY <1>1, <1>5 DEF GetApplication, HaveACMHub, CheckSpokeApplicationsGone, ListManagedClusters,
     Fails, Fault, NoFault, budgetVars
<1>6. CASE \/ Get \/ Configure \/ ReconcileApplication \/ ActionPerformed \/ UpdateDeletionPhase
           \/ UpdateApplication \/ SyncApplication \/ GetChildApplications
  BY <1>6 DEF Get, Configure, ReconcileApplication, ActionPerformed, UpdateDeletionPhase,
     UpdateApplication, SyncApplication, GetChildApplications, Fails, Fault, NoFault, budgetVars
<1>7. CASE \/ DeleteManagedClusters \/ RemoveApplication \/ RemoveConsoleLink \/ RemoveFinalizer
           \/ Crash \/ UNCHANGED vars
  BY <1>7 DEF DeleteManagedClusters, RemoveApplication, RemoveConsoleLink, RemoveFinalizer, Crash,
     Fails, Fault, NoFault, budgetVars, vars, envVars
<1>8. QED
  BY <1>3, <1>4, <1>5, <1>6, <1>7 DEF Next, Reconcile

LEMMA PrunedStays ==
  ASSUME Slips = {}, TrueInv, [Next]_vars
  PROVE  Pruned'
<1> USE DEF TrueInv, LeftInv, IInv, Faithful, Pruned, Typed, TypeOK, EnvTypeOK, StoreTypes, Pattern
<1>1. cache'.deleting => cache'.prune
  BY CacheMoves
<1>2. instance'.deleting => instance'.prune
  <2>1. CASE UNCHANGED instance \/ instance' = cache
    BY <2>1
  <2>2. CASE instance' = NoPattern
    BY <2>2 DEF NoPattern
  <2>3. CASE instance' = [instance EXCEPT !.finalizer = TRUE]
    BY <2>3
  <2>4. QED
    BY <2>1, <2>2, <2>3, InstanceMoves
<1>3. pattern'.deleting => pattern'.prune
  <2>1. CASE UserDeletes
    BY <2>1 DEF UserDeletes, OthersWrite
  <2>2. CASE UserAnnotates
    BY <2>2 DEF UserAnnotates, OthersWrite
  <2>3. CASE UpdateDeletionPhase /\ Accepted
    BY <2>3 DEF UpdateDeletionPhase, storeVars
  <2>4. CASE RemoveFinalizer /\ Accepted
    BY <2>4 DEF RemoveFinalizer
  <2>5. QED
    BY <2>1, <2>2, <2>3, <2>4, PatternMoves
<1>4. QED
  BY <1>1, <1>2, <1>3

(* A phase is stored by updateDeletionPhase. *)
LEMMA PhaseSeenStays ==
  ASSUME TrueInv, [Next]_vars
  PROVE  PhaseSeen'
<1> USE DEF TrueInv, LeftInv, IInv, Faithful, PhaseSeen
<1>1. CASE pattern'.phase = ""
  BY <1>1
<1>2. CASE pattern'.phase # "" /\ pattern.phase # ""
  <2>1. cache'.deleting
    BY <1>2, CacheMoves DEF Deleting
  <2>2. ASSUME pc' \in {"configure", "reconcileApplication"}
        PROVE  instance'.deleting
    BY <1>2, <2>2, InstanceMoves
  <2>3. QED
    BY <2>1, <2>2
<1>3. CASE pattern'.phase # "" /\ pattern.phase = ""
  <2>1. UpdateDeletionPhase
    <3>1. ~UserDeletes /\ ~UserAnnotates /\ ~RemoveFinalizer
      BY <1>3 DEF UserDeletes, UserAnnotates, OthersWrite, RemoveFinalizer, Typed, TypeOK, EnvTypeOK,
         StoreTypes, Pattern
    <3>2. QED
      BY <1>3, <3>1, PatternMoves
  <2>2. pc = "updateDeletionPhase" /\ pc' = "actionPerformed" /\ UNCHANGED cache
    BY <2>1 DEF UpdateDeletionPhase, GoTo, storeVars
  <2>3. cache.deleting
    BY <2>2 DEF Deleting, Noticed
  <2>4. QED
    BY <2>2, <2>3
<1>4. QED
  BY <1>1, <1>2, <1>3

(* The phase does not go back. *)
LEMMA PhaseGoesOn ==
  ASSUME IInv, [Next]_vars
  PROVE  /\ \A p : NotAfter(p, pattern.phase) => NotAfter(p, pattern'.phase)
         /\ pattern.phase # "" => pattern'.phase # ""
         /\ pattern.phase \in HubPhases => pattern'.phase \in HubPhases
<1>1. CASE pattern'.phase = pattern.phase
  BY <1>1
<1>2. CASE <<pattern.phase, pattern'.phase>> \in PhaseEdges
  <2>1. \A p : NotAfter(p, pattern.phase) => NotAfter(p, pattern'.phase)
    BY <1>2, Onward
  <2>2. QED
    BY <1>2, <2>1 DEF PhaseEdges, HubPhases
<1>3. QED
  BY <1>1, <1>2, PhaseStep

(* What is told to whom, and from where. *)
LEMMA TellingsMove ==
  ASSUME IInv, [Next]_vars
  PROVE  /\ \/ app'.param \in {app.param, "none"}
            \/ UpdateApplication /\ app'.param = DeletePattern(instance.phase)
         /\ applied' \in {applied, app.param}
         /\ \/ UNCHANGED policy
            \/ policy' = "deleteChildren" /\ applied = "DeleteSpokeChildApps"
            \/ policy' = "pruned" /\ applied = "DeleteSpoke"
<1> USE DEF Typed, TypeOK, EnvTypeOK, AppTypes, App, IInv, appVars, spokeVars
<1>1. CASE UpdateApplication
  BY <1>1 DEF UpdateApplication
<1>2. CASE ReconcileApplication \/ SyncApplication \/ RemoveApplication
  BY <1>2 DEF ReconcileApplication, SyncApplication, RemoveApplication, NoApp
<1>3. CASE UserDisowns \/ ArgoSyncs \/ ArgoDropsApp
  BY <1>3 DEF UserDisowns, ArgoSyncs, ArgoDropsApp
<1>4. CASE \E c \in HubApps : ArgoSyncsChild(c)
  BY <1>4 DEF ArgoSyncsChild
<1>5. CASE UNCHANGED <<app, applied, policy>>
  BY <1>5
<1>6. \/ UpdateApplication \/ ReconcileApplication \/ SyncApplication \/ RemoveApplication
      \/ UserDisowns \/ ArgoSyncs \/ ArgoDropsApp \/ (\E c \in HubApps : ArgoSyncsChild(c))
      \/ UNCHANGED <<app, applied, policy>>
  <2>1. CASE Reconcile \/ Crash
    BY <2>1 DEF Reconcile, Crash, Get, Configure, ActionPerformed, ApplyDefaults,
       GetApplication, HaveACMHub, UpdateDeletionPhase, GetChildApplications,
       CheckSpokeApplicationsGone, ListManagedClusters, DeleteManagedClusters,
       RemoveConsoleLink, RemoveFinalizer, InstanceOnly, Quiet
  <2>2. CASE Environment
    BY <2>2 DEF Environment, UserNext, ServiceNext, UserDeletes, UserAnnotates, UserImports,
       CacheSync, ArgoInstalls, ArgoRemoves, SpokeInstalls, SpokeDropsChildren, SpokeDropsApp,
       ClusterDetaches
  <2>3. CASE UNCHANGED vars
    BY <2>3 DEF vars, envVars
  <2>4. QED
    BY <2>1, <2>2, <2>3 DEF Next
<1>7. QED
  BY <1>1, <1>2, <1>3, <1>4, <1>5, <1>6

LEMMA ClustersMove ==
  ASSUME IInv, [Next]_vars, NEW k \in Clusters, clusters'[k] = "terminating"
  PROVE  clusters[k] = "terminating" \/ DeleteManagedClusters
<1> USE DEF Typed, TypeOK, EnvTypeOK, SpokeTypes, IInv, spokeVars
<1>1. CASE Reconcile \/ Crash
  BY <1>1 DEF Reconcile, Crash, Get, Configure, ReconcileApplication, ActionPerformed, ApplyDefaults,
     GetApplication, HaveACMHub, UpdateDeletionPhase, UpdateApplication, SyncApplication,
     GetChildApplications, CheckSpokeApplicationsGone, ListManagedClusters, RemoveApplication,
     RemoveConsoleLink, RemoveFinalizer, InstanceOnly, Quiet
<1>2. CASE Environment
  <2>1. CASE \E j \in Clusters : UserImports(j) \/ ClusterDetaches(j)
    BY <2>1 DEF UserImports, ClusterDetaches
  <2>2. CASE UNCHANGED clusters
    BY <2>2
  <2>3. QED
    BY <1>2, <2>1, <2>2 DEF Environment, UserNext, ServiceNext, UserDeletes, UserAnnotates,
       UserDisowns, CacheSync, ArgoSyncs, ArgoDropsApp, ArgoInstalls, ArgoSyncsChild, ArgoRemoves,
       SpokeInstalls, SpokeDropsChildren, SpokeDropsApp
<1>3. CASE UNCHANGED vars
  BY <1>3 DEF vars, envVars
<1>4. QED
  BY <1>1, <1>2, <1>3 DEF Next

LEMMA FollowedStays ==
  ASSUME TrueInv, [Next]_vars
  PROVE  Followed'
<1> USE DEF TrueInv, LeftInv, IInv, Faithful, Followed
<1>1. ASSUME NEW v, Reached(v)
      PROVE  /\ v = "DeleteSpokeChildApps" => pattern'.phase # ""
             /\ v = "DeleteSpoke" => NotAfter("DeleteSpoke", pattern'.phase)
  BY <1>1, PhaseGoesOn DEF Reached
<1>2. Reached(app.param)'
  <2>1. CASE app'.param = app.param
    BY <1>1, <2>1 DEF Reached
  <2>2. CASE app'.param = "none"
    BY <2>2 DEF Reached
  <2>3. CASE UpdateApplication /\ app'.param = DeletePattern(instance.phase)
    <3>1. UNCHANGED pattern /\ NotAfter(instance.phase, pattern.phase)
      BY <2>3 DEF UpdateApplication, storeVars, Copies
    <3>2. \/ app'.param = instance.phase
          \/ app'.param = "DeleteChildApps"
      BY <2>3 DEF DeletePattern
    <3>3. QED
      BY <3>1, <3>2 DEF Reached, NotAfter
  <2>4. QED
    BY <2>1, <2>2, <2>3, TellingsMove
<1>3. Reached(applied)'
  BY <1>1, TellingsMove DEF Reached
<1>4. /\ policy' = "deleteChildren" => Reached("DeleteSpokeChildApps")'
      /\ policy' = "pruned" => Reached("DeleteSpoke")'
  BY <1>1, TellingsMove DEF Reached
<1>5. ASSUME NEW k \in Clusters, clusters'[k] = "terminating"
      PROVE  pattern'.phase \in HubPhases
  <2>1. CASE clusters[k] = "terminating"
    BY <2>1, PhaseGoesOn
  <2>2. CASE DeleteManagedClusters
    <3>1. instance.phase = "DeleteHubChildApps"
      BY <2>2 DEF DeleteManagedClusters, Typed, StepPhase
    <3>2. pattern.phase \in HubPhases
      BY <3>1, HubStays DEF Copies, HubPhases
    <3>3. QED
      BY <3>2, PhaseGoesOn
  <2>3. QED
    BY <1>5, <2>1, <2>2, ClustersMove
<1>6. QED
  BY <1>2, <1>3, <1>4, <1>5

(* Which calls follow which, as far as the deletion's start and end go. *)
LEMMA CallsMove ==
  ASSUME IInv, [Next]_vars
  PROVE  /\ pc' \in PhaseCalls => pc \in PhaseCalls \/ GetApplication
         /\ pc' = "haveACMHub" => UNCHANGED pc \/ GetApplication
         /\ pc' = "updateDeletionPhase"
              => \/ UNCHANGED <<pc, goal>>
                 \/ HaveACMHub \/ CheckSpokeApplicationsGone \/ GetChildApplications
<1> USE DEF PhaseCalls
<1>1. CASE GetApplication
  BY <1>1 DEF GetApplication, GoTo
<1>2. CASE HaveACMHub \/ CheckSpokeApplicationsGone
  BY <1>2 DEF HaveACMHub, CheckSpokeApplicationsGone, StorePhase, Fails, GoTo
<1>3. CASE GetChildApplications
  BY <1>3 DEF GetChildApplications, StorePhase, Fails, GoTo
<1>4. CASE Get \/ ApplyDefaults \/ UpdateDeletionPhase \/ ReconcileApplication
  BY <1>4 DEF Get, ApplyDefaults, UpdateDeletionPhase, ReconcileApplication, GoTo
<1>5. CASE Configure
  BY <1>5 DEF Configure, Fails, GoTo
<1>6. CASE ActionPerformed \/ RemoveFinalizer \/ Crash
  BY <1>6 DEF ActionPerformed, RemoveFinalizer, Crash, Return
<1>7. CASE UpdateApplication \/ ListManagedClusters
  BY <1>7 DEF UpdateApplication, ListManagedClusters, Fails, GoTo
<1>8. CASE SyncApplication
  <2>1. pc = "syncApplication" /\ pc' \in {"actionPerformed", "getChildApplications"}
    BY <1>8 DEF SyncApplication, Fails, GoTo
  <2>2. QED
    BY <2>1
<1>9. CASE DeleteManagedClusters \/ RemoveApplication \/ RemoveConsoleLink
  BY <1>9 DEF DeleteManagedClusters, RemoveApplication, RemoveConsoleLink, Fails, GoTo
<1>10. CASE Environment \/ UNCHANGED vars
  <2>1. UNCHANGED <<pc, goal>>
    BY <1>10 DEF Environment, vars, opVars
  <2>2. QED
    BY <2>1
<1>11. QED
  BY <1>1, <1>2, <1>3, <1>4, <1>5, <1>6, <1>7, <1>8, <1>9, <1>10 DEF Next, Reconcile

(* The Application comes by reconcileApplication and goes by the cascade. *)
LEMMA AppMoves ==
  ASSUME IInv, [Next]_vars
  PROVE  /\ app'.state = "live" => app.state = "live" \/ ReconcileApplication
         /\ app'.state = "absent" => app.state = "absent" \/ ArgoDropsApp
<1> USE DEF Typed, TypeOK, EnvTypeOK, AppTypes, App, IInv, appVars
<1>1. CASE UpdateApplication \/ SyncApplication \/ RemoveApplication
  BY <1>1 DEF UpdateApplication, SyncApplication, RemoveApplication
<1>2. CASE UserDisowns \/ ArgoSyncs
  BY <1>2 DEF UserDisowns, ArgoSyncs
<1>3. CASE ReconcileApplication
  <2>1. \/ UNCHANGED app \/ app' = [NoApp EXCEPT !.state = "live"]
        \/ app' = [app EXCEPT !.param = "none"]
    BY <1>3 DEF ReconcileApplication
  <2>2. app'.state = "absent" => app.state = "absent"
    BY <2>1 DEF NoApp
  <2>3. QED
    BY <1>3, <2>2
<1>4. CASE ArgoDropsApp
  BY <1>4 DEF ArgoDropsApp
<1>5. CASE UNCHANGED app
  BY <1>5
<1>6. \/ UpdateApplication \/ SyncApplication \/ RemoveApplication
      \/ UserDisowns \/ ArgoSyncs \/ ReconcileApplication \/ ArgoDropsApp \/ UNCHANGED app
  <2>1. CASE Reconcile \/ Crash
    BY <2>1 DEF Reconcile, Crash, Get, Configure, ActionPerformed, ApplyDefaults,
       GetApplication, HaveACMHub, UpdateDeletionPhase, GetChildApplications,
       CheckSpokeApplicationsGone, ListManagedClusters, DeleteManagedClusters,
       RemoveConsoleLink, RemoveFinalizer, InstanceOnly, Quiet
  <2>2. CASE Environment
    BY <2>2 DEF Environment, UserNext, ServiceNext, UserDeletes, UserAnnotates, UserImports,
       CacheSync, ArgoInstalls, ArgoSyncsChild, ArgoRemoves, SpokeInstalls, SpokeDropsChildren,
       SpokeDropsApp, ClusterDetaches
  <2>3. CASE UNCHANGED vars
    BY <2>3 DEF vars, envVars
  <2>4. QED
    BY <2>1, <2>2, <2>3 DEF Next
<1>7. QED
  BY <1>1, <1>2, <1>3, <1>4, <1>5, <1>6

LEMMA OverStays ==
  ASSUME TrueInv, [Next]_vars
  PROVE  Over'
<1> USE DEF TrueInv, LeftInv, IInv, Faithful, Over, Typed, TypeOK, EnvTypeOK, StoreTypes, Pattern
<1> SUFFICES ASSUME Gone', pc' \in PhaseCalls, app'.state = "live"
             PROVE  FALSE
  OBVIOUS
<1>1. Gone
  <2>1. ~UserDeletes
    BY DEF UserDeletes, OthersWrite, Gone
  <2>2. ~UserAnnotates \/ Gone
    BY DEF UserAnnotates, OthersWrite, Gone
  <2>3. ~RemoveFinalizer
    BY DEF RemoveFinalizer, Return, PhaseCalls
  <2>4. UpdateDeletionPhase => Gone
    BY DEF UpdateDeletionPhase, Gone, storeVars
  <2>5. QED
    BY <2>1, <2>2, <2>3, <2>4, PatternMoves DEF Gone
<1>2. ~ReconcileApplication
  BY DEF ReconcileApplication, PhaseCalls
<1>3. app.state = "live"
  BY <1>2, AppMoves
<1>4. GetApplication
  BY <1>1, <1>3, CallsMove
<1>5. app.owned
  BY <1>3, <1>4 DEF GetApplication, GoTo, PhaseCalls
<1>6. QED
  BY <1>1, <1>3, <1>5 DEF Ended, Finished

LEMMA StartedStays ==
  ASSUME Slips = {}, TrueInv, [Next]_vars
  PROVE  Started'
<1> USE DEF TrueInv, LeftInv, IInv, Faithful, Started
<1>0. ASSUME pc' = "updateDeletionPhase", instance'.phase = ""
      PROVE  \/ UNCHANGED <<pc, goal>> /\ instance.phase = ""
             \/ HaveACMHub /\ instance.phase = ""
  <2>1. UNCHANGED instance
    BY <1>0, InstanceMoves, CallsMove DEF HaveACMHub, CheckSpokeApplicationsGone,
       GetChildApplications, Quiet, storeVars
  <2>2. CheckSpokeApplicationsGone \/ GetChildApplications => instance.phase # ""
    BY DEF CheckSpokeApplicationsGone, GetChildApplications, Typed, StepPhase
  <2>3. QED
    BY <1>0, <2>1, <2>2, CallsMove
<1>1. ASSUME pc' \in {"haveACMHub", "updateDeletionPhase"}, instCurrent', instance'.phase = "",
             app'.state = "absent"
      PROVE  FALSE
  <2>1. CASE GetApplication
    BY <1>1, <2>1 DEF GetApplication, GoTo
  <2>2. CASE HaveACMHub
    BY <1>1, <2>2 DEF HaveACMHub, Quiet, InstanceOnly, appVars, storeVars
  <2>3. CASE UNCHANGED pc /\ ~GetApplication /\ ~HaveACMHub
    <3>1. UNCHANGED instance
      BY <1>1, <2>3, InstanceMoves
    <3>2. instCurrent
      <4>1. CASE Environment
        BY <1>1, <4>1 DEF Environment, UserNext, ServiceNext, UserDeletes, UserAnnotates,
           UserDisowns, UserImports, CacheSync, ArgoSyncs, ArgoDropsApp, ArgoInstalls,
           ArgoSyncsChild, ArgoRemoves, SpokeInstalls, SpokeDropsChildren, SpokeDropsApp,
           ClusterDetaches, OthersWrite, storeVars
      <4>2. CASE UNCHANGED vars
        BY <1>1, <4>2 DEF vars, envVars, storeVars
      <4>3. CASE Reconcile \/ Crash
        <5>1. UpdateDeletionPhase
          BY <1>1, <2>3, <4>3 DEF Reconcile, Crash, Return, Get, Configure, ReconcileApplication,
             ActionPerformed, ApplyDefaults, UpdateApplication, SyncApplication,
             GetChildApplications, CheckSpokeApplicationsGone, ListManagedClusters,
             DeleteManagedClusters, RemoveApplication, RemoveConsoleLink, RemoveFinalizer
        <5>2. QED
          BY <1>1, <2>3, <5>1 DEF UpdateDeletionPhase, GoTo
      <4>4. QED
        BY <4>1, <4>2, <4>3 DEF Next
    <3>3. app.state # "absent" /\ instance = pattern
      BY <1>1, <2>3, <3>1, <3>2 DEF Copies
    <3>4. app.state = "deleting"
      BY <1>1, <3>3, AppMoves DEF ArgoDropsApp
    <3>5. QED
      BY <1>1, <3>1, <3>3, <3>4 DEF HubAfterPhase, HubPhases
  <2>4. QED
    BY <1>0, <1>1, <2>1, <2>2, <2>3, CallsMove
<1>2. ASSUME pc' = "updateDeletionPhase", instance'.phase = "", goal' = "DeleteHubChildApps",
             NEW k \in Clusters
      PROVE  clusters'[k] = "none"
  <2>1. CASE HaveACMHub
    <3>1. ~AcmHub /\ UNCHANGED clusters
      BY <1>2, <2>1 DEF HaveACMHub, StorePhase, Slip, Quiet, InstanceOnly, spokeVars
    <3>2. QED
      BY <3>1 DEF AcmHub, NothingWithoutAcm
  <2>2. CASE UNCHANGED <<pc, goal>> /\ instance.phase = ""
    <3>1. \A j \in Clusters : clusters[j] = "none"
      BY <1>2, <2>2
    <3>2. pattern.deleting
      BY <1>2, <2>2 DEF Deleting, Copies
    <3>3. CASE Environment
      BY <3>1, <3>2, <3>3 DEF Environment, UserNext, ServiceNext, UserDeletes, UserAnnotates,
         UserDisowns, UserImports, CacheSync, ArgoSyncs, ArgoDropsApp, ArgoInstalls,
         ArgoSyncsChild, ArgoRemoves, SpokeInstalls, SpokeDropsChildren, SpokeDropsApp,
         ClusterDetaches, Arrives, spokeVars
    <3>4. CASE Reconcile \/ Crash
      <4>1. UpdateDeletionPhase
        BY <1>2, <2>2, <3>4 DEF Reconcile, Crash, Return, Get, Configure, ReconcileApplication,
           ActionPerformed, ApplyDefaults, GetApplication, HaveACMHub, UpdateApplication,
           SyncApplication, GetChildApplications, CheckSpokeApplicationsGone, ListManagedClusters,
           DeleteManagedClusters, RemoveApplication, RemoveConsoleLink, RemoveFinalizer
      <4>2. QED
        BY <3>1, <4>1 DEF UpdateDeletionPhase, InstanceOnly, spokeVars
    <3>5. CASE UNCHANGED vars
      BY <3>1, <3>5 DEF vars, envVars, spokeVars
    <3>6. QED
      BY <3>3, <3>4, <3>5 DEF Next
  <2>3. QED
    BY <1>0, <1>2, <2>1, <2>2
<1>3. QED
  BY <1>1, <1>2

LEMMA TrueInit == Init => TrueInv
<1> SUFFICES ASSUME Init
             PROVE  Faithful
  BY LeftInit DEF TrueInv
<1>1. /\ pattern.exists /\ ~pattern.deleting /\ pattern.phase = "" /\ cache = pattern
  BY DEF Init, EnvInit
<1>2. pc = "Get"
  BY DEF Init
<1>3. ~instance.deleting /\ app.param = "none"
  BY DEF Init, EnvInit, NoApp, NoPattern
<1>4. applied = "unsynced" /\ policy = "install" /\ slips = {}
  BY DEF Init, EnvInit
<1>5. \A k \in Clusters : clusters[k] = "none"
  BY DEF Init, EnvInit
<1>6. Pruned /\ PhaseSeen
  BY <1>1, <1>3 DEF Pruned, PhaseSeen
<1>7. Followed
  BY <1>3, <1>4, <1>5 DEF Followed, Reached
<1>8. Started /\ Over
  BY <1>2 DEF Started, Over, PhaseCalls
<1>9. QED
  BY <1>4, <1>6, <1>7, <1>8 DEF Faithful

LEMMA TrueStep ==
  ASSUME Slips = {}
  PROVE  TrueInv /\ [Next]_vars => TrueInv'
<1> SUFFICES ASSUME TrueInv, [Next]_vars
             PROVE  TrueInv'
  OBVIOUS
<1>1. LeftInv'
  BY LeftStep DEF TrueInv
<1>2. QED
  BY <1>1, AnswersStayTrue, PrunedStays, PhaseSeenStays, FollowedStays, StartedStays, OverStays
     DEF TrueInv, Faithful

-----------------------------------------------------------------------------
(* The steps of the finalizer as steps of the promise.                     *)

(* What a step leaves of the view the promise has. *)
StageKept == Stage' = Stage
TopKept == Top' = Top
AttachedKept == Attached' = Attached

(* What of the state the view is made of. *)
LEMMA ViewKept ==
  /\ (pattern'.exists = pattern.exists /\ pattern'.deleting = pattern.deleting
        /\ pattern'.phase = pattern.phase) => StageKept
  /\ (app'.state = app.state /\ app'.owned = app.owned) => TopKept
  /\ (\A k \in Clusters : clusters'[k] = "none" <=> clusters[k] = "none") => AttachedKept
<1>1. (pattern'.exists = pattern.exists /\ pattern'.deleting = pattern.deleting
        /\ pattern'.phase = pattern.phase) => StageKept
  BY DEF StageKept, Stage
<1>2. (app'.state = app.state /\ app'.owned = app.owned) => TopKept
  BY DEF TopKept, Top
<1>3. (\A k \in Clusters : clusters'[k] = "none" <=> clusters[k] = "none") => AttachedKept
  BY DEF AttachedKept, Attached
<1>4. QED
  BY <1>1, <1>2, <1>3

(* A step that leaves the view is a stutter of the promise. *)
LEMMA Stutter ==
  ASSUME StageKept, TopKept, AttachedKept, UNCHANGED <<spokes, spokeApps>>
  PROVE  [Promise!Next]_Promise!vars
  BY DEF Promise!vars, StageKept, TopKept, AttachedKept

(* The first state of the finalizer is one of the promise. *)
LEMMA PromiseInit == Init => Promise!Init
<1> SUFFICES ASSUME Init
             PROVE  Promise!Init
  OBVIOUS
<1>1. /\ pattern.exists /\ ~pattern.deleting /\ app.state = "absent"
      /\ spokes = {} /\ spokeApps = {}
      /\ clusters = [k \in Clusters |-> "none"]
  BY DEF Init, EnvInit, NoApp
<1>2. Stage = "installed" /\ Top = "absent" /\ Attached = {}
  BY <1>1 DEF Stage, Top, Attached
<1>3. QED
  BY <1>1, <1>2 DEF Promise!Init

(* The Application is created by who has not seen the deletion. *)
LEMMA PromiseDeploy ==
  ASSUME TrueInv, [Next]_vars, ReconcileApplication
  PROVE  [Promise!Next]_Promise!vars
<1> USE DEF TrueInv, LeftInv, IInv, Faithful
<1>1. StageKept /\ AttachedKept /\ UNCHANGED <<spokes, spokeApps>>
  BY ViewKept DEF ReconcileApplication, storeVars, spokeVars
<1>2. CASE app.state = "absent" /\ app'.state = "live"
  <2>1. app' = [NoApp EXCEPT !.state = "live"]
    BY <1>2 DEF ReconcileApplication
  <2>2. Top = "absent" /\ Top' = "live"
    BY <1>2, <2>1 DEF Top, NoApp
  <2>3. ~instance.deleting /\ Kept /\ ~Gone
    BY DEF ReconcileApplication, Noticed, Held
  <2>4. pattern.exists
    BY <2>3 DEF Kept, Gone, Held
  <2>5. pattern.phase = ""
    BY <2>3 DEF ReconcileApplication, PhaseSeen
  <2>6. Stage \in {"installed", "requested"}
    BY <2>4, <2>5 DEF Stage
  <2>7. Promise!Deploy
    BY <1>1, <2>2, <2>6 DEF Promise!Deploy, StageKept, AttachedKept
  <2>8. QED
    BY <2>7 DEF Promise!Next
<1>3. CASE ~(app.state = "absent" /\ app'.state = "live")
  <2>1. app'.state = app.state /\ app'.owned = app.owned
    <3>1. CASE app.state = "absent"
      BY <1>3, <3>1 DEF ReconcileApplication, NoApp
    <3>2. CASE app.state # "absent"
      BY <3>2 DEF ReconcileApplication, Typed, TypeOK, EnvTypeOK, AppTypes, App
    <3>3. QED
      BY <3>1, <3>2
  <2>2. QED
    BY <1>1, <2>1, ViewKept, Stutter
<1>4. QED
  BY <1>2, <1>3

(* A phase is stored when what the one before was for has been achieved. *)
LEMMA PromisePhase ==
  ASSUME TrueInv, [Next]_vars, UpdateDeletionPhase
  PROVE  [Promise!Next]_Promise!vars
<1> USE DEF TrueInv, LeftInv, IInv, Faithful
<1>1. TopKept /\ AttachedKept /\ UNCHANGED <<spokes, spokeApps>>
  BY ViewKept DEF UpdateDeletionPhase, InstanceOnly, appVars, spokeVars
<1>2. CASE UNCHANGED pattern
  BY <1>1, <1>2, ViewKept, Stutter
<1>3. CASE Accepted /\ pattern' = [pattern EXCEPT !.phase = goal]
  <2>1. instance = pattern /\ pattern.exists /\ instCurrent
    BY <1>3 DEF Accepted, Copies
  <2>2. pattern.deleting
    BY <2>1 DEF UpdateDeletionPhase, Deleting
  <2>3. <<pattern.phase, goal>> \in PhaseEdges
    BY <2>1 DEF UpdateDeletionPhase, Typed, StepPhase
  <2>4. pattern'.exists /\ pattern'.deleting /\ pattern'.phase = goal
    BY <1>3, <2>1, <2>2 DEF Typed, TypeOK, EnvTypeOK, StoreTypes, Pattern
  <2>5. goal # ""
    BY <2>3 DEF PhaseEdges
  <2>6. Stage' = goal
    BY <2>4, <2>5 DEF Stage
  <2>7. Stage = IF pattern.phase = "" THEN "requested" ELSE pattern.phase
    BY <2>1, <2>2 DEF Stage
  <2>8. ClearedFor(goal) /\ ClearedFor(pattern.phase)
    <3>1. SpokesTold
      BY DEF SpokesTold
    <3>2. QED
      BY <3>1 DEF Cleared, UpdateDeletionPhase
  <2>9. Promise!MoveTo(goal)
    BY <1>1, <2>6 DEF Promise!MoveTo, TopKept, AttachedKept
  <2>10. CASE pattern.phase = ""
    <3>1. app.state # "absent"
      BY <2>1, <2>10 DEF UpdateDeletionPhase, Started
    <3>2. Top # "absent"
      BY <3>1 DEF Top
    <3>3. goal = "DeleteSpokeChildApps" \/ goal = "DeleteHubChildApps"
      BY <2>3, <2>10 DEF PhaseEdges
    <3>4. CASE goal = "DeleteSpokeChildApps"
      <4>1. Promise!Start
        BY <2>7, <2>9, <2>10, <3>2, <3>4 DEF Promise!Start
      <4>2. QED
        BY <4>1 DEF Promise!Next
    <3>5. CASE goal = "DeleteHubChildApps"
      <4>1. Attached = {}
        BY <2>1, <2>10, <3>5 DEF UpdateDeletionPhase, Started, Attached
      <4>2. Promise!SpokesClear
        BY <2>8, <3>5 DEF ClearedFor, HubPhases, Promise!SpokesClear
      <4>3. Promise!Start
        BY <2>7, <2>9, <2>10, <3>2, <3>5, <4>1, <4>2 DEF Promise!Start
      <4>4. QED
        BY <4>3 DEF Promise!Next
    <3>6. QED
      BY <3>3, <3>4, <3>5
  <2>11. CASE pattern.phase = "DeleteSpokeChildApps"
    <3>1. goal = "DeleteSpoke"
      BY <2>3, <2>11 DEF PhaseEdges
    <3>2. Promise!SpokeChildrenGone
      BY <2>7, <2>8, <2>9, <2>11, <3>1 DEF ClearedFor, Promise!SpokeChildrenGone
    <3>3. QED
      BY <3>2 DEF Promise!Next
  <2>12. CASE pattern.phase = "DeleteSpoke"
    <3>1. goal = "DeleteHubChildApps"
      BY <2>3, <2>12 DEF PhaseEdges
    <3>2. Promise!SpokesGone
      BY <2>7, <2>8, <2>9, <2>12, <3>1
         DEF ClearedFor, HubPhases, Promise!SpokesGone, Promise!SpokesClear
    <3>3. QED
      BY <3>2 DEF Promise!Next
  <2>13. CASE pattern.phase = "DeleteHubChildApps"
    <3>1. goal = "DeleteHub"
      BY <2>3, <2>13 DEF PhaseEdges
    <3>2. Attached = {}
      BY <3>1 DEF UpdateDeletionPhase, Detached, AboutToPrune, ClustersTold, Attached
    <3>3. Promise!SpokesClear
      BY <2>8, <3>1 DEF ClearedFor, HubPhases, Promise!SpokesClear
    <3>4. Promise!HubChildrenGone
      BY <2>7, <2>9, <2>13, <3>1, <3>2, <3>3 DEF Promise!HubChildrenGone
    <3>5. QED
      BY <3>4 DEF Promise!Next
  <2>14. QED
    BY <2>3, <2>10, <2>11, <2>12, <2>13 DEF PhaseEdges
<1>4. QED
  BY <1>2, <1>3 DEF UpdateDeletionPhase, storeVars

(* The Application is deleted in the last phase, and not again later. *)
LEMMA PromiseCascade ==
  ASSUME TrueInv, [Next]_vars, RemoveApplication
  PROVE  [Promise!Next]_Promise!vars
<1> USE DEF TrueInv, LeftInv, IInv, Faithful
<1>1. StageKept /\ AttachedKept /\ UNCHANGED <<spokes, spokeApps>>
  BY ViewKept DEF RemoveApplication, storeVars, spokeVars
<1>2. CASE UNCHANGED app
  BY <1>1, <1>2, ViewKept, Stutter
<1>3. CASE app.state # "absent" /\ app' = [app EXCEPT !.state = "deleting"]
  <2>1. app'.state = "deleting" /\ app'.owned = app.owned
    BY <1>3 DEF Typed, TypeOK, EnvTypeOK, AppTypes, App
  <2>2. CASE app.state = "deleting"
    BY <1>1, <2>1, <2>2, ViewKept, Stutter
  <2>3. CASE app.state # "deleting"
    <3>1. app.state = "live"
      BY <1>3, <2>3 DEF Typed, TypeOK, EnvTypeOK, AppTypes, App
    <3>2. ~Gone
      BY <3>1 DEF RemoveApplication, Over, PhaseCalls
    <3>3. instance.phase = "DeleteHub" /\ pc = "removeApplication"
      BY DEF RemoveApplication, Typed, StepPhase
    <3>4. pattern.phase = "DeleteHub"
      BY <3>3, HubStays DEF Copies, HubPhases
    <3>5. pattern.deleting /\ pattern.exists
      BY <3>2, <3>4 DEF Deleting, Gone
    <3>6. Stage = "DeleteHub"
      BY <3>4, <3>5 DEF Stage
    <3>7. Top # "absent" /\ Top' = "deleting"
      BY <2>1, <3>1 DEF Top
    <3>8. Promise!Cascade
      BY <1>1, <3>6, <3>7 DEF Promise!Cascade, StageKept, AttachedKept
    <3>9. QED
      BY <3>8 DEF Promise!Next
  <2>4. QED
    BY <2>2, <2>3
<1>4. QED
  BY <1>2, <1>3 DEF RemoveApplication

(* The finalizer is removed when the Application is gone or going. *)
LEMMA PromiseRelease ==
  ASSUME TrueInv, [Next]_vars, RemoveFinalizer
  PROVE  [Promise!Next]_Promise!vars
<1> USE DEF TrueInv, LeftInv, IInv, Faithful
<1>1. TopKept /\ AttachedKept /\ UNCHANGED <<spokes, spokeApps>>
  BY ViewKept DEF RemoveFinalizer, Return, spokeVars
<1>2. CASE UNCHANGED pattern
  BY <1>1, <1>2, ViewKept, Stutter
<1>3. CASE Accepted /\ pattern' = [pattern EXCEPT !.finalizer = FALSE, !.exists = FALSE]
  <2>1. pattern.exists
    BY <1>3 DEF Accepted
  <2>2. ~pattern'.exists
    BY <1>3 DEF Typed, TypeOK, EnvTypeOK, StoreTypes, Pattern
  <2>3. app.owned => app.state # "live"
    BY DEF RemoveFinalizer, Ended, Finished
  <2>4. Top # "live"
    BY <2>3 DEF Top
  <2>5. Stage # "released"
    <3>1. pattern.phase # "released"
      BY DEF Typed, TypeOK, EnvTypeOK, StoreTypes, Pattern, Phases
    <3>2. QED
      BY <2>1, <3>1 DEF Stage
  <2>6. Stage' = "released"
    BY <2>2 DEF Stage
  <2>7. Promise!Release
    BY <1>1, <2>4, <2>5, <2>6 DEF Promise!Release, Promise!MoveTo, TopKept, AttachedKept
  <2>8. QED
    BY <2>7 DEF Promise!Next
<1>4. QED
  BY <1>2, <1>3 DEF RemoveFinalizer

(* What the rest of the reconciler does the promise does not speak of. *)
LEMMA PromiseStutters ==
  ASSUME TrueInv,
         \/ Get \/ Configure \/ ActionPerformed \/ ApplyDefaults \/ GetApplication \/ HaveACMHub
         \/ UpdateApplication \/ SyncApplication \/ GetChildApplications
         \/ CheckSpokeApplicationsGone \/ ListManagedClusters \/ DeleteManagedClusters
         \/ RemoveConsoleLink \/ Crash \/ UNCHANGED vars
  PROVE  [Promise!Next]_Promise!vars
<1> USE DEF TrueInv, LeftInv, IInv, Faithful
<1>1. StageKept
  <2>1. CASE Configure
    BY <2>1, ViewKept DEF Configure, Fails, storeVars, Accepted, Copies, Typed, TypeOK, EnvTypeOK,
       StoreTypes, Pattern
  <2>2. CASE ActionPerformed
    <3>1. CASE Accepted
      <4>1. pattern' = [pattern EXCEPT !.phase = instance.phase] /\ instance = pattern
        BY <2>2, <3>1 DEF ActionPerformed, Accepted, Copies
      <4>2. QED
        BY <4>1, ViewKept DEF Typed, TypeOK, EnvTypeOK, StoreTypes, Pattern
    <3>2. CASE ~Accepted
      BY <2>2, <3>2, ViewKept DEF ActionPerformed
    <3>3. QED
      BY <3>1, <3>2
  <2>3. CASE UNCHANGED pattern
    BY <2>3, ViewKept
  <2>4. QED
    BY <2>1, <2>2, <2>3 DEF Get, ApplyDefaults, GetApplication, HaveACMHub, UpdateApplication,
       SyncApplication, GetChildApplications, CheckSpokeApplicationsGone, ListManagedClusters,
       DeleteManagedClusters, RemoveConsoleLink, Crash, Quiet, vars, envVars, storeVars
<1>2. TopKept
  <2>1. CASE UpdateApplication \/ SyncApplication
    BY <2>1, ViewKept DEF UpdateApplication, SyncApplication, Typed, TypeOK, EnvTypeOK, AppTypes,
       App
  <2>2. CASE UNCHANGED app
    BY <2>2, ViewKept
  <2>3. QED
    BY <2>1, <2>2 DEF Get, Configure, ActionPerformed, ApplyDefaults, GetApplication, HaveACMHub,
       GetChildApplications, CheckSpokeApplicationsGone, ListManagedClusters,
       DeleteManagedClusters, RemoveConsoleLink, Crash, Quiet, InstanceOnly, vars, envVars, appVars
<1>3. AttachedKept /\ UNCHANGED <<spokes, spokeApps>>
  <2>1. CASE DeleteManagedClusters
    <3>1. \A k \in Clusters : clusters'[k] = "none" <=> clusters[k] = "none"
      BY <2>1 DEF DeleteManagedClusters
    <3>2. QED
      BY <2>1, <3>1, ViewKept DEF DeleteManagedClusters
  <2>2. CASE UNCHANGED spokeVars
    BY <2>2, ViewKept DEF spokeVars
  <2>3. QED
    BY <2>1, <2>2 DEF Get, Configure, ActionPerformed, ApplyDefaults, GetApplication, HaveACMHub,
       UpdateApplication, SyncApplication, GetChildApplications, CheckSpokeApplicationsGone,
       ListManagedClusters, RemoveConsoleLink, Crash, Quiet, InstanceOnly, vars, envVars
<1>4. QED
  BY <1>1, <1>2, <1>3, Stutter

(* The user asks for the deletion; without a finalizer nothing was made yet.*)
LEMMA PromiseRequest ==
  ASSUME TrueInv, UserDeletes
  PROVE  [Promise!Next]_Promise!vars
<1> USE DEF TrueInv, LeftInv, IInv, Faithful, Typed, TypeOK, EnvTypeOK, StoreTypes, Pattern
<1>1. TopKept /\ AttachedKept /\ UNCHANGED <<spokes, spokeApps>>
  BY ViewKept DEF UserDeletes, appVars, spokeVars
<1>2. pattern.exists /\ ~pattern.deleting
  BY DEF UserDeletes
<1>3. Stage = "installed"
  BY <1>2 DEF Stage
<1>4. pattern.phase = ""
  BY <1>2 DEF Deleting
<1>5. CASE pattern.finalizer
  <2>1. pattern' = [pattern EXCEPT !.deleting = TRUE]
    BY <1>5 DEF UserDeletes, OthersWrite
  <2>2. Stage' = "requested"
    BY <1>2, <1>4, <2>1 DEF Stage
  <2>3. Promise!Request
    BY <1>1, <1>3, <2>2 DEF Promise!Request, Promise!MoveTo, TopKept, AttachedKept
  <2>4. QED
    BY <2>3 DEF Promise!Next
<1>6. CASE ~pattern.finalizer
  <2>1. pattern' = [pattern EXCEPT !.exists = FALSE]
    BY <1>6 DEF UserDeletes, OthersWrite
  <2>2. Stage' = "released"
    BY <2>1 DEF Stage
  <2>3. app.state = "absent"
    BY <1>2, <1>6 DEF Held, Kept
  <2>4. Top # "live"
    BY <2>3 DEF Top
  <2>5. Promise!Release
    BY <1>1, <1>3, <2>2, <2>4 DEF Promise!Release, Promise!MoveTo, TopKept, AttachedKept
  <2>6. QED
    BY <2>5 DEF Promise!Next
<1>7. QED
  BY <1>5, <1>6

(* With true answers there is ACM to install on only before the deletion. *)
LEMMA GrowsBefore ==
  ASSUME Slips = {}, TrueInv, AcmHub, Arrives
  PROVE  Stage = "installed"
<1> USE DEF TrueInv, LeftInv, IInv, Faithful
<1>1. ~pattern.deleting
  BY DEF Arrives
<1>2. app.state # "absent"
  BY DEF AcmHub, Emptied
<1>3. pattern.exists
  BY <1>1, <1>2 DEF Held, Kept
<1>4. QED
  BY <1>1, <1>3 DEF Stage

(* Spokes and clusters are added to what there is. *)
LEMMA PromiseGrow ==
  ASSUME Slips = {}, TrueInv, NEW k \in Clusters, UserImports(k) \/ SpokeInstalls(k)
  PROVE  [Promise!Next]_Promise!vars
<1> USE DEF TrueInv, LeftInv, IInv, Faithful, Typed, TypeOK, EnvTypeOK, SpokeTypes
<1>1. StageKept /\ TopKept
  BY ViewKept DEF UserImports, SpokeInstalls, storeVars, appVars
<1>2. Stage = "installed"
  BY GrowsBefore DEF UserImports, SpokeInstalls
<1>3. /\ \A j \in Clusters : clusters[j] # "none" => clusters'[j] # "none"
      /\ spokes \subseteq spokes' /\ spokes' \subseteq Clusters
      /\ spokeApps \subseteq spokeApps' /\ spokeApps' \subseteq Clusters
  <2>1. CASE UserImports(k)
    BY <2>1 DEF UserImports
  <2>2. CASE SpokeInstalls(k)
    BY <2>2 DEF SpokeInstalls
  <2>3. QED
    BY <2>1, <2>2
<1>4. Attached \subseteq Attached' /\ Attached' \subseteq Clusters
  BY <1>3 DEF Attached
<1>5. Promise!Grow
  BY <1>1, <1>2, <1>3, <1>4 DEF Promise!Grow, StageKept, TopKept
<1>6. QED
  BY <1>5 DEF Promise!Next

(* The user takes the Application from the Pattern, Argo CD ends the cascade.*)
LEMMA PromiseTop ==
  ASSUME TrueInv, UserDisowns \/ ArgoSyncs \/ ArgoDropsApp
  PROVE  [Promise!Next]_Promise!vars
<1> USE DEF TrueInv, LeftInv, IInv, Faithful, Typed, TypeOK, EnvTypeOK, AppTypes, App
<1>1. StageKept /\ AttachedKept /\ UNCHANGED <<spokes, spokeApps>>
  BY ViewKept DEF UserDisowns, ArgoSyncs, ArgoDropsApp, storeVars, spokeVars
<1>2. CASE UserDisowns
  <2>1. app.owned /\ app.state \in {"live", "deleting"} /\ app' = [app EXCEPT !.owned = FALSE]
    BY <1>2 DEF UserDisowns
  <2>2. CASE app.state = "live"
    <3>1. Top = "live" /\ Top' = "foreign"
      BY <2>1, <2>2 DEF Top
    <3>2. Promise!Disown
      BY <1>1, <3>1 DEF Promise!Disown, StageKept, AttachedKept
    <3>3. QED
      BY <3>2 DEF Promise!Next
  <2>3. CASE app.state = "deleting"
    <3>1. TopKept
      BY <2>1, <2>3 DEF TopKept, Top
    <3>2. QED
      BY <1>1, <3>1, Stutter
  <2>4. QED
    BY <2>1, <2>2, <2>3
<1>3. CASE ArgoSyncs
  <2>1. app'.state = app.state /\ app'.owned = app.owned
    BY <1>3 DEF ArgoSyncs
  <2>2. QED
    BY <1>1, <2>1, ViewKept, Stutter
<1>4. CASE ArgoDropsApp
  <2>1. Top = "deleting" /\ Top' = "absent"
    BY <1>4 DEF ArgoDropsApp, Top
  <2>2. Promise!CascadeEnds
    BY <1>1, <2>1 DEF Promise!CascadeEnds, StageKept, AttachedKept
  <2>3. QED
    BY <2>2 DEF Promise!Next
<1>5. QED
  BY <1>2, <1>3, <1>4

(* What is still on the spokes of a Pattern that is gone belongs to an     *)
(* Application that is not the Pattern's.                                  *)
LEMMA ForeignLeft ==
  ASSUME TrueInv, Gone, AcmHub,
         ~ (pattern.phase \in HubPhases /\ app.state = "deleting")
  PROVE  Stage = "released" /\ Top = "foreign"
<1> USE DEF TrueInv, LeftInv, IInv, Faithful, Typed, TypeOK, EnvTypeOK, AppTypes, App
<1>1. Stage = "released"
  BY DEF Gone, Stage
<1>2. app.state # "absent"
  BY DEF AcmHub, Emptied
<1>3. app.state # "deleting"
  BY DEF HubAfterPhase
<1>4. app.state = "live" /\ ~app.owned
  BY <1>2, <1>3 DEF Ended, Finished
<1>5. QED
  BY <1>1, <1>4 DEF Top

(* The spokes follow the policies, and those the stored phase. *)
LEMMA PromiseSpokes ==
  ASSUME TrueInv, NEW k \in Clusters, SpokeDropsChildren(k) \/ SpokeDropsApp(k)
  PROVE  [Promise!Next]_Promise!vars
<1> USE DEF TrueInv, LeftInv, IInv, Faithful
<1>1. StageKept /\ TopKept /\ AttachedKept
  BY ViewKept DEF SpokeDropsChildren, SpokeDropsApp, storeVars, appVars
<1>2. AcmHub /\ SpokesTold
  BY DEF SpokeDropsChildren, SpokeDropsApp, SpokesTold
<1>3. pattern.phase # ""
  BY DEF SpokeDropsChildren, SpokeDropsApp, Followed, Reached, NotAfter
<1>4. pattern.deleting
  BY <1>3 DEF Deleting
<1>5. pattern.phase \notin HubPhases
  BY <1>2 DEF Cleared, ClearedFor, SpokeDropsChildren, SpokeDropsApp
<1>6. CASE Gone
  <2>1. Stage = "released" /\ Top = "foreign"
    BY <1>2, <1>5, <1>6, ForeignLeft
  <2>2. /\ spokes' \in SUBSET spokes /\ spokeApps' \in SUBSET spokeApps
        /\ Attached' \in SUBSET Attached
    BY <1>1 DEF SpokeDropsChildren, SpokeDropsApp, AttachedKept
  <2>3. Promise!RunOut
    BY <1>1, <2>1, <2>2 DEF Promise!RunOut, StageKept, TopKept
  <2>4. QED
    BY <2>3 DEF Promise!Next
<1>7. CASE ~Gone
  <2>1. Stage = pattern.phase
    BY <1>3, <1>4, <1>7 DEF Stage, Gone
  <2>2. CASE SpokeDropsChildren(k)
    <3>1. pattern.phase # "DeleteSpoke"
      BY <1>2, <2>2 DEF SpokeDropsChildren, Cleared, ClearedFor
    <3>2. Stage = "DeleteSpokeChildApps"
      BY <1>3, <1>5, <2>1, <3>1 DEF HubPhases, Typed, TypeOK, EnvTypeOK, StoreTypes, Pattern, Phases
    <3>3. Promise!DropSpokeChild(k)
      BY <1>1, <2>2, <3>2
         DEF Promise!DropSpokeChild, SpokeDropsChildren, StageKept, TopKept, AttachedKept
    <3>4. QED
      BY <3>3 DEF Promise!Next
  <2>3. CASE SpokeDropsApp(k)
    <3>1. NotAfter("DeleteSpoke", pattern.phase)
      BY <2>3 DEF SpokeDropsApp, Followed, Reached
    <3>2. Stage = "DeleteSpoke"
      BY <1>5, <2>1, <3>1, AfterSpoke
    <3>3. Promise!DropSpoke(k)
      BY <1>1, <2>3, <3>2
         DEF Promise!DropSpoke, SpokeDropsApp, StageKept, TopKept, AttachedKept
    <3>4. QED
      BY <3>3 DEF Promise!Next
  <2>4. QED
    BY <2>2, <2>3
<1>8. QED
  BY <1>6, <1>7

(* A cluster detaches in the hub's first phase, before anything is pruned. *)
LEMMA PromiseDetach ==
  ASSUME TrueInv, NEW k \in Clusters, ClusterDetaches(k)
  PROVE  [Promise!Next]_Promise!vars
<1> USE DEF TrueInv, LeftInv, IInv, Faithful
<1>1. StageKept /\ TopKept /\ UNCHANGED <<spokes, spokeApps>>
  BY ViewKept DEF ClusterDetaches, storeVars, appVars
<1>2. AcmHub /\ clusters[k] = "terminating" /\ ClustersTold
  BY DEF ClusterDetaches, ClustersTold
<1>3. pattern.phase \in HubPhases
  BY <1>2 DEF Followed
<1>4. ~AboutToPrune
  BY <1>2 DEF Detached
<1>5. pattern.phase = "DeleteHubChildApps" /\ app.state # "deleting"
  BY <1>3, <1>4 DEF AboutToPrune, HubCleanupBegun, HubPhases
<1>6. k \in Attached /\ Attached' = Attached \ {k}
  <2>1. \A j \in Clusters : clusters'[j] = IF j = k THEN "none" ELSE clusters[j]
    BY DEF ClusterDetaches, Typed, TypeOK, EnvTypeOK, SpokeTypes
  <2>2. QED
    BY <1>2, <2>1 DEF Attached
<1>7. pattern.deleting
  BY <1>5 DEF Deleting
<1>8. CASE Gone
  <2>1. Stage = "released" /\ Top = "foreign"
    BY <1>2, <1>5, <1>8, ForeignLeft
  <2>2. /\ spokes' \in SUBSET spokes /\ spokeApps' \in SUBSET spokeApps
        /\ Attached' \in SUBSET Attached
    BY <1>1, <1>6
  <2>3. Promise!RunOut
    BY <1>1, <2>1, <2>2 DEF Promise!RunOut, StageKept, TopKept
  <2>4. QED
    BY <2>3 DEF Promise!Next
<1>9. CASE ~Gone
  <2>1. Stage = "DeleteHubChildApps"
    BY <1>5, <1>7, <1>9 DEF Stage, Gone
  <2>2. Promise!Detach(k)
    BY <1>1, <1>6, <2>1 DEF Promise!Detach, StageKept, TopKept
  <2>3. QED
    BY <2>2 DEF Promise!Next
<1>10. QED
  BY <1>8, <1>9

(* The cache and the hub's children are not the promise's business. *)
LEMMA EnvironmentStutters ==
  ASSUME TrueInv,
         \/ UserAnnotates \/ CacheSync
         \/ \E c \in HubApps : ArgoInstalls(c) \/ ArgoSyncsChild(c) \/ ArgoRemoves(c)
  PROVE  [Promise!Next]_Promise!vars
<1>1. StageKept
  <2>1. CASE UserAnnotates
    BY <2>1, ViewKept DEF UserAnnotates, OthersWrite, TrueInv, LeftInv, IInv, Typed, TypeOK,
       EnvTypeOK, StoreTypes, Pattern
  <2>2. CASE UNCHANGED pattern
    BY <2>2, ViewKept
  <2>3. QED
    BY <2>1, <2>2 DEF CacheSync, ArgoInstalls, ArgoSyncsChild, ArgoRemoves, storeVars
<1>2. TopKept /\ AttachedKept /\ UNCHANGED <<spokes, spokeApps>>
  BY ViewKept DEF UserAnnotates, CacheSync, ArgoInstalls, ArgoSyncsChild, ArgoRemoves, appVars,
     spokeVars
<1>3. QED
  BY <1>1, <1>2, Stutter

(* Every step of the finalizer and of the world around it is a step of the *)
(* promise, or one it does not speak of.                                   *)
LEMMA PromiseStep ==
  ASSUME Slips = {}
  PROVE  TrueInv /\ [Next]_vars => [Promise!Next]_Promise!vars
<1> SUFFICES ASSUME TrueInv, [Next]_vars
             PROVE  [Promise!Next]_Promise!vars
  OBVIOUS
<1>1. CASE Environment
  BY <1>1, PromiseRequest, PromiseGrow, PromiseTop, PromiseSpokes, PromiseDetach,
     EnvironmentStutters DEF Environment, UserNext, ServiceNext
<1>2. CASE Reconcile \/ Crash \/ UNCHANGED vars
  BY <1>2, PromiseDeploy, PromisePhase, PromiseCascade, PromiseRelease, PromiseStutters
     DEF Reconcile
<1>3. QED
  BY <1>1, <1>2 DEF Next

(* With true answers the finalizer, for all its stale copies, refused      *)
(* writes, failing calls and restarts, does what the phased deletion       *)
(* promises (finalizeObject, against README.md and pattern_types.go).      *)
THEOREM PhasedDeletionImplemented ==
  ASSUME Slips = {}
  PROVE  Spec => ImplementsPhasedDeletion
<1>1. Init => TrueInv /\ Promise!Init
  BY TrueInit, PromiseInit
<1>2. TrueInv /\ [Next]_vars => TrueInv' /\ [Promise!Next]_Promise!vars
  BY TrueStep, PromiseStep
<1>3. QED
  BY <1>1, <1>2, PTL DEF Spec, ImplementsPhasedDeletion, Promise!Spec
=============================================================================
