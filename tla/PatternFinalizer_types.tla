----------------------- MODULE PatternFinalizer_types -----------------------
(***************************************************************************)
(* The type invariant of PatternFinalizer, for any set of children and     *)
(* clusters, any slips and any number of failures and edits.               *)
(*                                                                         *)
(* That the Application's parameter is one of Params, and the phase to be  *)
(* stored one of Phases, depends on the phase a step is taken in; so what  *)
(* is inductive is the type invariant with StepPhase, which says it.       *)
(***************************************************************************)
EXTENDS PatternFinalizer, TLAPS

(* Which phases a reconciliation can be in at its next call. *)
StepPhase ==
  /\ pc = "haveACMHub" => instance.phase = ""
  /\ pc \in {"updateApplication", "syncApplication", "getChildApplications"}
       => instance.phase \in {"DeleteSpokeChildApps", "DeleteSpoke", "DeleteHubChildApps"}
  /\ pc = "checkSpokeApplicationsGone"
       => instance.phase \in {"DeleteSpokeChildApps", "DeleteSpoke"}
  /\ pc \in {"listManagedClusters", "deleteManagedClusters"}
       => instance.phase = "DeleteHubChildApps"
  /\ pc = "removeApplication" => instance.phase = "DeleteHub"
  /\ pc = "updateDeletionPhase" => <<instance.phase, goal>> \in PhaseEdges

Typed == TypeOK /\ StepPhase

-----------------------------------------------------------------------------
(* The copies a reconciliation starts from are values of their types. *)
LEMMA EmptyCopies == NoPattern \in Pattern /\ NoApp \in App
  BY DEF NoPattern, Pattern, NoApp, App, Phases, Params

(* A slip keeps the budget. *)
LEMMA SlipTypes ==
  ASSUME BudgetTypes, NEW kind, kind \in SlipKinds, Slip(kind)
  PROVE  BudgetTypes'
  BY EnvironmentAssumption DEF BudgetTypes, Slip

(* So does a failing call, and one that succeeds. *)
LEMMA FaultTypes ==
  ASSUME BudgetTypes, NoFault \/ Fault
  PROVE  BudgetTypes'
  BY EnvironmentAssumption DEF BudgetTypes, NoFault, Fault, budgetVars

(* So does an arrival. *)
LEMMA ArrivalTypes ==
  ASSUME BudgetTypes, Arrives, faults' = faults, edits' \in 0..MaxEdits
  PROVE  BudgetTypes'
  BY EnvironmentAssumption DEF BudgetTypes, Arrives, SlipKinds

(* An edit of the user is paid for. *)
LEMMA EditTypes ==
  ASSUME BudgetTypes, edits > 0, edits' = edits - 1
  PROVE  edits' \in 0..MaxEdits
  BY EnvironmentAssumption DEF BudgetTypes

(* Nothing is spent at first. *)
LEMMA FullBudget ==
  ASSUME slips = {}, faults = MaxFaults, edits = MaxEdits
  PROVE  BudgetTypes
  BY EnvironmentAssumption DEF BudgetTypes

(* The first state is typed. *)
LEMMA TypedInit == Init => Typed
<1> SUFFICES ASSUME Init PROVE Typed
  OBVIOUS
<1> USE EmptyCopies DEF Init, EnvInit
<1>1. StoreTypes
  BY DEF StoreTypes, Pattern, Phases
<1>2. AppTypes /\ ChildTypes /\ SpokeTypes
  BY DEF AppTypes, ChildTypes, SpokeTypes
<1>3. BudgetTypes
  BY FullBudget
<1>4. pc \in Steps /\ goal \in Phases /\ consoleLink \in BOOLEAN
  BY DEF Steps, Phases
<1>5. StepPhase
  BY DEF StepPhase
<1>6. QED
  BY <1>1, <1>2, <1>3, <1>4, <1>5 DEF Typed, TypeOK, EnvTypeOK

-----------------------------------------------------------------------------
(* The steps of the reconciler, one by one. *)

(* The copy is the cache's. *)
LEMMA GetTypes ==
  ASSUME Typed, Get
  PROVE  Typed'
<1> USE EmptyCopies DEF Get, Typed, TypeOK, EnvTypeOK, GoTo, InstanceOnly, appVars, childVars,
      spokeVars
<1>1. StoreTypes'
  BY DEF StoreTypes
<1>2. (AppTypes /\ ChildTypes /\ SpokeTypes)'
  BY DEF AppTypes, ChildTypes, SpokeTypes
<1>3. BudgetTypes'
  BY FaultTypes, SlipTypes DEF SlipKinds
<1>4. (pc \in Steps /\ goal \in Phases /\ consoleLink \in BOOLEAN /\ StepPhase)'
  BY DEF Steps, Phases, StepPhase, StoreTypes, Pattern, PhaseEdges
<1>5. QED
  BY <1>1, <1>2, <1>3, <1>4

(* The finalizer is added to a typed copy. *)
LEMMA ConfigureTypes ==
  ASSUME Typed, Configure
  PROVE  Typed'
<1> USE EmptyCopies DEF Configure, Typed, TypeOK, EnvTypeOK, GoTo, Fails, InstanceOnly,
      storeVars, appVars, childVars, spokeVars
<1>1. StoreTypes'
  BY DEF StoreTypes, Pattern
<1>2. (AppTypes /\ ChildTypes /\ SpokeTypes)'
  BY DEF AppTypes, ChildTypes, SpokeTypes
<1>3. BudgetTypes'
  BY FaultTypes, SlipTypes DEF SlipKinds
<1>4. (pc \in Steps /\ goal \in Phases /\ consoleLink \in BOOLEAN /\ StepPhase)'
  BY DEF Steps, Phases, StepPhase, StoreTypes, Pattern, PhaseEdges
<1>5. QED
  BY <1>1, <1>2, <1>3, <1>4

(* A created Application is NoApp but for its state. *)
LEMMA ReconcileApplicationTypes ==
  ASSUME Typed, ReconcileApplication
  PROVE  Typed'
<1> USE EmptyCopies DEF ReconcileApplication, Typed, TypeOK, EnvTypeOK, storeVars, childVars,
      spokeVars
<1>1. StoreTypes'
  BY DEF StoreTypes
<1>2. (AppTypes /\ ChildTypes /\ SpokeTypes)'
  <2>1. AppTypes'
    BY DEF AppTypes, App, NoApp, Params
  <2>2. QED
    BY <2>1 DEF ChildTypes, SpokeTypes
<1>3. BudgetTypes'
  BY FaultTypes, SlipTypes DEF SlipKinds
<1>4. (pc \in Steps /\ goal \in Phases /\ consoleLink \in BOOLEAN /\ StepPhase)'
  BY DEF Steps, Phases, StepPhase, StoreTypes, Pattern, PhaseEdges
<1>5. QED
  BY <1>1, <1>2, <1>3, <1>4

(* The phase written is that of the copy. *)
LEMMA ActionPerformedTypes ==
  ASSUME Typed, ActionPerformed
  PROVE  Typed'
<1> USE EmptyCopies DEF ActionPerformed, Typed, TypeOK, EnvTypeOK, GoTo, InstanceOnly, Return,
      appVars, childVars, spokeVars
<1>1. StoreTypes'
  BY DEF StoreTypes, Pattern
<1>2. (AppTypes /\ ChildTypes /\ SpokeTypes)'
  BY DEF AppTypes, ChildTypes, SpokeTypes
<1>3. BudgetTypes'
  BY FaultTypes, SlipTypes DEF SlipKinds
<1>4. (pc \in Steps /\ goal \in Phases /\ consoleLink \in BOOLEAN /\ StepPhase)'
  BY DEF Steps, Phases, StepPhase, StoreTypes, Pattern, PhaseEdges
<1>5. QED
  BY <1>1, <1>2, <1>3, <1>4

(* Three ways on, all to a step. *)
LEMMA ApplyDefaultsTypes ==
  ASSUME Typed, ApplyDefaults
  PROVE  Typed'
<1> USE EmptyCopies DEF ApplyDefaults, Typed, TypeOK, EnvTypeOK, GoTo, Quiet, InstanceOnly,
      storeVars, appVars, childVars, spokeVars
<1>1. StoreTypes'
  BY DEF StoreTypes
<1>2. (AppTypes /\ ChildTypes /\ SpokeTypes)'
  BY DEF AppTypes, ChildTypes, SpokeTypes
<1>3. BudgetTypes'
  BY FaultTypes, SlipTypes DEF SlipKinds, BudgetTypes
<1>4. (pc \in Steps /\ goal \in Phases /\ consoleLink \in BOOLEAN /\ StepPhase)'
  BY DEF Steps, Phases, StepPhase, StoreTypes, Pattern, PhaseEdges
<1>5. QED
  BY <1>1, <1>2, <1>3, <1>4

(* The phase read decides the step, as StepPhase records. *)
LEMMA GetApplicationTypes ==
  ASSUME Typed, GetApplication
  PROVE  Typed'
<1> USE EmptyCopies DEF GetApplication, Typed, TypeOK, EnvTypeOK, GoTo, storeVars, childVars,
      spokeVars
<1>1. StoreTypes'
  BY DEF StoreTypes
<1>2. (AppTypes /\ ChildTypes /\ SpokeTypes)'
  BY DEF AppTypes, ChildTypes, SpokeTypes
<1>3. BudgetTypes'
  BY FaultTypes, SlipTypes DEF SlipKinds
<1>4. (pc \in Steps /\ goal \in Phases /\ consoleLink \in BOOLEAN /\ StepPhase)'
  BY DEF Steps, Phases, StepPhase, StoreTypes, Pattern, PhaseEdges
<1>5. QED
  BY <1>1, <1>2, <1>3, <1>4

(* The phase is empty, so that both choices are edges. *)
LEMMA HaveACMHubTypes ==
  ASSUME Typed, HaveACMHub
  PROVE  Typed'
<1> USE EmptyCopies DEF HaveACMHub, Typed, TypeOK, EnvTypeOK, StorePhase, Quiet, InstanceOnly,
      storeVars, appVars, childVars, spokeVars
<1>1. StoreTypes'
  BY DEF StoreTypes
<1>2. (AppTypes /\ ChildTypes /\ SpokeTypes)'
  BY DEF AppTypes, ChildTypes, SpokeTypes
<1>3. BudgetTypes'
  BY FaultTypes, SlipTypes DEF SlipKinds
<1>4. (pc \in Steps /\ goal \in Phases /\ consoleLink \in BOOLEAN /\ StepPhase)'
  BY DEF Steps, Phases, StepPhase, StoreTypes, Pattern, PhaseEdges
<1>5. QED
  BY <1>1, <1>2, <1>3, <1>4

(* The phase stored is one to be stored. *)
LEMMA UpdateDeletionPhaseTypes ==
  ASSUME Typed, UpdateDeletionPhase
  PROVE  Typed'
<1> USE EmptyCopies DEF UpdateDeletionPhase, Typed, TypeOK, EnvTypeOK, GoTo, InstanceOnly,
      storeVars, appVars, childVars, spokeVars
<1>1. StoreTypes'
  BY DEF StoreTypes, Pattern
<1>2. (AppTypes /\ ChildTypes /\ SpokeTypes)'
  BY DEF AppTypes, ChildTypes, SpokeTypes
<1>3. BudgetTypes'
  BY FaultTypes, SlipTypes DEF SlipKinds
<1>4. (pc \in Steps /\ goal \in Phases /\ consoleLink \in BOOLEAN /\ StepPhase)'
  BY DEF Steps, Phases, StepPhase, StoreTypes, Pattern, PhaseEdges
<1>5. QED
  BY <1>1, <1>2, <1>3, <1>4

(* By StepPhase the phase is one the chart has a value for. *)
LEMMA UpdateApplicationTypes ==
  ASSUME Typed, UpdateApplication
  PROVE  Typed'
<1> USE EmptyCopies DEF UpdateApplication, Typed, TypeOK, EnvTypeOK, GoTo, Fails, storeVars,
      childVars, spokeVars
<1>1. StoreTypes'
  BY DEF StoreTypes
<1>2. (AppTypes /\ ChildTypes /\ SpokeTypes)'
  <2>1. DeletePattern(instance.phase) \in Params
    BY DEF DeletePattern, Params, StepPhase
  <2>2. AppTypes'
    BY <2>1 DEF AppTypes, App
  <2>3. QED
    BY <2>2 DEF ChildTypes, SpokeTypes
<1>3. BudgetTypes'
  BY FaultTypes, SlipTypes DEF SlipKinds
<1>4. (pc \in Steps /\ goal \in Phases /\ consoleLink \in BOOLEAN /\ StepPhase)'
  BY DEF Steps, Phases, StepPhase, StoreTypes, Pattern, PhaseEdges
<1>5. QED
  BY <1>1, <1>2, <1>3, <1>4

(* Only the requested operation changes. *)
LEMMA SyncApplicationTypes ==
  ASSUME Typed, SyncApplication
  PROVE  Typed'
<1> USE EmptyCopies DEF SyncApplication, Typed, TypeOK, EnvTypeOK, GoTo, Fails, storeVars,
      childVars, spokeVars
<1>1. StoreTypes'
  BY DEF StoreTypes
<1>2. (AppTypes /\ ChildTypes /\ SpokeTypes)'
  BY DEF AppTypes, App, ChildTypes, SpokeTypes
<1>3. BudgetTypes'
  BY FaultTypes, SlipTypes DEF SlipKinds
<1>4. (pc \in Steps /\ goal \in Phases /\ consoleLink \in BOOLEAN /\ StepPhase)'
  BY DEF Steps, Phases, StepPhase, StoreTypes, Pattern, PhaseEdges
<1>5. QED
  BY <1>1, <1>2, <1>3, <1>4

(* The one phase stored here follows DeleteHubChildApps. *)
LEMMA GetChildApplicationsTypes ==
  ASSUME Typed, GetChildApplications
  PROVE  Typed'
<1> USE EmptyCopies DEF GetChildApplications, Typed, TypeOK, EnvTypeOK, GoTo, StorePhase,
      Fails, storeVars, appVars, spokeVars
<1>1. StoreTypes'
  BY DEF StoreTypes
<1>2. (AppTypes /\ ChildTypes /\ SpokeTypes)'
  BY DEF AppTypes, ChildTypes, SpokeTypes
<1>3. BudgetTypes'
  BY FaultTypes, SlipTypes DEF SlipKinds
<1>4. (pc \in Steps /\ goal \in Phases /\ consoleLink \in BOOLEAN /\ StepPhase)'
  BY DEF Steps, Phases, StepPhase, StoreTypes, Pattern, PhaseEdges
<1>5. QED
  BY <1>1, <1>2, <1>3, <1>4

(* The phase stored follows the one of the step. *)
LEMMA CheckSpokeApplicationsGoneTypes ==
  ASSUME Typed, CheckSpokeApplicationsGone
  PROVE  Typed'
<1> USE EmptyCopies DEF CheckSpokeApplicationsGone, Typed, TypeOK, EnvTypeOK, GoTo,
      StorePhase, Fails, Quiet, InstanceOnly, storeVars, appVars, childVars, spokeVars
<1>1. StoreTypes'
  BY DEF StoreTypes
<1>2. (AppTypes /\ ChildTypes /\ SpokeTypes)'
  BY DEF AppTypes, ChildTypes, SpokeTypes
<1>3. BudgetTypes'
  BY FaultTypes, SlipTypes DEF SlipKinds
<1>4. (pc \in Steps /\ goal \in Phases /\ consoleLink \in BOOLEAN /\ StepPhase)'
  BY DEF Steps, Phases, StepPhase, StoreTypes, Pattern, PhaseEdges
<1>5. QED
  BY <1>1, <1>2, <1>3, <1>4

(* Only the step changes. *)
LEMMA ListManagedClustersTypes ==
  ASSUME Typed, ListManagedClusters
  PROVE  Typed'
<1> USE EmptyCopies DEF ListManagedClusters, Typed, TypeOK, EnvTypeOK, GoTo, Quiet,
      InstanceOnly, storeVars, appVars, childVars, spokeVars
<1>1. StoreTypes'
  BY DEF StoreTypes
<1>2. (AppTypes /\ ChildTypes /\ SpokeTypes)'
  BY DEF AppTypes, ChildTypes, SpokeTypes
<1>3. BudgetTypes'
  BY FaultTypes, SlipTypes DEF SlipKinds
<1>4. (pc \in Steps /\ goal \in Phases /\ consoleLink \in BOOLEAN /\ StepPhase)'
  BY DEF Steps, Phases, StepPhase, StoreTypes, Pattern, PhaseEdges
<1>5. QED
  BY <1>1, <1>2, <1>3, <1>4

(* Clusters are terminating or as they were. *)
LEMMA DeleteManagedClustersTypes ==
  ASSUME Typed, DeleteManagedClusters
  PROVE  Typed'
<1> USE EmptyCopies DEF DeleteManagedClusters, Typed, TypeOK, EnvTypeOK, GoTo, Fails,
      storeVars, appVars, childVars
<1>1. StoreTypes'
  BY DEF StoreTypes
<1>2. (AppTypes /\ ChildTypes /\ SpokeTypes)'
  BY DEF AppTypes, ChildTypes, SpokeTypes
<1>3. BudgetTypes'
  BY FaultTypes, SlipTypes DEF SlipKinds
<1>4. (pc \in Steps /\ goal \in Phases /\ consoleLink \in BOOLEAN /\ StepPhase)'
  BY DEF Steps, Phases, StepPhase, StoreTypes, Pattern, PhaseEdges
<1>5. QED
  BY <1>1, <1>2, <1>3, <1>4

(* Only the Application's state changes. *)
LEMMA RemoveApplicationTypes ==
  ASSUME Typed, RemoveApplication
  PROVE  Typed'
<1> USE EmptyCopies DEF RemoveApplication, Typed, TypeOK, EnvTypeOK, GoTo, Fails, storeVars,
      childVars, spokeVars
<1>1. StoreTypes'
  BY DEF StoreTypes
<1>2. (AppTypes /\ ChildTypes /\ SpokeTypes)'
  BY DEF AppTypes, App, ChildTypes, SpokeTypes
<1>3. BudgetTypes'
  BY FaultTypes, SlipTypes DEF SlipKinds
<1>4. (pc \in Steps /\ goal \in Phases /\ consoleLink \in BOOLEAN /\ StepPhase)'
  BY DEF Steps, Phases, StepPhase, StoreTypes, Pattern, PhaseEdges
<1>5. QED
  BY <1>1, <1>2, <1>3, <1>4

(* Only the ConsoleLink changes. *)
LEMMA RemoveConsoleLinkTypes ==
  ASSUME Typed, RemoveConsoleLink
  PROVE  Typed'
<1> USE EmptyCopies DEF RemoveConsoleLink, Typed, TypeOK, EnvTypeOK, Quiet, InstanceOnly,
      storeVars, appVars, childVars, spokeVars
<1>1. StoreTypes'
  BY DEF StoreTypes
<1>2. (AppTypes /\ ChildTypes /\ SpokeTypes)'
  BY DEF AppTypes, ChildTypes, SpokeTypes
<1>3. BudgetTypes'
  BY FaultTypes, SlipTypes DEF SlipKinds
<1>4. (pc \in Steps /\ goal \in Phases /\ consoleLink \in BOOLEAN /\ StepPhase)'
  BY DEF Steps, Phases, StepPhase, StoreTypes, Pattern, PhaseEdges
<1>5. QED
  BY <1>1, <1>2, <1>3, <1>4

(* Only the existence of the Pattern changes. *)
LEMMA RemoveFinalizerTypes ==
  ASSUME Typed, RemoveFinalizer
  PROVE  Typed'
<1> USE EmptyCopies DEF RemoveFinalizer, Typed, TypeOK, EnvTypeOK, GoTo, InstanceOnly, Return,
      appVars, childVars, spokeVars
<1>1. StoreTypes'
  BY DEF StoreTypes, Pattern
<1>2. (AppTypes /\ ChildTypes /\ SpokeTypes)'
  BY DEF AppTypes, ChildTypes, SpokeTypes
<1>3. BudgetTypes'
  BY FaultTypes, SlipTypes DEF SlipKinds
<1>4. (pc \in Steps /\ goal \in Phases /\ consoleLink \in BOOLEAN /\ StepPhase)'
  BY DEF Steps, Phases, StepPhase, StoreTypes, Pattern, PhaseEdges
<1>5. QED
  BY <1>1, <1>2, <1>3, <1>4

(* The new cache is the stored Pattern. *)
LEMMA CrashTypes ==
  ASSUME Typed, Crash
  PROVE  Typed'
<1> USE EmptyCopies DEF Crash, Typed, TypeOK, EnvTypeOK, GoTo, InstanceOnly, Return, appVars,
      childVars, spokeVars
<1>1. StoreTypes'
  BY DEF StoreTypes
<1>2. (AppTypes /\ ChildTypes /\ SpokeTypes)'
  BY DEF AppTypes, ChildTypes, SpokeTypes
<1>3. BudgetTypes'
  BY FaultTypes, SlipTypes DEF SlipKinds
<1>4. (pc \in Steps /\ goal \in Phases /\ consoleLink \in BOOLEAN /\ StepPhase)'
  BY DEF Steps, Phases, StepPhase, StoreTypes, Pattern, PhaseEdges
<1>5. QED
  BY <1>1, <1>2, <1>3, <1>4

-----------------------------------------------------------------------------
(* The steps of the others.  None touches the reconciler's copy. *)

LEMMA EnvironmentTypes ==
  ASSUME Typed, Environment
  PROVE  Typed'
<1> SUFFICES EnvTypeOK' /\ UNCHANGED <<instance, opVars>>
  BY DEF Environment, Typed, TypeOK, StepPhase, opVars
<1> USE DEF Typed, TypeOK, EnvTypeOK, storeVars, appVars, childVars, spokeVars
<1>0. UNCHANGED opVars
  BY DEF Environment

<1>1. CASE UserDeletes

  <2>1. StoreTypes' /\ UNCHANGED instance
    BY <1>1 DEF UserDeletes, StoreTypes, Pattern, OthersWrite
  <2>2. (AppTypes /\ ChildTypes /\ SpokeTypes)'
    BY <1>1 DEF UserDeletes, AppTypes, App, ChildTypes, SpokeTypes
  <2>3. BudgetTypes'
    BY <1>1, FaultTypes DEF NoFault, UserDeletes, budgetVars
  <2>4. QED
    BY <1>0, <2>1, <2>2, <2>3

<1>2. CASE UserAnnotates

  <2>1. StoreTypes' /\ UNCHANGED instance
    BY <1>2 DEF UserAnnotates, StoreTypes, Pattern, OthersWrite
  <2>2. (AppTypes /\ ChildTypes /\ SpokeTypes)'
    BY <1>2 DEF UserAnnotates, AppTypes, App, ChildTypes, SpokeTypes
  <2>3. BudgetTypes'
    BY <1>2, EditTypes DEF BudgetTypes, UserAnnotates, budgetVars
  <2>4. QED
    BY <1>0, <2>1, <2>2, <2>3

<1>3. CASE UserDisowns

  <2>1. StoreTypes' /\ UNCHANGED instance
    BY <1>3 DEF UserDisowns, StoreTypes
  <2>2. (AppTypes /\ ChildTypes /\ SpokeTypes)'
    BY <1>3 DEF UserDisowns, AppTypes, App, ChildTypes, SpokeTypes
  <2>3. BudgetTypes'
    BY <1>3, EditTypes DEF BudgetTypes, UserDisowns, budgetVars
  <2>4. QED
    BY <1>0, <2>1, <2>2, <2>3

<1>4. CASE CacheSync

  <2>1. StoreTypes' /\ UNCHANGED instance
    BY <1>4 DEF CacheSync, StoreTypes
  <2>2. (AppTypes /\ ChildTypes /\ SpokeTypes)'
    BY <1>4 DEF CacheSync, AppTypes, App, ChildTypes, SpokeTypes
  <2>3. BudgetTypes'
    BY <1>4, FaultTypes DEF NoFault, CacheSync, budgetVars
  <2>4. QED
    BY <1>0, <2>1, <2>2, <2>3

<1>5. CASE ArgoSyncs

  <2>1. StoreTypes' /\ UNCHANGED instance
    BY <1>5 DEF ArgoSyncs, StoreTypes
  <2>2. (AppTypes /\ ChildTypes /\ SpokeTypes)'
    BY <1>5 DEF ArgoSyncs, AppTypes, App, ChildTypes, SpokeTypes
  <2>3. BudgetTypes'
    BY <1>5, FaultTypes DEF NoFault, ArgoSyncs, budgetVars
  <2>4. QED
    BY <1>0, <2>1, <2>2, <2>3

<1>6. CASE ArgoDropsApp

  <2>1. StoreTypes' /\ UNCHANGED instance
    BY <1>6 DEF ArgoDropsApp, StoreTypes
  <2>2. (AppTypes /\ ChildTypes /\ SpokeTypes)'
    BY <1>6 DEF ArgoDropsApp, AppTypes, App, ChildTypes, SpokeTypes
  <2>3. BudgetTypes'
    BY <1>6, FaultTypes DEF NoFault, ArgoDropsApp, budgetVars
  <2>4. QED
    BY <1>0, <2>1, <2>2, <2>3

<1>7. ASSUME NEW k \in Clusters, UserImports(k)
      PROVE  EnvTypeOK' /\ UNCHANGED instance

  <2>1. StoreTypes' /\ UNCHANGED instance
    BY <1>7 DEF UserImports, StoreTypes
  <2>2. (AppTypes /\ ChildTypes /\ SpokeTypes)'
    BY <1>7 DEF UserImports, AppTypes, App, ChildTypes, SpokeTypes
  <2>3. BudgetTypes'
    BY <1>7, ArrivalTypes, EditTypes DEF UserImports, budgetVars
  <2>4. QED
    BY <1>0, <2>1, <2>2, <2>3

<1>8. ASSUME NEW k \in Clusters, SpokeInstalls(k)
      PROVE  EnvTypeOK' /\ UNCHANGED instance

  <2>1. StoreTypes' /\ UNCHANGED instance
    BY <1>8 DEF SpokeInstalls, StoreTypes
  <2>2. (AppTypes /\ ChildTypes /\ SpokeTypes)'
    BY <1>8 DEF SpokeInstalls, AppTypes, App, ChildTypes, SpokeTypes
  <2>3. BudgetTypes'
    BY <1>8, ArrivalTypes DEF BudgetTypes, SpokeInstalls, budgetVars
  <2>4. QED
    BY <1>0, <2>1, <2>2, <2>3

<1>9. ASSUME NEW k \in Clusters, SpokeDropsChildren(k)
      PROVE  EnvTypeOK' /\ UNCHANGED instance

  <2>1. StoreTypes' /\ UNCHANGED instance
    BY <1>9 DEF SpokeDropsChildren, StoreTypes
  <2>2. (AppTypes /\ ChildTypes /\ SpokeTypes)'
    BY <1>9 DEF SpokeDropsChildren, AppTypes, App, ChildTypes, SpokeTypes
  <2>3. BudgetTypes'
    BY <1>9, FaultTypes DEF NoFault, SpokeDropsChildren, budgetVars
  <2>4. QED
    BY <1>0, <2>1, <2>2, <2>3

<1>10. ASSUME NEW k \in Clusters, SpokeDropsApp(k)
      PROVE  EnvTypeOK' /\ UNCHANGED instance

  <2>1. StoreTypes' /\ UNCHANGED instance
    BY <1>10 DEF SpokeDropsApp, StoreTypes
  <2>2. (AppTypes /\ ChildTypes /\ SpokeTypes)'
    BY <1>10 DEF SpokeDropsApp, AppTypes, App, ChildTypes, SpokeTypes
  <2>3. BudgetTypes'
    BY <1>10, FaultTypes DEF NoFault, SpokeDropsApp, budgetVars
  <2>4. QED
    BY <1>0, <2>1, <2>2, <2>3

<1>11. ASSUME NEW k \in Clusters, ClusterDetaches(k)
      PROVE  EnvTypeOK' /\ UNCHANGED instance

  <2>1. StoreTypes' /\ UNCHANGED instance
    BY <1>11 DEF ClusterDetaches, StoreTypes
  <2>2. (AppTypes /\ ChildTypes /\ SpokeTypes)'
    BY <1>11 DEF ClusterDetaches, AppTypes, App, ChildTypes, SpokeTypes
  <2>3. BudgetTypes'
    BY <1>11, FaultTypes DEF NoFault, ClusterDetaches, budgetVars
  <2>4. QED
    BY <1>0, <2>1, <2>2, <2>3

<1>12. ASSUME NEW c \in HubApps, ArgoInstalls(c)
      PROVE  EnvTypeOK' /\ UNCHANGED instance

  <2>1. StoreTypes' /\ UNCHANGED instance
    BY <1>12 DEF ArgoInstalls, StoreTypes
  <2>2. (AppTypes /\ ChildTypes /\ SpokeTypes)'
    BY <1>12 DEF ArgoInstalls, AppTypes, App, ChildTypes, SpokeTypes
  <2>3. BudgetTypes'
    BY <1>12, ArrivalTypes DEF BudgetTypes, SlipKinds, ArgoInstalls, budgetVars
  <2>4. QED
    BY <1>0, <2>1, <2>2, <2>3

<1>13. ASSUME NEW c \in HubApps, ArgoSyncsChild(c)
      PROVE  EnvTypeOK' /\ UNCHANGED instance

  <2>1. StoreTypes' /\ UNCHANGED instance
    BY <1>13 DEF ArgoSyncsChild, StoreTypes
  <2>2. (AppTypes /\ ChildTypes /\ SpokeTypes)'
    BY <1>13 DEF ArgoSyncsChild, AppTypes, App, ChildTypes, SpokeTypes
  <2>3. BudgetTypes'
    BY <1>13, FaultTypes DEF NoFault, ArgoSyncsChild, budgetVars
  <2>4. QED
    BY <1>0, <2>1, <2>2, <2>3

<1>14. ASSUME NEW c \in HubApps, ArgoRemoves(c)
      PROVE  EnvTypeOK' /\ UNCHANGED instance

  <2>1. StoreTypes' /\ UNCHANGED instance
    BY <1>14 DEF ArgoRemoves, StoreTypes
  <2>2. (AppTypes /\ ChildTypes /\ SpokeTypes)'
    BY <1>14 DEF ArgoRemoves, AppTypes, App, ChildTypes, SpokeTypes
  <2>3. BudgetTypes'
    BY <1>14, FaultTypes DEF NoFault, ArgoRemoves, budgetVars
  <2>4. QED
    BY <1>0, <2>1, <2>2, <2>3

<1>15. QED
  BY <1>0, <1>1, <1>2, <1>3, <1>4, <1>5, <1>6, <1>7,
     <1>8, <1>9, <1>10, <1>11, <1>12, <1>13, <1>14
     DEF Environment, UserNext, ServiceNext

-----------------------------------------------------------------------------
(* Every step keeps the types. *)
LEMMA TypedStep == Typed /\ [Next]_vars => Typed'
<1>1. ASSUME Typed, Reconcile PROVE Typed'
  BY <1>1, GetTypes, ConfigureTypes, ReconcileApplicationTypes, ActionPerformedTypes,
     ApplyDefaultsTypes, GetApplicationTypes, HaveACMHubTypes,
     UpdateDeletionPhaseTypes, UpdateApplicationTypes, SyncApplicationTypes,
     GetChildApplicationsTypes,
     CheckSpokeApplicationsGoneTypes, ListManagedClustersTypes, DeleteManagedClustersTypes,
     RemoveApplicationTypes, RemoveConsoleLinkTypes, RemoveFinalizerTypes DEF Reconcile
<1>2. ASSUME Typed, UNCHANGED vars PROVE Typed'
  BY <1>2 DEF Typed, TypeOK, EnvTypeOK, StepPhase, StoreTypes, AppTypes, ChildTypes,
     SpokeTypes, BudgetTypes, vars, envVars, opVars, storeVars, appVars, childVars,
     spokeVars, budgetVars
<1>3. QED
  BY <1>1, <1>2, CrashTypes, EnvironmentTypes DEF Next

(* The reconciler and everything around it stay within their types: in     *)
(* particular the phase stored is one of the API's, and the Application is *)
(* never given a deletePattern value the chart does not know, although     *)
(* newApplicationParameters passes the phase on whatever it is.            *)
THEOREM TypeCorrect == Spec => []TypeOK
<1>1. Typed => TypeOK
  BY DEF Typed
<1>2. QED
  BY TypedInit, TypedStep, <1>1, PTL DEF Spec
=============================================================================
