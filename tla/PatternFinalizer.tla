-------------------------- MODULE PatternFinalizer --------------------------
(***************************************************************************)
(* The reconciler's work on a Pattern, seen from its deletion: Reconcile   *)
(* in internal/controller/pattern_controller.go with all of finalizeObject *)
(* and as much of the ordinary path as the deletion depends on.            *)
(*                                                                         *)
(* One worker reconciles (the manager's default).  Each action is one call *)
(* to a service together with the computation up to the next call, so that *)
(* the environment moves between any two of them.  pc names the call that  *)
(* comes next.  Every call may fail; where the code returns the error the  *)
(* next step is to report it, where it goes on regardless the action has   *)
(* an alternative of its own, recorded as a slip.                          *)
(***************************************************************************)
EXTENDS ClusterEnvironment

VARIABLES
  pc,           \* the call Reconcile makes next
  goal,         \* the phase updateDeletionPhase is about to store
  consoleLink   \* whether the operator's ConsoleLink to Argo CD exists

opVars == <<pc, goal, consoleLink>>
vars   == <<envVars, opVars>>

Steps == {"Get", "configure", "reconcileApplication", "applyDefaults", "getApplication",
          "haveACMHub", "updateApplication", "syncApplication", "getChildApplications",
          "checkSpokeApplicationsGone", "listManagedClusters", "deleteManagedClusters",
          "updateDeletionPhase", "removeApplication", "removeConsoleLink",
          "removeFinalizer", "actionPerformed"}

TypeOK == EnvTypeOK /\ pc \in Steps /\ goal \in Phases /\ consoleLink \in BOOLEAN

Init == EnvInit /\ pc = "Get" /\ goal = "" /\ consoleLink = FALSE

(* Mutant: the hub phase passes its own name to the chart. *)
DeletePatternAsIs(phase) == phase

(* newApplicationParameters: the value of global.deletePattern. *)
DeletePattern(phase) ==
  IF phase = "DeleteHubChildApps" THEN "DeleteChildApps" ELSE phase

GoTo(step) == pc' = step /\ UNCHANGED <<goal, consoleLink>>
StorePhase(phase) == pc' = "updateDeletionPhase" /\ goal' = phase /\ UNCHANGED consoleLink

(* Reconcile returns, and its copies are no more. *)
Return ==
  /\ pc' = "Get" /\ goal' = "" /\ UNCHANGED consoleLink
  /\ instance' = NoPattern /\ instCurrent' = FALSE
  /\ seen' = NoApp /\ seenCurrent' = FALSE

(* A call fails and its error ends this reconciliation. *)
Fails == Fault /\ GoTo("actionPerformed")

InstanceOnly == UNCHANGED <<appVars, childVars, spokeVars>>

(* An Update of the Pattern made with the reconciler's copy: a copy that   *)
(* is not the stored version is refused.                                   *)
Accepted == instCurrent /\ pattern.exists

-----------------------------------------------------------------------------
(* The ordinary path. *)

Get ==
  /\ pc = "Get" /\ cache.exists
  /\ instance' = cache /\ instCurrent' = cacheCurrent
  /\ GoTo("configure")
  /\ NoFault /\ UNCHANGED <<pattern, cache, cacheCurrent>> /\ InstanceOnly

(* The ConfigMap and the console catalog come first, also for a Pattern    *)
(* under deletion; then the finalizer is added, or the ways part.          *)
Configure ==
  /\ pc = "configure"
  /\ \/ Fails /\ UNCHANGED storeVars
     \/ /\ instance.deleting /\ GoTo("applyDefaults")
        /\ NoFault /\ UNCHANGED storeVars
     \/ /\ ~instance.deleting /\ instance.finalizer /\ GoTo("reconcileApplication")
        /\ NoFault /\ UNCHANGED storeVars
     \/ /\ ~instance.deleting /\ ~instance.finalizer /\ GoTo("actionPerformed")
        /\ NoFault
        /\ instance' = [instance EXCEPT !.finalizer = TRUE]
        /\ IF Accepted
             THEN pattern' = instance' /\ cacheCurrent' = FALSE
             ELSE UNCHANGED <<pattern, cacheCurrent>>
        /\ UNCHANGED <<cache, instCurrent>>
  /\ InstanceOnly

(* The Argo CD infrastructure comes with a ConsoleLink.  The Application   *)
(* is then created, brought to the current parameters, or found in order.  *)
ReconcileApplication ==
  /\ pc = "reconcileApplication"
  /\ pc' = "actionPerformed" /\ consoleLink' = TRUE /\ UNCHANGED goal
  /\ \/ Fault /\ UNCHANGED <<app, seenCurrent>>
     \/ /\ NoFault
        /\ CASE app.state = "absent" -> app' = [NoApp EXCEPT !.state = "live"]
             [] app.state # "absent" /\ app.owned -> app' = [app EXCEPT !.param = "none"]
             [] OTHER -> UNCHANGED app
        /\ seenCurrent' = FALSE
  /\ UNCHANGED <<storeVars, seen, applied, childVars, spokeVars>>

(* Mutant: the status is forced in, whatever version it was read from. *)
ActionPerformedForced ==
  /\ pc = "actionPerformed" /\ Return
  /\ pattern' = [pattern EXCEPT !.phase = instance.phase]
  /\ cacheCurrent' = FALSE
  /\ NoFault /\ UNCHANGED <<cache, app, applied, childVars, spokeVars>>

(* The status is written with what the reconciler read.  The write counts  *)
(* as a change unless LastStep and LastError are what they were.           *)
ActionPerformed ==
  /\ pc = "actionPerformed" /\ Return
  /\ IF Accepted
       THEN /\ pattern' = [pattern EXCEPT !.phase = instance.phase]
            /\ cacheCurrent' \in {FALSE, cacheCurrent}
       ELSE UNCHANGED <<pattern, cacheCurrent>>
  /\ NoFault /\ UNCHANGED <<cache, app, applied, childVars, spokeVars>>

(* The operator stops and starts again, with a fresh cache. *)
Crash ==
  /\ pc # "Get" /\ Return
  /\ Fault
  /\ cache' = pattern /\ cacheCurrent' = TRUE
  /\ UNCHANGED <<pattern, app, applied, childVars, spokeVars>>

-----------------------------------------------------------------------------
(* finalizeObject: what comes before the phases. *)

Quiet == UNCHANGED storeVars /\ InstanceOnly

ApplyDefaults ==
  /\ pc = "applyDefaults"
  /\ \/ instance.prune /\ GoTo("getApplication") /\ NoFault
     \/ instance.prune /\ GoTo("removeFinalizer") /\ Slip("defaults")
     \/ /\ ~instance.prune /\ GoTo("removeFinalizer")
        /\ slips' = slips \union {"unpruned"} /\ UNCHANGED <<faults, edits>>
  /\ Quiet

(* The namespace is detected and the Application read from it; any error   *)
(* of either looks like a missing Application.                             *)
GetApplication ==
  /\ pc = "getApplication"
  /\ UNCHANGED <<storeVars, app, applied, childVars, spokeVars>>
  /\ \/ /\ app.state = "absent" \/ ~app.owned
        /\ GoTo("removeFinalizer") /\ NoFault /\ UNCHANGED <<seen, seenCurrent>>
     \/ GoTo("removeFinalizer") /\ Slip("app") /\ UNCHANGED <<seen, seenCurrent>>
     \/ /\ app.state # "absent" /\ app.owned
        /\ seen' = app /\ seenCurrent' = TRUE /\ NoFault
        /\ GoTo(CASE instance.phase = ""                   -> "haveACMHub"
                  [] instance.phase = "DeleteHubChildApps" -> "getChildApplications"
                  [] instance.phase = "DeleteHub"          -> "removeApplication"
                  [] OTHER                                 -> "updateApplication")

(* Whether there is a hub decides where the deletion starts. *)
HaveACMHub ==
  /\ pc = "haveACMHub"
  /\ \/ NoFault /\ StorePhase(IF AcmHub THEN "DeleteSpokeChildApps" ELSE "DeleteHubChildApps")
     \/ Slip("hub") /\ StorePhase("DeleteHubChildApps")
  /\ Quiet

UpdateDeletionPhase ==
  /\ pc = "updateDeletionPhase" /\ GoTo("actionPerformed")
  /\ \/ Fault /\ UNCHANGED storeVars
     \/ NoFault /\ ~Accepted /\ UNCHANGED storeVars
     \/ /\ NoFault /\ Accepted
        /\ pattern' = [pattern EXCEPT !.phase = goal]
        /\ cacheCurrent' = FALSE /\ instCurrent' = FALSE
        /\ UNCHANGED <<cache, instance>>
  /\ InstanceOnly

-----------------------------------------------------------------------------
(* The phases. *)

(* Mutant: having changed the Application is a success. *)
UpdateApplicationNoRequeue ==
  /\ pc = "updateApplication"
  /\ UNCHANGED <<storeVars, seen, applied, childVars, spokeVars>>
  /\ LET want == DeletePattern(instance.phase)
     IN  \/ /\ seen.param = want
            /\ GoTo("syncApplication") /\ NoFault /\ UNCHANGED <<app, seenCurrent>>
         \/ /\ seen.param # want /\ seenCurrent
            /\ NoFault /\ GoTo("removeFinalizer")
            /\ app' = [app EXCEPT !.param = want] /\ seenCurrent' = FALSE

(* The Application gets the phase's parameters; a change is an error that  *)
(* brings the reconciler back, and so is a conflict with Argo CD.          *)
UpdateApplication ==
  /\ pc = "updateApplication"
  /\ UNCHANGED <<storeVars, seen, applied, childVars, spokeVars>>
  /\ LET want == DeletePattern(instance.phase)
     IN  \/ /\ seen.param = want
            /\ GoTo("syncApplication") /\ NoFault /\ UNCHANGED <<app, seenCurrent>>
         \/ /\ seen.param # want
            /\ \/ Fails /\ UNCHANGED <<app, seenCurrent>>
               \/ /\ NoFault /\ GoTo("actionPerformed")
                  /\ IF seenCurrent
                       THEN app' = [app EXCEPT !.param = want] /\ seenCurrent' = FALSE
                       ELSE UNCHANGED <<app, seenCurrent>>

(* A sync of the app of apps is requested, if the same is not under way.   *)
(* On the hub phase this is the last thing done before waiting.            *)
SyncApplication ==
  /\ pc = "syncApplication"
  /\ UNCHANGED <<storeVars, seen, applied, childVars, spokeVars>>
  /\ LET hub  == instance.phase = "DeleteHubChildApps"
         op   == IF hub THEN "prune" ELSE "sync"
         next == IF hub THEN "actionPerformed" ELSE "getChildApplications"
     IN  \/ Fails /\ UNCHANGED <<app, seenCurrent>>
         \/ NoFault /\ seen.op = op /\ GoTo(next) /\ UNCHANGED <<app, seenCurrent>>
         \/ /\ NoFault /\ seen.op # op /\ seenCurrent /\ GoTo(next)
            /\ app' = [app EXCEPT !.op = op] /\ seenCurrent' = FALSE
         \/ /\ NoFault /\ seen.op # op /\ ~seenCurrent /\ GoTo("actionPerformed")
            /\ UNCHANGED <<app, seenCurrent>>

(* Mutant: an empty list of children does not end the hub phase. *)
GetChildApplicationsNoExit ==
  /\ pc = "getChildApplications"
  /\ UNCHANGED <<storeVars, appVars, hubApps, spokeVars>>
  /\ NoFault
  /\ IF instance.phase = "DeleteHubChildApps"
       THEN UNCHANGED childOp /\ GoTo("listManagedClusters")
       ELSE /\ childOp' = [c \in HubApps |->
                            IF c \notin hubApps THEN childOp[c]
                            ELSE IF instance.phase = "DeleteSpoke" THEN "prune" ELSE "sync"]
            /\ GoTo("checkSpokeApplicationsGone")

(* The children are listed.  In the spoke phases each is synced, with      *)
(* pruning when the spokes' app of apps is to go; some may have been when  *)
(* an error ends the loop.  In the hub phase an empty list ends the phase. *)
GetChildApplications ==
  /\ pc = "getChildApplications"
  /\ UNCHANGED <<storeVars, appVars, hubApps, spokeVars>>
  /\ IF instance.phase = "DeleteHubChildApps"
       THEN /\ UNCHANGED childOp
            /\ \/ Fails
               \/ NoFault /\ hubApps = {} /\ StorePhase("DeleteHub")
               \/ NoFault /\ hubApps # {} /\ GoTo("listManagedClusters")
       ELSE LET op == IF instance.phase = "DeleteSpoke" THEN "prune" ELSE "sync"
                Sync(synced) == childOp' = [c \in HubApps |->
                                              IF c \in synced THEN op ELSE childOp[c]]
            IN  \/ Fails /\ \E synced \in SUBSET hubApps : Sync(synced)
                \/ NoFault /\ Sync(hubApps) /\ GoTo("checkSpokeApplicationsGone")

(* Mutant: appOfApps is ignored, the children are asked for both times. *)
CheckSpokeApplicationsGoneChildrenOnly ==
  /\ pc = "checkSpokeApplicationsGone"
  /\ NoFault
  /\ IF spokeApps # {} THEN GoTo("actionPerformed")
     ELSE StorePhase(IF instance.phase = "DeleteSpoke" THEN "DeleteHubChildApps" ELSE "DeleteSpoke")
  /\ Quiet

(* Mutant: what the search returns is not looked at. *)
CheckSpokeApplicationsGoneIgnored ==
  /\ pc = "checkSpokeApplicationsGone"
  /\ NoFault
  /\ StorePhase(IF instance.phase = "DeleteSpoke" THEN "DeleteHubChildApps" ELSE "DeleteSpoke")
  /\ Quiet

(* The search service is asked for the children, then for the app of apps, *)
(* on every cluster but the local one; what remains is an error.           *)
CheckSpokeApplicationsGone ==
  /\ pc = "checkSpokeApplicationsGone"
  /\ LET appOfApps == instance.phase = "DeleteSpoke"
         remaining == IF appOfApps THEN spokes ELSE spokeApps
         next == IF appOfApps THEN "DeleteHubChildApps" ELSE "DeleteSpoke"
     IN  \/ Fails
         \/ NoFault /\ remaining # {} /\ GoTo("actionPerformed")
         \/ NoFault /\ remaining = {} /\ StorePhase(next)
         \/ Slip("search") /\ remaining # {} /\ StorePhase(next)
  /\ Quiet

(* With a hub, clusters still attached are looked for first.  Neither an   *)
(* error about the hub nor one about the list stops the phase.             *)
ListManagedClusters ==
  /\ pc = "listManagedClusters"
  /\ LET attached == {k \in Clusters : clusters[k] # "none"}
     IN  \/ NoFault /\ AcmHub /\ attached # {} /\ GoTo("deleteManagedClusters")
         \/ NoFault /\ (AcmHub => attached = {}) /\ GoTo("updateApplication")
         \/ AcmHub /\ Slip("hub") /\ GoTo("updateApplication")
         \/ AcmHub /\ Slip("clusters") /\ GoTo("updateApplication")
  /\ Quiet

(* Mutant: having asked for the deletion is enough. *)
DeleteManagedClustersNoWait ==
  /\ pc = "deleteManagedClusters"
  /\ UNCHANGED <<storeVars, appVars, childVars, policy, spokes, spokeApps>>
  /\ NoFault /\ GoTo("updateApplication")
  /\ clusters' = [k \in Clusters |->
                    IF clusters[k] = "none" THEN "none" ELSE "terminating"]

(* They are listed again and deleted; deleting one that is on its way out  *)
(* succeeds.  One deletion, or an error after some, is enough to wait.     *)
DeleteManagedClusters ==
  /\ pc = "deleteManagedClusters"
  /\ UNCHANGED <<storeVars, appVars, childVars, policy, spokes, spokeApps>>
  /\ LET attached == {k \in Clusters : clusters[k] # "none"}
         Delete(ks) == clusters' = [k \in Clusters |->
                                      IF k \in ks THEN "terminating" ELSE clusters[k]]
     IN  \/ Fails /\ \E ks \in SUBSET attached : Delete(ks)
         \/ NoFault /\ attached # {} /\ Delete(attached) /\ GoTo("actionPerformed")
         \/ NoFault /\ attached = {} /\ UNCHANGED clusters /\ GoTo("updateApplication")

(* Phase DeleteHub: the Application is deleted, in cascade, and nobody     *)
(* waits for the cascade.  Gone meanwhile is an error.                     *)
RemoveApplication ==
  /\ pc = "removeApplication"
  /\ UNCHANGED <<storeVars, seen, applied, childVars, spokeVars>>
  /\ \/ Fails /\ UNCHANGED <<app, seenCurrent>>
     \/ NoFault /\ app.state = "absent" /\ GoTo("actionPerformed") /\ UNCHANGED <<app, seenCurrent>>
     \/ /\ NoFault /\ app.state # "absent" /\ GoTo("removeConsoleLink")
        /\ app' = [app EXCEPT !.state = "deleting"] /\ seenCurrent' = FALSE

(* The error of removing the ConsoleLink is logged only. *)
RemoveConsoleLink ==
  /\ pc = "removeConsoleLink"
  /\ pc' = "removeFinalizer" /\ UNCHANGED goal
  /\ \/ NoFault /\ consoleLink' = FALSE
     \/ Fault /\ UNCHANGED consoleLink
  /\ Quiet

(* finalizeObject returned without an error.  The finalizer goes, and the  *)
(* Pattern with it; a refused Update leads to another reconciliation.      *)
RemoveFinalizer ==
  /\ pc = "removeFinalizer" /\ Return
  /\ \/ Fault /\ UNCHANGED <<pattern, cacheCurrent>>
     \/ NoFault /\ ~Accepted /\ UNCHANGED <<pattern, cacheCurrent>>
     \/ /\ NoFault /\ Accepted
        /\ pattern' = [pattern EXCEPT !.finalizer = FALSE, !.exists = FALSE]
        /\ cacheCurrent' = FALSE
  /\ UNCHANGED <<cache, app, applied, childVars, spokeVars>>

-----------------------------------------------------------------------------
Reconcile ==
  \/ Get \/ Configure \/ ReconcileApplication \/ ActionPerformed
  \/ ApplyDefaults \/ GetApplication \/ HaveACMHub \/ UpdateDeletionPhase
  \/ UpdateApplication \/ SyncApplication \/ GetChildApplications
  \/ CheckSpokeApplicationsGone \/ ListManagedClusters \/ DeleteManagedClusters
  \/ RemoveApplication \/ RemoveConsoleLink \/ RemoveFinalizer

Environment == (UserNext \/ ServiceNext) /\ UNCHANGED opVars

Next == Reconcile \/ Crash \/ Environment

(* The work queue hands the Pattern to the worker again after every        *)
(* reconciliation of a Pattern under deletion.                             *)
Fairness == WF_vars(Reconcile) /\ ServiceFairness

Spec == Init /\ [][Next]_vars
FairSpec == Spec /\ Fairness

-----------------------------------------------------------------------------
(* Properties. *)

PhaseEdges ==
  {<<"", "DeleteSpokeChildApps">>, <<"", "DeleteHubChildApps">>,
   <<"DeleteSpokeChildApps", "DeleteSpoke">>, <<"DeleteSpoke", "DeleteHubChildApps">>,
   <<"DeleteHubChildApps", "DeleteHub">>}

(* The order of the phases is kept: the stored DeletionPhase moves only    *)
(* along the edges finalizeObject intends and never back, although every   *)
(* reconciliation that stores a phase goes on to write a status read       *)
(* before that, and cached copies may hold any earlier phase.              *)
PhaseAdvances ==
  [][pattern'.phase # pattern.phase => <<pattern.phase, pattern'.phase>> \in PhaseEdges]_vars

HubCleanupBegun == app.param = "DeleteChildApps" \/ app.state = "deleting"

(* The hub is touched after the spokes: once the Application is told to    *)
(* drop its children or is being deleted, no spoke has anything left of    *)
(* the pattern, provided the questions about hub and spokes got true       *)
(* answers.                                                                *)
SpokesClearedBeforeHub ==
  HubCleanupBegun /\ slips \intersect {"hub", "search", "late"} = {}
    => spokes = {} /\ spokeApps = {}

(* A spoke's app of apps outlives its children: it goes only after all of  *)
(* them went, so that none is left without the application that owns it.   *)
SpokeChildrenFirst ==
  [][\A k \in spokes : k \notin spokes' /\ slips \intersect {"search", "late"} = {}
       => k \notin spokeApps]_vars

(* ManagedClusters "must be removed before hub deletion can proceed": when *)
(* the hub's children are told to go no cluster is attached any more.      *)
ClustersDetachedBeforeHub ==
  HubCleanupBegun /\ slips \intersect {"hub", "clusters", "late"} = {}
    => \A k \in Clusters : clusters[k] = "none"

(* Deleting the Pattern removes what the README lists: when the Pattern is *)
(* gone the Application is gone or in its cascade, and no spoke and no     *)
(* ManagedCluster is left, if nothing misled the finalizer on the way and  *)
(* the Application was still the Pattern's own.                            *)
NothingLeftBehind ==
  ~pattern.exists /\ slips = {} /\ app.owned
    => /\ app.state # "live"
       /\ spokes = {} /\ spokeApps = {}
       /\ \A k \in Clusters : clusters[k] = "none"

(* The deletion comes to its end, whatever fails in between, as long as    *)
(* the failures are finitely many and Argo CD and ACM do their work: the   *)
(* Pattern goes, and then the rest of the pattern's applications.          *)
DeletionCompletes ==
  pattern.deleting ~> ~pattern.exists /\ (slips = {} /\ app.owned => hubApps = {})
=============================================================================
