------------------------- MODULE ClusterEnvironment -------------------------
(***************************************************************************)
(* The world the patterns operator runs its deletion in: the stored        *)
(* Pattern, the informer cache of the controller runtime, the user, Argo   *)
(* CD on the hub and Advanced Cluster Management (ACM) with its spokes.    *)
(* Apart from the admission webhook and the Pattern type nothing here is   *)
(* code of the repository: the actions are what the reconciler takes for   *)
(* granted about the services it calls.                                    *)
(*                                                                         *)
(* Resource versions.  An Update is accepted when the version it carries   *)
(* is the stored one, so all that matters of a copy's version is whether   *)
(* the object was written since the copy was made.  Each copy has a        *)
(* Boolean saying so (cacheCurrent, instCurrent, seenCurrent), which every *)
(* write clears.                                                           *)
(***************************************************************************)
EXTENDS FiniteSets, Naturals

CONSTANTS
  HubApps,    \* child Applications of the pattern's app of apps on the hub
  AcmApp,     \* the child that installs ACM; not in HubApps on a standalone cluster
  Clusters,   \* managed clusters other than local-cluster
  Slips,      \* which errors or races the environment may turn into wrong answers
  MaxFaults,  \* how many calls may fail and how often the operator may crash
  MaxEdits    \* how often the user changes something beside deleting the Pattern

Phases == {"", "DeleteSpokeChildApps", "DeleteSpoke", "DeleteHubChildApps", "DeleteHub"}

(* The values global.deletePattern takes on the Application; "none" before *)
(* the deletion.                                                           *)
Params == {"none", "DeleteSpokeChildApps", "DeleteSpoke", "DeleteChildApps"}

(* A slip is an event after which the reconciler acts on an answer that is *)
(* not true:                                                               *)
(*   defaults  reading the cluster configuration fails, and cleanup is     *)
(*             skipped as for an invalid Pattern;                          *)
(*   app       reading the ArgoCD CR or the Application fails and counts   *)
(*             as "already removed";                                       *)
(*   hub       reading the MultiClusterHub fails and counts as "no hub";   *)
(*   search    the search service answers without data, which counts as    *)
(*             "nothing left on the spokes";                               *)
(*   clusters  listing ManagedClusters fails and counts as "none";         *)
(*   unpruned  the user takes the prune annotation back after the delete;  *)
(*   late      ACM or a spoke is installed after the delete.               *)
SlipKinds == {"defaults", "app", "hub", "search", "clusters", "unpruned", "late"}

ASSUME EnvironmentAssumption ==
  /\ AcmApp \notin HubApps => Clusters = {}
  /\ Slips \subseteq SlipKinds
  /\ MaxFaults \in Nat /\ MaxEdits \in Nat

VARIABLES
  pattern,       \* the stored Pattern
  cache,         \* the informer's copy of it
  cacheCurrent,
  instance,      \* the reconciler's copy of it
  instCurrent,
  app,           \* the app of apps on the hub, as stored
  seen,          \* the reconciler's copy of it
  seenCurrent,
  applied,       \* the deletePattern value of Argo CD's last sync of app
  hubApps,       \* child Applications that exist on the hub
  childOp,       \* the sync operation requested of each child
  policy,        \* what the ACM policies now tell the spokes
  spokes,        \* clusters whose app of apps exists
  spokeApps,     \* clusters whose child applications exist
  clusters,      \* state of each ManagedCluster
  slips, faults, edits

storeVars   == <<pattern, cache, cacheCurrent, instance, instCurrent>>
appVars     == <<app, seen, seenCurrent, applied>>
childVars   == <<hubApps, childOp>>
spokeVars   == <<policy, spokes, spokeApps, clusters>>
budgetVars  == <<slips, faults, edits>>
envVars     == <<storeVars, appVars, childVars, spokeVars, budgetVars>>

Pattern == [exists: BOOLEAN, deleting: BOOLEAN, finalizer: BOOLEAN,
            prune: BOOLEAN, phase: Phases]
App     == [state: {"absent", "live", "deleting"}, owned: BOOLEAN,
            param: Params, op: {"none", "sync", "prune"}]

NoPattern == [exists |-> FALSE, deleting |-> FALSE, finalizer |-> FALSE,
              prune |-> FALSE, phase |-> ""]

NoApp == [state |-> "absent", owned |-> TRUE, param |-> "none", op |-> "none"]

StoreTypes ==
  /\ pattern \in Pattern /\ cache \in Pattern /\ instance \in Pattern
  /\ cacheCurrent \in BOOLEAN /\ instCurrent \in BOOLEAN
AppTypes ==
  /\ app \in App /\ seen \in App /\ seenCurrent \in BOOLEAN
  /\ applied \in Params \union {"unsynced"}
ChildTypes ==
  /\ hubApps \subseteq HubApps
  /\ childOp \in [HubApps -> {"none", "sync", "prune"}]
SpokeTypes ==
  /\ policy \in {"install", "deleteChildren", "pruned"}
  /\ spokes \subseteq Clusters /\ spokeApps \subseteq Clusters
  /\ clusters \in [Clusters -> {"none", "joined", "terminating"}]
BudgetTypes ==
  slips \subseteq SlipKinds /\ faults \in 0..MaxFaults /\ edits \in 0..MaxEdits

EnvTypeOK == StoreTypes /\ AppTypes /\ ChildTypes /\ SpokeTypes /\ BudgetTypes

EnvInit ==
  /\ pattern \in [exists: {TRUE}, deleting: {FALSE}, finalizer: {FALSE},
                  prune: BOOLEAN, phase: {""}]
  /\ cache = pattern /\ cacheCurrent = TRUE
  /\ instance = NoPattern /\ instCurrent = FALSE
  /\ app = NoApp /\ seen = NoApp /\ seenCurrent = FALSE
  /\ applied = "unsynced"
  /\ hubApps = {} /\ childOp = [c \in HubApps |-> "none"]
  /\ policy = "install" /\ spokes = {} /\ spokeApps = {}
  /\ clusters = [k \in Clusters |-> "none"]
  /\ slips = {} /\ faults = MaxFaults /\ edits = MaxEdits

(* ACM runs on the hub and belongs to the pattern. *)
AcmHub == AcmApp \in hubApps

-----------------------------------------------------------------------------
(* Failing calls, and failures that are taken for answers. *)

Fault == faults > 0 /\ faults' = faults - 1 /\ UNCHANGED <<slips, edits>>

Slip(kind) ==
  /\ kind \in Slips
  /\ faults > 0 /\ faults' = faults - 1
  /\ slips' = slips \union {kind}
  /\ UNCHANGED edits

NoFault == UNCHANGED budgetVars

(* Someone other than the reconciler changes the stored Pattern. *)
OthersWrite(p) ==
  /\ pattern' = p
  /\ cacheCurrent' = FALSE /\ instCurrent' = FALSE
  /\ UNCHANGED <<cache, instance>>

(* ACM or a spoke appears: too late to be noticed once deletion began. *)
Arrives ==
  IF pattern.deleting
    THEN "late" \in Slips /\ slips' = slips \union {"late"}
    ELSE UNCHANGED slips

-----------------------------------------------------------------------------
(* The user and the webhook. *)

(* The Pattern is deleted.  The webhook admits this only with the prune    *)
(* annotation; without a finalizer the object goes at once.                *)
UserDeletes ==
  /\ pattern.exists /\ ~pattern.deleting
  /\ pattern.prune
  /\ OthersWrite(IF pattern.finalizer THEN [pattern EXCEPT !.deleting = TRUE]
                                      ELSE [pattern EXCEPT !.exists = FALSE])
  /\ UNCHANGED <<appVars, childVars, spokeVars, budgetVars>>

(* The prune annotation is set or taken back; the update webhook looks at  *)
(* the variant only, so this is admitted during the deletion too.          *)
UserAnnotates ==
  /\ pattern.exists
  /\ pattern.deleting /\ pattern.prune => "unpruned" \in Slips
  /\ edits > 0 /\ edits' = edits - 1
  /\ OthersWrite([pattern EXCEPT !.prune = ~@])
  /\ UNCHANGED <<appVars, childVars, spokeVars, slips, faults>>

(* The owner reference to the Pattern is taken off the Application, or     *)
(* someone else's is put in its place.                                     *)
UserDisowns ==
  /\ app.state # "absent" /\ app.owned
  /\ edits > 0 /\ edits' = edits - 1
  /\ app' = [app EXCEPT !.owned = FALSE] /\ seenCurrent' = FALSE
  /\ UNCHANGED <<storeVars, seen, applied, childVars, spokeVars, slips, faults>>

(* The user imports a cluster into ACM. *)
UserImports(k) ==
  /\ AcmHub /\ clusters[k] = "none"
  /\ edits > 0 /\ edits' = edits - 1
  /\ Arrives
  /\ clusters' = [clusters EXCEPT ![k] = "joined"]
  /\ UNCHANGED <<storeVars, appVars, childVars, policy, spokes, spokeApps, faults>>

-----------------------------------------------------------------------------
(* The informer cache. *)

CacheSync ==
  /\ ~cacheCurrent
  /\ cache' = pattern /\ cacheCurrent' = TRUE
  /\ UNCHANGED <<pattern, instance, instCurrent, appVars, childVars, spokeVars, budgetVars>>

-----------------------------------------------------------------------------
(* Argo CD on the hub. *)

(* The app of apps is synced.  The sync is automated, also during the      *)
(* deletion, so a requested operation is a reminder only.                  *)
ArgoSyncs ==
  /\ app.state = "live"
  /\ applied # app.param \/ app.op # "none"
  /\ applied' = app.param
  /\ app' = [app EXCEPT !.op = "none"] /\ seenCurrent' = FALSE
  /\ UNCHANGED <<storeVars, seen, childVars, spokeVars, budgetVars>>

(* The chart's child Applications appear, until it is told to drop them. *)
ArgoInstalls(c) ==
  /\ app.state = "live" /\ applied \notin {"unsynced", "DeleteChildApps"}
  /\ c \notin hubApps
  /\ hubApps' = hubApps \union {c}
  /\ IF c = AcmApp THEN Arrives ELSE UNCHANGED slips
  /\ UNCHANGED <<storeVars, appVars, childOp, spokeVars, faults, edits>>

(* A child is synced as requested.  The child that carries ACM renders the *)
(* policies with the deletePattern value of the parent's last sync; that   *)
(* they disappear takes a sync that prunes.                                *)
ArgoSyncsChild(c) ==
  /\ c \in hubApps /\ childOp[c] # "none"
  /\ childOp' = [childOp EXCEPT ![c] = "none"]
  /\ policy' = CASE c = AcmApp /\ applied = "DeleteSpokeChildApps" -> "deleteChildren"
                 [] c = AcmApp /\ applied = "DeleteSpoke" /\ childOp[c] = "prune" -> "pruned"
                 [] OTHER -> policy
  /\ UNCHANGED <<storeVars, appVars, hubApps, spokes, spokeApps, clusters, budgetVars>>

(* A child is pruned, or goes in the cascade.  ACM cannot be removed while *)
(* ManagedClusters exist.                                                  *)
ArgoRemoves(c) ==
  /\ c \in hubApps
  /\ \/ app.state = "deleting"
     \/ app.state = "live" /\ applied = "DeleteChildApps"
  /\ c = AcmApp => \A k \in Clusters : clusters[k] = "none"
  /\ hubApps' = hubApps \ {c} /\ childOp' = [childOp EXCEPT ![c] = "none"]
  /\ UNCHANGED <<storeVars, appVars, spokeVars, budgetVars>>

(* The cascade is over. *)
ArgoDropsApp ==
  /\ app.state = "deleting" /\ hubApps = {}
  /\ app' = [app EXCEPT !.state = "absent"] /\ seenCurrent' = FALSE
  /\ UNCHANGED <<storeVars, seen, applied, childVars, spokeVars, budgetVars>>

-----------------------------------------------------------------------------
(* ACM and the spokes. *)

SpokeInstalls(k) ==
  /\ AcmHub /\ clusters[k] = "joined" /\ policy = "install"
  /\ k \notin spokes
  /\ Arrives
  /\ spokes' = spokes \union {k} /\ spokeApps' = spokeApps \union {k}
  /\ UNCHANGED <<storeVars, appVars, childVars, policy, clusters, faults, edits>>

SpokeDropsChildren(k) ==
  /\ AcmHub /\ clusters[k] # "none" /\ policy = "deleteChildren"
  /\ k \in spokeApps
  /\ spokeApps' = spokeApps \ {k}
  /\ UNCHANGED <<storeVars, appVars, childVars, policy, spokes, clusters, budgetVars>>

SpokeDropsApp(k) ==
  /\ AcmHub /\ clusters[k] # "none" /\ policy = "pruned"
  /\ k \in spokes
  /\ spokes' = spokes \ {k}
  /\ UNCHANGED <<storeVars, appVars, childVars, policy, spokeApps, clusters, budgetVars>>

ClusterDetaches(k) ==
  /\ AcmHub /\ clusters[k] = "terminating"
  /\ clusters' = [clusters EXCEPT ![k] = "none"]
  /\ UNCHANGED <<storeVars, appVars, childVars, policy, spokes, spokeApps, budgetVars>>

-----------------------------------------------------------------------------
UserNext ==
  \/ UserDeletes
  \/ UserAnnotates
  \/ UserDisowns
  \/ \E k \in Clusters : UserImports(k)

ServiceNext ==
  \/ CacheSync
  \/ ArgoSyncs
  \/ ArgoDropsApp
  \/ \E c \in HubApps : ArgoInstalls(c) \/ ArgoSyncsChild(c) \/ ArgoRemoves(c)
  \/ \E k \in Clusters :
       \/ SpokeInstalls(k) \/ SpokeDropsChildren(k)
       \/ SpokeDropsApp(k) \/ ClusterDetaches(k)

(* The services keep working: each gets to what it has pending. *)
ServiceFairness ==
  /\ WF_envVars(CacheSync)
  /\ WF_envVars(ArgoSyncs)
  /\ WF_envVars(ArgoDropsApp)
  /\ \A c \in HubApps : WF_envVars(ArgoSyncsChild(c)) /\ WF_envVars(ArgoRemoves(c))
  /\ \A k \in Clusters :
       /\ WF_envVars(SpokeDropsChildren(k)) /\ WF_envVars(SpokeDropsApp(k))
       /\ WF_envVars(ClusterDetaches(k))
=============================================================================
