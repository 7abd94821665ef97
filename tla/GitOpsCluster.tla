--------------------------- MODULE GitOpsCluster ---------------------------
(***************************************************************************)
(* The cluster a pattern is installed on, as far as the installation       *)
(* depends on it: the stored Pattern with its informer and the operator's  *)
(* work queue, the operator's ConfigMap, the Subscription to OpenShift     *)
(* GitOps, the gitops-operator that OLM runs for it, the ArgoCD instances, *)
(* their namespaces and CA bundles, and the pattern's Application.         *)
(*                                                                         *)
(* What changes by itself is the work of others: OLM, the gitops-operator, *)
(* the network operator, the user.  Of them the code only says what it     *)
(* expects.  As in ClusterEnvironment a copy's resource version matters    *)
(* only in being the stored one or not.                                    *)
(***************************************************************************)
EXTENDS Naturals

CONSTANTS
  Specs,          \* what a Pattern may ask for
  Configs,        \* contents of the operator's ConfigMap
  DefaultConfig,  \* what counts where the ConfigMap says nothing
  Starts,         \* the clusters to begin with, see Init
  Slips,          \* the accidents that may happen
  MaxFaults,      \* how many calls may fail and how often the operator may crash
  MaxEdits        \* how often the user changes something

Legacy == "openshift-gitops"
New    == "vp-gitops"
Namespaces == {Legacy, New}

(* Accidents the properties make exceptions for:                           *)
(*   argo      reading the legacy ArgoCD fails, which counts as "none";    *)
(*   deleted   the user deletes an ArgoCD;                                 *)
(*   outdated  the gitops-operator creates or deletes the default ArgoCD   *)
(*             by an environment the Subscription no longer has;           *)
(*   disowned  the Application's owner reference is taken off;             *)
(*   stalled   a step reports success with the status that is stored       *)
(*             already and nothing else is going to wake the reconciler.   *)
SlipKinds == {"argo", "deleted", "outdated", "disowned", "stalled"}

(* The clusters to begin with:                                             *)
(*   fresh       no GitOps at all;                                         *)
(*   gitops      GitOps has been installed, by the user;                   *)
(*   installing  it has been subscribed to and is not there yet;           *)
(*   legacy      an older operator installed a pattern in openshift-gitops *)
StartKinds == {"fresh", "gitops", "installing", "legacy"}

ASSUME ClusterAssumption ==
  /\ DefaultConfig \in Configs
  /\ {"absent", "foreign"} \intersect Configs = {}
  /\ {"absent", "disowned"} \intersect Specs = {}
  /\ Starts \subseteq StartKinds /\ Slips \subseteq SlipKinds
  /\ MaxFaults \in Nat /\ MaxEdits \in Nat

VARIABLES
  pattern,       \* the stored Pattern
  cache,         \* the informer's copy of it
  cacheCurrent,
  queued,        \* the Pattern is in the work queue
  timer,         \* it will be, by a delayed or rate-limited request
  configMap,
  sub,           \* the Subscription
  gitops,        \* how the gitops-operator runs: with a default instance or not
  namespaces,
  nsCache,       \* those the informer knows
  bundle,        \* the trusted-ca-bundle in each namespace
  argoCD,        \* the ArgoCD of each namespace: whose configuration it has
  argoEvents,    \* namespaces with an ArgoCD event under way
  watching,      \* the operator watches ArgoCDs
  activeNs,      \* the operator's activeArgoNamespace
  apps,          \* the Application in each namespace: which spec it was made of
  subCurrent,    \* the reconciler's copy of the Subscription is the stored one
  instCurrent,   \* its copy of the Pattern is
  slips, faults, edits

patternVars == <<pattern, cache, cacheCurrent, instCurrent>>
queueVars   == <<queued, timer>>
subVars     == <<sub, subCurrent>>
nsVars      == <<namespaces, nsCache, bundle>>
argoVars    == <<argoCD, argoEvents>>
memoryVars  == <<watching, activeNs>>
budgetVars  == <<slips, faults, edits>>
clusterVars == <<patternVars, queueVars, configMap, subVars, gitops, nsVars,
                 argoVars, memoryVars, apps, budgetVars>>

(* LastStep, with all failed steps as one. *)
Reports == {"", "failed", "updated finalizer", "update gitops subscription",
            "removed stale owner references from gitops subscription",
            "created ArgoCD namespace", "create application", "updated application",
            "reconcile complete"}

Pattern == [finalizer: BOOLEAN, spec: Specs, step: Reports]
Subscription == [exists: BOOLEAN, disable: BOOLEAN, config: Configs, owned: BOOLEAN]

OperatorTypes ==
  /\ pattern \in Pattern /\ cache \in Pattern
  /\ cacheCurrent \in BOOLEAN /\ instCurrent \in BOOLEAN
  /\ queued \in BOOLEAN /\ timer \in BOOLEAN
  /\ configMap \in Configs
  /\ watching \in BOOLEAN /\ activeNs \in Namespaces
GitOpsTypes ==
  /\ sub \in Subscription /\ subCurrent \in BOOLEAN
  /\ gitops \in {"absent", "default", "noDefault"}
  /\ namespaces \subseteq Namespaces /\ nsCache \subseteq Namespaces
  /\ bundle \in [Namespaces -> {"absent", "empty", "populated"}]
ArgoTypes ==
  /\ argoCD \in [Namespaces -> {"absent", "foreign"} \union Configs]
  /\ argoEvents \subseteq Namespaces
  /\ apps \in [Namespaces -> {"absent", "disowned"} \union Specs]
BudgetTypes ==
  slips \subseteq SlipKinds /\ faults \in 0..MaxFaults /\ edits \in 0..MaxEdits

OnLegacy(x, rest) == [n \in Namespaces |-> IF n = Legacy THEN x ELSE rest]

ClusterInit ==
  /\ \E start \in Starts, spec \in Specs, owned \in BOOLEAN :
       /\ pattern = [finalizer |-> start = "legacy", spec |-> spec,
                     step |-> IF start = "legacy" THEN "reconcile complete" ELSE ""]
       /\ sub = [exists |-> start # "fresh", disable |-> FALSE, config |-> DefaultConfig,
                 owned |-> start = "legacy" /\ owned]
       /\ gitops = IF start \in {"gitops", "legacy"} THEN "default" ELSE "absent"
       /\ namespaces = IF start \in {"gitops", "legacy"} THEN {Legacy} ELSE {}
       /\ bundle = OnLegacy(IF start = "legacy" THEN "populated" ELSE "absent", "absent")
       /\ argoCD = OnLegacy(CASE start = "gitops" -> "foreign"
                              [] start = "legacy" -> DefaultConfig
                              [] OTHER -> "absent", "absent")
       /\ apps = OnLegacy(IF start = "legacy" THEN spec ELSE "absent", "absent")
  /\ cache = pattern /\ cacheCurrent = TRUE /\ instCurrent = FALSE
  /\ queued = TRUE /\ timer = FALSE
  /\ configMap = DefaultConfig
  /\ subCurrent = FALSE
  /\ nsCache = namespaces
  /\ argoEvents = {} /\ watching = FALSE /\ activeNs = New
  /\ slips = {} /\ faults = MaxFaults /\ edits = MaxEdits

-----------------------------------------------------------------------------
Fault == faults > 0 /\ faults' = faults - 1 /\ UNCHANGED <<slips, edits>>

Slip(kind) ==
  /\ kind \in Slips
  /\ faults > 0 /\ faults' = faults - 1
  /\ slips' = slips \union {kind}
  /\ UNCHANGED edits

NoFault == UNCHANGED budgetVars

Edit == edits > 0 /\ edits' = edits - 1 /\ UNCHANGED <<slips, faults>>

EditSlip(kind) ==
  /\ kind \in Slips
  /\ edits > 0 /\ edits' = edits - 1
  /\ slips' = slips \union {kind}
  /\ UNCHANGED faults

(* An ArgoCD changes; a watch, if there is one, will tell. *)
SetArgoCD(n, a) ==
  /\ argoCD' = [argoCD EXCEPT ![n] = a]
  /\ argoEvents' = IF watching THEN argoEvents \union {n} ELSE argoEvents

-----------------------------------------------------------------------------
(* The user. *)

UserEditsPattern(s) ==
  /\ s # pattern.spec /\ Edit
  /\ pattern' = [pattern EXCEPT !.spec = s]
  /\ cacheCurrent' = FALSE /\ instCurrent' = FALSE
  /\ UNCHANGED <<cache, queueVars, configMap, subVars, gitops, nsVars, argoVars,
                 memoryVars, apps>>

(* The event of the ConfigMap enqueues every Pattern; the operator reads   *)
(* the ConfigMap from the same informer, so it is edited when it is seen.  *)
UserEditsConfig(c) ==
  /\ c # configMap /\ Edit
  /\ configMap' = c /\ queued' = TRUE
  /\ UNCHANGED <<patternVars, timer, subVars, gitops, nsVars, argoVars,
                 memoryVars, apps>>

(* An ArgoCD is changed by hand or by another operator. *)
UserEditsArgoCD(n) ==
  /\ argoCD[n] \notin {"absent", "foreign"} /\ Edit
  /\ SetArgoCD(n, "foreign")
  /\ UNCHANGED <<patternVars, queueVars, configMap, subVars, gitops, nsVars,
                 memoryVars, apps>>

UserDeletesArgoCD(n) ==
  /\ argoCD[n] # "absent" /\ EditSlip("deleted")
  /\ SetArgoCD(n, "absent")
  /\ UNCHANGED <<patternVars, queueVars, configMap, subVars, gitops, nsVars,
                 memoryVars, apps>>

UserDisowns(n) ==
  /\ apps[n] \in Specs /\ EditSlip("disowned")
  /\ apps' = [apps EXCEPT ![n] = "disowned"]
  /\ UNCHANGED <<patternVars, queueVars, configMap, subVars, gitops, nsVars,
                 argoVars, memoryVars>>

-----------------------------------------------------------------------------
(* The operator's informers and its queue. *)

(* The informer of Patterns sees the stored Pattern and enqueues it. *)
CacheSync ==
  /\ ~cacheCurrent
  /\ cache' = pattern /\ cacheCurrent' = TRUE /\ queued' = TRUE
  /\ UNCHANGED <<pattern, instCurrent, timer, configMap, subVars, gitops, nsVars,
                 argoVars, memoryVars, apps, budgetVars>>

NamespaceSync ==
  /\ nsCache # namespaces /\ nsCache' = namespaces
  /\ UNCHANGED <<patternVars, queueVars, configMap, subVars, gitops, namespaces,
                 bundle, argoVars, memoryVars, apps, budgetVars>>

TimerFires ==
  /\ timer /\ timer' = FALSE /\ queued' = TRUE
  /\ UNCHANGED <<patternVars, configMap, subVars, gitops, nsVars, argoVars,
                 memoryVars, apps, budgetVars>>

(* The handler of startArgoCDWatch drops events about any ArgoCD but the   *)
(* one that is active when the event comes.                                *)
ArgoCDEvent(n) ==
  /\ n \in argoEvents /\ argoEvents' = argoEvents \ {n}
  /\ queued' = (queued \/ n = activeNs)
  /\ UNCHANGED <<patternVars, timer, configMap, subVars, gitops, nsVars, argoCD,
                 memoryVars, apps, budgetVars>>

-----------------------------------------------------------------------------
(* OLM, the gitops-operator, the network operator. *)

(* OLM installs the gitops-operator, or restarts it with another           *)
(* environment, and writes the Subscription's status.                      *)
OlmRollsOut ==
  /\ sub.exists
  /\ gitops' = IF sub.disable THEN "noDefault" ELSE "default"
  /\ gitops' # gitops
  /\ subCurrent' = FALSE
  /\ UNCHANGED <<patternVars, queueVars, configMap, sub, nsVars, argoVars,
                 memoryVars, apps, budgetVars>>

(* DISABLE_DEFAULT_ARGOCD_INSTANCE prevents the gitops-operator "from      *)
(* creating (and actively deleting) the default ArgoCD instance".          *)
GitOpsActs ==
  IF gitops = (IF sub.disable THEN "noDefault" ELSE "default")
    THEN UNCHANGED slips
    ELSE "outdated" \in Slips /\ slips' = slips \union {"outdated"}

GitOpsCreatesDefault ==
  /\ gitops = "default" /\ argoCD[Legacy] = "absent"
  /\ GitOpsActs
  /\ SetArgoCD(Legacy, "foreign")
  /\ namespaces' = namespaces \union {Legacy}
  /\ UNCHANGED <<patternVars, queueVars, configMap, subVars, gitops, nsCache,
                 bundle, memoryVars, apps, faults, edits>>

GitOpsDeletesDefault ==
  /\ gitops = "noDefault" /\ argoCD[Legacy] # "absent"
  /\ GitOpsActs
  /\ SetArgoCD(Legacy, "absent")
  /\ UNCHANGED <<patternVars, queueVars, configMap, subVars, gitops, nsVars,
                 memoryVars, apps, faults, edits>>

NetworkOperatorInjects(n) ==
  /\ bundle[n] = "empty"
  /\ bundle' = [bundle EXCEPT ![n] = "populated"]
  /\ UNCHANGED <<patternVars, queueVars, configMap, subVars, gitops, namespaces,
                 nsCache, argoVars, memoryVars, apps, budgetVars>>

-----------------------------------------------------------------------------
UserNext ==
  \/ \E s \in Specs : UserEditsPattern(s)
  \/ \E c \in Configs : UserEditsConfig(c)
  \/ \E n \in Namespaces : UserEditsArgoCD(n) \/ UserDeletesArgoCD(n) \/ UserDisowns(n)

ServiceNext ==
  \/ CacheSync
  \/ NamespaceSync
  \/ TimerFires
  \/ OlmRollsOut
  \/ GitOpsCreatesDefault
  \/ GitOpsDeletesDefault
  \/ \E n \in Namespaces : ArgoCDEvent(n) \/ NetworkOperatorInjects(n)

(* Informers, timers and the other operators keep working. *)
ServiceFairness ==
  /\ WF_clusterVars(CacheSync)
  /\ WF_clusterVars(NamespaceSync)
  /\ WF_clusterVars(TimerFires)
  /\ WF_clusterVars(OlmRollsOut)
  /\ WF_clusterVars(GitOpsCreatesDefault)
  /\ WF_clusterVars(GitOpsDeletesDefault)
  /\ \A n \in Namespaces :
       WF_clusterVars(ArgoCDEvent(n)) /\ WF_clusterVars(NetworkOperatorInjects(n))
=============================================================================
