--------------------------- MODULE PatternInstall ---------------------------
(***************************************************************************)
(* The ordinary path of Reconcile in internal/controller/                  *)
(* pattern_controller.go: how a Pattern that is not being deleted comes to *)
(* be installed, from the Subscription to OpenShift GitOps to the app of   *)
(* apps.                                                                   *)
(*                                                                         *)
(* Each action is one call to a service with the computation up to the     *)
(* next; pc names the next.  A reconciliation ends by writing LastStep     *)
(* (actionPerformed) or by completing, and both leave it to an event, a    *)
(* delay or nothing that the Pattern is reconciled again.                  *)
(***************************************************************************)
EXTENDS GitOpsCluster

VARIABLES
  pc,        \* the call Reconcile makes next, "idle" between reconciliations
  instance,  \* its copy of the Pattern
  conf,      \* its copy of the ConfigMap
  subSeen,   \* its copy of the Subscription
  report,    \* the reason actionPerformed is going to store
  consoleLink

localVars == <<instance, conf, subSeen, report>>
vars == <<clusterVars, pc, localVars, consoleLink>>

Calls == {"idle", "configure", "detectArgoNamespace", "getSubscription",
          "writeSubscription", "startArgoCDWatch", "haveNamespace", "trustedBundle",
          "createOrUpdateArgoCD", "createOrUpdateConsoleLink", "getLocalGit",
          "reconcileApplication", "complete", "actionPerformed"}

LocalTypes ==
  /\ pc \in Calls /\ report \in Reports
  /\ instance \in Pattern /\ conf \in Configs /\ subSeen \in Subscription
  /\ consoleLink \in BOOLEAN

TypeOK == OperatorTypes /\ GitOpsTypes /\ ArgoTypes /\ BudgetTypes /\ LocalTypes

NoInstance == [finalizer |-> FALSE, spec |-> CHOOSE spec \in Specs : TRUE, step |-> ""]
NoSubscription == [exists |-> FALSE, disable |-> FALSE, config |-> DefaultConfig, owned |-> FALSE]

Init ==
  /\ ClusterInit
  /\ pc = "idle" /\ instance = NoInstance /\ conf = DefaultConfig /\ subSeen = NoSubscription
  /\ report = "" /\ consoleLink = FALSE

(* isLegacyArgoNamespace *)
LegacyArgoNamespace == activeNs = Legacy

GoTo(step) == pc' = step /\ UNCHANGED report

(* The reconciliation ends and forgets its copies. *)
Return ==
  /\ pc' = "idle" /\ report' = ""
  /\ instance' = NoInstance /\ conf' = DefaultConfig /\ subSeen' = NoSubscription
  /\ instCurrent' = FALSE /\ subCurrent' = FALSE
  /\ UNCHANGED <<sub, consoleLink>>

(* return r.actionPerformed(qualifiedInstance, reason, err) *)
Perform(reason) == pc' = "actionPerformed" /\ report' = reason

Fails == Fault /\ Perform("failed")

-----------------------------------------------------------------------------
(* The worker takes the Pattern from the queue and reads it. *)
Get ==
  /\ pc = "idle" /\ queued /\ GoTo("configure")
  /\ queued' = FALSE
  /\ instance' = cache /\ instCurrent' = cacheCurrent
  /\ UNCHANGED <<pattern, cache, cacheCurrent, timer, configMap, subVars, gitops, nsVars,
                 argoVars, memoryVars, apps, budgetVars, conf, subSeen, consoleLink>>

(* The ConfigMap is read, the catalog updated; a Pattern without finalizer *)
(* gets one.                                                               *)
Configure ==
  /\ pc = "configure" /\ conf' = configMap
  /\ \/ /\ Fails
        /\ UNCHANGED <<pattern, cacheCurrent, instance>>
     \/ /\ NoFault /\ instance.finalizer
        /\ GoTo("detectArgoNamespace") /\ UNCHANGED <<pattern, cacheCurrent, instance>>
     \/ /\ NoFault /\ ~instance.finalizer /\ ~instCurrent
        /\ Perform("failed") /\ UNCHANGED <<pattern, cacheCurrent, instance>>
     \/ /\ NoFault /\ ~instance.finalizer /\ instCurrent
        /\ Perform("updated finalizer")
        /\ pattern' = [pattern EXCEPT !.finalizer = TRUE]
        /\ instance' = pattern' /\ cacheCurrent' = FALSE
  /\ UNCHANGED <<cache, instCurrent, queueVars, configMap, subVars, gitops, nsVars, argoVars,
                 memoryVars, apps, subSeen, consoleLink>>

(* Mutant: only an ArgoCD the operator has written itself is detected. *)
DetectArgoNamespaceOwn ==
  /\ pc = "detectArgoNamespace"
  /\ NoFault /\ GoTo("getSubscription")
  /\ activeNs' = IF argoCD[Legacy] \in Configs THEN Legacy ELSE New
  /\ UNCHANGED <<patternVars, queueVars, configMap, subVars, gitops, nsVars, argoVars,
                 watching, apps, instance, conf, subSeen, consoleLink>>

(* applyDefaults, then detectArgoNamespace: the legacy namespace is used   *)
(* as long as its ArgoCD exists; an error of haveArgo counts as "no".      *)
DetectArgoNamespace ==
  /\ pc = "detectArgoNamespace"
  /\ \/ Fails /\ UNCHANGED activeNs
     \/ /\ NoFault /\ GoTo("getSubscription")
        /\ activeNs' = IF argoCD[Legacy] # "absent" THEN Legacy ELSE New
     \/ /\ argoCD[Legacy] # "absent" /\ Slip("argo") /\ GoTo("getSubscription")
        /\ activeNs' = New
  /\ UNCHANGED <<patternVars, queueVars, configMap, subVars, gitops, nsVars, argoVars,
                 watching, apps, instance, conf, subSeen, consoleLink>>

-----------------------------------------------------------------------------
(* reconcileGitOpsSubscription.  For an operator in the namespace of its   *)
(* own the Subscription's namespace and OperatorGroup are created first,   *)
(* which can only fail or succeed.                                         *)
GetSubscription ==
  /\ pc = "getSubscription"
  /\ \/ Fails /\ UNCHANGED <<subSeen, subCurrent>>
     \/ NoFault /\ GoTo("writeSubscription") /\ subSeen' = sub /\ subCurrent' = TRUE
  /\ UNCHANGED <<patternVars, queueVars, configMap, sub, gitops, nsVars, argoVars,
                 memoryVars, apps, instance, conf, consoleLink>>

(* Mutant: the default instance is always disabled. *)
NewSubscriptionAlwaysDisable ==
  [exists |-> TRUE, disable |-> TRUE, config |-> conf, owned |-> FALSE]

(* Mutant: a key the ConfigMap lacks is left without a value. *)
NewSubscriptionUnset ==
  [exists |-> TRUE, disable |-> ~LegacyArgoNamespace, config |-> "unset", owned |-> FALSE]

(* newSubscription: what the Subscription should be. *)
NewSubscription ==
  [exists |-> TRUE, disable |-> ~LegacyArgoNamespace, config |-> conf, owned |-> FALSE]

(* It is created and the reconciliation goes on; or stale owner references *)
(* are removed; or it is brought up to date.  Nothing is left of what else *)
(* changed when an update is refused.                                      *)
WriteSubscription ==
  /\ pc = "writeSubscription"
  /\ subSeen' = NoSubscription /\ subCurrent' = FALSE
  /\ LET target == NewSubscription
         Update(s, reason) == IF subCurrent THEN sub' = s /\ Perform(reason)
                                            ELSE UNCHANGED sub /\ Perform("failed")
     IN  \/ Fails /\ UNCHANGED sub
         \/ NoFault /\ ~subSeen.exists /\ sub' = target /\ GoTo("startArgoCDWatch")
         \/ /\ NoFault /\ subSeen.exists /\ subSeen.owned
            /\ Update([subSeen EXCEPT !.owned = FALSE],
                      "removed stale owner references from gitops subscription")
         \/ /\ NoFault /\ subSeen.exists /\ ~subSeen.owned /\ subSeen # target
            /\ Update(target, "update gitops subscription")
         \/ NoFault /\ subSeen = target /\ UNCHANGED sub /\ GoTo("startArgoCDWatch")
  /\ UNCHANGED <<patternVars, queueVars, configMap, gitops, nsVars, argoVars,
                 memoryVars, apps, instance, conf, consoleLink>>

(* With the CRD there, a watch is started once; it begins by announcing    *)
(* the ArgoCDs that exist.  Errors leave it to the next reconciliation.    *)
StartArgoCDWatch ==
  /\ pc = "startArgoCDWatch" /\ GoTo("haveNamespace")
  /\ \/ NoFault /\ (watching \/ gitops = "absent") /\ UNCHANGED <<watching, argoEvents>>
     \/ ~watching /\ Fault /\ UNCHANGED <<watching, argoEvents>>
     \/ /\ ~watching /\ gitops # "absent" /\ NoFault
        /\ watching' = TRUE
        /\ argoEvents' = {n \in Namespaces : argoCD[n] # "absent"}
  /\ UNCHANGED <<patternVars, queueVars, configMap, subVars, gitops, nsVars, argoCD,
                 activeNs, apps, instance, conf, subSeen, consoleLink>>

-----------------------------------------------------------------------------
(* reconcileArgoInfra *)

(* The namespace is looked for in the informer's cache, and created if it  *)
(* is the operator's to create; createNamespace finds it if it is there.   *)
HaveNamespace ==
  /\ pc = "haveNamespace"
  /\ \/ /\ NoFault /\ activeNs \in nsCache
        /\ GoTo("trustedBundle") /\ UNCHANGED namespaces
     \/ /\ NoFault /\ activeNs \notin nsCache /\ LegacyArgoNamespace
        /\ Perform("failed") /\ UNCHANGED namespaces
     \/ /\ activeNs \notin nsCache /\ ~LegacyArgoNamespace
        /\ Fails /\ UNCHANGED namespaces
     \/ /\ NoFault /\ activeNs \notin nsCache /\ ~LegacyArgoNamespace
        /\ namespaces' = namespaces \union {activeNs}
        /\ Perform("created ArgoCD namespace")
  /\ UNCHANGED <<patternVars, queueVars, configMap, subVars, gitops, nsCache, bundle, argoVars,
                 memoryVars, apps, instance, conf, subSeen, consoleLink>>

(* Mutant: that the ConfigMap exists is enough. *)
TrustedBundleNoWait ==
  /\ pc = "trustedBundle"
  /\ bundle' = [bundle EXCEPT ![activeNs] = IF @ = "absent" THEN "empty" ELSE @]
  /\ NoFault /\ GoTo("createOrUpdateArgoCD")
  /\ UNCHANGED <<patternVars, queueVars, configMap, subVars, gitops, namespaces, nsCache,
                 argoVars, memoryVars, apps, instance, conf, subSeen, consoleLink>>

(* createTrustedBundleCM, isTrustedBundleCMPopulated *)
TrustedBundle ==
  /\ pc = "trustedBundle"
  /\ \/ /\ Fails
        /\ bundle' \in {bundle, [bundle EXCEPT ![activeNs] = IF @ = "absent" THEN "empty" ELSE @]}
     \/ /\ NoFault /\ bundle[activeNs] = "populated"
        /\ GoTo("createOrUpdateArgoCD") /\ UNCHANGED bundle
     \/ /\ NoFault /\ bundle[activeNs] # "populated"
        /\ bundle' = [bundle EXCEPT ![activeNs] = "empty"] /\ Perform("failed")
  /\ UNCHANGED <<patternVars, queueVars, configMap, subVars, gitops, namespaces, nsCache,
                 argoVars, memoryVars, apps, instance, conf, subSeen, consoleLink>>

(* The ArgoCD is created, or updated when its spec is not what the         *)
(* ConfigMap makes it; the reconciliation goes on in either case.          *)
CreateOrUpdateArgoCD ==
  /\ pc = "createOrUpdateArgoCD"
  /\ \/ Fails /\ UNCHANGED argoVars
     \/ NoFault /\ gitops = "absent" /\ Perform("failed") /\ UNCHANGED argoVars
     \/ /\ NoFault /\ gitops # "absent" /\ argoCD[activeNs] = conf
        /\ GoTo("createOrUpdateConsoleLink") /\ UNCHANGED argoVars
     \/ /\ NoFault /\ gitops # "absent" /\ argoCD[activeNs] # conf
        /\ SetArgoCD(activeNs, conf) /\ GoTo("createOrUpdateConsoleLink")
  /\ UNCHANGED <<patternVars, queueVars, configMap, subVars, gitops, nsVars,
                 memoryVars, apps, instance, conf, subSeen, consoleLink>>

CreateOrUpdateConsoleLink ==
  /\ pc = "createOrUpdateConsoleLink"
  /\ \/ NoFault /\ LegacyArgoNamespace /\ GoTo("getLocalGit") /\ UNCHANGED consoleLink
     \/ ~LegacyArgoNamespace /\ Fails /\ UNCHANGED consoleLink
     \/ NoFault /\ ~LegacyArgoNamespace /\ GoTo("getLocalGit") /\ consoleLink' = TRUE
  /\ UNCHANGED <<patternVars, queueVars, configMap, subVars, gitops, nsVars, argoVars,
                 memoryVars, apps, instance, conf, subSeen>>

-----------------------------------------------------------------------------
(* Secrets, Gitea, checkout and validation: an error ends it.              *)
GetLocalGit ==
  /\ pc = "getLocalGit"
  /\ \/ Fails
     \/ NoFault /\ GoTo("reconcileApplication")
  /\ UNCHANGED <<patternVars, queueVars, configMap, subVars, gitops, nsVars, argoVars,
                 memoryVars, apps, instance, conf, subSeen, consoleLink>>

(* The Application is created, or updated when it is not what the Pattern  *)
(* asks for; one that is someone else's is an error.                       *)
ReconcileApplication ==
  /\ pc = "reconcileApplication"
  /\ LET current == apps[activeNs]
         Set == apps' = [apps EXCEPT ![activeNs] = instance.spec]
     IN  \/ Fails /\ UNCHANGED apps
         \/ NoFault /\ current = "absent" /\ Set /\ Perform("create application")
         \/ NoFault /\ current = "disowned" /\ UNCHANGED apps /\ Perform("failed")
         \/ NoFault /\ current = instance.spec /\ UNCHANGED apps /\ GoTo("complete")
         \/ /\ NoFault /\ current \in Specs \ {instance.spec}
            /\ Set /\ Perform("updated application")
  /\ UNCHANGED <<patternVars, queueVars, configMap, subVars, gitops, nsVars, argoVars,
                 memoryVars, instance, conf, subSeen, consoleLink>>

(* The status is written if the step differs and the copy is current.  A   *)
(* write that changes nothing is no event.                                 *)
Store(reason) ==
  IF instCurrent /\ pattern.step # reason
    THEN pattern' = [pattern EXCEPT !.step = reason] /\ cacheCurrent' = FALSE
    ELSE UNCHANGED <<pattern, cacheCurrent>>

(* The loop is complete.  A failing or refused write is logged, and in any *)
(* case the Pattern is reconciled again in ReconcileLoopRequeueTime.       *)
Complete ==
  /\ pc = "complete"
  /\ \/ /\ Fails
        /\ UNCHANGED <<timer, pattern, cacheCurrent, instCurrent, subVars, instance, conf,
                       subSeen, consoleLink>>
     \/ /\ Return /\ timer' = TRUE
        /\ \/ Fault /\ UNCHANGED <<pattern, cacheCurrent>>
           \/ NoFault /\ Store("reconcile complete")
  /\ UNCHANGED <<cache, queued, configMap, gitops, nsVars, argoVars, memoryVars, apps>>

(* Nothing is going to enqueue the Pattern. *)
Unwatched == ~queued /\ ~timer /\ cacheCurrent /\ activeNs \notin argoEvents

(* Mutant: a failed step asks for no other try. *)
ActionPerformedNoRequeue ==
  /\ pc = "actionPerformed" /\ Return
  /\ timer' = (timer \/ ~instCurrent)
  /\ Store(report)
  /\ NoFault
  /\ UNCHANGED <<cache, queued, configMap, gitops, nsVars, argoVars, memoryVars, apps>>

(* actionPerformed, onReconcileErrorWithRequeue: a failed step asks for    *)
(* another try in a minute, a refused status write for one with backoff,   *)
(* and a step that succeeded relies on the event of the status write.      *)
ActionPerformed ==
  /\ pc = "actionPerformed" /\ Return
  /\ \/ /\ Fault /\ timer' = TRUE
        /\ UNCHANGED <<pattern, cacheCurrent>>
     \/ /\ timer' = (timer \/ report = "failed" \/ ~instCurrent)
        /\ Store(report)
        /\ slips' = IF instCurrent /\ report # "failed" /\ pattern.step = report /\ Unwatched
                      THEN slips \union {"stalled"} ELSE slips
        /\ UNCHANGED <<faults, edits>>
  /\ UNCHANGED <<cache, queued, configMap, gitops, nsVars, argoVars, memoryVars, apps>>

(* The operator stops and starts again: what it had in memory is lost, and *)
(* the informers begin with everything that exists.                        *)
Crash ==
  /\ Fault /\ Return
  /\ cache' = pattern /\ cacheCurrent' = TRUE
  /\ nsCache' = namespaces
  /\ queued' = TRUE /\ timer' = FALSE
  /\ argoEvents' = {} /\ watching' = FALSE /\ activeNs' = New
  /\ UNCHANGED <<pattern, configMap, gitops, namespaces, bundle, argoCD, apps>>

-----------------------------------------------------------------------------
Reconcile ==
  \/ Configure \/ DetectArgoNamespace
  \/ GetSubscription \/ WriteSubscription \/ StartArgoCDWatch
  \/ HaveNamespace \/ TrustedBundle \/ CreateOrUpdateArgoCD \/ CreateOrUpdateConsoleLink
  \/ GetLocalGit \/ ReconcileApplication \/ Complete \/ ActionPerformed

Environment == (UserNext \/ ServiceNext) /\ UNCHANGED <<pc, localVars, consoleLink>>

Next == Get \/ Reconcile \/ Crash \/ Environment

(* The worker takes what is queued and finishes what it began. *)
Fairness == WF_vars(Get) /\ WF_vars(Reconcile) /\ ServiceFairness

Spec == Init /\ [][Next]_vars
FairSpec == Spec /\ Fairness

-----------------------------------------------------------------------------
(* Properties. *)

(* The pattern is installed once: whatever order the Subscription, the     *)
(* gitops-operator and the reconciler move in, its Application never       *)
(* exists in both Argo CD namespaces.                                      *)
OneInstallation ==
  slips \intersect {"argo", "deleted", "outdated"} = {}
    => \E n \in Namespaces : apps[n] = "absent"

(* "For legacy deployments, the gitops-operator's default instance is      *)
(* still in use": it is never disabled while the Application depends on it.*)
DefaultKeptInUse ==
  slips \intersect {"argo", "deleted", "outdated"} = {} /\ apps[Legacy] # "absent"
    => ~sub.disable /\ argoCD[Legacy] # "absent"

(* "This prevents a race condition where the ArgoCD repo-server starts     *)
(* before the CA bundle is injected": the operator writes an ArgoCD only   *)
(* where the bundle is, although the namespace it works in may change from *)
(* one reconciliation to the next.                                         *)
BundleBeforeArgoCD ==
  [][\A n \in Namespaces : argoCD'[n] # argoCD[n] /\ argoCD'[n] \in Configs
       => bundle[n] = "populated"]_vars

Installed ==
  /\ pattern.step = "reconcile complete"
  /\ sub.config = configMap /\ argoCD[activeNs] = configMap
  /\ apps[activeNs] = pattern.spec

(* The installation converges: after finitely many failures and edits the  *)
(* Subscription and the ArgoCD are what the ConfigMap says, the            *)
(* Application is what the Pattern asks for and the status says so.  Only  *)
(* a step that repeats the stored status, or an Application that has been  *)
(* disowned, ends it before.                                               *)
Converges == <>[](Installed \/ slips \intersect {"stalled", "disowned"} # {})
=============================================================================
