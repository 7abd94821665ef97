----------------------- MODULE PatternInstall_types -----------------------
(***************************************************************************)
(* The type invariant of PatternInstall, for any specs, configurations and *)
(* clusters to begin with, any slips and any number of failures and edits. *)
(***************************************************************************)
EXTENDS PatternInstall, TLAPS

(* The copies a reconciliation forgets to are values of their types. *)
LEMMA EmptyCopies ==
  ASSUME TypeOK
  PROVE  NoInstance \in Pattern /\ NoSubscription \in Subscription /\ DefaultConfig \in Configs
<1>1. \E spec \in Specs : TRUE
  BY DEF TypeOK, OperatorTypes, Pattern
<1>2. NoInstance.spec \in Specs
  BY <1>1 DEF NoInstance
<1>3. QED
  BY <1>2, ClusterAssumption DEF NoInstance, NoSubscription, Pattern, Subscription, Reports

(* A call keeps the budget, whether it fails or not. *)
LEMMA CallTypes ==
  ASSUME BudgetTypes, NoFault \/ Fault
  PROVE  BudgetTypes'
  BY ClusterAssumption DEF BudgetTypes, NoFault, Fault, budgetVars

(* So does a slip of the reconciler. *)
LEMMA SlipTypes ==
  ASSUME BudgetTypes, NEW kind \in SlipKinds, Slip(kind)
  PROVE  BudgetTypes'
  BY ClusterAssumption DEF BudgetTypes, Slip

(* So does an edit of the user. *)
LEMMA EditTypes ==
  ASSUME BudgetTypes, Edit \/ \E kind \in SlipKinds : EditSlip(kind)
  PROVE  BudgetTypes'
  BY ClusterAssumption DEF BudgetTypes, Edit, EditSlip

(* An ArgoCD is set to a configuration. *)
LEMMA SetTypes ==
  ASSUME ArgoTypes, NEW n \in Namespaces, NEW a \in {"absent", "foreign"} \union Configs,
         SetArgoCD(n, a), UNCHANGED apps
  PROVE  ArgoTypes'
  BY DEF ArgoTypes, SetArgoCD

(* Nothing is spent at first. *)
LEMMA FullBudget ==
  ASSUME slips = {}, faults = MaxFaults, edits = MaxEdits
  PROVE  BudgetTypes
  BY ClusterAssumption DEF BudgetTypes

(* The first state is typed. *)
LEMMA TypesInit == Init => TypeOK
<1> SUFFICES ASSUME Init PROVE TypeOK
  OBVIOUS
<1> USE ClusterAssumption DEF Init, ClusterInit, OnLegacy, Namespaces, Legacy, New
<1>1. PICK start \in Starts, spec \in Specs, owned \in BOOLEAN :
        /\ pattern = [finalizer |-> start = "legacy", spec |-> spec,
                      step |-> IF start = "legacy" THEN "reconcile complete" ELSE ""]
        /\ sub = [exists |-> start # "fresh", disable |-> FALSE, config |-> DefaultConfig,
                  owned |-> start = "legacy" /\ owned]
        /\ gitops = IF start \in {"gitops", "legacy"} THEN "default" ELSE "absent"
        /\ namespaces = IF start \in {"gitops", "legacy"} THEN {Legacy} ELSE {}
        /\ bundle = OnLegacy(IF start = "legacy" THEN "populated" ELSE "absent", "absent")
        /\ argoCD = OnLegacy(CASE start = "gitops" -> "foreign"
                               [] start = "legacy" -> DefaultConfig
                               [] OTHER -> "absent", "absent")
        /\ apps = OnLegacy(IF start = "legacy" THEN spec ELSE "absent", "absent")
  OBVIOUS
<1>2. OperatorTypes
  BY <1>1 DEF OperatorTypes, Pattern, Reports
<1>3. GitOpsTypes
  <2>1. sub \in Subscription
    BY <1>1 DEF Subscription
  <2>2. QED
    BY <1>1, <2>1 DEF GitOpsTypes
<1>4. ArgoTypes
  BY <1>1 DEF ArgoTypes
<1>5. BudgetTypes
  BY FullBudget
<1>6. LocalTypes
  <2>1. NoInstance.spec \in Specs
    BY <1>1 DEF NoInstance
  <2>2. QED
    BY <2>1 DEF LocalTypes, Calls, Reports, NoInstance, NoSubscription, Pattern, Subscription
<1>7. QED
  BY <1>2, <1>3, <1>4, <1>5, <1>6 DEF TypeOK

-----------------------------------------------------------------------------
(* The steps of the reconciler, one by one. *)

(* The copy is the cache's. *)
LEMMA GetTypes ==
  ASSUME TypeOK, Get
  PROVE  TypeOK'
<1> USE DEF Get, TypeOK, GoTo, Perform, Fails, Return,
      patternVars, queueVars, subVars, nsVars,
      argoVars, memoryVars
<1>1. OperatorTypes'
  BY DEF OperatorTypes, Pattern, Reports
<1>2. GitOpsTypes'
  BY DEF GitOpsTypes
<1>3. ArgoTypes'
  BY DEF ArgoTypes
<1>4. BudgetTypes'
  BY CallTypes DEF NoFault, budgetVars
<1>5. LocalTypes'
  BY DEF LocalTypes, Calls, Reports, OperatorTypes
<1>6. QED
  BY <1>1, <1>2, <1>3, <1>4, <1>5

(* The finalizer is added to a typed copy. *)
LEMMA ConfigureTypes ==
  ASSUME TypeOK, Configure
  PROVE  TypeOK'
<1> USE DEF Configure, TypeOK, GoTo, Perform, Fails, Return,
      patternVars, queueVars, subVars, nsVars,
      argoVars, memoryVars
<1>1. OperatorTypes'
  BY DEF OperatorTypes, Pattern, Reports, LocalTypes
<1>2. GitOpsTypes'
  BY DEF GitOpsTypes
<1>3. ArgoTypes'
  BY DEF ArgoTypes
<1>4. BudgetTypes'
  BY CallTypes
<1>5. LocalTypes'
  BY DEF LocalTypes, Calls, Reports, OperatorTypes, Pattern
<1>6. QED
  BY <1>1, <1>2, <1>3, <1>4, <1>5

(* Either answer is one of the two namespaces. *)
LEMMA DetectArgoNamespaceTypes ==
  ASSUME TypeOK, DetectArgoNamespace
  PROVE  TypeOK'
<1> USE DEF DetectArgoNamespace, TypeOK, GoTo, Perform, Fails, Return,
      patternVars, queueVars, subVars, nsVars,
      argoVars, memoryVars
<1>1. OperatorTypes'
  BY DEF OperatorTypes, Namespaces, Legacy, New
<1>2. GitOpsTypes'
  BY DEF GitOpsTypes
<1>3. ArgoTypes'
  BY DEF ArgoTypes
<1>4. BudgetTypes'
  BY CallTypes, SlipTypes DEF SlipKinds
<1>5. LocalTypes'
  BY DEF LocalTypes, Calls, Reports
<1>6. QED
  BY <1>1, <1>2, <1>3, <1>4, <1>5

(* The copy is the stored Subscription. *)
LEMMA GetSubscriptionTypes ==
  ASSUME TypeOK, GetSubscription
  PROVE  TypeOK'
<1> USE DEF GetSubscription, TypeOK, GoTo, Perform, Fails, Return,
      patternVars, queueVars, subVars, nsVars,
      argoVars, memoryVars
<1>1. OperatorTypes'
  BY DEF OperatorTypes
<1>2. GitOpsTypes'
  BY DEF GitOpsTypes
<1>3. ArgoTypes'
  BY DEF ArgoTypes
<1>4. BudgetTypes'
  BY CallTypes
<1>5. LocalTypes'
  BY DEF LocalTypes, Calls, Reports, GitOpsTypes
<1>6. QED
  BY <1>1, <1>2, <1>3, <1>4, <1>5

(* What is stored is the target or the copy without owners. *)
LEMMA WriteSubscriptionTypes ==
  ASSUME TypeOK, WriteSubscription
  PROVE  TypeOK'
<1>0. NoInstance \in Pattern /\ NoSubscription \in Subscription /\ DefaultConfig \in Configs
  BY EmptyCopies
<1> USE DEF WriteSubscription, TypeOK, GoTo, Perform, Fails, Return,
      patternVars, queueVars, subVars, nsVars,
      argoVars, memoryVars
<1>1. OperatorTypes'
  BY DEF OperatorTypes
<1>2. GitOpsTypes'
  <2>1. NewSubscription \in Subscription
    BY DEF NewSubscription, Subscription, LocalTypes
  <2>2. [subSeen EXCEPT !.owned = FALSE] \in Subscription
    BY DEF Subscription, LocalTypes
  <2>3. QED
    BY <2>1, <2>2 DEF GitOpsTypes
<1>3. ArgoTypes'
  BY DEF ArgoTypes
<1>4. BudgetTypes'
  BY CallTypes
<1>5. LocalTypes'
  BY <1>0 DEF LocalTypes, Calls, Reports
<1>6. QED
  BY <1>1, <1>2, <1>3, <1>4, <1>5

(* The events are about namespaces. *)
LEMMA StartArgoCDWatchTypes ==
  ASSUME TypeOK, StartArgoCDWatch
  PROVE  TypeOK'
<1> USE DEF StartArgoCDWatch, TypeOK, GoTo, Perform, Fails, Return,
      patternVars, queueVars, subVars, nsVars,
      argoVars, memoryVars
<1>1. OperatorTypes'
  BY DEF OperatorTypes
<1>2. GitOpsTypes'
  BY DEF GitOpsTypes
<1>3. ArgoTypes'
  BY DEF ArgoTypes
<1>4. BudgetTypes'
  BY CallTypes
<1>5. LocalTypes'
  BY DEF LocalTypes, Calls, Reports
<1>6. QED
  BY <1>1, <1>2, <1>3, <1>4, <1>5

(* The active namespace joins the others. *)
LEMMA HaveNamespaceTypes ==
  ASSUME TypeOK, HaveNamespace
  PROVE  TypeOK'
<1> USE DEF HaveNamespace, TypeOK, GoTo, Perform, Fails, Return,
      patternVars, queueVars, subVars, nsVars,
      argoVars, memoryVars
<1>1. OperatorTypes'
  BY DEF OperatorTypes
<1>2. GitOpsTypes'
  BY DEF GitOpsTypes, OperatorTypes
<1>3. ArgoTypes'
  BY DEF ArgoTypes
<1>4. BudgetTypes'
  BY CallTypes
<1>5. LocalTypes'
  BY DEF LocalTypes, Calls, Reports
<1>6. QED
  BY <1>1, <1>2, <1>3, <1>4, <1>5

(* The bundle is there, empty or filled. *)
LEMMA TrustedBundleTypes ==
  ASSUME TypeOK, TrustedBundle
  PROVE  TypeOK'
<1> USE DEF TrustedBundle, TypeOK, GoTo, Perform, Fails, Return,
      patternVars, queueVars, subVars, nsVars,
      argoVars, memoryVars
<1>1. OperatorTypes'
  BY DEF OperatorTypes
<1>2. GitOpsTypes'
  BY DEF GitOpsTypes, OperatorTypes
<1>3. ArgoTypes'
  BY DEF ArgoTypes
<1>4. BudgetTypes'
  BY CallTypes
<1>5. LocalTypes'
  BY DEF LocalTypes, Calls, Reports
<1>6. QED
  BY <1>1, <1>2, <1>3, <1>4, <1>5

(* The ArgoCD is made of the operator's configuration. *)
LEMMA CreateOrUpdateArgoCDTypes ==
  ASSUME TypeOK, CreateOrUpdateArgoCD
  PROVE  TypeOK'
<1> USE DEF CreateOrUpdateArgoCD, TypeOK, GoTo, Perform, Fails, Return,
      patternVars, queueVars, subVars, nsVars,
      argoVars, memoryVars
<1>1. OperatorTypes'
  BY DEF OperatorTypes
<1>2. GitOpsTypes'
  BY DEF GitOpsTypes
<1>3. ArgoTypes'
  BY SetTypes DEF ArgoTypes, OperatorTypes, LocalTypes, Pattern
<1>4. BudgetTypes'
  BY CallTypes
<1>5. LocalTypes'
  BY DEF LocalTypes, Calls, Reports
<1>6. QED
  BY <1>1, <1>2, <1>3, <1>4, <1>5

(* The ConsoleLink is there afterwards. *)
LEMMA CreateOrUpdateConsoleLinkTypes ==
  ASSUME TypeOK, CreateOrUpdateConsoleLink
  PROVE  TypeOK'
<1> USE DEF CreateOrUpdateConsoleLink, TypeOK, GoTo, Perform, Fails, Return,
      patternVars, queueVars, subVars, nsVars,
      argoVars, memoryVars
<1>1. OperatorTypes'
  BY DEF OperatorTypes
<1>2. GitOpsTypes'
  BY DEF GitOpsTypes
<1>3. ArgoTypes'
  BY DEF ArgoTypes
<1>4. BudgetTypes'
  BY CallTypes
<1>5. LocalTypes'
  BY DEF LocalTypes, Calls, Reports
<1>6. QED
  BY <1>1, <1>2, <1>3, <1>4, <1>5

(* Nothing but the next call changes. *)
LEMMA GetLocalGitTypes ==
  ASSUME TypeOK, GetLocalGit
  PROVE  TypeOK'
<1> USE DEF GetLocalGit, TypeOK, GoTo, Perform, Fails, Return,
      patternVars, queueVars, subVars, nsVars,
      argoVars, memoryVars
<1>1. OperatorTypes'
  BY DEF OperatorTypes
<1>2. GitOpsTypes'
  BY DEF GitOpsTypes
<1>3. ArgoTypes'
  BY DEF ArgoTypes
<1>4. BudgetTypes'
  BY CallTypes
<1>5. LocalTypes'
  BY DEF LocalTypes, Calls, Reports
<1>6. QED
  BY <1>1, <1>2, <1>3, <1>4, <1>5

(* The Application is made of the copy's spec. *)
LEMMA ReconcileApplicationTypes ==
  ASSUME TypeOK, ReconcileApplication
  PROVE  TypeOK'
<1> USE DEF ReconcileApplication, TypeOK, GoTo, Perform, Fails, Return,
      patternVars, queueVars, subVars, nsVars,
      argoVars, memoryVars
<1>1. OperatorTypes'
  BY DEF OperatorTypes
<1>2. GitOpsTypes'
  BY DEF GitOpsTypes
<1>3. ArgoTypes'
  BY DEF ArgoTypes, OperatorTypes, LocalTypes, Pattern
<1>4. BudgetTypes'
  BY CallTypes
<1>5. LocalTypes'
  BY DEF LocalTypes, Calls, Reports
<1>6. QED
  BY <1>1, <1>2, <1>3, <1>4, <1>5

(* The step stored is a report. *)
LEMMA CompleteTypes ==
  ASSUME TypeOK, Complete
  PROVE  TypeOK'
<1>0. NoInstance \in Pattern /\ NoSubscription \in Subscription /\ DefaultConfig \in Configs
  BY EmptyCopies
<1> USE DEF Complete, TypeOK, GoTo, Perform, Fails, Return,
      patternVars, queueVars, subVars, nsVars,
      argoVars, memoryVars
<1>1. OperatorTypes'
  BY DEF OperatorTypes, Pattern, Reports, Store, LocalTypes
<1>2. GitOpsTypes'
  BY DEF GitOpsTypes
<1>3. ArgoTypes'
  BY DEF ArgoTypes
<1>4. BudgetTypes'
  BY CallTypes
<1>5. LocalTypes'
  BY <1>0 DEF LocalTypes, Calls, Reports
<1>6. QED
  BY <1>1, <1>2, <1>3, <1>4, <1>5

(* So is the one stored here. *)
LEMMA ActionPerformedTypes ==
  ASSUME TypeOK, ActionPerformed
  PROVE  TypeOK'
<1>0. NoInstance \in Pattern /\ NoSubscription \in Subscription /\ DefaultConfig \in Configs
  BY EmptyCopies
<1> USE DEF ActionPerformed, TypeOK, GoTo, Perform, Fails, Return,
      patternVars, queueVars, subVars, nsVars,
      argoVars, memoryVars
<1>1. OperatorTypes'
  BY DEF OperatorTypes, Pattern, Reports, Store, LocalTypes
<1>2. GitOpsTypes'
  BY DEF GitOpsTypes
<1>3. ArgoTypes'
  BY DEF ArgoTypes
<1>4. BudgetTypes'
  BY CallTypes DEF BudgetTypes, SlipKinds
<1>5. LocalTypes'
  BY <1>0 DEF LocalTypes, Calls, Reports
<1>6. QED
  BY <1>1, <1>2, <1>3, <1>4, <1>5

(* The caches are what is stored. *)
LEMMA CrashTypes ==
  ASSUME TypeOK, Crash
  PROVE  TypeOK'
<1>0. NoInstance \in Pattern /\ NoSubscription \in Subscription /\ DefaultConfig \in Configs
  BY EmptyCopies
<1> USE DEF Crash, TypeOK, GoTo, Perform, Fails, Return,
      patternVars, queueVars, subVars, nsVars,
      argoVars, memoryVars
<1>1. OperatorTypes'
  BY DEF OperatorTypes, Pattern, Reports, Namespaces, Legacy, New
<1>2. GitOpsTypes'
  BY DEF GitOpsTypes
<1>3. ArgoTypes'
  BY DEF ArgoTypes
<1>4. BudgetTypes'
  BY CallTypes
<1>5. LocalTypes'
  BY <1>0 DEF LocalTypes, Calls, Reports
<1>6. QED
  BY <1>1, <1>2, <1>3, <1>4, <1>5

-----------------------------------------------------------------------------
(* The steps of the user and the other operators.  Nothing of the          *)
(* reconciler's own changes with them.                                     *)
LEMMA EnvironmentTypes ==
  ASSUME TypeOK, Environment
  PROVE  TypeOK'
<1> USE DEF TypeOK, patternVars, queueVars, subVars, nsVars,
      argoVars, memoryVars
<1>0. LocalTypes'
  BY DEF Environment, LocalTypes, localVars
<1>1. CASE \E s \in Specs : UserEditsPattern(s)
  <2>0. PICK s \in Specs : UserEditsPattern(s)
    BY <1>1
  <2>1. OperatorTypes' /\ GitOpsTypes'
    BY <2>0 DEF UserEditsPattern, OperatorTypes, GitOpsTypes, Pattern
  <2>2. ArgoTypes'
    BY <2>0 DEF UserEditsPattern, ArgoTypes
  <2>3. BudgetTypes'
    BY <2>0, CallTypes, EditTypes DEF UserEditsPattern, SlipKinds, NoFault, budgetVars
  <2>4. QED
    BY <1>0, <2>1, <2>2, <2>3
<1>2. CASE \E c \in Configs : UserEditsConfig(c)
  <2>0. PICK c \in Configs : UserEditsConfig(c)
    BY <1>2
  <2>1. OperatorTypes' /\ GitOpsTypes'
    BY <2>0 DEF UserEditsConfig, OperatorTypes, GitOpsTypes, Pattern
  <2>2. ArgoTypes'
    BY <2>0 DEF UserEditsConfig, ArgoTypes
  <2>3. BudgetTypes'
    BY <2>0, CallTypes, EditTypes DEF UserEditsConfig, SlipKinds, NoFault, budgetVars
  <2>4. QED
    BY <1>0, <2>1, <2>2, <2>3
<1>3. CASE \E n \in Namespaces : UserEditsArgoCD(n)
  <2>0. PICK n \in Namespaces : UserEditsArgoCD(n)
    BY <1>3
  <2>1. OperatorTypes' /\ GitOpsTypes'
    BY <2>0 DEF UserEditsArgoCD, OperatorTypes, GitOpsTypes, Pattern, Namespaces, Legacy
  <2>2. ArgoTypes'
    BY <2>0, SetTypes DEF UserEditsArgoCD, Namespaces, Legacy
  <2>3. BudgetTypes'
    BY <2>0, CallTypes, EditTypes DEF UserEditsArgoCD, SlipKinds, NoFault, budgetVars
  <2>4. QED
    BY <1>0, <2>1, <2>2, <2>3
<1>4. CASE \E n \in Namespaces : UserDeletesArgoCD(n)
  <2>0. PICK n \in Namespaces : UserDeletesArgoCD(n)
    BY <1>4
  <2>1. OperatorTypes' /\ GitOpsTypes'
    BY <2>0 DEF UserDeletesArgoCD, OperatorTypes, GitOpsTypes, Pattern, Namespaces, Legacy
  <2>2. ArgoTypes'
    BY <2>0, SetTypes DEF UserDeletesArgoCD, Namespaces, Legacy
  <2>3. BudgetTypes'
    BY <2>0, CallTypes, EditTypes DEF UserDeletesArgoCD, SlipKinds, NoFault, budgetVars
  <2>4. QED
    BY <1>0, <2>1, <2>2, <2>3
<1>5. CASE \E n \in Namespaces : UserDisowns(n)
  <2>0. PICK n \in Namespaces : UserDisowns(n)
    BY <1>5
  <2>1. OperatorTypes' /\ GitOpsTypes'
    BY <2>0 DEF UserDisowns, OperatorTypes, GitOpsTypes, Pattern
  <2>2. ArgoTypes'
    BY <2>0 DEF UserDisowns, ArgoTypes
  <2>3. BudgetTypes'
    BY <2>0, CallTypes, EditTypes DEF UserDisowns, SlipKinds, NoFault, budgetVars
  <2>4. QED
    BY <1>0, <2>1, <2>2, <2>3
<1>6. CASE CacheSync
  <2>1. OperatorTypes' /\ GitOpsTypes'
    BY <1>6 DEF CacheSync, OperatorTypes, GitOpsTypes, Pattern
  <2>2. ArgoTypes'
    BY <1>6 DEF CacheSync, ArgoTypes
  <2>3. BudgetTypes'
    BY <1>6, CallTypes, EditTypes DEF CacheSync, SlipKinds, NoFault, budgetVars
  <2>4. QED
    BY <1>0, <2>1, <2>2, <2>3
<1>7. CASE NamespaceSync
  <2>1. OperatorTypes' /\ GitOpsTypes'
    BY <1>7 DEF NamespaceSync, OperatorTypes, GitOpsTypes, Pattern
  <2>2. ArgoTypes'
    BY <1>7 DEF NamespaceSync, ArgoTypes
  <2>3. BudgetTypes'
    BY <1>7, CallTypes, EditTypes DEF NamespaceSync, SlipKinds, NoFault, budgetVars
  <2>4. QED
    BY <1>0, <2>1, <2>2, <2>3
<1>8. CASE TimerFires
  <2>1. OperatorTypes' /\ GitOpsTypes'
    BY <1>8 DEF TimerFires, OperatorTypes, GitOpsTypes, Pattern
  <2>2. ArgoTypes'
    BY <1>8 DEF TimerFires, ArgoTypes
  <2>3. BudgetTypes'
    BY <1>8, CallTypes, EditTypes DEF TimerFires, SlipKinds, NoFault, budgetVars
  <2>4. QED
    BY <1>0, <2>1, <2>2, <2>3
<1>9. CASE OlmRollsOut
  <2>1. OperatorTypes' /\ GitOpsTypes'
    BY <1>9 DEF OlmRollsOut, OperatorTypes, GitOpsTypes, Pattern
  <2>2. ArgoTypes'
    BY <1>9 DEF OlmRollsOut, ArgoTypes
  <2>3. BudgetTypes'
    BY <1>9, CallTypes, EditTypes DEF OlmRollsOut, SlipKinds, NoFault, budgetVars
  <2>4. QED
    BY <1>0, <2>1, <2>2, <2>3
<1>10. CASE GitOpsCreatesDefault
  <2>1. OperatorTypes' /\ GitOpsTypes'
    BY <1>10 DEF GitOpsCreatesDefault, OperatorTypes, GitOpsTypes, Pattern, Namespaces, Legacy
  <2>2. ArgoTypes'
    BY <1>10, SetTypes DEF GitOpsCreatesDefault, Namespaces, Legacy
  <2>3. BudgetTypes'
    BY <1>10, CallTypes, EditTypes DEF GitOpsCreatesDefault, SlipKinds, NoFault, budgetVars, GitOpsActs, BudgetTypes
  <2>4. QED
    BY <1>0, <2>1, <2>2, <2>3
<1>11. CASE GitOpsDeletesDefault
  <2>1. OperatorTypes' /\ GitOpsTypes'
    BY <1>11 DEF GitOpsDeletesDefault, OperatorTypes, GitOpsTypes, Pattern, Namespaces, Legacy
  <2>2. ArgoTypes'
    BY <1>11, SetTypes DEF GitOpsDeletesDefault, Namespaces, Legacy
  <2>3. BudgetTypes'
    BY <1>11, CallTypes, EditTypes DEF GitOpsDeletesDefault, SlipKinds, NoFault, budgetVars, GitOpsActs, BudgetTypes
  <2>4. QED
    BY <1>0, <2>1, <2>2, <2>3
<1>12. CASE \E n \in Namespaces : ArgoCDEvent(n)
  <2>0. PICK n \in Namespaces : ArgoCDEvent(n)
    BY <1>12
  <2>1. OperatorTypes' /\ GitOpsTypes'
    BY <2>0 DEF ArgoCDEvent, OperatorTypes, GitOpsTypes, Pattern
  <2>2. ArgoTypes'
    BY <2>0 DEF ArgoCDEvent, ArgoTypes
  <2>3. BudgetTypes'
    BY <2>0, CallTypes, EditTypes DEF ArgoCDEvent, SlipKinds, NoFault, budgetVars
  <2>4. QED
    BY <1>0, <2>1, <2>2, <2>3
<1>13. CASE \E n \in Namespaces : NetworkOperatorInjects(n)
  <2>0. PICK n \in Namespaces : NetworkOperatorInjects(n)
    BY <1>13
  <2>1. OperatorTypes' /\ GitOpsTypes'
    BY <2>0 DEF NetworkOperatorInjects, OperatorTypes, GitOpsTypes, Pattern
  <2>2. ArgoTypes'
    BY <2>0 DEF NetworkOperatorInjects, ArgoTypes
  <2>3. BudgetTypes'
    BY <2>0, CallTypes, EditTypes DEF NetworkOperatorInjects, SlipKinds, NoFault, budgetVars
  <2>4. QED
    BY <1>0, <2>1, <2>2, <2>3
<1>14. QED
  BY <1>1, <1>2, <1>3, <1>4, <1>5, <1>6, <1>7, <1>8, <1>9, <1>10, <1>11, <1>12, <1>13 DEF Environment, UserNext, ServiceNext

-----------------------------------------------------------------------------
(* Every step keeps the types. *)
LEMMA TypesStep == TypeOK /\ [Next]_vars => TypeOK'
<1> SUFFICES ASSUME TypeOK, [Next]_vars PROVE TypeOK'
  OBVIOUS
<1>1. CASE UNCHANGED vars
  BY <1>1 DEF vars, clusterVars, patternVars, queueVars, subVars, nsVars, argoVars, memoryVars,
     budgetVars, localVars, TypeOK, OperatorTypes, GitOpsTypes, ArgoTypes, BudgetTypes, LocalTypes
<1>2. CASE Get \/ Crash \/ Environment
  BY <1>2, GetTypes, CrashTypes, EnvironmentTypes
<1>3. CASE Reconcile
  BY <1>3, ConfigureTypes, DetectArgoNamespaceTypes, GetSubscriptionTypes,
     WriteSubscriptionTypes, StartArgoCDWatchTypes, HaveNamespaceTypes,
     TrustedBundleTypes, CreateOrUpdateArgoCDTypes, CreateOrUpdateConsoleLinkTypes,
     GetLocalGitTypes, ReconcileApplicationTypes, CompleteTypes,
     ActionPerformedTypes, CrashTypes DEF Reconcile
<1>4. QED
  BY <1>1, <1>2, <1>3 DEF Next

(* The types of the whole state, the operator's and the cluster's, are as  *)
(* declared in every state the installation goes through.                  *)
THEOREM InstallTypeCorrect == Spec => []TypeOK
  BY TypesInit, TypesStep, PTL DEF Spec
=============================================================================
