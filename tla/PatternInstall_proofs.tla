----------------------- MODULE PatternInstall_proofs -----------------------
(***************************************************************************)
(* The two Argo CD namespaces are not mixed up, for all values of the      *)
(* constants: a pattern lives in openshift-gitops or in vp-gitops, and the *)
(* Subscription agrees with it.  And what the convergence rests on: when   *)
(* nobody wakes the reconciler any more, and what a complete loop means.   *)
(***************************************************************************)
EXTENDS PatternInstall_types

(* Nothing of the kind the properties make exceptions for has happened. *)
Untroubled == slips \intersect {"argo", "deleted", "outdated"} = {}

DefaultExists == argoCD[Legacy] # "absent"

(* Where activeNs has been detected in this reconciliation, where the      *)
(* Subscription has been seen to, and where the ArgoCD has.                *)
AfterArgoCD == {"createOrUpdateConsoleLink", "getLocalGit", "reconcileApplication", "complete"}
AfterSubscription == AfterArgoCD \union
  {"startArgoCDWatch", "haveNamespace", "trustedBundle", "createOrUpdateArgoCD"}
Detected == AfterSubscription \union {"getSubscription", "writeSubscription"}

(* The operator alone writes the Subscription, so its copy is not stale    *)
(* in what matters here, and what it agreed to holds to the end of the     *)
(* reconciliation.                                                         *)
Agreed ==
  /\ pc = "writeSubscription" => subSeen = sub
  /\ pc \in AfterSubscription => sub.exists /\ sub.disable = (activeNs # Legacy)

(* Without a Subscription nobody has created a default instance.           *)
NothingUnsubscribed == ~sub.exists => gitops = "absent" /\ ~DefaultExists /\ ~sub.disable

(* A pattern in openshift-gitops: the default instance is there to stay,   *)
(* and every reconciliation detects it.                                    *)
LegacyPattern ==
  apps[Legacy] # "absent" =>
    /\ ~sub.disable /\ DefaultExists
    /\ pc \in Detected => activeNs = Legacy

(* A pattern in vp-gitops: there is no default instance to be detected.    *)
NewPattern ==
  apps[New] # "absent" =>
    /\ sub.disable /\ ~DefaultExists
    /\ pc \in Detected => activeNs = New

(* A reconciliation that has decided on a namespace and got as far as to   *)
(* create the Application there will find no reason to decide otherwise.   *)
Decided ==
  /\ pc \in Detected /\ activeNs = New /\ (sub.exists => sub.disable) => ~DefaultExists
  /\ pc \in AfterArgoCD /\ activeNs = Legacy => DefaultExists

Apart == LegacyPattern /\ NewPattern /\ Decided /\ NothingUnsubscribed

IInv == TypeOK /\ Agreed /\ (Untroubled => Apart)

-----------------------------------------------------------------------------
(* The steps of the reconciler, one by one. *)

(* The namespace has yet to be detected. *)
LEMMA GetApart ==
  ASSUME IInv, Get
  PROVE  IInv'
<1> TypeOK'
  BY GetTypes DEF IInv
<1> USE DEF Get, IInv, TypeOK, GoTo, Perform, Fails, Return, NoFault,
      patternVars, queueVars, subVars, nsVars, argoVars, memoryVars, budgetVars
<1>1. Agreed'
  BY DEF Agreed, Detected, AfterSubscription, AfterArgoCD
<1>2. ASSUME Untroubled' PROVE Untroubled
  BY <1>2 DEF Untroubled, Fault, Slip
<1>3. ASSUME Untroubled, Untroubled' PROVE Apart'
  <2> Apart /\ Agreed
    BY <1>3
  <2> USE DEF Apart, Agreed, Detected, AfterSubscription, AfterArgoCD, DefaultExists, Legacy, New, Namespaces
  <2>1. LegacyPattern'
    BY <1>3 DEF LegacyPattern
  <2>2. NewPattern'
    BY <1>3 DEF NewPattern
  <2>3. Decided'
    BY <1>3 DEF Decided
  <2>4. NothingUnsubscribed'
    BY <1>3 DEF NothingUnsubscribed
  <2>5. QED
    BY <2>1, <2>2, <2>3, <2>4
<1>4. QED
  BY <1>1, <1>2, <1>3

(* Nor is it when the finalizer is added. *)
LEMMA ConfigureApart ==
  ASSUME IInv, Configure
  PROVE  IInv'
<1> TypeOK'
  BY ConfigureTypes DEF IInv
<1> USE DEF Configure, IInv, TypeOK, GoTo, Perform, Fails, Return, NoFault,
      patternVars, queueVars, subVars, nsVars, argoVars, memoryVars, budgetVars
<1>1. Agreed'
  BY DEF Agreed, Detected, AfterSubscription, AfterArgoCD
<1>2. ASSUME Untroubled' PROVE Untroubled
  BY <1>2 DEF Untroubled, Fault, Slip
<1>3. ASSUME Untroubled, Untroubled' PROVE Apart'
  <2> Apart /\ Agreed
    BY <1>3
  <2> USE DEF Apart, Agreed, Detected, AfterSubscription, AfterArgoCD, DefaultExists, Legacy, New, Namespaces
  <2>1. LegacyPattern'
    BY <1>3 DEF LegacyPattern
  <2>2. NewPattern'
    BY <1>3 DEF NewPattern
  <2>3. Decided'
    BY <1>3 DEF Decided
  <2>4. NothingUnsubscribed'
    BY <1>3 DEF NothingUnsubscribed
  <2>5. QED
    BY <2>1, <2>2, <2>3, <2>4
<1>4. QED
  BY <1>1, <1>2, <1>3

(* What is detected is where the pattern is; a false answer is a slip. *)
LEMMA DetectArgoNamespaceApart ==
  ASSUME IInv, DetectArgoNamespace
  PROVE  IInv'
<1> TypeOK'
  BY DetectArgoNamespaceTypes DEF IInv
<1> USE DEF DetectArgoNamespace, IInv, TypeOK, GoTo, Perform, Fails, Return, NoFault,
      patternVars, queueVars, subVars, nsVars, argoVars, memoryVars, budgetVars
<1>1. Agreed'
  BY DEF Agreed, Detected, AfterSubscription, AfterArgoCD
<1>2. ASSUME Untroubled' PROVE Untroubled
  BY <1>2 DEF Untroubled, Fault, Slip
<1>3. ASSUME Untroubled, Untroubled' PROVE Apart'
  <2> Apart /\ Agreed
    BY <1>3
  <2> USE DEF Apart, Agreed, Detected, AfterSubscription, AfterArgoCD, DefaultExists, Legacy, New, Namespaces
  <2>1. LegacyPattern'
    BY <1>3 DEF LegacyPattern, NewPattern, Untroubled, Slip
  <2>2. NewPattern'
    BY <1>3 DEF NewPattern, LegacyPattern, Untroubled, Slip
  <2>3. Decided'
    BY <1>3 DEF Decided, LegacyPattern, NewPattern, Untroubled, Slip
  <2>4. NothingUnsubscribed'
    BY <1>3 DEF NothingUnsubscribed, LegacyPattern, NewPattern, Untroubled, Slip
  <2>5. QED
    BY <2>1, <2>2, <2>3, <2>4
<1>4. QED
  BY <1>1, <1>2, <1>3

(* The copy is the stored Subscription. *)
LEMMA GetSubscriptionApart ==
  ASSUME IInv, GetSubscription
  PROVE  IInv'
<1> TypeOK'
  BY GetSubscriptionTypes DEF IInv
<1> USE DEF GetSubscription, IInv, TypeOK, GoTo, Perform, Fails, Return, NoFault,
      patternVars, queueVars, subVars, nsVars, argoVars, memoryVars, budgetVars
<1>1. Agreed'
  BY DEF Agreed, Detected, AfterSubscription, AfterArgoCD
<1>2. ASSUME Untroubled' PROVE Untroubled
  BY <1>2 DEF Untroubled, Fault, Slip
<1>3. ASSUME Untroubled, Untroubled' PROVE Apart'
  <2> Apart /\ Agreed
    BY <1>3
  <2> USE DEF Apart, Agreed, Detected, AfterSubscription, AfterArgoCD, DefaultExists, Legacy, New, Namespaces
  <2>1. LegacyPattern'
    BY <1>3 DEF LegacyPattern
  <2>2. NewPattern'
    BY <1>3 DEF NewPattern
  <2>3. Decided'
    BY <1>3 DEF Decided
  <2>4. NothingUnsubscribed'
    BY <1>3 DEF NothingUnsubscribed
  <2>5. QED
    BY <2>1, <2>2, <2>3, <2>4
<1>4. QED
  BY <1>1, <1>2, <1>3

(* The Subscription follows the namespace detected. *)
LEMMA WriteSubscriptionApart ==
  ASSUME IInv, WriteSubscription
  PROVE  IInv'
<1> TypeOK'
  BY WriteSubscriptionTypes DEF IInv
<1> DEFINE target == NewSubscription
<1>1. /\ pc = "writeSubscription" /\ subSeen = sub
      /\ sub \in Subscription /\ subSeen \in Subscription
  BY DEF IInv, Agreed, WriteSubscription, TypeOK, GitOpsTypes, LocalTypes
<1>2. target.exists /\ target.disable = (activeNs # Legacy)
  BY DEF NewSubscription, LegacyArgoNamespace
<1>3. \/ pc' = "actionPerformed" /\ sub'.exists = sub.exists /\ sub'.disable = sub.disable
      \/ pc' = "actionPerformed" /\ sub.exists /\ sub' = target
      \/ pc' = "startArgoCDWatch" /\ sub' = target /\ (sub.exists => sub = target)
  <2> HIDE DEF target
  <2>1. CASE UNCHANGED sub /\ pc' = "actionPerformed"
    BY <2>1
  <2>2. CASE sub' = [subSeen EXCEPT !.owned = FALSE] /\ pc' = "actionPerformed"
    <3>1. sub'.exists = sub.exists /\ sub'.disable = sub.disable
      BY <1>1, <2>2 DEF Subscription
    <3>2. QED
      BY <2>2, <3>1
  <2>3. QED
    BY <1>1, <2>1, <2>2 DEF WriteSubscription, target, GoTo, Perform, Fails
<1>4. UNCHANGED <<argoCD, apps, gitops, activeNs>>
  BY DEF WriteSubscription, argoVars, memoryVars
<1> HIDE DEF target
<1>5. Agreed'
  BY <1>2, <1>3, <1>4 DEF Agreed, AfterSubscription, AfterArgoCD
<1>6. ASSUME Untroubled' PROVE Untroubled
  BY <1>6 DEF WriteSubscription, NoFault, Fails, Fault, budgetVars, Untroubled
<1>7. ASSUME Untroubled, Untroubled' PROVE Apart'
  <2> Apart
    BY <1>7 DEF IInv
  <2>1. pc \in Detected /\ pc \notin AfterArgoCD /\ pc' \notin AfterArgoCD
    BY <1>1, <1>3 DEF Detected, AfterSubscription, AfterArgoCD
  <2>2. sub'.disable = sub.disable \/ sub'.disable = (activeNs # Legacy)
    BY <1>2, <1>3
  <2> USE <1>2, <1>3, <1>4, <2>1 DEF Apart, DefaultExists, Legacy, New
  <2>3. LegacyPattern'
    BY <2>2 DEF LegacyPattern
  <2>4. NewPattern'
    BY <2>2 DEF NewPattern
  <2>5. Decided'
    BY DEF Decided, Detected, AfterSubscription, AfterArgoCD
  <2>6. NothingUnsubscribed'
    BY DEF NothingUnsubscribed
  <2>7. QED
    BY <2>3, <2>4, <2>5, <2>6
<1>8. QED
  BY <1>5, <1>6, <1>7 DEF IInv

(* Nothing that matters here changes. *)
LEMMA StartArgoCDWatchApart ==
  ASSUME IInv, StartArgoCDWatch
  PROVE  IInv'
<1> TypeOK'
  BY StartArgoCDWatchTypes DEF IInv
<1> USE DEF StartArgoCDWatch, IInv, TypeOK, GoTo, Perform, Fails, Return, NoFault,
      patternVars, queueVars, subVars, nsVars, argoVars, memoryVars, budgetVars
<1>1. Agreed'
  BY DEF Agreed, Detected, AfterSubscription, AfterArgoCD
<1>2. ASSUME Untroubled' PROVE Untroubled
  BY <1>2 DEF Untroubled, Fault, Slip
<1>3. ASSUME Untroubled, Untroubled' PROVE Apart'
  <2> Apart /\ Agreed
    BY <1>3
  <2> USE DEF Apart, Agreed, Detected, AfterSubscription, AfterArgoCD, DefaultExists, Legacy, New, Namespaces
  <2>1. LegacyPattern'
    BY <1>3 DEF LegacyPattern
  <2>2. NewPattern'
    BY <1>3 DEF NewPattern
  <2>3. Decided'
    BY <1>3 DEF Decided
  <2>4. NothingUnsubscribed'
    BY <1>3 DEF NothingUnsubscribed
  <2>5. QED
    BY <2>1, <2>2, <2>3, <2>4
<1>4. QED
  BY <1>1, <1>2, <1>3

(* Nor does it here. *)
LEMMA HaveNamespaceApart ==
  ASSUME IInv, HaveNamespace
  PROVE  IInv'
<1> TypeOK'
  BY HaveNamespaceTypes DEF IInv
<1> USE DEF HaveNamespace, IInv, TypeOK, GoTo, Perform, Fails, Return, NoFault,
      patternVars, queueVars, subVars, nsVars, argoVars, memoryVars, budgetVars
<1>1. Agreed'
  BY DEF Agreed, Detected, AfterSubscription, AfterArgoCD
<1>2. ASSUME Untroubled' PROVE Untroubled
  BY <1>2 DEF Untroubled, Fault, Slip
<1>3. ASSUME Untroubled, Untroubled' PROVE Apart'
  <2> Apart /\ Agreed
    BY <1>3
  <2> USE DEF Apart, Agreed, Detected, AfterSubscription, AfterArgoCD, DefaultExists, Legacy, New, Namespaces
  <2>1. LegacyPattern'
    BY <1>3 DEF LegacyPattern
  <2>2. NewPattern'
    BY <1>3 DEF NewPattern
  <2>3. Decided'
    BY <1>3 DEF Decided
  <2>4. NothingUnsubscribed'
    BY <1>3 DEF NothingUnsubscribed
  <2>5. QED
    BY <2>1, <2>2, <2>3, <2>4
<1>4. QED
  BY <1>1, <1>2, <1>3

(* Nor here. *)
LEMMA TrustedBundleApart ==
  ASSUME IInv, TrustedBundle
  PROVE  IInv'
<1> TypeOK'
  BY TrustedBundleTypes DEF IInv
<1> USE DEF TrustedBundle, IInv, TypeOK, GoTo, Perform, Fails, Return, NoFault,
      patternVars, queueVars, subVars, nsVars, argoVars, memoryVars, budgetVars
<1>1. Agreed'
  BY DEF Agreed, Detected, AfterSubscription, AfterArgoCD
<1>2. ASSUME Untroubled' PROVE Untroubled
  BY <1>2 DEF Untroubled, Fault, Slip
<1>3. ASSUME Untroubled, Untroubled' PROVE Apart'
  <2> Apart /\ Agreed
    BY <1>3
  <2> USE DEF Apart, Agreed, Detected, AfterSubscription, AfterArgoCD, DefaultExists, Legacy, New, Namespaces
  <2>1. LegacyPattern'
    BY <1>3 DEF LegacyPattern
  <2>2. NewPattern'
    BY <1>3 DEF NewPattern
  <2>3. Decided'
    BY <1>3 DEF Decided
  <2>4. NothingUnsubscribed'
    BY <1>3 DEF NothingUnsubscribed
  <2>5. QED
    BY <2>1, <2>2, <2>3, <2>4
<1>4. QED
  BY <1>1, <1>2, <1>3

(* The ArgoCD is written where no pattern in the other namespace objects. *)
LEMMA CreateOrUpdateArgoCDApart ==
  ASSUME IInv, CreateOrUpdateArgoCD
  PROVE  IInv'
<1> TypeOK'
  BY CreateOrUpdateArgoCDTypes DEF IInv
<1> USE DEF CreateOrUpdateArgoCD, IInv, TypeOK, GoTo, Perform, Fails, Return, NoFault,
      patternVars, queueVars, subVars, nsVars, argoVars, memoryVars, budgetVars
<1>1. Agreed'
  BY DEF Agreed, Detected, AfterSubscription, AfterArgoCD
<1>2. ASSUME Untroubled' PROVE Untroubled
  BY <1>2 DEF Untroubled, Fault, Slip
<1>3. ASSUME Untroubled, Untroubled' PROVE Apart'
  <2> Apart /\ Agreed
    BY <1>3
  <2> USE DEF Apart, Agreed, Detected, AfterSubscription, AfterArgoCD, DefaultExists, Legacy, New, Namespaces
  <2>1. LegacyPattern'
    BY <1>3, ClusterAssumption DEF LegacyPattern, NewPattern, Decided, NothingUnsubscribed, SetArgoCD, ArgoTypes, OperatorTypes, LocalTypes
  <2>2. NewPattern'
    BY <1>3, ClusterAssumption DEF NewPattern, LegacyPattern, Decided, NothingUnsubscribed, SetArgoCD, ArgoTypes, OperatorTypes, LocalTypes
  <2>3. Decided'
    BY <1>3, ClusterAssumption DEF Decided, LegacyPattern, NewPattern, NothingUnsubscribed, SetArgoCD, ArgoTypes, OperatorTypes, LocalTypes
  <2>4. NothingUnsubscribed'
    BY <1>3, ClusterAssumption DEF NothingUnsubscribed, LegacyPattern, NewPattern, Decided, SetArgoCD, ArgoTypes, OperatorTypes, LocalTypes
  <2>5. QED
    BY <2>1, <2>2, <2>3, <2>4
<1>4. QED
  BY <1>1, <1>2, <1>3

(* Nothing that matters here changes. *)
LEMMA CreateOrUpdateConsoleLinkApart ==
  ASSUME IInv, CreateOrUpdateConsoleLink
  PROVE  IInv'
<1> TypeOK'
  BY CreateOrUpdateConsoleLinkTypes DEF IInv
<1> USE DEF CreateOrUpdateConsoleLink, IInv, TypeOK, GoTo, Perform, Fails, Return, NoFault,
      patternVars, queueVars, subVars, nsVars, argoVars, memoryVars, budgetVars
<1>1. Agreed'
  BY DEF Agreed, Detected, AfterSubscription, AfterArgoCD
<1>2. ASSUME Untroubled' PROVE Untroubled
  BY <1>2 DEF Untroubled, Fault, Slip
<1>3. ASSUME Untroubled, Untroubled' PROVE Apart'
  <2> Apart /\ Agreed
    BY <1>3
  <2> USE DEF Apart, Agreed, Detected, AfterSubscription, AfterArgoCD, DefaultExists, Legacy, New, Namespaces
  <2>1. LegacyPattern'
    BY <1>3 DEF LegacyPattern
  <2>2. NewPattern'
    BY <1>3 DEF NewPattern
  <2>3. Decided'
    BY <1>3 DEF Decided
  <2>4. NothingUnsubscribed'
    BY <1>3 DEF NothingUnsubscribed
  <2>5. QED
    BY <2>1, <2>2, <2>3, <2>4
<1>4. QED
  BY <1>1, <1>2, <1>3

(* Nor does it here. *)
LEMMA GetLocalGitApart ==
  ASSUME IInv, GetLocalGit
  PROVE  IInv'
<1> TypeOK'
  BY GetLocalGitTypes DEF IInv
<1> USE DEF GetLocalGit, IInv, TypeOK, GoTo, Perform, Fails, Return, NoFault,
      patternVars, queueVars, subVars, nsVars, argoVars, memoryVars, budgetVars
<1>1. Agreed'
  BY DEF Agreed, Detected, AfterSubscription, AfterArgoCD
<1>2. ASSUME Untroubled' PROVE Untroubled
  BY <1>2 DEF Untroubled, Fault, Slip
<1>3. ASSUME Untroubled, Untroubled' PROVE Apart'
  <2> Apart /\ Agreed
    BY <1>3
  <2> USE DEF Apart, Agreed, Detected, AfterSubscription, AfterArgoCD, DefaultExists, Legacy, New, Namespaces
  <2>1. LegacyPattern'
    BY <1>3 DEF LegacyPattern
  <2>2. NewPattern'
    BY <1>3 DEF NewPattern
  <2>3. Decided'
    BY <1>3 DEF Decided
  <2>4. NothingUnsubscribed'
    BY <1>3 DEF NothingUnsubscribed
  <2>5. QED
    BY <2>1, <2>2, <2>3, <2>4
<1>4. QED
  BY <1>1, <1>2, <1>3

(* The Application is created in the namespace decided on. *)
LEMMA ReconcileApplicationApart ==
  ASSUME IInv, ReconcileApplication
  PROVE  IInv'
<1> TypeOK'
  BY ReconcileApplicationTypes DEF IInv
<1> USE DEF ReconcileApplication, IInv, TypeOK, GoTo, Perform, Fails, Return, NoFault,
      patternVars, queueVars, subVars, nsVars, argoVars, memoryVars, budgetVars
<1>1. Agreed'
  BY DEF Agreed, Detected, AfterSubscription, AfterArgoCD
<1>2. ASSUME Untroubled' PROVE Untroubled
  BY <1>2 DEF Untroubled, Fault, Slip
<1>3. ASSUME Untroubled, Untroubled' PROVE Apart'
  <2> Apart /\ Agreed
    BY <1>3
  <2> USE DEF Apart, Agreed, Detected, AfterSubscription, AfterArgoCD, DefaultExists, Legacy, New, Namespaces
  <2>1. LegacyPattern'
    BY <1>3 DEF LegacyPattern, NewPattern, Decided, ArgoTypes, OperatorTypes
  <2>2. NewPattern'
    BY <1>3 DEF NewPattern, LegacyPattern, Decided, ArgoTypes, OperatorTypes
  <2>3. Decided'
    BY <1>3 DEF Decided, LegacyPattern, NewPattern, ArgoTypes, OperatorTypes
  <2>4. NothingUnsubscribed'
    BY <1>3 DEF NothingUnsubscribed, LegacyPattern, NewPattern, Decided, ArgoTypes, OperatorTypes
  <2>5. QED
    BY <2>1, <2>2, <2>3, <2>4
<1>4. QED
  BY <1>1, <1>2, <1>3

(* The reconciliation is over. *)
LEMMA CompleteApart ==
  ASSUME IInv, Complete
  PROVE  IInv'
<1> TypeOK'
  BY CompleteTypes DEF IInv
<1> USE DEF Complete, IInv, TypeOK, GoTo, Perform, Fails, Return, NoFault,
      patternVars, queueVars, subVars, nsVars, argoVars, memoryVars, budgetVars
<1>1. Agreed'
  BY DEF Agreed, Detected, AfterSubscription, AfterArgoCD
<1>2. ASSUME Untroubled' PROVE Untroubled
  BY <1>2 DEF Untroubled, Fault, Slip
<1>3. ASSUME Untroubled, Untroubled' PROVE Apart'
  <2> Apart /\ Agreed
    BY <1>3
  <2> USE DEF Apart, Agreed, Detected, AfterSubscription, AfterArgoCD, DefaultExists, Legacy, New, Namespaces
  <2>1. LegacyPattern'
    BY <1>3 DEF LegacyPattern
  <2>2. NewPattern'
    BY <1>3 DEF NewPattern
  <2>3. Decided'
    BY <1>3 DEF Decided
  <2>4. NothingUnsubscribed'
    BY <1>3 DEF NothingUnsubscribed
  <2>5. QED
    BY <2>1, <2>2, <2>3, <2>4
<1>4. QED
  BY <1>1, <1>2, <1>3

(* So it is here. *)
LEMMA ActionPerformedApart ==
  ASSUME IInv, ActionPerformed
  PROVE  IInv'
<1> TypeOK'
  BY ActionPerformedTypes DEF IInv
<1> USE DEF ActionPerformed, IInv, TypeOK, GoTo, Perform, Fails, Return, NoFault,
      patternVars, queueVars, subVars, nsVars, argoVars, memoryVars, budgetVars
<1>1. Agreed'
  BY DEF Agreed, Detected, AfterSubscription, AfterArgoCD
<1>2. ASSUME Untroubled' PROVE Untroubled
  BY <1>2 DEF Untroubled, Fault, Slip
<1>3. ASSUME Untroubled, Untroubled' PROVE Apart'
  <2> Apart /\ Agreed
    BY <1>3
  <2> USE DEF Apart, Agreed, Detected, AfterSubscription, AfterArgoCD, DefaultExists, Legacy, New, Namespaces
  <2>1. LegacyPattern'
    BY <1>3 DEF LegacyPattern
  <2>2. NewPattern'
    BY <1>3 DEF NewPattern
  <2>3. Decided'
    BY <1>3 DEF Decided
  <2>4. NothingUnsubscribed'
    BY <1>3 DEF NothingUnsubscribed
  <2>5. QED
    BY <2>1, <2>2, <2>3, <2>4
<1>4. QED
  BY <1>1, <1>2, <1>3

(* So it is here; the namespace is forgotten. *)
LEMMA CrashApart ==
  ASSUME IInv, Crash
  PROVE  IInv'
<1> TypeOK'
  BY CrashTypes DEF IInv
<1> USE DEF Crash, IInv, TypeOK, GoTo, Perform, Fails, Return, NoFault,
      patternVars, queueVars, subVars, nsVars, argoVars, memoryVars, budgetVars
<1>1. Agreed'
  BY DEF Agreed, Detected, AfterSubscription, AfterArgoCD
<1>2. ASSUME Untroubled' PROVE Untroubled
  BY <1>2 DEF Untroubled, Fault, Slip
<1>3. ASSUME Untroubled, Untroubled' PROVE Apart'
  <2> Apart /\ Agreed
    BY <1>3
  <2> USE DEF Apart, Agreed, Detected, AfterSubscription, AfterArgoCD, DefaultExists, Legacy, New, Namespaces
  <2>1. LegacyPattern'
    BY <1>3 DEF LegacyPattern
  <2>2. NewPattern'
    BY <1>3 DEF NewPattern
  <2>3. Decided'
    BY <1>3 DEF Decided
  <2>4. NothingUnsubscribed'
    BY <1>3 DEF NothingUnsubscribed
  <2>5. QED
    BY <2>1, <2>2, <2>3, <2>4
<1>4. QED
  BY <1>1, <1>2, <1>3

-----------------------------------------------------------------------------
(* The user and the other operators leave it so, but for what is recorded  *)
(* as a slip: the gitops-operator creates or deletes the default ArgoCD as *)
(* the Subscription says.                                                  *)
LEMMA EnvironmentApart ==
  ASSUME IInv, Environment
  PROVE  IInv'
<1> TypeOK'
  BY EnvironmentTypes DEF IInv
<1>1. pc' = pc /\ sub' = sub /\ subSeen' = subSeen /\ activeNs' = activeNs
  BY DEF Environment, UserNext, ServiceNext, UserEditsPattern, UserEditsConfig, UserEditsArgoCD,
     UserDeletesArgoCD, UserDisowns, CacheSync, NamespaceSync, TimerFires, ArgoCDEvent, OlmRollsOut,
     GitOpsCreatesDefault, GitOpsDeletesDefault, NetworkOperatorInjects, localVars, subVars, memoryVars
<1>2. Agreed'
  BY <1>1 DEF IInv, Agreed
<1>3. ASSUME Untroubled' PROVE Untroubled
  BY <1>3 DEF Untroubled, Environment, UserNext, ServiceNext, UserEditsPattern, UserEditsConfig,
     UserEditsArgoCD, UserDeletesArgoCD, UserDisowns, CacheSync, NamespaceSync, TimerFires,
     ArgoCDEvent, OlmRollsOut, GitOpsCreatesDefault, GitOpsDeletesDefault, NetworkOperatorInjects,
     GitOpsActs, Edit, EditSlip, budgetVars
<1>4. ASSUME Untroubled' PROVE Apart'
  <2> Apart /\ Agreed /\ ArgoTypes /\ GitOpsTypes
    BY <1>3, <1>4 DEF IInv, TypeOK
  <2> USE <1>1 DEF Apart, Agreed, LegacyPattern, NewPattern, Decided, NothingUnsubscribed, DefaultExists
  <2>1. ASSUME DefaultExists' = DefaultExists, gitops' = gitops \/ sub.exists,
               \A n \in Namespaces : apps'[n] # "absent" => apps[n] # "absent"
        PROVE  Apart'
    BY <2>1 DEF Namespaces, Legacy, New
  <2>2. CASE GitOpsCreatesDefault
    <3>1. sub.exists /\ ~sub.disable
      BY <1>4, <2>2 DEF GitOpsCreatesDefault, GitOpsActs, Untroubled
    <3>2. apps' = apps /\ gitops' = gitops
      BY <2>2 DEF GitOpsCreatesDefault
    <3>3. apps[New] = "absent" /\ DefaultExists'
      BY <2>2, <3>1 DEF GitOpsCreatesDefault, SetArgoCD, ArgoTypes, Namespaces, Legacy, New
    <3>4. QED
      BY <3>1, <3>2, <3>3 
  <2>3. CASE GitOpsDeletesDefault
    <3>1. sub.exists /\ sub.disable
      BY <1>4, <2>3 DEF GitOpsDeletesDefault, GitOpsActs, Untroubled
    <3>2. apps' = apps /\ gitops' = gitops
      BY <2>3 DEF GitOpsDeletesDefault
    <3>3. apps[Legacy] = "absent" /\ ~DefaultExists'
      BY <2>3, <3>1 DEF GitOpsDeletesDefault, SetArgoCD, ArgoTypes, Namespaces, Legacy
    <3>4. QED
      BY <3>1, <3>2, <3>3 DEF AfterSubscription, AfterArgoCD
  <2>4. CASE OlmRollsOut
    BY <2>1, <2>4 DEF OlmRollsOut, argoVars
  <2>5. CASE \E n \in Namespaces : UserEditsArgoCD(n)
    BY <2>1, <2>5 DEF UserEditsArgoCD, SetArgoCD, ArgoTypes, Namespaces, Legacy
  <2>6. CASE \E n \in Namespaces : UserDeletesArgoCD(n)
    BY <1>4, <2>6 DEF UserDeletesArgoCD, EditSlip, Untroubled
  <2>7. CASE \E n \in Namespaces : UserDisowns(n)
    BY <2>1, <2>7, ClusterAssumption DEF UserDisowns, ArgoTypes, Namespaces, argoVars
  <2>8. CASE \/ \E s \in Specs : UserEditsPattern(s)
             \/ \E c \in Configs : UserEditsConfig(c)
             \/ CacheSync \/ NamespaceSync \/ TimerFires
             \/ \E n \in Namespaces : ArgoCDEvent(n) \/ NetworkOperatorInjects(n)
    BY <2>1, <2>8 DEF UserEditsPattern, UserEditsConfig, CacheSync, NamespaceSync, TimerFires,
       ArgoCDEvent, NetworkOperatorInjects, argoVars
  <2>9. QED
    BY <2>2, <2>3, <2>4, <2>5, <2>6, <2>7, <2>8 DEF Environment, UserNext, ServiceNext
<1>5. QED
  BY <1>2, <1>3, <1>4 DEF IInv

-----------------------------------------------------------------------------
(* None of the clusters to begin with has two patterns. *)
LEMMA ApartInit == Init => IInv
<1> SUFFICES ASSUME Init PROVE IInv
  OBVIOUS
<1>1. TypeOK
  BY TypesInit
<1>2. Agreed
  BY DEF Init, Agreed, AfterSubscription, AfterArgoCD
<1>3. Apart
  <2>0. PICK start \in Starts, spec \in Specs, owned \in BOOLEAN :
          /\ sub = [exists |-> start # "fresh", disable |-> FALSE, config |-> DefaultConfig,
                    owned |-> start = "legacy" /\ owned]
          /\ gitops = IF start \in {"gitops", "legacy"} THEN "default" ELSE "absent"
          /\ argoCD = OnLegacy(CASE start = "gitops" -> "foreign"
                                 [] start = "legacy" -> DefaultConfig
                                 [] OTHER -> "absent", "absent")
          /\ apps = OnLegacy(IF start = "legacy" THEN spec ELSE "absent", "absent")
    BY DEF Init, ClusterInit
  <2>1. /\ sub.exists = (start # "fresh") /\ sub.disable = FALSE
        /\ gitops = IF start \in {"gitops", "legacy"} THEN "default" ELSE "absent"
        /\ argoCD[Legacy] = CASE start = "gitops" -> "foreign"
                              [] start = "legacy" -> DefaultConfig
                              [] OTHER -> "absent"
        /\ apps[Legacy] = IF start = "legacy" THEN spec ELSE "absent"
        /\ apps[New] = "absent"
    BY <2>0 DEF OnLegacy, Namespaces, Legacy, New
  <2>2. pc = "idle"
    BY DEF Init
  <2>3. QED
    BY <2>1, <2>2, ClusterAssumption DEF Apart, LegacyPattern, NewPattern, Decided,
       NothingUnsubscribed, DefaultExists, Detected, AfterSubscription, AfterArgoCD
<1>4. QED
  BY <1>1, <1>2, <1>3 DEF IInv

(* Every step keeps the namespaces apart. *)
LEMMA ApartStep == IInv /\ [Next]_vars => IInv'
<1> SUFFICES ASSUME IInv, [Next]_vars PROVE IInv'
  OBVIOUS
<1>1. CASE UNCHANGED vars
  <2>1. TypeOK'
    BY TypesStep DEF IInv
  <2>2. QED
    BY <1>1, <2>1 DEF vars, clusterVars, subVars, argoVars, memoryVars, budgetVars, localVars, IInv, Agreed,
       Apart, LegacyPattern, NewPattern, Decided, NothingUnsubscribed, DefaultExists, Untroubled
<1>2. CASE Get \/ Crash \/ Environment
  BY <1>2, GetApart, CrashApart, EnvironmentApart
<1>3. CASE Reconcile
  BY <1>3, ConfigureApart, DetectArgoNamespaceApart, GetSubscriptionApart,
     WriteSubscriptionApart, StartArgoCDWatchApart, HaveNamespaceApart,
     TrustedBundleApart, CreateOrUpdateArgoCDApart, CreateOrUpdateConsoleLinkApart,
     GetLocalGitApart, ReconcileApplicationApart, CompleteApart,
     ActionPerformedApart, CrashApart DEF Reconcile
<1>4. QED
  BY <1>1, <1>2, <1>3 DEF Next

(* The pattern is installed once: its Application never exists in          *)
(* openshift-gitops and in vp-gitops, in whatever order the reconciler,    *)
(* OLM and the gitops-operator move, unless detecting the default ArgoCD   *)
(* failed, it was deleted, or the gitops-operator acted on an environment  *)
(* that was no longer the Subscription's.                                  *)
THEOREM InstalledOnce == Spec => []OneInstallation
<1>1. IInv => OneInstallation
  BY DEF IInv, Untroubled, Apart, LegacyPattern, NewPattern, OneInstallation, Namespaces, Legacy, New
<1>2. QED
  BY <1>1, ApartInit, ApartStep, PTL DEF Spec

(* For a legacy deployment the default instance stays in use: while the    *)
(* Application is in openshift-gitops the Subscription does not disable    *)
(* the default ArgoCD, and it exists.                                      *)
THEOREM DefaultStaysInUse == Spec => []DefaultKeptInUse
<1>1. IInv => DefaultKeptInUse
  BY DEF IInv, Untroubled, Apart, LegacyPattern, DefaultKeptInUse, DefaultExists
<1>2. QED
  BY <1>1, ApartInit, ApartStep, PTL DEF Spec
-----------------------------------------------------------------------------
(* What TrustedBundle found is still true when the ArgoCD is written, and  *)
(* to the end of the reconciliation.                                       *)
Filled == pc \in AfterArgoCD \union {"createOrUpdateArgoCD"} => bundle[activeNs] = "populated"

(* Nobody empties a bundle, and the namespace stays the same in between. *)
LEMMA FilledStep == TypeOK /\ Filled /\ [Next]_vars => Filled'
<1> SUFFICES ASSUME TypeOK, Filled, [Next]_vars PROVE Filled'
  OBVIOUS
<1> USE DEF Filled, AfterArgoCD, GoTo, Perform, Fails, Return, nsVars, memoryVars
<1>1. CASE UNCHANGED vars
  BY <1>1 DEF vars, clusterVars
<1>2. CASE Get \/ Crash \/ Configure \/ DetectArgoNamespace \/ GetSubscription
           \/ WriteSubscription \/ StartArgoCDWatch \/ HaveNamespace
  BY <1>2 DEF Get, Crash, Configure, DetectArgoNamespace, GetSubscription, WriteSubscription,
     StartArgoCDWatch, HaveNamespace
<1>3. CASE TrustedBundle
  BY <1>3 DEF TrustedBundle
<1>4. CASE CreateOrUpdateArgoCD \/ CreateOrUpdateConsoleLink \/ GetLocalGit
           \/ ReconcileApplication \/ Complete \/ ActionPerformed
  BY <1>4 DEF CreateOrUpdateArgoCD, CreateOrUpdateConsoleLink, GetLocalGit, ReconcileApplication,
     Complete, ActionPerformed
<1>5. CASE Environment
  <2>1. pc' = pc /\ activeNs' = activeNs
    BY <1>5 DEF Environment, UserNext, ServiceNext, UserEditsPattern, UserEditsConfig,
       UserEditsArgoCD, UserDeletesArgoCD, UserDisowns, CacheSync, NamespaceSync, TimerFires,
       ArgoCDEvent, OlmRollsOut, GitOpsCreatesDefault, GitOpsDeletesDefault, NetworkOperatorInjects
  <2>2. bundle' = bundle \/ \E n \in Namespaces : bundle' = [bundle EXCEPT ![n] = "populated"]
    BY <1>5 DEF Environment, UserNext, ServiceNext, UserEditsPattern, UserEditsConfig,
       UserEditsArgoCD, UserDeletesArgoCD, UserDisowns, CacheSync, NamespaceSync, TimerFires,
       ArgoCDEvent, OlmRollsOut, GitOpsCreatesDefault, GitOpsDeletesDefault, NetworkOperatorInjects
  <2>3. QED
    BY <2>1, <2>2 DEF TypeOK, GitOpsTypes, OperatorTypes
<1>6. QED
  BY <1>1, <1>2, <1>3, <1>4, <1>5 DEF Next, Reconcile

(* The step that gives an ArgoCD the operator's configuration is the       *)
(* operator's, in the active namespace.                                    *)
LEMMA WrittenByOperator ==
  ASSUME TypeOK, [Next]_vars, NEW n \in Namespaces, argoCD'[n] # argoCD[n], argoCD'[n] \in Configs
  PROVE  CreateOrUpdateArgoCD /\ n = activeNs
<1>1. argoCD' # argoCD
  OBVIOUS
<1>2. CASE Environment
  <2>1. \E m \in Namespaces : SetArgoCD(m, "absent") \/ SetArgoCD(m, "foreign")
    BY <1>1, <1>2 DEF Environment, UserNext, ServiceNext, UserEditsPattern, UserEditsConfig,
       UserEditsArgoCD, UserDeletesArgoCD, UserDisowns, CacheSync, NamespaceSync, TimerFires,
       ArgoCDEvent, OlmRollsOut, GitOpsCreatesDefault, GitOpsDeletesDefault,
       NetworkOperatorInjects, argoVars, Namespaces
  <2>2. argoCD'[n] \in {argoCD[n], "absent", "foreign"}
    BY <2>1 DEF SetArgoCD, TypeOK, ArgoTypes
  <2>3. QED
    BY <2>2, ClusterAssumption
<1>3. CASE CreateOrUpdateArgoCD
  BY <1>3 DEF CreateOrUpdateArgoCD, Fails, SetArgoCD, argoVars, TypeOK, ArgoTypes, OperatorTypes
<1>4. CASE Get \/ Crash \/ Configure \/ DetectArgoNamespace \/ GetSubscription
           \/ WriteSubscription \/ StartArgoCDWatch \/ HaveNamespace \/ TrustedBundle
  BY <1>1, <1>4 DEF Get, Crash, Configure, DetectArgoNamespace, GetSubscription,
     WriteSubscription, StartArgoCDWatch, HaveNamespace, TrustedBundle, argoVars
<1>5. CASE CreateOrUpdateConsoleLink \/ GetLocalGit \/ ReconcileApplication \/ Complete
           \/ ActionPerformed
  BY <1>1, <1>5 DEF CreateOrUpdateConsoleLink, GetLocalGit, ReconcileApplication, Complete,
     ActionPerformed, argoVars
<1>6. CASE UNCHANGED vars
  BY <1>1, <1>6 DEF vars, clusterVars, argoVars
<1>7. QED
  BY <1>2, <1>3, <1>4, <1>5, <1>6 DEF Next, Reconcile

(* No ArgoCD is written by the operator before its CA bundle is there,     *)
(* whatever happens to the namespace it works in: the repo-server does not *)
(* start without the certificates.                                         *)
THEOREM BundleFirst == Spec => BundleBeforeArgoCD
<1>1. Init => Filled
  BY DEF Init, Filled, AfterArgoCD
<1>2. TypeOK /\ Filled /\ [Next]_vars =>
        [\A n \in Namespaces : argoCD'[n] # argoCD[n] /\ argoCD'[n] \in Configs
           => bundle[n] = "populated"]_vars
  BY WrittenByOperator DEF CreateOrUpdateArgoCD, Filled
<1>3. QED
  BY <1>1, <1>2, FilledStep, TypesInit, TypesStep, PTL DEF Spec, BundleBeforeArgoCD
-----------------------------------------------------------------------------
(* What `Converges' rests on: how a reconciliation may end, and what is    *)
(* true when it has completed.                                             *)

Removed == "removed stale owner references from gitops subscription"

(* The steps that may report success more than once in a row. *)
Repeatable == {"update gitops subscription", "created ArgoCD namespace",
               "create application", "updated application"}

(* A copy that counts as current is the stored Pattern. *)
CurrentCopies ==
  /\ cacheCurrent => cache = pattern
  /\ instCurrent => instance = pattern

(* Two steps are never repeated: no Pattern loses its finalizer here, and  *)
(* no Subscription gets an owner again.  So their reports are always news. *)
OnceOnly ==
  /\ pattern.step = "updated finalizer" => pattern.finalizer
  /\ pattern.step = Removed => ~sub.owned
  /\ pc = "actionPerformed" /\ report = "updated finalizer" => pattern.finalizer
  /\ pc = "actionPerformed" /\ report = Removed => ~sub.owned
  /\ pc = "actionPerformed" /\ report \in {"updated finalizer", Removed} => pattern.step # report

(* What actionPerformed is called with. *)
Reported ==
  pc = "actionPerformed" => report \in Repeatable \union {"failed", "updated finalizer", Removed}

(* A Pattern that nobody is going to reconcile, neither an event nor a     *)
(* timer, is one whose last step succeeded with the report that was stored *)
(* already, and that was one of the four steps that may be repeated: never *)
(* a failure, and never a Pattern that has just been completed.            *)
NeverForgotten ==
  pc = "idle" /\ Unwatched => "stalled" \in slips /\ pattern.step \in Repeatable

(* What was seen of the Application stays, unless somebody takes its owner *)
(* off.                                                                    *)
ApplicationSeen == pc = "complete" => apps[activeNs] \in {instance.spec, "disowned"}

Rest ==
  CurrentCopies /\ OnceOnly /\ Reported /\ NeverForgotten /\ Filled /\ ApplicationSeen

(* The status says "reconcile complete" only of a Pattern that has been    *)
(* installed in the active namespace: the Application is made of what the  *)
(* stored Pattern asks for, if it has not lost its owner since, the bundle *)
(* is there and the Subscription is the one for that namespace.            *)
CompleteIsInstalled ==
  [][pattern.step # "reconcile complete" /\ pattern'.step = "reconcile complete" =>
       /\ apps[activeNs] \in {pattern.spec, "disowned"}
       /\ bundle[activeNs] = "populated"
       /\ sub.exists /\ sub.disable = (activeNs # Legacy)]_vars

(* What the user and the services may do to a Pattern at rest, and what    *)
(* they leave alone.                                                       *)
LEMMA EnvironmentRest ==
  ASSUME Environment, TypeOK
  PROVE  /\ UNCHANGED <<pc, report, instance, activeNs>>
         /\ sub' = sub
         /\ \/ UNCHANGED <<pattern, cache, cacheCurrent, instCurrent>>
            \/ UNCHANGED <<pattern, instCurrent>> /\ cache' = pattern /\ cacheCurrent'
            \/ /\ \E s \in Specs : pattern' = [pattern EXCEPT !.spec = s]
               /\ ~cacheCurrent' /\ ~instCurrent'
         /\ Unwatched' => Unwatched /\ pattern' = pattern
         /\ slips \subseteq slips'
         /\ \A n \in Namespaces : bundle[n] = "populated" => bundle'[n] = "populated"
         /\ \A n \in Namespaces : apps'[n] \in {apps[n], "disowned"}
<1> USE DEF Environment, localVars
<1>1. CASE UserNext
  <2> USE DEF UserNext, UserEditsPattern, UserEditsConfig, UserEditsArgoCD, UserDeletesArgoCD,
        UserDisowns, Edit, EditSlip, patternVars, queueVars, subVars, nsVars, argoVars,
        memoryVars, SetArgoCD, TypeOK, OperatorTypes, GitOpsTypes, ArgoTypes
  <2>1. UNCHANGED <<pc, report, instance, activeNs, sub, bundle>>
    BY <1>1
  <2>2. slips \subseteq slips'
    BY <1>1
  <2>3. \A n \in Namespaces : apps'[n] \in {apps[n], "disowned"}
    BY <1>1
  <2>4. \/ UNCHANGED <<pattern, cache, cacheCurrent, instCurrent>>
        \/ /\ \E s \in Specs : pattern' = [pattern EXCEPT !.spec = s]
           /\ ~cacheCurrent' /\ ~instCurrent'
    BY <1>1
  <2>5. Unwatched' => Unwatched /\ pattern' = pattern
    <3>1. \/ UNCHANGED <<queued, timer, cacheCurrent, argoEvents, activeNs, pattern>>
          \/ ~cacheCurrent'
          \/ queued'
          \/ /\ UNCHANGED <<queued, timer, cacheCurrent, activeNs, pattern>>
             /\ argoEvents \subseteq argoEvents'
      BY <1>1
    <3>2. QED
      BY <3>1, <2>1 DEF Unwatched
  <2>6. QED
    BY <2>1, <2>2, <2>3, <2>4, <2>5
<1>2. CASE ServiceNext
  <2> USE DEF ServiceNext, CacheSync, NamespaceSync, TimerFires, ArgoCDEvent, OlmRollsOut,
        GitOpsCreatesDefault, GitOpsDeletesDefault, NetworkOperatorInjects, GitOpsActs,
        patternVars, queueVars, subVars, nsVars, argoVars, memoryVars, budgetVars, SetArgoCD,
        TypeOK, OperatorTypes, GitOpsTypes, ArgoTypes
  <2>1. UNCHANGED <<pc, report, instance, activeNs, sub, apps, pattern, instCurrent>>
    BY <1>2
  <2>2. slips \subseteq slips'
    BY <1>2
  <2>3. \A n \in Namespaces : bundle[n] = "populated" => bundle'[n] = "populated"
    <3>1. bundle' = bundle \/ \E n \in Namespaces : bundle' = [bundle EXCEPT ![n] = "populated"]
      BY <1>2
    <3>2. QED
      BY <3>1
  <2>4. UNCHANGED <<cache, cacheCurrent>> \/ (cache' = pattern /\ cacheCurrent')
    BY <1>2
  <2>5. Unwatched' => Unwatched
    <3>1. \/ queued'
          \/ /\ UNCHANGED <<queued, timer, cacheCurrent, activeNs>>
             /\ \/ argoEvents \subseteq argoEvents'
                \/ \E n \in Namespaces : argoEvents' = argoEvents \ {n} /\ n # activeNs
      <4>1. CASE \E n \in Namespaces : ArgoCDEvent(n)
        BY <4>1
      <4>2. CASE CacheSync \/ TimerFires
        BY <4>2
      <4>3. CASE NamespaceSync \/ OlmRollsOut \/ \E n \in Namespaces : NetworkOperatorInjects(n)
        BY <4>3
      <4>4. CASE GitOpsCreatesDefault \/ GitOpsDeletesDefault
        BY <4>4
      <4>5. QED
        BY <1>2, <4>1, <4>2, <4>3, <4>4
    <3>2. QED
      BY <3>1, <2>1 DEF Unwatched
  <2>6. QED
    BY <2>1, <2>2, <2>3, <2>4, <2>5
<1>3. QED
  BY <1>1, <1>2

LEMMA RestInit == Init => Rest
<1> SUFFICES ASSUME Init PROVE Rest
  OBVIOUS
<1>1. pattern.step \in {"", "reconcile complete"}
  <2>1. PICK start \in Starts, spec \in Specs :
          pattern = [finalizer |-> start = "legacy", spec |-> spec,
                     step |-> IF start = "legacy" THEN "reconcile complete" ELSE ""]
    BY DEF Init, ClusterInit
  <2>2. QED
    BY <2>1
<1>2. pc = "idle" /\ queued /\ cache = pattern /\ ~instCurrent
  BY DEF Init, ClusterInit
<1>3. QED
  BY <1>1, <1>2 DEF Rest, CurrentCopies, OnceOnly, Reported, NeverForgotten, Unwatched,
     Filled, ApplicationSeen, AfterArgoCD, Removed

LEMMA CurrentCopiesStep == IInv /\ CurrentCopies /\ [Next]_vars => CurrentCopies'
<1> SUFFICES ASSUME IInv, CurrentCopies, [Next]_vars PROVE CurrentCopies'
  OBVIOUS
<1> TypeOK
  BY DEF IInv
<1> USE DEF CurrentCopies, Return, patternVars, TypeOK, OperatorTypes
<1>1. CASE UNCHANGED vars
  BY <1>1 DEF vars, clusterVars, localVars
<1>2. CASE Get \/ Crash \/ Configure
  <2>1. CASE Get
    BY <2>1 DEF Get
  <2>2. CASE Crash
    BY <2>2 DEF Crash
  <2>3. CASE Configure
    <3>1. \/ UNCHANGED <<pattern, cache, cacheCurrent, instCurrent, instance>>
          \/ instance' = pattern' /\ ~cacheCurrent'
      BY <2>3 DEF Configure
    <3>2. QED
      BY <3>1
  <2>4. QED
    BY <1>2, <2>1, <2>2, <2>3
<1>3. CASE Complete \/ ActionPerformed
  <2>1. CASE Complete
    <3>1. \/ UNCHANGED <<pattern, cache, cacheCurrent, instCurrent, instance>>
          \/ ~instCurrent' /\ ~cacheCurrent'
          \/ ~instCurrent' /\ UNCHANGED <<pattern, cache, cacheCurrent>>
      BY <2>1 DEF Complete, Store
    <3>2. QED
      BY <3>1
  <2>2. CASE ActionPerformed
    BY <2>2 DEF ActionPerformed, Store
  <2>3. QED
    BY <1>3, <2>1, <2>2
<1>4. CASE DetectArgoNamespace \/ GetSubscription \/ WriteSubscription \/ StartArgoCDWatch
           \/ HaveNamespace \/ TrustedBundle \/ CreateOrUpdateArgoCD
           \/ CreateOrUpdateConsoleLink \/ GetLocalGit \/ ReconcileApplication
  <2>1. UNCHANGED <<pattern, cache, cacheCurrent, instCurrent, instance>>
    BY <1>4 DEF DetectArgoNamespace, GetSubscription, WriteSubscription, StartArgoCDWatch,
       HaveNamespace, TrustedBundle, CreateOrUpdateArgoCD, CreateOrUpdateConsoleLink,
       GetLocalGit, ReconcileApplication
  <2>2. QED
    BY <2>1
<1>5. CASE Environment
  BY <1>5, EnvironmentRest
<1>6. QED
  BY <1>1, <1>2, <1>3, <1>4, <1>5 DEF Next, Reconcile

LEMMA ReportedStep == Reported /\ [Next]_vars => Reported'
<1> SUFFICES ASSUME Reported, [Next]_vars PROVE Reported'
  OBVIOUS
<1> USE DEF Reported, Repeatable, Removed, Return, GoTo, Perform, Fails
<1>1. CASE UNCHANGED vars
  BY <1>1 DEF vars, localVars
<1>2. CASE Get \/ Crash \/ Configure \/ DetectArgoNamespace \/ GetSubscription
           \/ StartArgoCDWatch \/ HaveNamespace \/ TrustedBundle
  BY <1>2 DEF Get, Crash, Configure, DetectArgoNamespace, GetSubscription, StartArgoCDWatch,
     HaveNamespace, TrustedBundle
<1>3. CASE WriteSubscription
  BY <1>3 DEF WriteSubscription
<1>4. CASE CreateOrUpdateArgoCD \/ CreateOrUpdateConsoleLink \/ GetLocalGit
           \/ ReconcileApplication \/ Complete \/ ActionPerformed
  BY <1>4 DEF CreateOrUpdateArgoCD, CreateOrUpdateConsoleLink, GetLocalGit,
     ReconcileApplication, Complete, ActionPerformed
<1>5. CASE Environment
  BY <1>5 DEF Environment, localVars
<1>6. QED
  BY <1>1, <1>2, <1>3, <1>4, <1>5 DEF Next, Reconcile

(* The finalizer is added to a Pattern that has none, the owner taken off  *)
(* a Subscription that has one; the writes succeed on current copies only. *)
LEMMA OnceOnlyStep ==
  IInv /\ CurrentCopies /\ OnceOnly /\ [Next]_vars => OnceOnly'
<1> SUFFICES ASSUME IInv, CurrentCopies, OnceOnly, [Next]_vars PROVE OnceOnly'
  OBVIOUS
<1> TypeOK /\ Agreed
  BY DEF IInv
<1> USE DEF OnceOnly, Removed, Return, GoTo, Perform, Fails, patternVars, subVars
<1>1. CASE UNCHANGED vars
  BY <1>1 DEF vars, clusterVars, localVars
<1>2. CASE Get \/ Crash \/ DetectArgoNamespace \/ GetSubscription
           \/ StartArgoCDWatch \/ HaveNamespace \/ TrustedBundle
  BY <1>2 DEF Get, Crash, DetectArgoNamespace, GetSubscription, StartArgoCDWatch,
     HaveNamespace, TrustedBundle
<1>3. CASE Configure
  BY <1>3 DEF Configure, CurrentCopies, TypeOK, OperatorTypes, Pattern
<1>4. CASE WriteSubscription
  <2>1. subSeen = sub
    BY <1>4 DEF WriteSubscription, Agreed
  <2>2. pattern' = pattern /\ (~sub.owned => ~sub'.owned)
    <3>1. sub' \in {sub, NewSubscription, [sub EXCEPT !.owned = FALSE]}
      BY <1>4, <2>1 DEF WriteSubscription
    <3>2. ~NewSubscription.owned /\ ~[sub EXCEPT !.owned = FALSE].owned
      BY DEF NewSubscription, TypeOK, GitOpsTypes, Subscription
    <3>3. pattern' = pattern
      BY <1>4 DEF WriteSubscription
    <3>4. QED
      BY <3>1, <3>2, <3>3
  <2>3. pc' = "actionPerformed" /\ report' = Removed => sub.owned /\ ~sub'.owned
    BY <1>4, <2>1 DEF WriteSubscription, NewSubscription, TypeOK, GitOpsTypes, Subscription
  <2>4. report' # "updated finalizer" \/ pc' # "actionPerformed"
    BY <1>4 DEF WriteSubscription
  <2>5. QED
    BY <2>2, <2>3, <2>4
<1>5. CASE CreateOrUpdateArgoCD \/ CreateOrUpdateConsoleLink \/ GetLocalGit
           \/ ReconcileApplication
  BY <1>5 DEF CreateOrUpdateArgoCD, CreateOrUpdateConsoleLink, GetLocalGit, ReconcileApplication
<1>6. CASE Complete \/ ActionPerformed
  BY <1>6 DEF Complete, ActionPerformed, Store, TypeOK, OperatorTypes, Pattern
<1>7. CASE Environment
  BY <1>7, EnvironmentRest DEF TypeOK, OperatorTypes, Pattern
<1>8. QED
  BY <1>1, <1>2, <1>3, <1>4, <1>5, <1>6, <1>7 DEF Next, Reconcile

(* A step that is no news is counted, and all others bring an event or a   *)
(* timer.                                                                  *)
LEMMA NeverForgottenStep ==
  IInv /\ OnceOnly /\ Reported /\ NeverForgotten /\ [Next]_vars => NeverForgotten'
<1> SUFFICES ASSUME IInv, OnceOnly, Reported, NeverForgotten, [Next]_vars PROVE NeverForgotten'
  OBVIOUS
<1> TypeOK
  BY DEF IInv
<1> USE DEF NeverForgotten, GoTo, Perform, Fails
<1>1. CASE UNCHANGED vars
  BY <1>1 DEF vars, clusterVars, patternVars, queueVars, argoVars, memoryVars, budgetVars, Unwatched
<1>2. CASE Get \/ Configure \/ DetectArgoNamespace \/ GetSubscription \/ WriteSubscription
           \/ StartArgoCDWatch \/ HaveNamespace \/ TrustedBundle
  <2>1. pc' # "idle"
    BY <1>2 DEF Get, Configure, DetectArgoNamespace, GetSubscription, WriteSubscription,
       StartArgoCDWatch, HaveNamespace, TrustedBundle
  <2>2. QED
    BY <2>1
<1>3. CASE CreateOrUpdateArgoCD \/ CreateOrUpdateConsoleLink \/ GetLocalGit
           \/ ReconcileApplication
  <2>1. pc' # "idle"
    BY <1>3 DEF CreateOrUpdateArgoCD, CreateOrUpdateConsoleLink, GetLocalGit, ReconcileApplication
  <2>2. QED
    BY <2>1
<1>4. CASE Crash
  BY <1>4 DEF Crash, Unwatched
<1>5. CASE Complete
  BY <1>5 DEF Complete, Unwatched
<1>6. CASE ActionPerformed
  <2> SUFFICES ASSUME Unwatched'
               PROVE  "stalled" \in slips' /\ pattern'.step \in Repeatable
    OBVIOUS
  <2>1. ~timer' /\ ~timer /\ report # "failed" /\ instCurrent /\ Store(report)
    BY <1>6 DEF ActionPerformed, Unwatched, TypeOK, OperatorTypes
  <2>2. pattern.step = report /\ pattern' = pattern /\ cacheCurrent
    BY <2>1 DEF Store, Unwatched
  <2>3. Unwatched
    BY <1>6, <2>1, <2>2 DEF ActionPerformed, Unwatched, argoVars, memoryVars
  <2>4. "stalled" \in slips'
    BY <1>6, <2>1, <2>2, <2>3 DEF ActionPerformed
  <2>5. report \in Repeatable
    BY <1>6, <2>1, <2>2 DEF ActionPerformed, OnceOnly, Reported
  <2>6. QED
    BY <2>2, <2>4, <2>5
<1>7. CASE Environment
  BY <1>7, EnvironmentRest
<1>8. QED
  BY <1>1, <1>2, <1>3, <1>4, <1>5, <1>6, <1>7 DEF Next, Reconcile

LEMMA ApplicationSeenStep == TypeOK /\ ApplicationSeen /\ [Next]_vars => ApplicationSeen'
<1> SUFFICES ASSUME TypeOK, ApplicationSeen, [Next]_vars PROVE ApplicationSeen'
  OBVIOUS
<1> USE DEF ApplicationSeen, GoTo, Perform, Fails, Return, memoryVars
<1>1. CASE UNCHANGED vars
  BY <1>1 DEF vars, clusterVars, localVars
<1>2. CASE Get \/ Crash \/ Configure \/ DetectArgoNamespace \/ GetSubscription
           \/ WriteSubscription \/ StartArgoCDWatch \/ HaveNamespace \/ TrustedBundle
  BY <1>2 DEF Get, Crash, Configure, DetectArgoNamespace, GetSubscription, WriteSubscription,
     StartArgoCDWatch, HaveNamespace, TrustedBundle
<1>3. CASE CreateOrUpdateArgoCD \/ CreateOrUpdateConsoleLink \/ GetLocalGit
           \/ ReconcileApplication \/ Complete \/ ActionPerformed
  BY <1>3 DEF CreateOrUpdateArgoCD, CreateOrUpdateConsoleLink, GetLocalGit, ReconcileApplication,
     Complete, ActionPerformed
<1>4. CASE Environment
  BY <1>4, EnvironmentRest DEF TypeOK, OperatorTypes
<1>5. QED
  BY <1>1, <1>2, <1>3, <1>4 DEF Next, Reconcile

LEMMA RestStep == IInv /\ Rest /\ [Next]_vars => Rest'
<1>1. IInv => TypeOK
  BY DEF IInv
<1>2. QED
  BY <1>1, CurrentCopiesStep, OnceOnlyStep, ReportedStep, NeverForgottenStep, FilledStep,
     ApplicationSeenStep DEF Rest

(* Whatever fails, crashes, lags or is edited, a Pattern is left to itself *)
(* only after a step that was repeated with success: actionPerformed       *)
(* relies on the event of a status write that changes nothing.  After a    *)
(* failure, a new report or a complete loop something will wake Reconcile. *)
THEOREM NobodyForgotten == Spec => []NeverForgotten
<1>1. Rest => NeverForgotten
  BY DEF Rest
<1>2. QED
  BY <1>1, ApartInit, ApartStep, RestInit, RestStep, PTL DEF Spec

(* A status that becomes "reconcile complete" is true: it is stored for    *)
(* the Pattern as it was read, and what was found on the way still holds.  *)
THEOREM CompletedIsInstalled == Spec => CompleteIsInstalled
<1>1. IInv /\ Rest /\ [Next]_vars =>
        [pattern.step # "reconcile complete" /\ pattern'.step = "reconcile complete" =>
           /\ apps[activeNs] \in {pattern.spec, "disowned"}
           /\ bundle[activeNs] = "populated"
           /\ sub.exists /\ sub.disable = (activeNs # Legacy)]_vars
  <2> SUFFICES ASSUME IInv, Rest, Next,
                      pattern.step # "reconcile complete", pattern'.step = "reconcile complete"
               PROVE  /\ apps[activeNs] \in {pattern.spec, "disowned"}
                      /\ bundle[activeNs] = "populated"
                      /\ sub.exists /\ sub.disable = (activeNs # Legacy)
    OBVIOUS
  <2> TypeOK /\ Agreed
    BY DEF IInv
  <2>1. CASE Complete
    <3>1. pc = "complete" /\ instCurrent
      BY <2>1 DEF Complete, Store
    <3>2. QED
      BY <3>1 DEF Rest, CurrentCopies, ApplicationSeen, Filled, Agreed, AfterSubscription,
         AfterArgoCD
  <2>2. CASE ActionPerformed
    <3>1. pc = "actionPerformed" /\ pattern'.step \in {pattern.step, report}
      BY <2>2 DEF ActionPerformed, Store, TypeOK, OperatorTypes, Pattern
    <3>2. QED
      BY <3>1 DEF Rest, Reported, Repeatable, Removed
  <2>3. CASE Configure
    BY <2>3 DEF Configure, TypeOK, OperatorTypes, Pattern
  <2>4. CASE Environment
    BY <2>4, EnvironmentRest DEF TypeOK, OperatorTypes, Pattern
  <2>5. CASE Get \/ Crash \/ DetectArgoNamespace \/ GetSubscription \/ WriteSubscription
             \/ StartArgoCDWatch \/ HaveNamespace \/ TrustedBundle \/ CreateOrUpdateArgoCD
             \/ CreateOrUpdateConsoleLink \/ GetLocalGit \/ ReconcileApplication
    <3>1. pattern' = pattern
      BY <2>5 DEF Get, Crash, DetectArgoNamespace, GetSubscription, WriteSubscription,
         StartArgoCDWatch, HaveNamespace, TrustedBundle, CreateOrUpdateArgoCD,
         CreateOrUpdateConsoleLink, GetLocalGit, ReconcileApplication, patternVars
    <3>2. QED
      BY <3>1
  <2>6. QED
    BY <2>1, <2>2, <2>3, <2>4, <2>5 DEF Next, Reconcile
<1>2. QED
  BY <1>1, ApartInit, ApartStep, RestInit, RestStep, PTL DEF Spec, CompleteIsInstalled
=============================================================================
