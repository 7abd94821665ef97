# Patterns operator: specifications, model checking and proofs

The patterns operator installs a *validated pattern* on an OpenShift cluster: it
watches `Pattern` resources, sets up OpenShift GitOps (Argo CD) and creates one
Argo CD `Application`, the app of apps, which installs everything else. When the
`Pattern` is deleted the operator takes all of it down again, spoke clusters
first. This directory holds TLA+ modules of the operator, the TLC
configurations that check them and proofs for TLAPS.

## Inventory

### Components, their state and their operations

| component | source | state | operations |
|---|---|---|---|
| Reconciler, ordinary path | `internal/controller/pattern_controller.go` 139-616 | none of its own beyond the call; reads and writes the `Pattern`, the GitOps `Subscription`, the `ArgoCD` instance, secrets, the `Application` | one chain of "at most one action per invocation" steps |
| Finalizer | `pattern_controller.go` 724-954, 1220-1363, `acm.go`, parts of `argo.go` | `status.deletionPhase` of the stored `Pattern` | initialize, four phases, removal of the finalizer |
| Status of applications | `pattern_controller.go` 1142-1214 | `status.applications` | compare and update |
| Admission webhook | `api/v1alpha1/pattern_webhook.go` | none; lists Patterns | create, update, delete |
| Argo CD objects | `argo.go` | none; pure construction and comparison, create or update | `newArgoCD`, `newArgoApplication`, `compare*`, `updateApplication`, `syncApplication` |
| Argo CD namespace | `utils.go` 320-337, `pattern_controller.go` 1116-1126 | package globals | detect, read |
| GitOps subscription | `subscription.go`, `pattern_controller.go` 326-399 | the stored `Subscription` | create, update |
| Analytics | `analytics.go` | flags and a time in memory, `status.analyticsSent`, `status.analyticsUUID` | identify, start, end, refresh |
| Git checkout | `checkout.go`, `pattern_controller.go` 1403-1480 | directories under `/tmp/vp` with their references, HEAD and files; they outlive a reconciliation, not a restart | clone, fetch, checkout, drop |
| Gitea | `gitea-util.go`, `pattern_controller.go` 480-574 | a Secret, a Gitea `Application` and a copy of the origin in it | create, migrate, rewrite the target |
| Values and parameters | `values.go`, `argo.go` 720-951 | none | merge, list value files, parameters |
| Operator configuration and catalog | `patterns_operator_config.go`, `console/catalog.go`, `console/plugin.go`, `cmd/main.go` 102-125 | `ConfigMap`, `Deployment`, `Service`, plugin registration | create or update, from two places |
| Web console | `console/src` | state of the pages, objects of a secret injection | install, uninstall, inject secrets, poll |

### How they interact

* The work queue of controller-runtime hands a `Pattern` to one worker at a
  time; watches (on `Pattern`, later on Argo CD, on the operator's `ConfigMap`)
  and timers put it there.
* The worker reads the `Pattern` from the informer cache and writes it with
  optimistic locking, so what it reads may be old and what it writes may be
  refused. It reads the `Application` with a client of its own, uncached.
* Argo CD acts on the `Application` and writes to it (status, removal of a
  requested operation). With automated sync and pruning it does so at any time.
* The value `global.deletePattern` travels from the phase through the
  parameters of the app of apps to its children and, through the child that
  carries ACM, by policies to the spokes.
* The webhook is asked before the API server stores anything; the console's
  pages talk to the API server alone.

### What is hard

Stale caches and refused writes on every step; four phases spread over many
reconciliations, restarts between any two calls; errors that are taken for
answers ("already removed", "no hub", "no clusters", "nothing found");
services that keep acting during the deletion; waiting that depends on others
(ACM does not go while clusters are attached). `PROJECT.json` lists the hazards
with their lines. Where an error is taken for an answer, or the code has no guard
against an accident, the promise does not hold of the code; the model has the step as a
*slip* or an exception, the properties exclude it by name, and such a hazard is
listed without a property and with a note: `haveACMHub` (`hub`), the defaults
(`defaults`), the search (`search`), the annotation taken back (`unpruned`), another
owner (`UserDisowns`, and `disowned` in the installation), overlapping creations (`overlapping`), `haveArgo` (`argo`), a step
that wakes nobody (`stalled`), parameters that panic (`Panics`).

### What makes each component correct

* Finalizer: the phases are stored in order and never go back; a phase begins
  only when the one before achieved its end; the Pattern goes last and nothing
  it owns is left; the deletion ends.
* Reconciler: it converges, never stalls on a step that changed something, and
  never persists what it only computed.
* Webhook: at most one Pattern. Analytics: each event once per Pattern, one
  generated UUID. Status: equal to Argo CD's after a quiet loop. Namespace detection: never
  flips on an installed cluster.
* Checkout and Gitea: what is deployed is of the repository that is asked for,
  at the revision that is asked for, and has been validated; upstream is followed;
  a Pattern with an origin ends up at its fork; no edit of a user is overwritten.
* Application: it comes to say what the Pattern and the repository ask for, is
  not written again and again, and no phase of a deletion passes untold.
* Operator configuration: nothing of the users' is taken away by the two
  processes that write the same objects; catalog and plugin end up as configured.
* Vault injection: nothing left behind, an outcome reported for every injection.

## Modules

* **`ClusterEnvironment`** is the world around the finalizer: the stored
  `Pattern`, the informer's copy, the reconciler's copy, the user (deleting,
  annotating, disowning, importing), Argo CD on the hub, ACM and spokes. A
  copy's resource version matters only in being or not being the stored one, so
  each copy has a Boolean (`cacheCurrent`, `instCurrent`, `seenCurrent`) that
  every write by anyone clears. Errors the code takes for answers are *slips*:
  each is an action that records its kind in `slips`, and the properties say
  which kinds they exclude.
* **`PatternFinalizer`** is `Reconcile` seen from the deletion, one action per
  call to a service. `pc` names the next call, `goal` is the phase about to be
  stored. `updateApplication`, `syncApplication`, `getChildApplications` are one
  action each for all the phases that make the call, so their guards read the
  phase as the code does. `Crash` may come between any two calls.
* **`PhasedDeletion`** is what the deletion promises: stages, spokes, attached
  clusters and the app of apps, without caches, versions or failures.
* **`FinalizerRefinement`** maps the finalizer's state to it.
* **`MCPatternFinalizer`** has the README's promises without provisos, for the
  runs that refute them.
* **`PatternFinalizer_types`**, **`PatternFinalizer_proofs`**: theorems.

* **`GitOpsCluster`** is the world around the installation: the stored `Pattern`
  with its informer, the work queue and the requests under way, the operator's
  `ConfigMap`, the `Subscription`, the gitops-operator OLM runs for it, the two
  Argo CD namespaces with their CA bundle, `ArgoCD` and `Application`. The
  gitops-operator acts by the environment it was started with, which may be
  older than the Subscription. A spec is a value (`Specs`), so is the content
  of the ConfigMap (`Configs`); an ArgoCD is `absent`, `foreign` or made of a
  content of the ConfigMap.
* **`PatternInstall`** is `Reconcile` seen from the installation, one action per
  call, from `Get` to `Complete` or `ActionPerformed`. The queue is modelled: a
  reconciliation starts only when an event, a delay or a rate-limited retry has
  put the Pattern there, so a step that forgets to ask is visible.
* **`PatternInstall_types`**, **`PatternInstall_proofs`**: theorems.

* **`PatternStatus`** is `Reconcile` seen from the status it writes: the
  analytics events with their bits, the UUID (generated, or one the user
  specifies and may change at any time) and the flags in memory, the list of
  Applications, the condition for missing values files and the last step.
  The status is one record with three copies (`stored`, `cache`, `status`), and
  a write stores the whole of it. `count` and `users` are what the analytics
  service has received. `lost` notes what a reconciliation had sent or
  generated when it ended without storing it.
* **`MCPatternStatus`** has a comment of the code without provisos, for the run
  that refutes it.
* **`PatternStatus_proofs`**: theorems.

* **`PatternSource`** is `Reconcile` seen from the files: the defaults of the git
  settings, the fork in Gitea, the local clone, the check for the values file and
  what the Application is made of. A commit is its repository, its number and
  whether it has the values file; a clone is the remote it names, the tracking
  branches and tags, the branch checked out at first, HEAD, and the commits whose
  files lie in the directory. Repositories whose addresses `getLocalGitPath` maps
  to one path are `Alike`. What a clone, a fetch and a checkout leave behind is
  go-git's, as vendored: a failed clone removes only what it created, a fetch is
  forced and does not prune, a checkout is a hard reset.
* **`DeployedSource`** is what the git settings of a Pattern promise, by the comments
  of `GitConfig` and of `Reconcile`: which repository is deployed, at which revision,
  and that what is deployed is there and was looked at. It has the settings that
  are stored, those the operator knows of and those it acts on, whether the fork
  is there, and the deployment; no clones, servers, versions or failures. A
  deployment is the repository and the revision the Application names and the commit
  the operator looked at; Argo CD resolves a branch or HEAD by itself, later.
* **`SourceRefinement`** maps `PatternSource` to it: the view is the copy that is worked
  on, an empty revision is HEAD, the fork is there when it has been migrated.
* **`MCPatternSource`** has what a comment says of the validation, for a Pattern that
  follows HEAD, for the run that refutes it.
* **`PatternSource_proofs`**: theorems, and the refinement.

* **`PatternApplication`** is the Application itself: parameters (a name is the
  sequence of its dotted parts), value files, policy and sources as
  `newArgoApplication` builds them, the `compare` functions, and the reading,
  creating and updating around them, on the ordinary path and in a deletion. A
  reconciliation reads the Application once and acts on that copy: between
  `Read` and `Write`, `WriteFails` or `PhaseAdvances` (the syncs, the lists of
  children and the search of the spokes lie there) anybody may change Pattern and
  Application. `told` is a history variable: since the phase of the deletion began,
  the stored Application has said so at some time. A
  pointer or slice of the API's types is a set, `{}` for nil, so that what the
  API's JSON makes of an empty slice (`Serialised`) is visible.
* **`MCPatternApplication`** gives it specs and layouts of the repository.
* **`PatternApplication_proofs`**: theorems, for any names, values, lists of extra
  parameters and layouts (`Text` is what strings there may be).

* **`PatternAdmission`** is the webhook: a creation is validated against the
  informer's list and stored later, an update or deletion at once. Overlapping
  creations and a lagging list are one slip, `overlapping`.
* **`OperatorConfig`** extends it with the six objects of the operator's own (the
  ConfigMap, the catalog's three, the plugin and the Console) and the two
  processes that write them, the one `cmd/main.go` starts and the reconciler:
  `Read`, `ReadFails`, `Write` and `WriteFails` for each object in the order of the
  process. The informers of the objects in `Lagging` may be behind.
* **`OperatorConfig_proofs`**: theorems of both.

The modules share nothing but the `Pattern` and are checked apart, each with the
others folded into single steps: `PatternFinalizer` keeps one step
(`ReconcileApplication`) of the installation; `PatternInstall` leaves the deletion
out and has the checkout as `GetLocalGit`; `PatternStatus` has all steps of the
installation in one (`Work`), which fails, does something or goes through;
`PatternSource` has the Application as what it was made of; `PatternApplication` has
the checkout as a layout and a deletion as its phases; `OperatorConfig` has the
rest of `Reconcile` in `Begin`.

| code | `PatternFinalizer`: action |
|---|---|
| `Reconcile` up to the catalog | `Get`, `Configure` |
| `reconcileArgoInfra`, `reconcileApplication` | `ReconcileApplication` |
| `actionPerformed`, `onReconcileErrorWithRequeue` | `ActionPerformed` |
| `finalizeObject`: annotation, `applyDefaults` | `ApplyDefaults` |
| `getApplication`, `ownedBySame`, the choice of phase | `GetApplication` |
| `haveACMHub`, initialization | `HaveACMHub` |
| `updateDeletionPhase` | `UpdateDeletionPhase` |
| `updateApplication`, `newApplicationParameters` | `UpdateApplication`, `DeletePattern` |
| `syncApplication` on the app of apps | `SyncApplication` |
| `getChildApplications` and the loop that syncs them | `GetChildApplications` |
| `checkSpokeApplicationsGone` | `CheckSpokeApplicationsGone` |
| `listManagedClusters`, `deleteManagedClusters` | the same names |
| `removeApplication`, `removeConsoleLink`, `RemoveFinalizer` | the same names |

| code | `PatternInstall`: action |
|---|---|
| work queue, `Get` of the Pattern | `Get` |
| ConfigMap, catalog, the finalizer's first write | `Configure` |
| `applyDefaults`, `detectArgoNamespace`, `haveArgo` | `DetectArgoNamespace` |
| `reconcileGitOpsSubscription`: namespace, group, read | `GetSubscription` |
| `createSubscription`, owner references, `updateSubscription` | `WriteSubscription`, `NewSubscription` |
| `startArgoCDWatch` and its handler | `StartArgoCDWatch`, `ArgoCDEvent` |
| `haveNamespace`, `createNamespace` | `HaveNamespace` |
| `createTrustedBundleCM`, `isTrustedBundleCMPopulated` | `TrustedBundle` |
| `createOrUpdateArgoCD`, `createOrUpdateConsoleLink` | the same names |
| secrets, Gitea, `getLocalGit` | `GetLocalGit` |
| `reconcileApplication` | `ReconcileApplication` |
| the end of `Reconcile` | `Complete` |
| `actionPerformed`, `onReconcileErrorWithRequeue` | `ActionPerformed` |
| `enqueuePatternForOperatorConfigMap` | `UserEditsConfig` |

| code | `PatternStatus`: action or operator |
|---|---|
| work queue, `Get` of the Pattern | `Get` |
| `SendPatternInstallationInfo`, `SendPatternStartEventInfo`, `SendPatternEndEventInfo` | the same names |
| `getNewUUID`, `setBit`, `hasBit` | `GetNewUUID`, `SetBit`, `HasBit` |
| `retryAnalytics` | `Sent`, `SendFails` |
| `hasIntervalPassed` | `due`, `HoursPass` |
| subscription to `postValidation`, `setPatternCondition` | `Work` |
| `updatePatternCRDetails` | `UpdatePatternCRDetails`, `Differs` |
| the end of `Reconcile` | `Complete` |
| `actionPerformed`, `onReconcileErrorWithRequeue` | `ActionPerformed` |
| `Status().Update` | `Write` |
| `AnalyticsInit` | `Init`, `Crash` |

| code | `PatternSource`: action or operator |
|---|---|
| `applyDefaults` (git settings, local path) | `ApplyDefaults`, `LocalGitPath`, `DropLocalGitPaths` |
| `createGiteaInstance`: secret, Application, migration, update of the Pattern | `GiteaSecret`, `GiteaApplication`, `Migrate`, `Retarget` |
| `getLocalGit`, `getGitRemoteURL` | `GetLocalGit`, `OfTheTarget` |
| `cloneRepo` | `CloneRepo` |
| `checkoutRevision`: fetch, `getCommitFromTarget`, checkout | `Fetch`, `GetCommitFromTarget`, `CheckoutRevision` |
| `preValidation` | `PreValidation` |
| `reconcileApplication` | `Application` |
| the end of `Reconcile`; `actionPerformed` | `Complete`; `ActionPerformed` |

| code | `PatternApplication`: action or operator |
|---|---|
| `newApplicationParameters`, `updateHelmParameter` | `NewApplicationParameters`, `Added` |
| `newApplicationValueFiles`, `getSharedValueFiles` | `NewApplicationValueFiles`, `SharedValueFiles` |
| `convertArgoHelmParametersToMap` | `Panics` |
| `newArgoApplication` and what it is made of | `NewApplication`, `SingleSource`, `MultiSource`, `Policy`, `Helm` |
| `compareApplication`, `compareSource(s)`, `compareHelmSource`, `compareSyncPolicy` | `CompareApplication` and the operators of those names |
| `IsCommonSlimmed`, `HasVariantsFolderLayout`, `getClusterGroupChartVersion` | the same names |
| `getLocalGit` (ordinary path only) and the construction | `Begin`, `Panicked` |
| `reconcileApplication`, `updateApplication` | `Read`, `NothingToWrite`, `Write`, `WriteFails` |
| `finalizeObject` | `Read`, `PhaseAdvances`, `Finalized` |

| code | `OperatorConfig`, `PatternAdmission`: action or operator |
|---|---|
| the runnable of `cmd/main.go` | `Startup`, `After`, `Fails` |
| `Reconcile` up to the plugin | `Reconcile`, `Begin`, `After`, `Fails` |
| `CreatePatternsOperatorConfigMap`, `createOrUpdate...` of the catalog, `CreateOrUpdatePlugin`, `EnablePlugin` | `Read`, `ReadFails`, `Wanted`, `Write`, `WriteFails` |
| `getCatalogImage` | `GetCatalogImage` |
| `ValidateCreate`, `ValidateUpdate`, `ValidateDelete`, `validateVariantAlias` | the same names, `StoreCreated` |

## Runs

| run | instance | shows |
|---|---|---|
| `finalizer_hub` | ACM as the only child, one spoke, all slips, 1 failure, 2 edits | `TypeOK`; `PhaseAdvances`; `SpokesClearedBeforeHub`; `SpokeChildrenFirst`; `ClustersDetachedBeforeHub`; `NothingLeftBehind` |
| `finalizer_live` | ACM and another child, one spoke, no slips, 1 failure, 2 edits | `ImplementsPhasedDeletion`, `DeletionCompletes` |
| `transient_app_error` | one child, no ACM, one failing read | refutes README.md:54-56 |
| `install` | a new cluster, one with GitOps, an older installation; two configurations; misleading reads and deleted ArgoCDs; 1 failure, 1 edit | `TypeOK`, `OneInstallation`, `DefaultKeptInUse`, `BundleBeforeArgoCD` |
| `install_live` | the same clusters, two specs, the Application may get another owner, 1 failure, 1 edit | `Converges` |
| `status` | two Applications, two states of each, one UUID to specify, 1 failure or crash, 1 change, 1 refresh interval | `TypeOK`, `BitsKept`, `RecordedWasSent`, `SentOnce`, `OneUser`, `Settles`, `HealthReported` |
| `renamed_application` | two names, no failure, two changes | refutes the comment at `pattern_controller.go`:1139 |
| `source` | two repositories that share a local path and the fork, two names for branches and tags, 1 failure or crash, 2 edits | `TypeOK`, `NoForeignFiles`, `NamedRevisionIsFresh`, `AppliedWasValidated`, `GiteaLetsOperatorIn`, `EditsStand`, `UpstreamIsFollowed`, `ForkIsServed`, `ImplementsDeployedSource` |
| `stale_head` | one repository, no revision given, no failure, one push | refutes the comment at `pattern_controller.go`:592 |
| `application` | four specs, three layouts, 2 failures or restarts, 3 changes | `TypeOK`, `OneKindOfSource`, `SpokesAreTold`, `ArgoFollowsPattern`, `WritesEnd` |
| `missing_checkout` | one spec, one layout, no failure, two changes | refutes the comment at `utils.go`:474 |
| `operator_config` | two Patterns, one image beside the default, one plugin of others, informers that lag for the ConfigMap and the Console, 1 failure or crash, 1 edit | `TypeOK`, `OneNamedPattern`, `OthersKeepTheirPlugins`, `ConfigIsTheUsers`, `CatalogAsConfigured`, `PluginIsEnabled` |

### Bounds

* One spoke: spokes do not interact; the code treats them as a set that is
  empty or not. The proofs have any number.
* One or two children: one that carries ACM, one that does not; the code
  distinguishes an empty list from a non-empty one.
* `MaxFaults` bounds failing calls and crashes together. One is enough for each
  hazard of a single wrong turn; the proofs have any number. `MaxEdits`
  bounds the user's changes apart from the deletion; two let the annotation be
  taken back and set again.
* `Slips` says which errors may become wrong answers, and which accidents happen
  at all.
* Two configurations (and two specs in `install_live` and the proofs): the code
  compares with what is there, so a second value is a change and a third would
  be another change.
* `Starts` picks the clusters to begin with. The one where GitOps is still being
  installed (`installing`) is not part of `install_live`, because the operator
  need not settle there (see "Also seen" below); the proofs of safety include it.

* Two Applications are enough for the two ways the lists are compared, by length
  and by name; `Differs` looks at one name at a time. One failure or crash and
  one refused write (made by a change of the Pattern) lose a record, a second
  could only lose another. The Pattern begins with a UUID specified or without, so
  the one change may specify one, or take it back. `MaxHours` lets one refresh follow the end event. `count` stops
  at 2, which stands for "more than once". The proofs have no bounds.
* In `source` the two repositories are `Alike`, the case that matters; somebody
  works on one of them (`Active`), which is what a fetch can tell. Two names
  make one the default branch and one a branch, a tag, both in turn or neither.
  Three commits let a branch be pushed to twice, and two edits let the target
  change and upstream move, a branch be deleted and a tag of its name be set, or
  the target change and change back. One failure or crash is a clone or a fetch
  that ends half-way. The proofs have any number of each, and any set `Alike`.
* In `application` the four specs are both kinds of sources, the operator's chart
  and the user's, synced by Argo CD and by hand, and extra parameters that repeat
  one another, one of the operator's, the one of the deletion and a prefix of it.
  The three layouts have common slimmed or not, the variants folder or not, and
  shared files absent, present or with a name that cannot be rendered. Three
  changes let the Pattern be deleted in the middle of an update of the
  repository and somebody change the Application as well, before it is read or
  between that and the step to the next phase.
* In `operator_config` the two informers that may lag are those of the objects
  whose old contents matter, which users change too. Two names of Patterns are
  one more than the webhook lets in; `Slips` is empty, because overlapping
  creations do let two in. One edit is enough to change what one process has
  read and the other is about to write.

Deadlock is not checked: when the Pattern is gone and the services have nothing
to do, everything has come to rest.

### Fairness

`FairSpec` assumes weak fairness of `Reconcile` as a whole (the queue hands a
Pattern under deletion to the worker again: an error requeues with backoff, and
`onReconcileErrorWithRequeue` asks for two minutes at the latest) and of each
thing Argo CD, ACM, the spokes and the informer have pending. Nothing is assumed
of the user, of installations or of the operator's luck; failures are finitely
many through `MaxFaults`. `ArgoInstalls` and `SpokeInstalls` are not fair, so
that a deletion may catch an installation at any stage.

For the installation `FairSpec` assumes weak fairness of `Get` and of `Reconcile`
(the worker takes what is queued and finishes what it began), of the informers,
the timers, OLM, the gitops-operator and the network operator. `Get` is enabled
only while the Pattern is queued, so nothing is assumed of a Pattern nobody
asked for: the periodic resync of the informers (about ten hours) is not
counted on. `Converges` makes two exceptions, `disowned` (the operator refuses
to touch another's Application) and `stalled` (a successful step whose status
write changes nothing while nothing else is under way; see "Also seen" below).

For the status `FairSpec` assumes weak fairness of `Get` and of `Reconcile`, of
the informer and of the timers; failures and changes are finitely many. Nothing
is assumed of the passing of hours. `Settles` excepts values files that stay
missing: the condition carries the time of the last check, so that every loop
changes the status. `HealthReported` is about a loop that keeps coming to its end
(`Looping`) and about Applications whose names are known (finding 2).

For the other modules every reconciliation is followed by another: a failed step
is requeued with backoff, and a loop that came to its end asks for the next one
after three minutes (`Spec` of `PatternSource` and `PatternApplication` assumes weak
fairness of the whole reconciler; that of `OperatorConfig` of the reconciler and of
the startup process). `PatternSource` adds the informer and the start of Gitea,
`OperatorConfig` the informers and the API server, which stores what has been
admitted and lets go of what has been finalized. Users, upstream and restarts are
not fair, and failures are finitely many. `UpstreamIsFollowed` excepts a Pattern with
an origin of which no status has been stored, and a Gitea Application that is
another's; `ArgoFollowsPattern` excepts parameters at which the reconciler panics.

## What is proved

For every value of the constants that satisfies `EnvironmentAssumption` (no
spokes without ACM, the bounds are naturals):

* `TypeCorrect`: `Spec => []TypeOK`. Inductive is `Typed`, the types with
  `StepPhase`, which records the phases a reconciliation can be in at each call;
  without it `newApplicationParameters`, which passes the phase on as it is, might
  give the chart a value it does not know.
* `PhasesInOrder`: `Spec => PhaseAdvances`.
* `SpokesFirst`: `Spec => []SpokesClearedBeforeHub`.
* `ClustersFirst`: `Spec => []ClustersDetachedBeforeHub`.
* `ChildrenBeforeParents`: `Spec => SpokeChildrenFirst`.
* `NothingStays`: `Spec => []NothingLeftBehind`.
* `PhasedDeletionImplemented`: `Slips = {} => (Spec => ImplementsPhasedDeletion)`, the
  refinement `finalizer_live` checks on one instance.

All but the first rest on `IInv`, whose parts are

* `Copies`: a copy that counts as current is the stored Pattern, and every copy
  is of a phase not after the stored one (`NotAfter`). So a status write that is
  accepted stores the phase that is there, and one read earlier is refused.
* `Deleting`: only a Pattern under deletion has a phase or is finalized.
* `HubAfterPhase`: the Application is told to drop its children, or is deleted,
  only when the *stored* phase is a hub phase, although the decision is taken on
  a copy.
* `NothingWithoutAcm`: without ACM no cluster is attached, and before the hub
  phases nothing is on the spokes.
* `Cleared`, `Detached`: what the phases presuppose holds already when the
  phase, or the Application's change, has been decided on and not been made.

Each action has a lemma with a step for each part; `EnvironmentSafe` does the same
for the user and the services. TLC checked all parts as invariants before they
were proved.

`ChildrenBeforeParents` needs two facts more (`SpokeInv`). `Childless`: as soon as
anybody knows of the phase `DeleteSpoke` (the store, a copy, the Application, Argo
CD's last sync or the policies), no child is left on a spoke; `NothingLearnt` shows it
for all steps that only pass the phase on. `Told`: the spokes are told only in a
deletion, so that no spoke is installed any more without the slip `late`.

`NothingStays` needs four (`LeftInv`). `Held`: there is an Application only for a
Pattern that has or had the finalizer, so that a Pattern which goes at once leaves
nothing. `Noticed`: the cache is as late as what the reconciler took from it, so
a Pattern that is gone is not installed again from an old copy. `Emptied`: the
Application goes after its children. `Ended`: whoever is about to remove the
finalizer has found the Application gone or deleted it, or was misled.

`PhasedDeletionImplemented` assumes that no answer is untrue (`Slips = {}`); it is what
the promise can hold under, as the runs with slips show. Its invariant `TrueInv` adds
to `LeftInv` what every step of the promise presupposes. `Pruned`: a Pattern under
deletion has its annotation, so it is never finalized as an invalid one.
`PhaseSeen`: once a phase is stored no reconciler takes the Pattern for a living
one, so the Application is not created any more. `Followed`: what the Application,
Argo CD, the policies and the clusters were told is not ahead of the stored phase,
so spokes and clusters go in the phase that is for them. `Started`: the first
phase is stored only with an Application, and on the hub only when no cluster is
attached. `Over`: nobody deletes the Application of a Pattern that is gone.
`PromiseStep` maps the steps: one lemma for each kind of promised step, and two for
what the promise does not speak of (`PromiseStutters`, `EnvironmentStutters`).

For the installation, for every value of the constants that satisfies
`ClusterAssumption`, so for any number of failures, crashes and edits and for all
four clusters to begin with:

* `InstallTypeCorrect`: `Spec => []TypeOK`.
* `InstalledOnce`: `Spec => []OneInstallation`.
* `DefaultStaysInUse`: `Spec => []DefaultKeptInUse`.
* `BundleFirst`: `Spec => BundleBeforeArgoCD`.
* `NobodyForgotten`: `Spec => []NeverForgotten`: a Pattern that is not being reconciled
  and that no event or timer will bring back has stalled, and its last report is
  one of the four that may be repeated (`Repeatable`); a failure, a finalizer that
  was added, owner references that were removed and a complete loop never end so.
* `CompletedIsInstalled`: `Spec => CompleteIsInstalled`: when the status becomes
  "reconcile complete", the Application in the active namespace is made of what the
  *stored* Pattern asks for (or has lost its owner), its bundle is there and the
  Subscription is the one for that namespace.

`InstalledOnce` and `DefaultStaysInUse` rest on an invariant of their own, `IInv`,
which says, as long as no slip of the three kinds has happened:

* `Agreed`: a copy of the Subscription that counts as current is the stored one;
* `LegacyPattern`: with an Application in `openshift-gitops` the default instance
  is there, the Subscription does not disable it, the gitops-operator does not
  run without it and nothing that is about to be written says otherwise;
* `NewPattern`: with one in `vp-gitops` the default instance is absent and the
  gitops-operator, and what it will be told, is not to create it;
* `Decided`: past the detection the active namespace agrees with what is there,
  or with what is going to be disabled;
* `NothingUnsubscribed`: without a Subscription there is no gitops-operator.

Every action has a lemma; `EnvironmentApart` covers the user and the services.
The crux is that the gitops-operator acts on an environment older than the
Subscription: the two disagree only while `OlmRollsOut` is pending. `BundleFirst`
has the smaller invariant `Filled` (from the check of the bundle to the end of the
reconciliation neither the active namespace nor the bundle changes).

The last two are the safety behind `Converges`; no run has them as properties (TLC
checked them, and their invariant, with two specs and the slip `disowned` before
they were proved). Their invariant is `Rest`: `CurrentCopies` (a current copy is the
stored Pattern), `OnceOnly` (the two steps that are always news), `Reported` (what
`actionPerformed` is called with), `ApplicationSeen` and `Filled`. Each of the four
reports in `Repeatable` does end so in some behaviour: TLC finds one.

For the status, for any sets of names and states and any number of failures,
crashes, changes and hours:

* `StatusTypeCorrect`: `Spec => []TypeOK`, from `Typed`, which adds `Generated` (no
  copy has a UUID that has not been generated).
* `RecordsAreTrue`, `EventsSentOnce`, `EventsOfOneUser`: `Spec => []RecordedWasSent`,
  `[]SentOnce`, `[]OneUser`.
* `BitsStayRecorded`: `Spec => BitsKept`.

The last four rest on `Kept`, whose parts are

* `Copies`: a current copy has every bit that is stored, and the stored UUID if
  there is one; so a write that is accepted takes nothing back.
* `Truthful`, `Accounted`: what is recorded was sent, and what was sent is in the
  stored status, in the reconciler's copy or among what is lost.
* `OneName`: the UUIDs used are the stored one and the copy's, and those the user
  specified. The latter are never stored in the status, so that the generated
  one comes back unchanged when the user's is taken back.
* `Noticed`: an event that neither the memory nor the copy has is not stored
  either. It is why a lagging cache alone sends nothing twice: the flags in
  memory outlive the lag, a restart begins with a fresh cache, and the hours
  between two refreshes are longer than any lag.

The senders share `SendEffect`, the writes `WriteEffect`; each group of actions has
one lemma for the types and one for `Kept`. `Kept` was checked by TLC first.

For the source of the files, for every value of the constants that satisfies
`SourceAssumption`, so for any repositories, any number of them at one path, and
any number of branches, commits, failures, crashes and edits:

* `SourceTypeCorrect`: `Spec => []TypeOK`.
* `NothingForeign`, `FreshRevision`, `ValidatedFirst`, `GiteaStaysOpen`:
  `Spec => []NoForeignFiles`, `[]NamedRevisionIsFresh`, `[]AppliedWasValidated`,
  `[]GiteaLetsOperatorIn`.
* `EditsAreKept`: `Spec => EditsStand`.

All rest on `SourceInv` (theorem `SourceInvariant`), which adds to the types and to
three of the properties

* `Copies`: a copy that counts as current has the settings of the stored Pattern,
  but for a revision that was empty, and Gitea's steps are for a Pattern with an
  origin;
* `MainStands`, `OwnRemotes`, `OwnClones`: the references of a repository name commits
  of its own (for the fork, of an origin), and those of a clone commits of
  the remote it names, though directories are shared and old files lie in them;
* `Working`: from the fetch to the Application the clone is the target's; after the
  fetch its tracking branches are what was seen; after the checkout one commit's
  files lie in the directory; after the validation that commit has the values file;
* `Deployed`: the Application was made of one validated commit of its repository.

* `DeployedSourceImplemented`: `Spec => ImplementsDeployedSource`, the refinement that
  `source` checks on one instance. No step has to be excused: every step of the
  operator, the users and upstream, restarts and failures included, is a promised
  step or a stutter.
* `ForkBeforeUse`: `Spec => []ForkIsThere`: the fork is there as soon as the Pattern,
  the informer's copy or the one that is worked on names it.

These need three facts more (`ForkInv`). `Upstream`: the repositories of users stay,
so the migration copies one that exists. `ForkIsThere`, as above: no user names the
fork, and the Pattern is updated after the migration only. `ServedFromFork`: past the
Gitea steps a copy with an origin names the fork; it is the answer to the update,
or it named the fork already, and an edit in between reaches only the next copy. The
crux of the steps is `PromiseRetarget`: an update that is accepted is of the version
whose origin and revision are stored (`Copies`), so changing the target is all it
does, although it writes the whole Pattern.

For the operator's own objects (`ConfigAssumption`, `AdmissionAssumption`):

* `TypeCorrect`, `OthersPluginsStay`, `ConfigStaysTheUsers`: `Spec => []TypeOK`,
  `Spec => OthersKeepTheirPlugins`, `Spec => ConfigIsTheUsers`, from `ConfigInv`, which
  has `Fresh` (a fresh cached copy is the stored object) and `Held` (a current copy
  that a process holds is the stored object it is about to write).
* `OnePatternIsNamed`: `Slips = {} => (Spec => []OneNamedPattern)`, from `Sole`: the
  Patterns that are stored and those that have been admitted are one, together.

For the Application (`ApplicationAssumption`), with any specs, any extra parameters,
any layouts and any number of failures, restarts and changes:

* `OneKindAlways`: `Spec => []OneKindOfSource`, because what has been built and what
  is stored has exactly one of the two (`KindInv`), and an update replaces both.
* `BuiltAsAsked`: what `newArgoApplication` builds for a deployed Pattern is what it
  asks for (`AsAsked`): the revision, the version of the chart, the folder where
  there are variants, the first value of every parameter that is not the
  operator's own, and the policy.
* `ApplicationTypeCorrect`: `Spec => []TypeOK`.
* `SpokesAreToldAlways`: `Spec => SpokesAreTold`.
* `WrittenAsAsked`: what is written for a deployed Pattern that has not changed since
  it was read is as asked. `WrittenIsRecognised`: what the API stores of it compares
  equal to what was built, so nothing is written twice. They are the safety behind
  `ArgoFollowsPattern` and `WritesEnd`.

The list of parameters is built in a loop, in the module a function that is
recursive in the number of extra parameters. That it *is* a function, and what each
step adds to it, is shown by induction: a set of naturals that is not empty has a
least element (`LeastElement`, from the library's theorem that the order of the
naturals is well-founded), so a set that has 0 and successors has all of them
(`SetInduction`); with the sets spelled out this gives `GrowthExists` (lists that are
extended step by step exist), `ParametersGrow` (the module's function is one) and
`GrownList`: the operator's own come first and stay, every name occurs, and the first
value of a name counts. Only `DeletePattern` is appended behind them whatever the name, so
it is the one that counts in a deletion (`EffectiveLast`, `PhaseIsTold`).

`BuildInv` adds to the types `Building`: what is about to be written was built from
one spec, the phase that was read and the checkout as it is, and from the stored
ones if the copy is current. A phase of the spokes is left only where the comparison
found nothing to change, and what compares equal has the same parameters and pruning
(`ComparedReceives`, `ComparedPrunes`), although the nested values, the chart and the
destination are not compared. The comparison is with the copy that was read, the
phase is stored several calls later: `ToldInv` says that from the one to the other
the chart has been told the phase, and that the stored Application still says so
as long as the copy is current. A user may take it back in between; the phase is
then left all the same, which `SpokesAreTold` allows and no earlier step does.

### Only model-checked

No safety property of a passing run is left to TLC alone. Liveness is, because the
prover has neither fairness nor `ENABLED`: `DeletionCompletes`, `Converges`, `Settles`,
`HealthReported`, `UpstreamIsFollowed`, `ForkIsServed`, `CatalogAsConfigured`,
`PluginIsEnabled`, `ArgoFollowsPattern`, `WritesEnd`. The safety that `Converges` and the last two rest on
is proved (see above).

## Findings

Each has a run whose counterexample shows it.

1. `transient_app_error`: `finalizeObject` takes any error of `getApplication` for
   "already removed".
2. `renamed_application`: an Application replaced by another between two loops
   leaves the old one in the status.
3. `stale_head`: for a Pattern without a revision the operator looks at the HEAD of
   its local clone, which no fetch moves, while Argo CD is given the revision HEAD
   (`argo.go`:1072, 1087) and resolves it at the remote. What the operator takes
   from the checkout (whether the values file is there, the shared value files, the
   version of the chart) stays that of an old commit until the clone happens to be
   dropped: when upstream loses the values file, the status does not say so.
4. `missing_checkout`: `IsCommonSlimmed` takes a checkout that is not there for a
   slimmed common; a deletion soon after an update or a restart switches the
   Application to the other version of the chart in the middle of the phases.

Also seen while modelling, with no run of their own:

* `haveACMHub` takes any error for "no hub" (slip `hub`): the spoke phases are then
  skipped. `haveArgo` takes any error for "no legacy ArgoCD" (slip `argo`): one
  failing read has the default instance disabled under an installed pattern,
  against the comment at `pattern_controller.go`:327-328.
* The ArgoCD namespace is looked up in a cache; when it lags, "created ArgoCD
  namespace" (`pattern_controller.go`:406) is reported twice and the second report,
  which changes nothing in the status, wakes nobody (`stalled`).
* While GitOps is being installed, the detection takes the default instance for
  an older installation (`pattern_controller.go`:1113-1117); disabling and enabling
  it may alternate for ever (`installing`).
* The ConsoleLink stays when the deletion does not pass through the end of
  phase `DeleteHub` in one run (`RemoveConsoleLink`).
* A legacy ArgoCD that is deleted is not recreated; the operator moves on to
  `vp-gitops` (`UserDeletesArgoCD`, then `DetectArgoNamespace`).
* A reconciliation that creates the Subscription, or writes the ArgoCD, does not
  end there, although `Reconcile` is to perform at most one action.
* The result of `SendPatternEndEventInfo`, "true if the status object in the crd
  should be updated", is ignored: when the last step is "reconcile complete"
  already (an earlier loop could not send the event) the bit is not stored, and
  the next interval sends the end event again (`lost` in `Complete`).
* Values files that stay missing change the status at every loop, whose event
  starts the next one at once, without the minute's delay (`Work`).
* The Update of `createGiteaInstance` (`pattern_controller.go`:568) replaces the copy by
  the answer, whose status has the local path stored last. So a Pattern with an
  origin has its clone dropped and made again at every reconciliation when the
  target has changed (`applyDefaults`), and where no status has been stored
  yet the path is empty and the clone fails (`Retarget`, `CloneRepo`). The defaults
  are persisted with it, which the comment at 215 says they are not.
* A clone of another repository has its `.git` removed, not the folder, although
  the log says "blowing away the folder"; the new clone into it, when it fails, leaves
  a `.git` without references (`Leftover`).
* A branch that upstream has deleted is kept by the fetch and shadows a tag of
  its name (`Fetched`, `GetCommitFromTarget`).
* Forks are named after the last part of the origin's path, so two origins that end
  alike share one (not modelled).
* Overlapping creations let two Patterns in (`Overlapping`), while
  `pattern_controller.go`:1012 relies on the webhook for a single one.
* When the ConfigMap cannot be read at startup, the default image is put over the
  configured one (`ReadFails`); without a Pattern it stays until a restart.
* An extra parameter with the name of one of the operator's is logged as updated
  and lost, and of two with one name the first counts (`Added`).
* The comparison does not look at the nested values, the chart or the destination,
  so a change in these alone is never applied (`CompareHelm`, `CompareSource`).
* An extra parameter called `global` together with shared value files makes every
  reconciliation panic, those of the deletion too (`Panicked`).
* A change of `clusterGroupName` or of the variant leaves the Application of the
  old name behind (`argo.go`:1211; the name is one value in the modules).

## What is not modelled

* The console's pages and its injection of secrets (`console/src`): pages that talk to
  the API server alone; no state of the operator depends on them. A module
  `VaultInjection` with its polling is the first thing left to do.
* The copies of git secrets, which `PatternInstall` and `PatternSource` fold into a step
  that fails or succeeds; how git authenticates.
* The contents of the `ArgoCD`, the `ConsoleLink` and the objects of the catalog, each
  one value; the templating of value files, of which only success and failure are
  told apart; the texts of analytics events.
* Revisions that are full commit hashes (`checkout.go`:138-143); they name one commit
  whatever moves, so none of the hazards of references touches them.
* The name of the Application and the names of forks (see above); domains without a
  dot, at which `applyDefaults` panics and which OpenShift does not have.
* Left out for good: generated code (`zz_generated.deepcopy.go`), manifests and
  templates, vendored modules, git itself.
