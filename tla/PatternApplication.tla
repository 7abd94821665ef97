------------------------- MODULE PatternApplication -------------------------
(***************************************************************************)
(* What Argo CD is told to run: the Application that the operator builds   *)
(* from the Pattern and its checkout, compares with the stored one and     *)
(* writes (argo.go).  The content of the checkout is its layout alone; how *)
(* it gets there is PatternSource, how a deletion advances PatternFinalizer*)
(*                                                                         *)
(* A pointer or a slice of the API's types, and an object that may not be  *)
(* there, is a set: {} is nil, and otherwise its element is what is there. *)
(* The name of a Helm parameter is the sequence of its dotted parts.       *)
(***************************************************************************)
EXTENDS Naturals, SequencesExt

CONSTANTS
  Text,       \* what names, values and versions may be
  Specs,      \* what users may ask for
  Layouts,    \* what the repository may look like
  MaxFaults,  \* how many calls may fail and how often the operator may restart
  MaxEdits    \* how often users and others change something

Parameters == [name : Seq(Text), value : Text, force : BOOLEAN]
SpecType == [multiSource : BOOLEAN, ownChart : BOOLEAN, manualSync : BOOLEAN,
             revision : Text, version : Text, extras : Seq(Parameters)]
LayoutType == [slim : BOOLEAN, variants : BOOLEAN, shared : {"none", "file", "bad"}]

(* What the operator itself puts into an Application, and others.          *)
OwnText ==
  {"", "true", "0.8.*", "0.9.*", "main", ".", "target", "own", "charts", "clustergroup",
   "common/clustergroup", "in-cluster", "elsewhere", "variants", "plain", "shared", "global",
   "targetRevision", "multiSourceTargetRevision", "vpNewFolderDir", "deletePattern", "init",
   "DeleteSpokeChildApps", "DeleteSpoke", "DeleteHubChildApps", "DeleteChildApps", "DeleteHub",
   "gone"}

ASSUME ApplicationAssumption ==
  /\ OwnText \subseteq Text
  /\ Specs \subseteq SpecType /\ Layouts \subseteq LayoutType
  /\ MaxFaults \in Nat /\ MaxEdits \in Nat

VARIABLES
  spec,      \* the Pattern's spec
  phase,     \* "deployed", or the phase of its deletion
  repo,      \* what the repository looks like
  checkout,  \* and the operator's checkout of it
  app,       \* the stored Application
  step,      \* what the reconciler is about to do
  taken,     \* the phase of the Pattern it has read
  target,    \* the Application it has built
  latest,    \* the Pattern it has read is the stored version
  current,   \* and so is the Application
  told,      \* since the phase began its Application has told the chart of it
  faults, edits

vars == <<spec, phase, repo, checkout, app, step, taken, target, latest, current, told,
          faults, edits>>

Phases == {"deployed", "init", "DeleteSpokeChildApps", "DeleteSpoke", "DeleteHubChildApps",
           "DeleteHub", "gone"}

-----------------------------------------------------------------------------
(* The Application of a Pattern p = [spec, phase] and a checkout c.        *)

Param(name, value) == [name |-> name, value |-> value, force |-> FALSE]
Revision == <<"global", "targetRevision">>
Version == <<"global", "multiSourceTargetRevision">>
NewFolderDir == <<"global", "vpNewFolderDir">>
DeletePattern == <<"global", "deletePattern">>

(* What is not found in the checkout is taken for gone, and a checkout that*)
(* is not there for one where nothing is found.                            *)
IsCommonSlimmed(c) == \A layout \in c : layout.slim
HasVariantsFolderLayout(c) == \E layout \in c : layout.variants
SharedValueFiles(c) == IF c = {} THEN "none" ELSE (CHOOSE layout \in c : TRUE).shared

GetClusterGroupChartVersion(p, c) ==
  IF p.spec.version # "" THEN p.spec.version
  ELSE IF IsCommonSlimmed(c) THEN "0.9.*" ELSE "0.8.*"

BuiltIns(p, c) ==
  <<Param(Revision, p.spec.revision), Param(Version, GetClusterGroupChartVersion(p, c))>>
  \o (IF HasVariantsFolderLayout(c) THEN <<Param(NewFolderDir, "true")>> ELSE <<>>)

(* updateHelmParameter: a parameter of that name keeps its value, the new  *)
(* one is assigned to a copy of it.                                        *)
Added(parameters, extra) ==
  IF \E i \in DOMAIN parameters : parameters[i].name = extra.name
  THEN parameters ELSE Append(parameters, extra)

DeletePhase(ph) == IF ph = "DeleteHubChildApps" THEN "DeleteChildApps" ELSE ph

PhaseAsAnyOther(parameters, ph) ==
  IF ph = "deployed" THEN parameters ELSE Added(parameters, Param(DeletePattern, DeletePhase(ph)))
WithPhase(parameters, ph) ==
  IF ph = "deployed" THEN parameters
  ELSE Append(parameters, [Param(DeletePattern, DeletePhase(ph)) EXCEPT !.force = TRUE])

NewApplicationParameters(p, c) ==
  LET extras == p.spec.extras
      upTo[n \in 0..Len(extras)] ==
        IF n = 0 THEN BuiltIns(p, c) ELSE Added(upTo[n - 1], extras[n])
  IN  WithPhase(upTo[Len(extras)], p.phase)

(* The names of shared files are templates over the parameters; one that   *)
(* cannot be rendered leaves an empty entry.                               *)
NewApplicationValueFiles(c) ==
  <<IF HasVariantsFolderLayout(c) THEN "variants" ELSE "plain">>
  \o (CASE SharedValueFiles(c) = "none" -> <<>>
        [] SharedValueFiles(c) = "file" -> <<"shared">>
        [] SharedValueFiles(c) = "bad"  -> <<"">>)

(* The parameters become a tree where there are shared files, and a value  *)
(* cannot have parts (convertArgoHelmParametersToMap): the reconciliation  *)
(* panics.                                                                 *)
Panics(p, c) ==
  LET parameters == NewApplicationParameters(p, c)
  IN  /\ SharedValueFiles(c) # "none"
      /\ \E i, j \in DOMAIN parameters :
           i < j /\ IsStrictPrefix(parameters[i].name, parameters[j].name)

Policy(p) ==
  IF p.phase # "deployed"
  THEN {[automated |-> {[prune |-> TRUE, selfHeal |-> FALSE]},
         options |-> {<<"Prune=true">>}, retry |-> {}]}
  ELSE IF p.spec.manualSync THEN {}
  ELSE {[automated |-> {[prune |-> FALSE, selfHeal |-> TRUE]},
         options |-> {<<>>}, retry |-> {20}]}

Helm(p, c) == [files |-> NewApplicationValueFiles(c),
               parameters |-> NewApplicationParameters(p, c),
               values |-> p.spec.extras]

Source(where, revision, path, chart, helm) ==
  [repo |-> where, revision |-> revision, path |-> path, chart |-> chart, helm |-> helm]

SingleSource(p, c) ==
  Source("target", p.spec.revision, "common/clustergroup", "", {Helm(p, c)})

MultiSource(p, c) ==
  <<Source("target", p.spec.revision, "", "", {}),
    IF p.spec.ownChart
    THEN Source("own", "main", ".", "", {Helm(p, c)})
    ELSE Source("charts", GetClusterGroupChartVersion(p, c), "", "clustergroup", {Helm(p, c)})>>

NewApplication(p, c) ==
  [destination |-> "in-cluster",
   source  |-> IF p.spec.multiSource THEN {} ELSE {SingleSource(p, c)},
   sources |-> IF p.spec.multiSource THEN {MultiSource(p, c)} ELSE {},
   policy  |-> Policy(p)]

-----------------------------------------------------------------------------
(* The comparison with the stored one.                                     *)

BothOrNeither(goal, actual, Same(_, _)) ==
  /\ goal = {} <=> actual = {}
  /\ \A g \in goal, a \in actual : Same(g, a)

Items(slice) == IF slice = {} THEN <<>> ELSE CHOOSE items \in slice : TRUE

(* An empty slice is as good as none: the API's JSON does not tell them    *)
(* apart.                                                                  *)
OptionsAreEqual(goal, actual) == goal = actual
CompareSyncOptions(goal, actual) == Items(goal) = Items(actual)

CompareSyncPolicy(goal, actual) ==
  /\ goal.automated = actual.automated
  /\ CompareSyncOptions(goal.options, actual.options)
  /\ goal.retry = actual.retry

(* The nested values are not compared.                                     *)
FilesOnly(goal, actual) == goal.files = actual.files
CompareHelm(goal, actual) ==
  goal.files = actual.files /\ goal.parameters = actual.parameters

(* Nor is the chart.                                                       *)
CompareSource(goal, actual) ==
  /\ goal.repo = actual.repo /\ goal.revision = actual.revision /\ goal.path = actual.path
  /\ BothOrNeither(goal.helm, actual.helm, CompareHelm)

CompareSources(goal, actual) ==
  /\ Len(goal) = Len(actual) /\ Len(goal) # 0
  /\ \A i \in DOMAIN goal : CompareSource(goal[i], actual[i])

(* Nor the destination.                                                    *)
CompareApplication(goal, actual) ==
  /\ BothOrNeither(goal.source, actual.source, CompareSource)
  /\ BothOrNeither(goal.sources, actual.sources, CompareSources)
  /\ BothOrNeither(goal.policy, actual.policy, CompareSyncPolicy)

-----------------------------------------------------------------------------
(* What an Application tells the chart.                                    *)

(* The sources of an Application and what Argo CD takes a parameter for.   *)
HelmsOf(a) == UNION ({s.helm : s \in a.source}
                     \union {UNION {list[i].helm : i \in DOMAIN list} : list \in a.sources})
Effective(parameters, name) ==
  LET named == {i \in DOMAIN parameters : parameters[i].name = name}
  IN  IF named = {} THEN "" ELSE parameters[Max(named)].value
Receives(a, name, value) == \A h \in HelmsOf(a) : Effective(h.parameters, name) = value

ToldToDelete(a, ph) ==
  /\ Receives(a, DeletePattern, ph)
  /\ \E policy \in a.policy : \E automated \in policy.automated : automated.prune

(* The phases in which the chart has the spokes cleared.                   *)
OfSpokes == {"DeleteSpokeChildApps", "DeleteSpoke"}
Telling == phase \in OfSpokes /\ app # {} /\ \A a \in app : ToldToDelete(a, phase)

(* told remembers for as long as the phase lasts.                          *)
Remember == told' = (Telling' \/ (told /\ phase' = phase))

-----------------------------------------------------------------------------
(* The reconciler.                                                         *)

Fault == faults < MaxFaults /\ faults' = faults + 1

Init ==
  /\ spec \in Specs /\ phase = "deployed" /\ repo \in Layouts
  /\ checkout = {} /\ app = {}
  /\ step = "idle" /\ taken = "deployed" /\ target = {} /\ latest = FALSE /\ current = FALSE
  /\ told = FALSE /\ faults = 0 /\ edits = 0

Ends ==
  step' = "idle" /\ taken' = "deployed" /\ target' = {} /\ latest' = FALSE /\ current' = FALSE

(* A Pattern that is deployed has its checkout brought up to date; one that*)
(* is being deleted is finalized from the checkout as it is.  Then what    *)
(* Argo CD shall run is built.                                             *)
Begin ==
  /\ step = "idle" /\ phase # "gone"
  /\ checkout' = IF phase = "deployed" THEN {repo} ELSE checkout
  /\ ~Panics([spec |-> spec, phase |-> phase], checkout')
  /\ step' = "reading" /\ taken' = phase /\ latest' = TRUE
  /\ target' = {NewApplication([spec |-> spec, phase |-> phase], checkout')}
  /\ UNCHANGED <<spec, phase, repo, app, current, told, faults, edits>>

Panicked ==
  /\ step = "idle" /\ phase # "gone"
  /\ checkout' = IF phase = "deployed" THEN {repo} ELSE checkout
  /\ Panics([spec |-> spec, phase |-> phase], checkout')
  /\ UNCHANGED <<spec, phase, repo, app, step, taken, target, latest, current, told, faults,
                 edits>>

Differs == \E g \in target, a \in app : ~CompareApplication(a, g)

(* The phases that tell Argo CD anything.  In that of the hub it is told   *)
(* only while there are child applications.                                *)
Tells(ph) == ph \notin {"init", "DeleteHub"}

(* The Application is read once, and what is to be done follows from that  *)
(* copy: with children the hub's Application is updated, without them the  *)
(* phase is over.                                                          *)
Read ==
  /\ step = "reading"
  /\ \/ app = {} /\ taken = "deployed" /\ step' = "creating"
     \/ Differs /\ Tells(taken) /\ step' = "updating"
     \/ /\ app # {} /\ taken \notin {"deployed", "DeleteHub"}
        /\ taken \in OfSpokes => ~Differs
        /\ step' = "advancing"
  /\ current' = TRUE
  /\ UNCHANGED <<spec, phase, repo, checkout, app, taken, target, latest, told, faults, edits>>

(* It says what it should, or a call fails.                                *)
NothingToWrite ==
  /\ step = "reading"
  /\ \/ taken = "deployed" /\ app # {} /\ ~Differs /\ UNCHANGED faults
     \/ Fault
  /\ Ends
  /\ UNCHANGED <<spec, phase, repo, checkout, app, told, edits>>

Following(ph) ==
  CASE ph = "init"                 -> {"DeleteSpokeChildApps", "DeleteHubChildApps"}
    [] ph = "DeleteSpokeChildApps" -> {"DeleteSpoke"}
    [] ph = "DeleteSpoke"          -> {"DeleteHubChildApps"}
    [] ph = "DeleteHubChildApps"   -> {"DeleteHub"}
    [] OTHER                       -> {}

(* The syncs, the lists of children and the search of the spokes follow,   *)
(* while anybody may change the Application.  The phase is over, which is  *)
(* for the hub and the clusters to tell, or it is not, or a call fails.    *)
(* The status of a Pattern that was changed cannot be written.             *)
PhaseAdvances ==
  /\ step = "advancing"
  /\ \/ latest /\ phase' \in Following(taken)
     \/ UNCHANGED phase
  /\ Ends
  /\ UNCHANGED <<spec, repo, checkout, app, faults, edits>>
  /\ Remember

(* The Application is removed, or taken for removed because it was not to  *)
(* be had: the Pattern may go, unless it was changed meanwhile.            *)
Finalized ==
  /\ step = "reading" /\ taken # "deployed"
  /\ \/ (app = {} \/ taken = "DeleteHub") /\ app' = {} /\ UNCHANGED faults
     \/ Fault /\ UNCHANGED app
  /\ phase' = IF latest THEN "gone" ELSE phase
  /\ Ends
  /\ UNCHANGED <<spec, repo, checkout, edits>>
  /\ Remember

(* What is sent and stored again: an empty slice is left out.              *)
Serialised(a) ==
  [a EXCEPT !.policy = {[policy EXCEPT !.options = @ \ {<<>>}] : policy \in @}]

(* The whole spec of the Application is replaced.                          *)
Merged(a) ==
  [Serialised(a) EXCEPT !.source = @ \union UNION {old.source : old \in app},
                        !.sources = @ \union UNION {old.sources : old \in app}]
AsSent(a) == a
Replaced(a) == Serialised(a)

(* Where an update was due the checkout is dropped with it, made or not;   *)
(* not so in a deletion.                                                   *)
Dropped == IF step = "updating" /\ taken = "deployed" THEN {} ELSE checkout

Accepted == IF step = "creating" THEN app = {} ELSE current

Write ==
  /\ step \in {"creating", "updating"} /\ Accepted
  /\ app' = {Replaced(t) : t \in target}
  /\ checkout' = Dropped
  /\ Ends
  /\ UNCHANGED <<spec, phase, repo, faults, edits>>
  /\ Remember

WriteFails ==
  /\ step \in {"creating", "updating"}
  /\ Fault \/ (~Accepted /\ UNCHANGED faults)
  /\ checkout' = Dropped
  /\ Ends
  /\ UNCHANGED <<spec, phase, repo, app, told, edits>>

Reconciler == \/ Begin \/ Panicked \/ Read \/ NothingToWrite \/ PhaseAdvances \/ Finalized
              \/ Write \/ WriteFails

(* The checkout is not kept.                                               *)
Restart ==
  /\ Fault
  /\ checkout' = {} /\ Ends
  /\ UNCHANGED <<spec, phase, repo, app, told, edits>>

-----------------------------------------------------------------------------
(* The others.                                                             *)

Edit == edits < MaxEdits /\ edits' = edits + 1

PatternChanges ==
  /\ Edit /\ phase # "gone"
  /\ \/ spec' \in Specs \ {spec} /\ UNCHANGED phase
     \/ phase = "deployed" /\ phase' = "init" /\ UNCHANGED spec
  /\ latest' = FALSE
  /\ UNCHANGED <<repo, checkout, app, step, taken, target, current, faults>>
  /\ Remember

RepositoryChanges ==
  /\ Edit
  /\ repo' \in Layouts \ {repo}
  /\ UNCHANGED <<spec, phase, checkout, app, step, taken, target, latest, current, told, faults>>

(* Users delete the Application, take its policy away or change where it   *)
(* is deployed, what revision and with which parameters.                   *)
Elsewhere(source) ==
  [source EXCEPT !.revision = "elsewhere",
                 !.helm = {[h EXCEPT !.parameters = <<>>] : h \in @}]

Drifted(a) ==
  {[a EXCEPT !.policy = {}], [a EXCEPT !.destination = "elsewhere"],
   [a EXCEPT !.source = {Elsewhere(s) : s \in @},
             !.sources = {[i \in DOMAIN s |-> Elsewhere(s[i])] : s \in @}]}

ApplicationChanges ==
  /\ Edit
  /\ \E a \in app : \/ app' = {}
                    \/ \E b \in Drifted(a) : app' = {b}
  /\ current' = FALSE
  /\ UNCHANGED <<spec, phase, repo, checkout, step, taken, target, latest, faults>>
  /\ Remember

Next == Reconciler \/ Restart \/ PatternChanges \/ RepositoryChanges \/ ApplicationChanges

Spec == Init /\ [][Next]_vars /\ WF_vars(Reconciler)

-----------------------------------------------------------------------------
(* What is true of it.                                                     *)

Helms == [files : Seq(Text), parameters : Seq(Parameters), values : Seq(Parameters)]
Sources == [repo : Text, revision : Text, path : Text, chart : Text, helm : SUBSET Helms]
Policies == [automated : SUBSET [prune : BOOLEAN, selfHeal : BOOLEAN],
             options : SUBSET {<<"Prune=true">>}, retry : SUBSET Nat]
Applications == [destination : Text, source : SUBSET Sources,
                 sources : SUBSET Seq(Sources), policy : SUBSET Policies]

(* The type of the state; an empty list of options is never stored.        *)
TypeOK ==
  /\ spec \in Specs /\ phase \in Phases /\ repo \in Layouts /\ checkout \subseteq Layouts
  /\ step \in {"idle", "reading", "advancing", "creating", "updating"} /\ taken \in Phases
  /\ latest \in BOOLEAN /\ current \in BOOLEAN /\ told \in BOOLEAN
  /\ faults \in 0..MaxFaults /\ edits \in 0..MaxEdits
  /\ app \subseteq Applications /\ \A a, b \in app : a = b
  /\ target = {} <=> step = "idle"

(* Argo CD refuses an Application with a source and a list of sources: an  *)
(* Application that changes from the one to the other never has both, nor  *)
(* none (updateApplication).                                               *)
OneKindOfSource == \A a \in app : a.source = {} <=> a.sources # {}

(* A deletion leaves a phase of the spokes only after the chart was told   *)
(* that very phase, with pruning, whatever parameters the user has added;  *)
(* and the Application still says so then, unless somebody has changed it  *)
(* while the spokes were searched, after finalizeObject had read it.       *)
SpokesAreTold ==
  [][(phase \in OfSpokes /\ phase' \notin {phase, "gone"})
     => told /\ (current => app # {} /\ \A a \in app : ToldToDelete(a, phase))]_vars

(* What Argo CD shall run for a spec and a layout of the repository: the   *)
(* revision, the version of the chart, every parameter that is not the     *)
(* operator's own, the first where it is given twice, and the policy.      *)
OperatorsOwn(name, layout) ==
  name \in {Revision, Version} \/ (layout.variants /\ name = NewFolderDir)
ReceivesExtra(a, extras, i) ==
  \E j \in 1..i : extras[j].name = extras[i].name
                 /\ Receives(a, extras[j].name, extras[j].value)
AsAsked(a, asked, layout) ==
  /\ Receives(a, Revision, asked.revision)
  /\ Receives(a, Version, GetClusterGroupChartVersion([spec |-> asked], {layout}))
  /\ layout.variants => Receives(a, NewFolderDir, "true")
  /\ \A i \in DOMAIN asked.extras :
       ~OperatorsOwn(asked.extras[i].name, layout) => ReceivesExtra(a, asked.extras, i)
  /\ (a.policy = {}) = asked.manualSync

(* Argo CD comes to run what the Pattern asks for and the repository needs,*)
(* whatever the order of the changes and whoever changed the Application.  *)
ArgoFollowsPattern ==
  <>[](phase = "deployed" /\ ~Panics([spec |-> spec, phase |-> phase], {repo}) =>
         app # {} /\ \A a \in app : AsAsked(a, spec, repo))

(* Once nothing else changes the Application is not written any more: what *)
(* the API makes of an update compares equal to what was sent.             *)
WritesEnd == <>[][~Write]_vars

(* IsCommonSlimmed: "returns true if common is the slimmed version and     *)
(* false if it is not".  The chart for a slimmed common is not put on a    *)
(* repository with the other one.                                          *)
ChartFitsTheRepository ==
  ~repo.slim => \A a \in app : ~Receives(a, Version, "0.9.*")
=============================================================================
