--------------------------- MODULE OperatorConfig ---------------------------
(***************************************************************************)
(* The operator's own objects: its ConfigMap, the pattern catalog and the  *)
(* console plugin.  Two processes see to them at the same time: one that   *)
(* the manager starts with (cmd/main.go) and each reconciliation of a      *)
(* Pattern.  Both read from the informers' caches.                         *)
(*                                                                         *)
(* What an object says is a set: the image of the catalog, the plugins of  *)
(* the Console.  {} is an object that is not there, except for the Console,*)
(* which always is.                                                        *)
(***************************************************************************)
EXTENDS PatternAdmission, Sequences

CONSTANTS
  Images,        \* images the ConfigMap may name
  DefaultImage,
  OtherPlugins,  \* console plugins of others
  Lagging,       \* the objects whose informer may be behind
  MaxFaults,     \* how many calls may fail and how often the operator may crash
  MaxEdits       \* how often users change something

ASSUME ConfigAssumption ==
  /\ {"", "data", "ours", DefaultImage} \intersect (Images \union OtherPlugins) = {}
  /\ DefaultImage \notin {"", "data", "ours"} /\ Images \intersect OtherPlugins = {}
  /\ Lagging \subseteq {"configMap", "catalogConfigMap", "service", "deployment",
                        "consolePlugin", "console"}
  /\ MaxFaults \in Nat /\ MaxEdits \in Nat

VARIABLES
  stored,   \* what the objects say
  cached,   \* what the informers' copies say
  fresh,    \* those copies are of the stored version
  step,     \* the step each process is at, 0 where the reconciler is idle
  writing,  \* it has read the object and is about to write it
  copy,     \* what it has read
  current,  \* of the stored version
  image,    \* the image it took from the ConfigMap
  faults, edits

clusterVars == <<stored, cached, fresh>>
processVars == <<step, writing, copy, current, image>>
vars == <<admissionVars, clusterVars, processVars, faults, edits>>

Objects == {"configMap", "catalogConfigMap", "service", "deployment", "consolePlugin", "console"}
Processes == {"startup", "reconcile"}
Entries == Images \union OtherPlugins \union {"", "data", "ours", DefaultImage}

Startup == <<"consolePlugin", "console", "configMap", "catalogConfigMap", "service", "deployment">>
Reconcile == <<"configMap", "catalogConfigMap", "service", "deployment", "consolePlugin", "console">>
Object(p) == IF p = "startup" THEN Startup[step[p]] ELSE Reconcile[step[p]]
Runs(p) == step[p] \in 1..6

ObjectTypes ==
  /\ stored \in [Objects -> SUBSET Entries] /\ cached \in [Objects -> SUBSET Entries]
  /\ fresh \in [Objects -> BOOLEAN]
ProcessTypes ==
  /\ step \in [Processes -> 0..7] /\ step["reconcile"] # 7
  /\ writing \in [Processes -> BOOLEAN]
  /\ copy \in [Processes -> SUBSET Entries] /\ current \in [Processes -> BOOLEAN]
  /\ image \in [Processes -> Entries]
  /\ faults \in 0..MaxFaults /\ edits \in 0..MaxEdits
TypeOK == AdmissionTypeOK /\ ObjectTypes /\ ProcessTypes

Init ==
  /\ AdmissionInit
  /\ \E config \in {{}} \union {{i} : i \in Images}, plugins \in SUBSET OtherPlugins :
       stored = [o \in Objects |-> IF o = "configMap" THEN config
                                   ELSE IF o = "console" THEN plugins ELSE {}]
  /\ cached = stored /\ fresh = [o \in Objects |-> TRUE]
  /\ step = [p \in Processes |-> IF p = "startup" THEN 1 ELSE 0]
  /\ writing = [p \in Processes |-> FALSE]
  /\ copy = [p \in Processes |-> {}] /\ current = [p \in Processes |-> FALSE]
  /\ image = [p \in Processes |-> DefaultImage]
  /\ faults = 0 /\ edits = 0

-----------------------------------------------------------------------------
(* The two processes.                                                      *)

Fault == faults < MaxFaults /\ faults' = faults + 1

(* getCatalogImage: an empty name counts as none. *)
GetCatalogImage(config) ==
  IF config \in {{}, {""}} THEN DefaultImage ELSE CHOOSE i \in config : TRUE

WantedUnlessThere(p) ==
  CASE Object(p) = "deployment" /\ copy[p] # {} -> copy[p]
    [] Object(p) = "deployment" /\ copy[p] = {} -> {image[p]}
    [] Object(p) = "configMap"  -> {""}
    [] Object(p) = "console"    -> copy[p] \union {"ours"}
    [] OTHER                    -> {"data"}
Wanted(p) ==
  CASE Object(p) = "configMap"  -> {""}
    [] Object(p) = "deployment" -> {image[p]}
    [] Object(p) = "console"    -> copy[p] \union {"ours"}
    [] OTHER                    -> {"data"}

(* What it holds of the object is given up. *)
LetGo(p) ==
  /\ writing' = [writing EXCEPT ![p] = FALSE]
  /\ copy' = [copy EXCEPT ![p] = {}]
  /\ image' = IF step'[p] \in 1..6 THEN image ELSE [image EXCEPT ![p] = DefaultImage]

(* After the last object the process is done, until the operator restarts, *)
(* or idle.  A Pattern that is being deleted is finalized instead of the   *)
(* plugin's objects.                                                       *)
Onwards(p) == step[p] + 1
After(p) ==
  IF p = "startup" THEN step[p] + 1
  ELSE IF step[p] = 6 \/ (step[p] = 4 /\ Stored \subseteq deleting) THEN 0
  ELSE step[p] + 1
Ended(p) == IF p = "startup" THEN 7 ELSE 0

Succeeds(p) == step' = [step EXCEPT ![p] = After(p)]

(* A failure ends the catalog's objects.  At startup it is logged: after a *)
(* failing plugin comes the next object, after a failing ConfigMap the     *)
(* catalog.  A reconciliation ends as a failed step, but only logs what is *)
(* wrong with the plugin.                                                  *)
Fails(p) ==
  step' = [step EXCEPT ![p] =
    IF Object(p) \in {"consolePlugin", "console"} \/ (p = "startup" /\ Object(p) = "configMap")
    THEN After(p) ELSE Ended(p)]

Begin ==
  /\ step["reconcile"] = 0 /\ listed # {}
  /\ step' = [step EXCEPT !["reconcile"] = 1]
  /\ UNCHANGED <<admissionVars, clusterVars, writing, copy, current, image, faults, edits>>

(* A ConfigMap that is there is only read, and so is a Console that names  *)
(* the plugin.                                                             *)
ConsoleOnly(p, found) == Object(p) = "console" /\ "ours" \in found
AnyPlugin(p, found) == Object(p) \in {"configMap", "console"} /\ found # {}
NothingToDo(p, found) ==
  \/ Object(p) = "configMap" /\ found # {}
  \/ Object(p) = "console" /\ "ours" \in found

Read(p) ==
  /\ Runs(p) /\ ~writing[p]
  /\ UNCHANGED faults
  /\ image' = IF Object(p) = "configMap"
              THEN [image EXCEPT ![p] = GetCatalogImage(cached["configMap"])] ELSE image
  /\ IF NothingToDo(p, cached[Object(p)])
     THEN Succeeds(p) /\ UNCHANGED <<writing, copy, current>>
     ELSE /\ writing' = [writing EXCEPT ![p] = TRUE]
          /\ copy' = [copy EXCEPT ![p] = cached[Object(p)]]
          /\ current' = [current EXCEPT ![p] = fresh[Object(p)]]
          /\ UNCHANGED step
  /\ UNCHANGED <<admissionVars, clusterVars, edits>>

(* At startup a ConfigMap that cannot be read is taken for none.           *)
ReadFails(p) ==
  /\ Runs(p) /\ ~writing[p]
  /\ Fault
  /\ IF p = "startup" /\ Object(p) = "configMap"
     THEN /\ writing' = [writing EXCEPT ![p] = TRUE]
          /\ copy' = [copy EXCEPT ![p] = {}]
          /\ UNCHANGED <<step, current, image>>
     ELSE Fails(p) /\ LetGo(p) /\ UNCHANGED current
  /\ UNCHANGED <<admissionVars, clusterVars, edits>>

(* Create needs that there is none, Update that the version is the stored. *)
AcceptedAnyway(p) == TRUE
Accepted(p) ==
  IF copy[p] = {} /\ Object(p) # "console" THEN stored[Object(p)] = {} ELSE current[p]

(* Other copies of the object are not of the stored version any more.      *)
Changes(o, content, writer) ==
  /\ stored' = [stored EXCEPT ![o] = content]
  /\ cached' = IF o \in Lagging THEN cached ELSE [cached EXCEPT ![o] = content]
  /\ fresh' = [fresh EXCEPT ![o] = @ /\ (o \in Lagging => content = stored[o])]
  /\ current' = [p \in Processes |->
       /\ current[p] /\ p # writer
       /\ Runs(p) /\ Object(p) = o => content = stored[o]]

Write(p) ==
  /\ Runs(p) /\ writing[p] /\ Accepted(p)
  /\ Changes(Object(p), Wanted(p), p)
  /\ Succeeds(p) /\ LetGo(p)
  /\ UNCHANGED <<admissionVars, faults, edits>>

WriteFails(p) ==
  /\ Runs(p) /\ writing[p]
  /\ Fault \/ (~Accepted(p) /\ UNCHANGED faults)
  /\ Fails(p) /\ LetGo(p)
  /\ current' = [current EXCEPT ![p] = FALSE]
  /\ UNCHANGED <<admissionVars, clusterVars, edits>>

Process(p) == Read(p) \/ ReadFails(p) \/ Write(p) \/ WriteFails(p)
Reconciler == Begin \/ Process("reconcile")

Crash ==
  /\ Fault
  /\ step' = [p \in Processes |-> IF p = "startup" THEN 1 ELSE 0]
  /\ writing' = [p \in Processes |-> FALSE]
  /\ copy' = [p \in Processes |-> {}] /\ current' = [p \in Processes |-> FALSE]
  /\ image' = [p \in Processes |-> DefaultImage]
  /\ cached' = stored /\ fresh' = [o \in Objects |-> TRUE]
  /\ listed' = Stored
  /\ UNCHANGED <<patterns, admitted, deleting, stored, edits>>

-----------------------------------------------------------------------------
(* The others.                                                             *)

Edit == edits < MaxEdits /\ edits' = edits + 1

(* Users configure an image, or none; delete objects, put another image    *)
(* into the Deployment; and enable and disable plugins.                    *)
Edits(o) ==
  CASE o = "configMap"  -> {{}, {""}} \union {{i} : i \in Images}
    [] o = "deployment" -> {{}} \union {{i} : i \in Images}
    [] o = "console"    -> SUBSET (OtherPlugins \union {"ours"})
    [] OTHER            -> {{}}

ObjectChanges ==
  /\ Edit
  /\ \E o \in Objects : \E content \in Edits(o) :
       content # stored[o] /\ Changes(o, content, "user")
  /\ UNCHANGED <<admissionVars, step, writing, copy, image, faults>>

PatternRequested ==
  /\ Edit
  /\ \E p \in Patterns :
       \/ \E state \in {"named", "unnamed"} : ValidateCreate(p, state) \/ ValidateUpdate(p, state)
       \/ \E annotated \in BOOLEAN : ValidateDelete(p, annotated)
  /\ UNCHANGED <<clusterVars, processVars, faults>>

PatternCompleted ==
  /\ \/ \E p \in Patterns : StoreCreated(p) \/ Finalized(p)
     \/ ListSync
  /\ UNCHANGED <<clusterVars, processVars, faults, edits>>

Sync(o) ==
  /\ ~fresh[o]
  /\ cached' = [cached EXCEPT ![o] = stored[o]] /\ fresh' = [fresh EXCEPT ![o] = TRUE]
  /\ UNCHANGED <<admissionVars, stored, processVars, faults, edits>>

Next == \/ \E p \in Processes : Process(p)
        \/ Begin \/ Crash
        \/ ObjectChanges \/ PatternRequested \/ PatternCompleted
        \/ \E o \in Objects : Sync(o)

Spec == /\ Init /\ [][Next]_vars
        /\ WF_vars(Process("startup")) /\ WF_vars(Reconciler)
        /\ WF_vars(PatternCompleted) /\ \A o \in Objects : WF_vars(Sync(o))

-----------------------------------------------------------------------------
(* What is true of it.                                                     *)

(* Creations that do not overlap leave one Pattern, and it names its       *)
(* variant or group, whatever updates follow (pattern_webhook.go).         *)
OneNamedPattern ==
  \A p \in Stored : Stored = {p} /\ patterns[p] = "named"

(* Where the two processes and users change the Console at the same time,  *)
(* the operator does not take off a plugin: its Update carries the version *)
(* that was read (EnablePlugin).                                           *)
OthersKeepTheirPlugins ==
  [][edits' = edits => stored["console"] \subseteq stored'["console"]]_vars

(* The operator creates its ConfigMap and leaves its data to the users,    *)
(* though it may take the one that is there for missing                    *)
(* (CreatePatternsOperatorConfigMap).                                      *)
ConfigIsTheUsers ==
  [][edits' = edits /\ stored["configMap"] # {} => stored'["configMap"] = stored["configMap"]]_vars

(* While there is a Pattern the catalog is there, with the image that is   *)
(* configured, whatever users delete or change, and though the two         *)
(* processes may have written it with different ones (CreateOrUpdateCatalog*)
(* in Reconcile).                                                          *)
CatalogAsConfigured ==
  <>[](Stored # {} =>
         /\ stored["deployment"] = {GetCatalogImage(stored["configMap"])}
         /\ stored["catalogConfigMap"] # {} /\ stored["service"] # {})

(* While there is a Pattern the plugin is there and enabled, also when an  *)
(* attempt has met a conflict (CreateOrUpdatePlugin, EnablePlugin).        *)
PluginIsEnabled ==
  <>[](Stored # {} => stored["consolePlugin"] # {} /\ "ours" \in stored["console"])
=============================================================================
