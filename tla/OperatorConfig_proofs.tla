------------------------ MODULE OperatorConfig_proofs ------------------------
(***************************************************************************)
(* The operator's own objects, for any number of Patterns, images, plugins,*)
(* failures, crashes and edits: two processes that write them with copies  *)
(* from informers that may be behind take nothing away from users.         *)
(***************************************************************************)
EXTENDS OperatorConfig, TLAPS

(* An informer's copy that counts as fresh says what is stored.            *)
Fresh == \A o \in Objects : fresh[o] => cached[o] = stored[o]

(* A process writes the object it is at; a copy of the stored version says *)
(* what is stored; and the ConfigMap is only written where none was found. *)
Held ==
  \A p \in Processes :
    /\ writing[p] => Runs(p)
    /\ current[p] => writing[p] /\ copy[p] = stored[Object(p)]
    /\ writing[p] /\ Object(p) = "configMap" => copy[p] = {}

ConfigInv == TypeOK /\ Fresh /\ Held

(* Without overlapping creations only one Pattern is stored or about to be,*)
(* and it is named.                                                        *)
Sole ==
  /\ \A p, q \in Patterns : p # q => patterns[p] = "absent" \/ patterns[q] = "absent"
  /\ \A p, q \in Patterns : admitted[p] # "absent" => patterns[q] = "absent"
  /\ \A p, q \in Patterns : p # q => admitted[p] = "absent" \/ admitted[q] = "absent"
  /\ \A p \in Patterns : patterns[p] # "unnamed" /\ admitted[p] # "unnamed"

-----------------------------------------------------------------------------
(* What the definitions are made of.                                       *)

LEMMA ObjectIsOne ==
  ASSUME NEW p \in Processes, Runs(p), step \in [Processes -> 0..7]
  PROVE  Object(p) \in Objects
<1>1. step[p] = 1 \/ step[p] = 2 \/ step[p] = 3 \/ step[p] = 4 \/ step[p] = 5 \/ step[p] = 6
  BY DEF Runs
<1>2. QED
  BY <1>1 DEF Object, Objects, Startup, Reconcile

LEMMA AfterIsAStep ==
  ASSUME NEW p \in Processes, Runs(p), step \in [Processes -> 0..7]
  PROVE  After(p) \in 0..7 /\ Ended(p) \in 0..7
         /\ (p = "reconcile" => After(p) # 7 /\ Ended(p) # 7)
  BY DEF After, Ended, Runs, Processes

LEMMA BoundsAreNat == MaxFaults \in Nat /\ MaxEdits \in Nat
<1>1. ConfigAssumption
  BY ConfigAssumption
<1>2. QED
  BY <1>1, ZenonT(20) DEF ConfigAssumption

LEMMA EntriesHave ==
  /\ {""} \subseteq Entries /\ {"data"} \subseteq Entries /\ {"ours"} \subseteq Entries
  /\ DefaultImage \in Entries /\ Images \subseteq Entries /\ OtherPlugins \subseteq Entries
  BY DEF Entries

LEMMA CatalogImageIsAnEntry ==
  ASSUME NEW config \in SUBSET Entries
  PROVE  GetCatalogImage(config) \in Entries
  BY EntriesHave DEF GetCatalogImage

LEMMA WantedIsEntries ==
  ASSUME NEW p \in Processes, ProcessTypes
  PROVE  Wanted(p) \in SUBSET Entries
<1>1. copy[p] \in SUBSET Entries /\ image[p] \in Entries
  BY DEF ProcessTypes
<1>2. QED
  BY <1>1, EntriesHave DEF Wanted

LEMMA EditsAreEntries ==
  ASSUME NEW o \in Objects, NEW content \in Edits(o)
  PROVE  content \in SUBSET Entries
<1>1. CASE o = "configMap"
  BY <1>1, EntriesHave DEF Edits
<1>2. CASE o = "deployment"
  BY <1>2, EntriesHave DEF Edits
<1>3. CASE o = "console"
  BY <1>3, EntriesHave DEF Edits
<1>4. CASE o \notin {"configMap", "deployment", "console"}
  BY <1>4 DEF Edits
<1>5. QED
  BY <1>1, <1>2, <1>3, <1>4
-----------------------------------------------------------------------------
(* A change of an object, by whomever.                                     *)

LEMMA ChangeOfAnObject ==
  ASSUME ObjectTypes, NEW o \in Objects, NEW content \in SUBSET Entries, NEW writer,
         Changes(o, content, writer)
  PROVE  /\ ObjectTypes'
         /\ current' \in [Processes -> BOOLEAN]
         /\ stored'[o] = content
         /\ \A other \in Objects \ {o} : stored'[other] = stored[other]
<1>1. /\ stored \in [Objects -> SUBSET Entries] /\ cached \in [Objects -> SUBSET Entries]
      /\ fresh \in [Objects -> BOOLEAN]
  BY DEF ObjectTypes
<1>2. stored' = [stored EXCEPT ![o] = content]
  BY DEF Changes
<1>3. stored' \in [Objects -> SUBSET Entries]
  BY <1>1, <1>2
<1>4. cached' = cached \/ cached' = [cached EXCEPT ![o] = content]
  BY DEF Changes
<1>5. cached' \in [Objects -> SUBSET Entries]
  BY <1>1, <1>4
<1>6. fresh' = [fresh EXCEPT ![o] = @ /\ (o \in Lagging => content = stored[o])]
  BY DEF Changes
<1>7. fresh' \in [Objects -> BOOLEAN]
  BY <1>1, <1>6
<1>8. current' \in [Processes -> BOOLEAN]
  BY DEF Changes
<1>9. QED
  BY <1>1, <1>2, <1>3, <1>5, <1>7, <1>8 DEF ObjectTypes

LEMMA ChangeKeepsFresh ==
  ASSUME ObjectTypes, Fresh, NEW o \in Objects, NEW content \in SUBSET Entries, NEW writer,
         Changes(o, content, writer)
  PROVE  Fresh'
<1>1. SUFFICES ASSUME NEW q \in Objects, fresh'[q]
               PROVE  cached'[q] = stored'[q]
  BY DEF Fresh
<1>2. CASE q # o
  BY <1>1, <1>2 DEF Changes, ObjectTypes, Fresh
<1>3. CASE q = o /\ o \in Lagging
  BY <1>1, <1>3 DEF Changes, ObjectTypes, Fresh
<1>4. CASE q = o /\ o \notin Lagging
  BY <1>1, <1>4 DEF Changes, ObjectTypes
<1>5. QED
  BY <1>2, <1>3, <1>4

(* A copy that counts as current is of an object that did not change.      *)
LEMMA ChangeOutdatesCopies ==
  ASSUME ObjectTypes, NEW o \in Objects, NEW content \in SUBSET Entries, NEW writer,
         Changes(o, content, writer), NEW p \in Processes, current'[p]
  PROVE  current[p] /\ p # writer /\ (Runs(p) => stored'[Object(p)] = stored[Object(p)])
<1>1. /\ current[p] /\ p # writer
      /\ Runs(p) /\ Object(p) = o => content = stored[o]
  BY DEF Changes
<1>2. stored' = [stored EXCEPT ![o] = content]
  BY DEF Changes
<1>3. CASE Object(p) = o
  BY <1>1, <1>2, <1>3 DEF ObjectTypes
<1>4. CASE Object(p) # o
  BY <1>1, <1>2, <1>4 DEF ObjectTypes
<1>5. QED
  BY <1>1, <1>3, <1>4

LEMMA SameStepSameObject ==
  ASSUME NEW p \in Processes, step'[p] = step[p]
  PROVE  Object(p)' = Object(p) /\ Runs(p)' = Runs(p)
  BY DEF Object, Runs
-----------------------------------------------------------------------------
(* Types. *)

LEMMA ProcessSteps ==
  ASSUME TypeOK, NEW p \in Processes, Runs(p), Succeeds(p) \/ Fails(p)
  PROVE  /\ step' \in [Processes -> 0..7] /\ step'["reconcile"] # 7
         /\ step' = [step EXCEPT ![p] = step'[p]]
<1>1. step \in [Processes -> 0..7] /\ step["reconcile"] # 7
  BY DEF TypeOK, ProcessTypes
<1>2. PICK n \in {After(p), Ended(p)} : step' = [step EXCEPT ![p] = n]
  BY DEF Succeeds, Fails
<1>3. n \in 0..7 /\ (p = "reconcile" => n # 7)
  BY <1>1, <1>2, AfterIsAStep
<1>4. QED
  BY <1>1, <1>2, <1>3

LEMMA StepsAtStart ==
  ASSUME NEW f, f = [p \in Processes |-> IF p = "startup" THEN 1 ELSE 0]
  PROVE  f \in [Processes -> 0..7] /\ f["reconcile"] # 7
  BY DEF Processes

LEMMA LetGoTypes ==
  ASSUME TypeOK, NEW p \in Processes, LetGo(p)
  PROVE  /\ writing' \in [Processes -> BOOLEAN] /\ copy' \in [Processes -> SUBSET Entries]
         /\ image' \in [Processes -> Entries]
         /\ writing' = [writing EXCEPT ![p] = FALSE] /\ copy' = [copy EXCEPT ![p] = {}]
<1>1. /\ writing \in [Processes -> BOOLEAN] /\ copy \in [Processes -> SUBSET Entries]
      /\ image \in [Processes -> Entries]
  BY DEF TypeOK, ProcessTypes
<1>2. QED
  BY <1>1, EntriesHave DEF LetGo

LEMMA AdmissionTypes ==
  ASSUME AdmissionTypeOK, PatternRequested \/ PatternCompleted
  PROVE  AdmissionTypeOK'
<1>1. CASE PatternRequested
  <2>1. PICK p \in Patterns :
          \/ \E state \in {"named", "unnamed"} : ValidateCreate(p, state) \/ ValidateUpdate(p, state)
          \/ \E annotated \in BOOLEAN : ValidateDelete(p, annotated)
    BY <1>1 DEF PatternRequested
  <2>2. CASE \E annotated \in BOOLEAN : ValidateDelete(p, annotated)
    BY <2>2 DEF ValidateDelete, AdmissionTypeOK
  <2>3. ASSUME NEW state \in {"named", "unnamed"}, ValidateCreate(p, state)
        PROVE  AdmissionTypeOK'
    BY <2>3 DEF ValidateCreate, AdmissionTypeOK, States
  <2>4. ASSUME NEW state \in {"named", "unnamed"}, ValidateUpdate(p, state)
        PROVE  AdmissionTypeOK'
    BY <2>4 DEF ValidateUpdate, AdmissionTypeOK, States
  <2>5. QED
    BY <2>1, <2>2, <2>3, <2>4
<1>2. ASSUME NEW p \in Patterns, StoreCreated(p) \/ Finalized(p)
      PROVE  AdmissionTypeOK'
  BY <1>2 DEF StoreCreated, Finalized, AdmissionTypeOK, States
<1>3. CASE ListSync
  BY <1>3 DEF ListSync, AdmissionTypeOK, Stored
<1>4. QED
  BY <1>1, <1>2, <1>3 DEF PatternCompleted

LEMMA ReadTypes ==
  ASSUME TypeOK, NEW p \in Processes, Read(p)
  PROVE  TypeOK'
<1>1. AdmissionTypeOK' /\ ObjectTypes'
  BY DEF Read, TypeOK, AdmissionTypeOK, ObjectTypes, admissionVars, clusterVars
<1>2. step \in [Processes -> 0..7] /\ cached \in [Objects -> SUBSET Entries]
      /\ fresh \in [Objects -> BOOLEAN] /\ ProcessTypes
  BY DEF TypeOK, ObjectTypes, ProcessTypes
<1>3. Object(p) \in Objects
  BY <1>2, ObjectIsOne DEF Read
<1>4. image' \in [Processes -> Entries]
  <2>1. GetCatalogImage(cached["configMap"]) \in Entries
    BY <1>2, CatalogImageIsAnEntry DEF Objects
  <2>2. QED
    BY <1>2, <2>1 DEF Read, ProcessTypes
<1>5. CASE NothingToDo(p, cached[Object(p)])
  <2>1. Succeeds(p) /\ UNCHANGED <<writing, copy, current, faults, edits>> /\ Runs(p)
    BY <1>5 DEF Read
  <2>2. step' \in [Processes -> 0..7] /\ step'["reconcile"] # 7
    BY <2>1, ProcessSteps
  <2>3. QED
    BY <1>1, <1>2, <1>4, <2>1, <2>2 DEF TypeOK, ProcessTypes
<1>6. CASE ~NothingToDo(p, cached[Object(p)])
  <2>1. /\ writing' = [writing EXCEPT ![p] = TRUE]
        /\ copy' = [copy EXCEPT ![p] = cached[Object(p)]]
        /\ current' = [current EXCEPT ![p] = fresh[Object(p)]]
        /\ UNCHANGED <<step, faults, edits>>
    BY <1>6 DEF Read
  <2>2. QED
    BY <1>1, <1>2, <1>3, <1>4, <2>1 DEF TypeOK, ProcessTypes
<1>7. QED
  BY <1>5, <1>6

LEMMA ReadFailsTypes ==
  ASSUME TypeOK, NEW p \in Processes, ReadFails(p)
  PROVE  TypeOK'
<1>1. AdmissionTypeOK' /\ ObjectTypes'
  BY DEF ReadFails, TypeOK, AdmissionTypeOK, ObjectTypes, admissionVars, clusterVars
<1>2. ProcessTypes /\ faults' \in 0..MaxFaults /\ edits' = edits /\ Runs(p)
  BY BoundsAreNat DEF TypeOK, ProcessTypes, ReadFails, Fault
<1>3. CASE p = "startup" /\ Object(p) = "configMap"
  BY <1>1, <1>2, <1>3 DEF ReadFails, TypeOK, ProcessTypes
<1>4. CASE ~(p = "startup" /\ Object(p) = "configMap")
  <2>1. Fails(p) /\ LetGo(p) /\ UNCHANGED current
    BY <1>4 DEF ReadFails
  <2>2. QED
    BY <1>1, <1>2, <2>1, ProcessSteps, LetGoTypes DEF TypeOK, ProcessTypes
<1>5. QED
  BY <1>3, <1>4

LEMMA WriteTypes ==
  ASSUME TypeOK, NEW p \in Processes, Write(p)
  PROVE  TypeOK'
<1>1. AdmissionTypeOK'
  BY DEF Write, TypeOK, AdmissionTypeOK, admissionVars
<1>2. /\ Changes(Object(p), Wanted(p), p) /\ Succeeds(p) /\ LetGo(p) /\ Runs(p)
      /\ UNCHANGED <<faults, edits>>
  BY DEF Write
<1>3. Object(p) \in Objects /\ Wanted(p) \in SUBSET Entries
  BY <1>2, ObjectIsOne, WantedIsEntries DEF TypeOK, ProcessTypes
<1>4. ObjectTypes' /\ current' \in [Processes -> BOOLEAN]
  BY <1>2, <1>3, ChangeOfAnObject DEF TypeOK
<1>5. QED
  BY <1>1, <1>2, <1>4, ProcessSteps, LetGoTypes DEF TypeOK, ProcessTypes

LEMMA WriteFailsTypes ==
  ASSUME TypeOK, NEW p \in Processes, WriteFails(p)
  PROVE  TypeOK'
<1>1. AdmissionTypeOK' /\ ObjectTypes'
  BY DEF WriteFails, TypeOK, AdmissionTypeOK, ObjectTypes, admissionVars, clusterVars
<1>2. ProcessTypes /\ faults' \in 0..MaxFaults /\ edits' = edits
  BY BoundsAreNat DEF TypeOK, ProcessTypes, WriteFails, Fault
<1>3. Fails(p) /\ LetGo(p) /\ current' = [current EXCEPT ![p] = FALSE] /\ Runs(p)
  BY DEF WriteFails
<1>4. QED
  BY <1>1, <1>2, <1>3, ProcessSteps, LetGoTypes DEF TypeOK, ProcessTypes

LEMMA OtherTypes ==
  ASSUME TypeOK,
         Begin \/ Crash \/ ObjectChanges \/ PatternRequested \/ PatternCompleted
           \/ \E o \in Objects : Sync(o)
  PROVE  TypeOK'
<1>1. CASE Begin
  BY <1>1 DEF Begin, TypeOK, AdmissionTypeOK, ObjectTypes, ProcessTypes, admissionVars, clusterVars,
              Processes
<1>2. CASE Crash
  <2>1. AdmissionTypeOK'
    BY <1>2 DEF Crash, TypeOK, AdmissionTypeOK, Stored
  <2>2. ObjectTypes'
    BY <1>2 DEF Crash, TypeOK, ObjectTypes
  <2>3. ProcessTypes'
    <3>1. step' \in [Processes -> 0..7] /\ step'["reconcile"] # 7
      BY <1>2, StepsAtStart DEF Crash
    <3>2. faults' \in 0..MaxFaults /\ edits' = edits
      BY <1>2, BoundsAreNat DEF Crash, Fault, TypeOK, ProcessTypes
    <3>3. QED
      BY <1>2, <3>1, <3>2, EntriesHave DEF Crash, TypeOK, ProcessTypes
  <2>4. QED
    BY <2>1, <2>2, <2>3 DEF TypeOK
<1>3. CASE ObjectChanges
  <2>1. PICK o \in Objects : \E content \in Edits(o) : Changes(o, content, "user")
    BY <1>3 DEF ObjectChanges
  <2>2. ObjectTypes' /\ current' \in [Processes -> BOOLEAN]
    BY <2>1, EditsAreEntries, ChangeOfAnObject DEF TypeOK
  <2>3. AdmissionTypeOK'
    BY <1>3 DEF ObjectChanges, TypeOK, AdmissionTypeOK, admissionVars
  <2>4. ProcessTypes'
    BY <1>3, <2>2, BoundsAreNat DEF ObjectChanges, TypeOK, ProcessTypes, Edit
  <2>5. QED
    BY <2>2, <2>3, <2>4 DEF TypeOK
<1>4. CASE PatternRequested
  <2>1. AdmissionTypeOK'
    BY <1>4, AdmissionTypes DEF TypeOK
  <2>2. ObjectTypes' /\ ProcessTypes'
    BY <1>4, BoundsAreNat DEF PatternRequested, TypeOK, ObjectTypes, ProcessTypes, clusterVars,
                                 processVars, Edit
  <2>3. QED
    BY <2>1, <2>2 DEF TypeOK
<1>5. CASE PatternCompleted
  <2>1. AdmissionTypeOK'
    BY <1>5, AdmissionTypes DEF TypeOK
  <2>2. ObjectTypes' /\ ProcessTypes'
    BY <1>5 DEF PatternCompleted, TypeOK, ObjectTypes, ProcessTypes, clusterVars, processVars
  <2>3. QED
    BY <2>1, <2>2 DEF TypeOK
<1>6. ASSUME NEW o \in Objects, Sync(o)
      PROVE  TypeOK'
  BY <1>6 DEF Sync, TypeOK, AdmissionTypeOK, ObjectTypes, ProcessTypes, admissionVars, processVars
<1>7. QED
  BY <1>1, <1>2, <1>3, <1>4, <1>5, <1>6

LEMMA InitIsTyped == Init => TypeOK
<1> SUFFICES ASSUME Init
             PROVE  TypeOK
  OBVIOUS
<1>1. AdmissionTypeOK
  BY DEF Init, AdmissionInit, AdmissionTypeOK, States
<1>2. ObjectTypes
  <2>1. PICK config \in {{}} \union {{i} : i \in Images}, plugins \in SUBSET OtherPlugins :
          stored = [o \in Objects |-> IF o = "configMap" THEN config
                                      ELSE IF o = "console" THEN plugins ELSE {}]
    BY DEF Init
  <2>2. config \in SUBSET Entries /\ plugins \in SUBSET Entries
    BY EntriesHave
  <2>3. stored \in [Objects -> SUBSET Entries]
    BY <2>1, <2>2
  <2>4. QED
    BY <2>3 DEF Init, ObjectTypes
<1>3. ProcessTypes
  <2>1. step \in [Processes -> 0..7] /\ step["reconcile"] # 7
    BY StepsAtStart DEF Init
  <2>2. faults \in 0..MaxFaults /\ edits \in 0..MaxEdits
    BY BoundsAreNat DEF Init
  <2>3. QED
    BY <2>1, <2>2, EntriesHave DEF Init, ProcessTypes
<1>4. QED
  BY <1>1, <1>2, <1>3 DEF TypeOK

LEMMA StepIsTyped == TypeOK /\ [Next]_vars => TypeOK'
<1> SUFFICES ASSUME TypeOK, [Next]_vars
             PROVE  TypeOK'
  OBVIOUS
<1>1. CASE Next
  BY <1>1, ReadTypes, ReadFailsTypes, WriteTypes, WriteFailsTypes, OtherTypes DEF Next, Process
<1>2. CASE UNCHANGED vars
  BY <1>2 DEF TypeOK, AdmissionTypeOK, ObjectTypes, ProcessTypes, vars, admissionVars, clusterVars,
              processVars
<1>3. QED
  BY <1>1, <1>2

(* The state keeps its type (cmd/main.go, Reconcile).                      *)
THEOREM TypeCorrect == Spec => []TypeOK
BY InitIsTyped, StepIsTyped, PTL DEF Spec
-----------------------------------------------------------------------------
(* What copies say. *)

LEMMA StepsOfOthers ==
  ASSUME TypeOK, NEW p \in Processes, Succeeds(p) \/ Fails(p), NEW q \in Processes, q # p
  PROVE  Object(q)' = Object(q) /\ Runs(q)' = Runs(q)
<1>1. step'[q] = step[q]
  BY DEF Succeeds, Fails, TypeOK, ProcessTypes
<1>2. QED
  BY <1>1, SameStepSameObject

(* A process that gives up what it holds has nothing to be current.        *)
LEMMA LetGoHolds ==
  ASSUME TypeOK, Held, NEW p \in Processes, Runs(p), Succeeds(p) \/ Fails(p), LetGo(p),
         ~current'[p],
         \A q \in Processes \ {p} :
           current'[q] => current[q] /\ stored'[Object(q)] = stored[Object(q)]
  PROVE  Held'
<1>1. SUFFICES ASSUME NEW q \in Processes
               PROVE  /\ writing'[q] => Runs(q)'
                      /\ current'[q] => writing'[q] /\ copy'[q] = stored'[Object(q)']
                      /\ writing'[q] /\ Object(q)' = "configMap" => copy'[q] = {}
  BY DEF Held
<1>2. ~writing'[p]
  BY LetGoTypes DEF TypeOK, ProcessTypes
<1>3. CASE q = p
  BY <1>2, <1>3
<1>4. CASE q # p
  <2>1. writing'[q] = writing[q] /\ copy'[q] = copy[q]
    BY <1>4, LetGoTypes DEF TypeOK, ProcessTypes
  <2>2. Object(q)' = Object(q) /\ Runs(q)' = Runs(q)
    BY <1>4, StepsOfOthers
  <2>3. current'[q] => current[q] /\ stored'[Object(q)] = stored[Object(q)]
    BY <1>4
  <2>4. QED
    BY <2>1, <2>2, <2>3 DEF Held
<1>5. QED
  BY <1>3, <1>4

LEMMA ReadHolds ==
  ASSUME ConfigInv, NEW p \in Processes, Read(p)
  PROVE  Fresh' /\ Held'
<1>1. Fresh' /\ stored' = stored
  BY DEF ConfigInv, Fresh, Read, clusterVars
<1>2. CASE NothingToDo(p, cached[Object(p)])
  <2>1. Succeeds(p) /\ UNCHANGED <<writing, copy, current>> /\ ~writing[p]
    BY <1>2 DEF Read
  <2>2. ASSUME NEW q \in Processes, q # p
        PROVE  Object(q)' = Object(q) /\ Runs(q)' = Runs(q)
    BY <2>1, <2>2, StepsOfOthers DEF ConfigInv
  <2>3. QED
    BY <1>1, <2>1, <2>2 DEF ConfigInv, Held
<1>3. CASE ~NothingToDo(p, cached[Object(p)])
  <2>1. /\ writing' = [writing EXCEPT ![p] = TRUE]
        /\ copy' = [copy EXCEPT ![p] = cached[Object(p)]]
        /\ current' = [current EXCEPT ![p] = fresh[Object(p)]]
        /\ UNCHANGED step /\ Runs(p)
    BY <1>3 DEF Read
  <2>2. writing'[p] /\ copy'[p] = cached[Object(p)] /\ current'[p] = fresh[Object(p)]
    BY <2>1 DEF ConfigInv, TypeOK, ProcessTypes
  <2>3. \A q \in Processes \ {p} : /\ writing'[q] = writing[q] /\ copy'[q] = copy[q]
                                  /\ current'[q] = current[q]
    BY <2>1 DEF ConfigInv, TypeOK, ProcessTypes
  <2>4. \A q \in Processes : Object(q)' = Object(q) /\ Runs(q)' = Runs(q)
    BY <2>1, SameStepSameObject
  <2>5. Object(p) \in Objects
    BY <2>1, ObjectIsOne DEF ConfigInv, TypeOK, ProcessTypes
  <2>6. current'[p] => copy'[p] = stored'[Object(p)]
    BY <1>1, <2>2, <2>5 DEF ConfigInv, Fresh
  <2>7. Object(p) = "configMap" => copy'[p] = {}
    BY <1>3, <2>2 DEF NothingToDo
  <2>8. QED
    BY <1>1, <2>1, <2>2, <2>3, <2>4, <2>6, <2>7 DEF ConfigInv, Held
<1>4. QED
  BY <1>1, <1>2, <1>3

LEMMA ReadFailsHolds ==
  ASSUME ConfigInv, NEW p \in Processes, ReadFails(p)
  PROVE  Fresh' /\ Held'
<1>1. Fresh' /\ stored' = stored
  BY DEF ConfigInv, Fresh, ReadFails, clusterVars
<1>2. ~writing[p] /\ ~current[p] /\ Runs(p)
  BY DEF ConfigInv, Held, ReadFails
<1>3. CASE p = "startup" /\ Object(p) = "configMap"
  <2>1. /\ writing' = [writing EXCEPT ![p] = TRUE] /\ copy' = [copy EXCEPT ![p] = {}]
        /\ UNCHANGED <<step, current>>
    BY <1>3 DEF ReadFails
  <2>2. \A q \in Processes : Object(q)' = Object(q) /\ Runs(q)' = Runs(q)
    BY <2>1, SameStepSameObject
  <2>3. copy'[p] = {}
    BY <2>1 DEF ConfigInv, TypeOK, ProcessTypes
  <2>4. \A q \in Processes \ {p} : writing'[q] = writing[q] /\ copy'[q] = copy[q]
    BY <2>1 DEF ConfigInv, TypeOK, ProcessTypes
  <2>5. QED
    BY <1>1, <1>2, <2>1, <2>2, <2>3, <2>4 DEF ConfigInv, Held
<1>4. CASE ~(p = "startup" /\ Object(p) = "configMap")
  <2>1. Fails(p) /\ LetGo(p) /\ UNCHANGED current
    BY <1>4 DEF ReadFails
  <2>2. QED
    BY <1>1, <1>2, <2>1, LetGoHolds DEF ConfigInv
<1>5. QED
  BY <1>1, <1>3, <1>4

LEMMA WriteHolds ==
  ASSUME ConfigInv, NEW p \in Processes, Write(p)
  PROVE  Fresh' /\ Held'
<1>1. Changes(Object(p), Wanted(p), p) /\ Succeeds(p) /\ LetGo(p) /\ Runs(p) /\ ObjectTypes
  BY DEF Write, ConfigInv, TypeOK
<1>2. Object(p) \in Objects /\ Wanted(p) \in SUBSET Entries
  BY <1>1, ObjectIsOne, WantedIsEntries DEF ConfigInv, TypeOK, ProcessTypes
<1>3. Fresh'
  BY <1>1, <1>2, ChangeKeepsFresh DEF ConfigInv
<1>4. ~current'[p]
  BY <1>1, <1>2, ChangeOutdatesCopies
<1>5. ASSUME NEW q \in Processes \ {p}, current'[q]
      PROVE  current[q] /\ stored'[Object(q)] = stored[Object(q)]
  <2>1. current[q] /\ (Runs(q) => stored'[Object(q)] = stored[Object(q)])
    BY <1>1, <1>2, <1>5, ChangeOutdatesCopies
  <2>2. QED
    BY <2>1 DEF ConfigInv, Held
<1>6. QED
  BY <1>1, <1>3, <1>4, <1>5, LetGoHolds DEF ConfigInv

LEMMA WriteFailsHolds ==
  ASSUME ConfigInv, NEW p \in Processes, WriteFails(p)
  PROVE  Fresh' /\ Held'
<1>1. Fresh' /\ stored' = stored
  BY DEF ConfigInv, Fresh, WriteFails, clusterVars
<1>2. Fails(p) /\ LetGo(p) /\ Runs(p) /\ current' = [current EXCEPT ![p] = FALSE]
  BY DEF WriteFails
<1>3. ~current'[p] /\ \A q \in Processes \ {p} : current'[q] = current[q]
  BY <1>2 DEF ConfigInv, TypeOK, ProcessTypes
<1>4. QED
  BY <1>1, <1>2, <1>3, LetGoHolds DEF ConfigInv

LEMMA OthersHold ==
  ASSUME ConfigInv,
         Begin \/ Crash \/ ObjectChanges \/ PatternRequested \/ PatternCompleted
           \/ \E o \in Objects : Sync(o)
  PROVE  Fresh' /\ Held'
<1>1. CASE Begin
  <2>1. ~writing["reconcile"]
    BY <1>1 DEF Begin, ConfigInv, Held, Runs, Processes
  <2>2. step'["startup"] = step["startup"]
    BY <1>1 DEF Begin, ConfigInv, TypeOK, ProcessTypes, Processes
  <2>3. Object("startup")' = Object("startup") /\ Runs("startup")' = Runs("startup")
    BY <2>2, SameStepSameObject DEF Processes
  <2>4. UNCHANGED <<stored, cached, fresh, writing, copy, current>>
    BY <1>1 DEF Begin, clusterVars
  <2>5. QED
    BY <2>1, <2>3, <2>4 DEF ConfigInv, Fresh, Held, Processes
<1>2. CASE Crash
  BY <1>2 DEF Crash, Fresh, Held
<1>3. CASE ObjectChanges
  <2>1. PICK o \in Objects : \E content \in Edits(o) : Changes(o, content, "user")
    BY <1>3 DEF ObjectChanges
  <2>2. PICK content \in SUBSET Entries : Changes(o, content, "user")
    BY <2>1, EditsAreEntries
  <2>3. ObjectTypes
    BY DEF ConfigInv, TypeOK
  <2>4. Fresh'
    BY <2>2, <2>3, ChangeKeepsFresh DEF ConfigInv
  <2>5. \A q \in Processes :
          current'[q] => current[q] /\ (Runs(q) => stored'[Object(q)] = stored[Object(q)])
    BY <2>2, <2>3, ChangeOutdatesCopies
  <2>6. UNCHANGED <<step, writing, copy>>
    BY <1>3 DEF ObjectChanges
  <2>7. \A q \in Processes : Object(q)' = Object(q) /\ Runs(q)' = Runs(q)
    BY <2>6, SameStepSameObject
  <2>8. QED
    BY <2>4, <2>5, <2>6, <2>7 DEF ConfigInv, Held
<1>4. CASE PatternRequested \/ PatternCompleted
  <2>1. UNCHANGED <<stored, cached, fresh, step, writing, copy, current>>
    BY <1>4 DEF PatternRequested, PatternCompleted, clusterVars, processVars
  <2>2. \A q \in Processes : Object(q)' = Object(q) /\ Runs(q)' = Runs(q)
    BY <2>1, SameStepSameObject
  <2>3. QED
    BY <2>1, <2>2 DEF ConfigInv, Fresh, Held
<1>5. ASSUME NEW o \in Objects, Sync(o)
      PROVE  Fresh' /\ Held'
  <2>1. UNCHANGED <<stored, step, writing, copy, current>>
    BY <1>5 DEF Sync, processVars
  <2>2. \A q \in Processes : Object(q)' = Object(q) /\ Runs(q)' = Runs(q)
    BY <2>1, SameStepSameObject
  <2>3. Fresh'
    BY <1>5 DEF Sync, ConfigInv, Fresh, TypeOK, ObjectTypes
  <2>4. QED
    BY <2>1, <2>2, <2>3 DEF ConfigInv, Held
<1>6. QED
  BY <1>1, <1>2, <1>3, <1>4, <1>5

LEMMA InitHolds == Init => ConfigInv
BY InitIsTyped DEF Init, ConfigInv, Fresh, Held

LEMMA StepHolds == ConfigInv /\ [Next]_vars => ConfigInv'
<1> SUFFICES ASSUME ConfigInv, [Next]_vars
             PROVE  ConfigInv'
  OBVIOUS
<1>1. TypeOK'
  BY StepIsTyped DEF ConfigInv
<1>2. CASE Next
  BY <1>1, <1>2, ReadHolds, ReadFailsHolds, WriteHolds, WriteFailsHolds, OthersHold
     DEF Next, Process, ConfigInv
<1>3. CASE UNCHANGED vars
  <2>1. \A q \in Processes : Object(q)' = Object(q) /\ Runs(q)' = Runs(q)
    BY <1>3, SameStepSameObject DEF vars, processVars
  <2>2. QED
    BY <1>1, <1>3, <2>1 DEF ConfigInv, Fresh, Held, vars, clusterVars, processVars
<1>4. QED
  BY <1>2, <1>3

LEMMA ConfigInvHolds == Spec => []ConfigInv
BY InitHolds, StepHolds, PTL DEF Spec

-----------------------------------------------------------------------------
(* What the operator leaves to the users. *)

(* An update is accepted of the copy that is of the stored version, a      *)
(* creation where there is nothing.                                        *)
LEMMA WriteOnWhatIsStored ==
  ASSUME ConfigInv, NEW p \in Processes, Write(p)
  PROVE  /\ Object(p) \in Objects /\ Wanted(p) \in SUBSET Entries
         /\ Changes(Object(p), Wanted(p), p)
         /\ Object(p) = "console" => copy[p] = stored["console"]
         /\ Object(p) = "configMap" => stored["configMap"] = {}
<1>1. Changes(Object(p), Wanted(p), p) /\ Accepted(p) /\ writing[p] /\ Runs(p)
  BY DEF Write
<1>2. Object(p) \in Objects /\ Wanted(p) \in SUBSET Entries
  BY <1>1, ObjectIsOne, WantedIsEntries DEF ConfigInv, TypeOK, ProcessTypes
<1>3. Object(p) = "console" => copy[p] = stored["console"]
  BY <1>1 DEF Accepted, ConfigInv, Held
<1>4. Object(p) = "configMap" => stored["configMap"] = {}
  BY <1>1 DEF Accepted, ConfigInv, Held
<1>5. QED
  BY <1>1, <1>2, <1>3, <1>4

LEMMA WriteTakesNothing ==
  ASSUME ConfigInv, NEW p \in Processes, Write(p)
  PROVE  /\ stored["console"] \subseteq stored'["console"]
         /\ stored["configMap"] # {} => stored'["configMap"] = stored["configMap"]
<1>1. /\ Object(p) \in Objects /\ Wanted(p) \in SUBSET Entries
      /\ Changes(Object(p), Wanted(p), p) /\ ObjectTypes
      /\ Object(p) = "console" => copy[p] = stored["console"]
      /\ Object(p) = "configMap" => stored["configMap"] = {}
  BY WriteOnWhatIsStored DEF ConfigInv, TypeOK
<1>2. /\ stored'[Object(p)] = Wanted(p)
      /\ \A other \in Objects \ {Object(p)} : stored'[other] = stored[other]
  BY <1>1, ChangeOfAnObject
<1>3. {"console", "configMap"} \subseteq Objects
  BY DEF Objects
<1>4. CASE Object(p) = "console"
  <2>1. Wanted(p) = copy[p] \union {"ours"}
    BY <1>4 DEF Wanted
  <2>2. QED
    BY <1>1, <1>2, <1>3, <1>4, <2>1
<1>5. CASE Object(p) # "console"
  BY <1>1, <1>2, <1>3, <1>5
<1>6. QED
  BY <1>4, <1>5

LEMMA StepTakesNothing ==
  ASSUME ConfigInv, [Next]_vars, edits' = edits
  PROVE  /\ stored["console"] \subseteq stored'["console"]
         /\ stored["configMap"] # {} => stored'["configMap"] = stored["configMap"]
<1>1. edits \in Nat
  BY BoundsAreNat DEF ConfigInv, TypeOK, ProcessTypes
<1>2. ASSUME NEW p \in Processes, Process(p)
      PROVE  Write(p) \/ stored' = stored
  BY <1>2 DEF Process, Read, ReadFails, WriteFails, clusterVars
<1>3. ~ObjectChanges /\ ~PatternRequested
  BY <1>1 DEF ObjectChanges, PatternRequested, Edit
<1>4. CASE Begin \/ Crash \/ PatternCompleted \/ \E o \in Objects : Sync(o)
  BY <1>4 DEF Begin, Crash, PatternCompleted, Sync, clusterVars
<1>5. CASE UNCHANGED vars
  BY <1>5 DEF vars, clusterVars
<1>6. QED
  BY <1>2, <1>3, <1>4, <1>5, WriteTakesNothing DEF Next

(* Two processes and users change the Console; the operator takes no       *)
(* plugin off it (EnablePlugin).                                           *)
THEOREM OthersPluginsStay == Spec => OthersKeepTheirPlugins
<1>1. ConfigInv /\ [Next]_vars
        => [edits' = edits => stored["console"] \subseteq stored'["console"]]_vars
  BY StepTakesNothing
<1>2. QED
  BY <1>1, ConfigInvHolds, PTL DEF Spec, OthersKeepTheirPlugins

(* The operator leaves the data of its ConfigMap to the users              *)
(* (CreatePatternsOperatorConfigMap).                                      *)
THEOREM ConfigStaysTheUsers == Spec => ConfigIsTheUsers
<1>1. ConfigInv /\ [Next]_vars
        => [edits' = edits /\ stored["configMap"] # {}
              => stored'["configMap"] = stored["configMap"]]_vars
  BY StepTakesNothing
<1>2. QED
  BY <1>1, ConfigInvHolds, PTL DEF Spec, ConfigIsTheUsers

-----------------------------------------------------------------------------
(* One Pattern. *)

LEMMA SoleAtStart == Init => Sole
<1> SUFFICES ASSUME Init
             PROVE  Sole
  OBVIOUS
<1>1. PICK existing \in {{}} \union {{p} : p \in Patterns} :
        patterns = [p \in Patterns |-> IF p \in existing THEN "named" ELSE "absent"]
  BY DEF Init, AdmissionInit
<1>2. \A p, q \in existing : p = q
  OBVIOUS
<1>3. admitted = [p \in Patterns |-> "absent"]
  BY DEF Init, AdmissionInit
<1>4. QED
  BY <1>1, <1>2, <1>3 DEF Sole

(* A creation is validated only where no other is under way and the list   *)
(* is up to date.                                                          *)
LEMMA ValidateCreateSole ==
  ASSUME AdmissionTypeOK, Slips = {}, Sole, NEW p \in Patterns, NEW state,
         ValidateCreate(p, state)
  PROVE  Sole'
<1>1. /\ patterns' = patterns /\ admitted' = [admitted EXCEPT ![p] = state] /\ state = "named"
      /\ listed = {} /\ ~Overlapping
  BY DEF ValidateCreate, ValidVariantAlias, NoneListed
<1>2. \A q \in Patterns : patterns[q] = "absent" /\ admitted[q] = "absent"
  BY <1>1 DEF Overlapping, Stored
<1>3. \A q \in Patterns : admitted'[q] = IF q = p THEN "named" ELSE "absent"
  BY <1>1, <1>2 DEF AdmissionTypeOK
<1>4. QED
  BY <1>1, <1>2, <1>3 DEF Sole

LEMMA AdmissionStepSole ==
  ASSUME AdmissionTypeOK, Slips = {}, Sole, PatternRequested \/ PatternCompleted
  PROVE  Sole'
<1>1. patterns \in [Patterns -> States] /\ admitted \in [Patterns -> States]
  BY DEF AdmissionTypeOK
<1>2. CASE PatternRequested
  <2>1. PICK p \in Patterns :
          \/ \E state \in {"named", "unnamed"} : ValidateCreate(p, state) \/ ValidateUpdate(p, state)
          \/ \E annotated \in BOOLEAN : ValidateDelete(p, annotated)
    BY <1>2 DEF PatternRequested
  <2>2. CASE \E annotated \in BOOLEAN : ValidateDelete(p, annotated)
    BY <2>2 DEF ValidateDelete, Sole
  <2>3. ASSUME NEW state \in {"named", "unnamed"}, ValidateUpdate(p, state)
        PROVE  Sole'
    <3>1. /\ patterns' = [patterns EXCEPT ![p] = "named"] /\ patterns[p] # "absent"
          /\ admitted' = admitted
      BY <2>3 DEF ValidateUpdate, ValidVariantAlias, Stored
    <3>2. \A q \in Patterns : patterns'[q] = IF q = p THEN "named" ELSE patterns[q]
      BY <1>1, <3>1
    <3>3. QED
      BY <3>1, <3>2 DEF Sole
  <2>4. QED
    BY <2>1, <2>2, <2>3, ValidateCreateSole
<1>3. ASSUME NEW p \in Patterns, StoreCreated(p)
      PROVE  Sole'
  <2>1. \A q \in Patterns : /\ patterns'[q] = IF q = p THEN admitted[p] ELSE patterns[q]
                           /\ admitted'[q] = IF q = p THEN "absent" ELSE admitted[q]
    BY <1>1, <1>3 DEF StoreCreated
  <2>2. admitted[p] # "absent"
    BY <1>3 DEF StoreCreated
  <2>3. QED
    BY <2>1, <2>2 DEF Sole
<1>4. ASSUME NEW p \in Patterns, Finalized(p)
      PROVE  Sole'
  <2>1. admitted' = admitted
        /\ \A q \in Patterns : patterns'[q] = IF q = p THEN "absent" ELSE patterns[q]
    BY <1>1, <1>4 DEF Finalized
  <2>2. QED
    BY <2>1 DEF Sole
<1>5. CASE ListSync
  BY <1>5 DEF ListSync, Sole
<1>6. QED
  BY <1>2, <1>3, <1>4, <1>5 DEF PatternCompleted

LEMMA StepSole == TypeOK /\ Slips = {} /\ Sole /\ [Next]_vars => Sole'
<1> SUFFICES ASSUME TypeOK, Slips = {}, Sole, [Next]_vars
             PROVE  Sole'
  OBVIOUS
<1>1. CASE PatternRequested \/ PatternCompleted
  BY <1>1, AdmissionStepSole DEF TypeOK
<1>2. CASE UNCHANGED <<patterns, admitted>>
  BY <1>2 DEF Sole
<1>3. ASSUME NEW p \in Processes, Process(p)
      PROVE  UNCHANGED <<patterns, admitted>>
  BY <1>3 DEF Process, Read, ReadFails, Write, WriteFails, admissionVars
<1>4. CASE Begin \/ Crash \/ ObjectChanges \/ (\E o \in Objects : Sync(o)) \/ UNCHANGED vars
  BY <1>2, <1>4 DEF Begin, Crash, ObjectChanges, Sync, vars, admissionVars
<1>5. QED
  BY <1>1, <1>2, <1>3, <1>4 DEF Next

(* Creations that do not overlap leave one Pattern, which names its variant*)
(* or group (ValidateCreate, ValidateUpdate).                              *)
THEOREM OnePatternIsNamed ==
  ASSUME Slips = {}
  PROVE  Spec => []OneNamedPattern
<1>1. Init => TypeOK /\ Slips = {} /\ Sole
  BY InitIsTyped, SoleAtStart
<1>2. TypeOK /\ Slips = {} /\ Sole /\ [Next]_vars => TypeOK' /\ (Slips = {})' /\ Sole'
  BY StepIsTyped, StepSole
<1>3. TypeOK /\ Slips = {} /\ Sole => OneNamedPattern
  BY DEF TypeOK, AdmissionTypeOK, Sole, OneNamedPattern, Stored, States
<1>4. QED
  BY <1>1, <1>2, <1>3, PTL DEF Spec
=============================================================================
