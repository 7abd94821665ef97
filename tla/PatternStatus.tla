--------------------------- MODULE PatternStatus ---------------------------
(***************************************************************************)
(* The status of an installed Pattern and who writes it in a               *)
(* reconciliation: the analytics events of internal/controller/analytics.go*)
(* with the bits that record them, the list of Applications                *)
(* (updatePatternCRDetails), the condition for missing values files and    *)
(* LastStep.  All of them are changes of one copy, stored now and then     *)
(* with optimistic locking; the events are sent at once.                   *)
(***************************************************************************)
EXTENDS Naturals, FiniteSets

CONSTANTS
  Names,      \* names of the pattern's Applications
  Healths,    \* what Argo CD says of one: its sync and its health
  Chosen,     \* UUIDs a user may specify; the generated ones are numbers
  MaxFaults,  \* how many calls may fail and how often the operator may crash
  MaxEdits,   \* how often Applications, values files and the Pattern change
  MaxHours    \* how often the time between two refresh events goes by

ASSUME StatusAssumption ==
  /\ "none" \notin Healths /\ IsFiniteSet(Names) /\ Chosen \intersect Nat = {}
  /\ MaxFaults \in Nat /\ MaxEdits \in Nat /\ MaxHours \in Nat

VARIABLES
  stored,        \* the stored Pattern: its status and the UUID of its spec
  cache,         \* the informer's copy of it
  cacheCurrent,
  queued,        \* the Pattern is in the work queue
  timer,         \* it will be, by a delayed or rate-limited request
  applications,  \* the Applications Argo CD has
  valuesFile,    \* the values files the Pattern requires are there
  sentInstallInfo, sentStartEvent,
  due,           \* hasIntervalPassed(lastEndEvent)
  pc,            \* what Reconcile does next
  status,        \* its copy of the Pattern
  instCurrent,   \* of the stored version
  count,         \* how often each event has been sent: 0, 1, more
  users,         \* the UUIDs they carried
  generated,     \* how many UUIDs have been generated
  lost,          \* events and UUIDs a reconciliation could not record
  faults, edits, hours

cacheVars   == <<cache, cacheCurrent>>
queueVars   == <<queued, timer>>
clusterVars == <<applications, valuesFile>>
memoryVars  == <<sentInstallInfo, sentStartEvent, due>>
sentVars    == <<count, users, generated>>
budgetVars  == <<faults, edits, hours>>
vars == <<stored, cacheVars, queueVars, clusterVars, memoryVars, pc, status,
          instCurrent, sentVars, lost, budgetVars>>

(* AnalyticsSentIdentify and the others, the positions of their bits. *)
Identify == 0
Start    == 1
End      == 2
Refresh  == 3
Events   == Identify..Refresh

Weight(pos) == CASE pos = 0 -> 1 [] pos = 1 -> 2 [] pos = 2 -> 4 [] pos = 3 -> 8
HasBit(n, pos) == (n \div Weight(pos)) % 2 = 1

(* Mutant: the bit is added whether it is there or not. *)
SetBitAdds(n, pos) == n + Weight(pos)
SetBit(n, pos) == IF HasBit(n, pos) THEN n ELSE n + Weight(pos)

Steps == {"", "Updated status with identity sent", "Updated status with start event sent",
          "updated application", "prerequisite validation",
          "update pattern application status", "reconcile complete"}

Listing == [Names -> Healths \union {"none"}]

(* missing: the condition and, of the time it was updated, the second.     *)
(* asked: spec.analyticsUUID, which only users write; 0 stands for none.   *)
Status == [uuid: Nat, sent: 0..15, applications: Listing, step: Steps,
           missing: {"no", "odd", "even"}, asked: Chosen \union {0}]

Calls == {"idle", "identify", "start", "work", "details", "end", "complete", "report"}

CopyTypes ==
  /\ stored \in Status /\ cache \in Status /\ status \in Status
  /\ cacheCurrent \in BOOLEAN /\ instCurrent \in BOOLEAN

WorldTypes ==
  /\ queued \in BOOLEAN /\ timer \in BOOLEAN
  /\ applications \in Listing /\ valuesFile \in BOOLEAN
  /\ sentInstallInfo \in BOOLEAN /\ sentStartEvent \in BOOLEAN /\ due \in BOOLEAN
  /\ pc \in Calls

EventTypes ==
  /\ count \in [Events -> 0..2] /\ generated \in Nat
  /\ users \subseteq 1..generated \union Chosen
  /\ lost \in [events: SUBSET Events, uuid: BOOLEAN]

BudgetTypes ==
  faults \in 0..MaxFaults /\ edits \in 0..MaxEdits /\ hours \in 0..MaxHours

(* Every variable has its type; analyticsSent stays a field of four bits,  *)
(* however often events are sent.                                          *)
TypeOK == CopyTypes /\ WorldTypes /\ EventTypes /\ BudgetTypes

NoStatus == [uuid |-> 0, sent |-> 0, applications |-> [n \in Names |-> "none"],
             step |-> "", missing |-> "no", asked |-> 0]

(* A Pattern nobody has reported on, and what Argo CD may have by then. *)
Init ==
  /\ \E u \in Chosen \union {0} : stored = [NoStatus EXCEPT !.asked = u]
  /\ cache = stored /\ cacheCurrent = TRUE
  /\ queued = TRUE /\ timer = FALSE
  /\ applications \in Listing /\ valuesFile = TRUE
  /\ sentInstallInfo = FALSE /\ sentStartEvent = FALSE /\ due = TRUE
  /\ pc = "idle" /\ status = NoStatus /\ instCurrent = FALSE
  /\ count = [e \in Events |-> 0] /\ users = {} /\ generated = 0
  /\ lost = [events |-> {}, uuid |-> FALSE]
  /\ faults = MaxFaults /\ edits = MaxEdits /\ hours = MaxHours

Fault == faults > 0 /\ faults' = faults - 1 /\ UNCHANGED <<edits, hours>>
Edit  == edits > 0 /\ edits' = edits - 1 /\ UNCHANGED <<faults, hours>>
NoFault == UNCHANGED budgetVars

-----------------------------------------------------------------------------
(* Mutant: the version is not compared. *)
WriteForced(s) ==
  IF s # stored THEN stored' = s /\ cacheCurrent' = FALSE
                ELSE UNCHANGED <<stored, cacheCurrent>>

(* Status().Update: refused when the copy is old, no event when it changes *)
(* nothing.                                                                *)
Write(s) ==
  IF instCurrent /\ s # stored
    THEN stored' = s /\ cacheCurrent' = FALSE
    ELSE UNCHANGED <<stored, cacheCurrent>>

NotStored == UNCHANGED <<stored, cacheCurrent>>

(* The reconciliation ends; what its copy s has and the stored status has  *)
(* not is lost.                                                            *)
Return(s) ==
  /\ pc' = "idle" /\ status' = NoStatus /\ instCurrent' = FALSE
  /\ lost' = [events |-> lost.events
                 \union {e \in Events : HasBit(s.sent, e) /\ ~HasBit(stored'.sent, e)},
              uuid |-> lost.uuid \/ s.uuid \notin {0, stored'.uuid}]

(* Mutant: a generated UUID is not kept in the status. *)
GetNewUUIDNotKept ==
  IF status.asked # 0 THEN [user |-> status.asked, kept |-> status.uuid]
                      ELSE [user |-> generated + 1, kept |-> 0]

(* getNewUUID: the one the user specified, which the status does not keep, *)
(* or the one of the status, or a new one, which is kept there.            *)
GetNewUUID ==
  IF status.asked # 0     THEN [user |-> status.asked, kept |-> status.uuid]
  ELSE IF status.uuid # 0 THEN [user |-> status.uuid, kept |-> status.uuid]
                          ELSE [user |-> generated + 1, kept |-> generated + 1]

(* What an event needs is computed, the UUID too, and then it is sent. *)
Compose == generated' = IF GetNewUUID.user = generated + 1 THEN generated + 1 ELSE generated

Sent(e) ==
  /\ NoFault /\ Compose
  /\ count' = [count EXCEPT ![e] = IF @ = 2 THEN 2 ELSE @ + 1]
  /\ users' = users \union {GetNewUUID.user}

SendFails == Fault /\ Compose /\ UNCHANGED <<count, users>>

NotSent == NoFault /\ UNCHANGED sentVars

-----------------------------------------------------------------------------
Get ==
  /\ pc = "idle" /\ queued /\ pc' = "identify"
  /\ queued' = FALSE /\ status' = cache /\ instCurrent' = cacheCurrent
  /\ UNCHANGED <<stored, cacheVars, timer, clusterVars, memoryVars, sentVars, lost, budgetVars>>

SendPatternInstallationInfo ==
  /\ pc = "identify"
  /\ LET skip == sentInstallInfo \/ HasBit(status.sent, Identify)
         withUUID == [status EXCEPT !.uuid = GetNewUUID.kept]
     IN  \/ skip /\ NotSent /\ pc' = "start" /\ UNCHANGED <<status, sentInstallInfo>>
         \/ /\ ~skip /\ SendFails /\ pc' = "start"
            /\ status' = withUUID /\ UNCHANGED sentInstallInfo
         \/ /\ ~skip /\ Sent(Identify) /\ pc' = "report"
            /\ status' = [withUUID EXCEPT !.sent = SetBit(@, Identify),
                                          !.step = "Updated status with identity sent"]
            /\ sentInstallInfo' = TRUE
  /\ UNCHANGED <<stored, cacheVars, queueVars, clusterVars, sentStartEvent, due, instCurrent, lost>>

(* Mutant: only the status is asked whether the event has been sent. *)
SendPatternStartEventInfoStatusOnly ==
  /\ pc = "start"
  /\ LET skip == HasBit(status.sent, Start)
         withUUID == [status EXCEPT !.uuid = GetNewUUID.kept]
     IN  \/ skip /\ NotSent /\ pc' = "work" /\ UNCHANGED <<status, sentStartEvent>>
         \/ /\ ~skip /\ SendFails /\ pc' = "work"
            /\ status' = withUUID /\ UNCHANGED sentStartEvent
         \/ /\ ~skip /\ Sent(Start) /\ pc' = "report"
            /\ status' = [withUUID EXCEPT !.sent = SetBit(@, Start),
                                          !.step = "Updated status with start event sent"]
            /\ sentStartEvent' = TRUE
  /\ UNCHANGED <<stored, cacheVars, queueVars, clusterVars, sentInstallInfo, due, instCurrent, lost>>

SendPatternStartEventInfo ==
  /\ pc = "start"
  /\ LET skip == sentStartEvent \/ HasBit(status.sent, Start)
         withUUID == [status EXCEPT !.uuid = GetNewUUID.kept]
     IN  \/ skip /\ NotSent /\ pc' = "work" /\ UNCHANGED <<status, sentStartEvent>>
         \/ /\ ~skip /\ SendFails /\ pc' = "work"
            /\ status' = withUUID /\ UNCHANGED sentStartEvent
         \/ /\ ~skip /\ Sent(Start) /\ pc' = "report"
            /\ status' = [withUUID EXCEPT !.sent = SetBit(@, Start),
                                          !.step = "Updated status with start event sent"]
            /\ sentStartEvent' = TRUE
  /\ UNCHANGED <<stored, cacheVars, queueVars, clusterVars, sentInstallInfo, due, instCurrent, lost>>

(* Everything from the Subscription to the validation of the site values:  *)
(* it may find values files missing, which is a condition with the time of *)
(* now; it may fail, or have something to do, before or after that is      *)
(* looked at (any failure is reported like this one); or it goes through.  *)
Work ==
  /\ pc = "work"
  /\ \/ /\ ~valuesFile /\ NoFault /\ pc' = "report"
        /\ \E now \in {"odd", "even"} :
             status' = [status EXCEPT !.missing = now, !.step = "prerequisite validation"]
     \/ /\ Fault /\ pc' = "report"
        /\ \E m \in {"no", status.missing} :
             status' = [status EXCEPT !.missing = m, !.step = "prerequisite validation"]
     \/ /\ Edit /\ pc' = "report"
        /\ \E m \in {"no", status.missing} :
             /\ m = status.missing \/ valuesFile
             /\ status' = [status EXCEPT !.missing = m, !.step = "updated application"]
     \/ /\ valuesFile /\ NoFault /\ pc' = "details"
        /\ status' = [status EXCEPT !.missing = "no"]
  /\ UNCHANGED <<stored, cacheVars, queueVars, clusterVars, memoryVars, instCurrent, sentVars, lost>>

Listed(l) == {n \in Names : l[n] # "none"}

(* Mutant: the lists differ when one of them has something. *)
DiffersAlways(new, old) == Listed(new) # {}

(* Mutant: only the number of Applications is compared. *)
DiffersInLength(new, old) == Cardinality(Listed(new)) # Cardinality(Listed(old))

(* The lists differ in length, or in what they say of a name both have. *)
Differs(new, old) ==
  \/ Cardinality(Listed(new)) # Cardinality(Listed(old))
  \/ \E n \in Listed(new) \intersect Listed(old) : new[n] # old[n]

(* updatePatternCRDetails.  The copy has the new list even when nobody     *)
(* stores it.                                                              *)
UpdatePatternCRDetails ==
  /\ pc = "details" /\ pc' = "end"
  /\ LET listed  == [status EXCEPT !.applications = applications]
         changed == [listed EXCEPT !.step = "update pattern application status"]
         differs == Differs(applications, status.applications)
     IN  \/ Fault /\ NotStored /\ UNCHANGED status
         \/ NoFault /\ ~differs /\ NotStored /\ status' = listed
         \/ differs /\ Fault /\ NotStored /\ status' = changed
         \/ differs /\ NoFault /\ Write(changed) /\ status' = changed
  /\ UNCHANGED <<cache, queueVars, clusterVars, memoryVars, instCurrent, sentVars, lost>>

(* Mutant: the bit is set whether the event could be sent or not. *)
SendPatternEndEventInfoUnchecked ==
  /\ pc = "end" /\ pc' = "complete"
  /\ LET event == IF HasBit(status.sent, End) THEN Refresh ELSE End
         withUUID == [status EXCEPT !.uuid = GetNewUUID.kept]
         withBit == [withUUID EXCEPT !.sent = SetBit(SetBit(@, End), event)]
     IN  \/ ~due /\ NotSent /\ UNCHANGED <<status, due>>
         \/ due /\ SendFails /\ status' = withBit /\ UNCHANGED due
         \/ due /\ Sent(event) /\ due' = FALSE /\ status' = withBit
  /\ UNCHANGED <<stored, cacheVars, queueVars, clusterVars, sentInstallInfo, sentStartEvent,
                 instCurrent, lost>>

(* The end event the first time, as the status says, then refreshes. *)
SendPatternEndEventInfo ==
  /\ pc = "end" /\ pc' = "complete"
  /\ LET event == IF HasBit(status.sent, End) THEN Refresh ELSE End
         withUUID == [status EXCEPT !.uuid = GetNewUUID.kept]
     IN  \/ ~due /\ NotSent /\ UNCHANGED <<status, due>>
         \/ due /\ SendFails /\ status' = withUUID /\ UNCHANGED due
         \/ /\ due /\ Sent(event) /\ due' = FALSE
            /\ status' = [withUUID EXCEPT !.sent = SetBit(SetBit(@, End), event)]
  /\ UNCHANGED <<stored, cacheVars, queueVars, clusterVars, sentInstallInfo, sentStartEvent,
                 instCurrent, lost>>

(* The loop is complete; the status is written unless it says so already.  *)
Complete ==
  /\ pc = "complete" /\ timer' = TRUE
  /\ \/ status.step = "reconcile complete" /\ NoFault /\ NotStored
     \/ status.step # "reconcile complete" /\ Fault /\ NotStored
     \/ status.step # "reconcile complete" /\ NoFault
        /\ Write([status EXCEPT !.step = "reconcile complete"])
  /\ Return(status)
  /\ UNCHANGED <<cache, queued, clusterVars, memoryVars, sentVars>>

(* actionPerformed: a failed step asks for another try in a minute, a      *)
(* refused write for one with backoff, a step that succeeded for none.     *)
ActionPerformed ==
  /\ pc = "report"
  /\ \/ Fault /\ NotStored /\ timer' = TRUE
     \/ /\ NoFault /\ Write(status)
        /\ timer' = (timer \/ status.step = "prerequisite validation" \/ ~instCurrent)
  /\ Return(status)
  /\ UNCHANGED <<cache, queued, clusterVars, memoryVars, sentVars>>

(* The operator stops and starts again. *)
Crash ==
  /\ Fault /\ UNCHANGED stored /\ Return(status)
  /\ cache' = stored /\ cacheCurrent' = TRUE
  /\ queued' = TRUE /\ timer' = FALSE
  /\ sentInstallInfo' = FALSE /\ sentStartEvent' = FALSE /\ due' = TRUE
  /\ UNCHANGED <<clusterVars, sentVars>>

-----------------------------------------------------------------------------
CacheSync ==
  /\ ~cacheCurrent /\ cache' = stored /\ cacheCurrent' = TRUE /\ queued' = TRUE
  /\ UNCHANGED <<stored, timer, clusterVars, memoryVars, pc, status, instCurrent, sentVars,
                 lost, budgetVars>>

TimerFires ==
  /\ timer /\ timer' = FALSE /\ queued' = TRUE
  /\ UNCHANGED <<stored, cacheVars, clusterVars, memoryVars, pc, status, instCurrent, sentVars,
                 lost, budgetVars>>

(* Events of the ConfigMap or an ArgoCD put the Pattern into the queue. *)
Triggered ==
  /\ Edit /\ ~queued /\ queued' = TRUE
  /\ UNCHANGED <<stored, cacheVars, timer, clusterVars, memoryVars, pc, status, instCurrent,
                 sentVars, lost>>

(* A change of the Pattern apart from its status makes a new version; it   *)
(* may be the UUID that is set, changed or taken back.                     *)
UserEdits ==
  /\ Edit /\ cacheCurrent' = FALSE /\ instCurrent' = FALSE
  /\ \E u \in Chosen \union {0} : stored' = [stored EXCEPT !.asked = u]
  /\ UNCHANGED <<cache, queueVars, clusterVars, memoryVars, pc, status, sentVars, lost>>

ArgoChanges ==
  /\ Edit /\ \E n \in Names, h \in Healths \union {"none"} :
       applications[n] # h /\ applications' = [applications EXCEPT ![n] = h]
  /\ UNCHANGED <<stored, cacheVars, queueVars, valuesFile, memoryVars, pc, status, instCurrent,
                 sentVars, lost>>

RepositoryChanges ==
  /\ Edit /\ valuesFile' = ~valuesFile
  /\ UNCHANGED <<stored, cacheVars, queueVars, applications, memoryVars, pc, status, instCurrent,
                 sentVars, lost>>

(* Four hours go by, far more than a reconciliation or an informer takes.  *)
HoursPass ==
  /\ pc = "idle" /\ cacheCurrent /\ ~due /\ due' = TRUE
  /\ hours > 0 /\ hours' = hours - 1
  /\ UNCHANGED <<stored, cacheVars, queueVars, clusterVars, sentInstallInfo, sentStartEvent, pc,
                 status, instCurrent, sentVars, lost, faults, edits>>

Reconcile ==
  \/ SendPatternInstallationInfo \/ SendPatternStartEventInfo \/ Work
  \/ UpdatePatternCRDetails \/ SendPatternEndEventInfo \/ Complete \/ ActionPerformed

Next ==
  \/ Get \/ Reconcile \/ Crash
  \/ CacheSync \/ TimerFires \/ HoursPass
  \/ Triggered \/ UserEdits \/ ArgoChanges \/ RepositoryChanges

(* The worker works, the informer and the timers keep up. *)
Fairness ==
  WF_vars(Get) /\ WF_vars(Reconcile) /\ WF_vars(CacheSync) /\ WF_vars(TimerFires)

Spec == Init /\ [][Next]_vars
FairSpec == Spec /\ Fairness

-----------------------------------------------------------------------------
(* Properties. *)

(* What has been recorded stays recorded, although every reconciliation    *)
(* writes a whole status made of an older copy.                            *)
BitsKept ==
  [][\A e \in Events : HasBit(stored.sent, e) => HasBit(stored'.sent, e)]_vars

(* The status records only events that have been sent. *)
RecordedWasSent == \A e \in Events : HasBit(stored.sent, e) => count[e] > 0

(* "Called at the beginning of the reconciliation loop and only once":     *)
(* an event other than the refresh is sent once, unless the reconciliation *)
(* that sent it could not record it.                                       *)
SentOnce == \A e \in Events \ {Refresh} : count[e] > 1 => e \in lost.events

(* "If we saved a UUID in the status let's reuse that otherwise use a      *)
(* generated one": of the UUIDs that are not the user's own, the events of *)
(* a Pattern carry one only, whenever the user specifies one and takes it  *)
(* back, unless a generated one could not be saved.                        *)
OneUser == pc = "idle" /\ Cardinality(users \ Chosen) > 1 => lost.uuid

(* When nothing changes any more the status comes to rest, unless values   *)
(* files stay missing.                                                     *)
Settles == <>[][stored' = stored]_stored \/ []<>~valuesFile

(* In the end the status says of every Application what Argo CD says, as   *)
(* long as it knows the right ones and the loop keeps coming to its end (it*)
(* does not when values files stay missing, nor after an action that leaves*)
(* the status as it was: no write, no event, nothing asked for).           *)
Looping == []<>(pc = "details")
HealthReported ==
  Looping => <>[](Listed(stored.applications) = Listed(applications)
                    => stored.applications = applications)
=============================================================================
