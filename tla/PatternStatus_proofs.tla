----------------------- MODULE PatternStatus_proofs -----------------------
(***************************************************************************)
(* The analytics events of a Pattern and their records, for any number of  *)
(* Applications, failures, crashes, edits and hours: the status tells the  *)
(* truth, forgets nothing, and what is sent twice or under two names was   *)
(* lost before.                                                            *)
(***************************************************************************)
EXTENDS PatternStatus, FiniteSetTheorems, TLAPS

Recorded(s) == {e \in Events : HasBit(s.sent, e)}

(* No copy has a UUID that has not been generated.                         *)
Generated == {stored.uuid, cache.uuid, status.uuid} \subseteq 0..generated

(* A current copy is the stored status, or the stored status with what the *)
(* reconciliation has added; the cache has nothing that is not stored.     *)
Copies ==
  /\ cacheCurrent => cache = stored
  /\ Recorded(cache) \subseteq Recorded(stored)
  /\ instCurrent => Recorded(stored) \subseteq Recorded(status)
  /\ instCurrent => stored.uuid \in {0, status.uuid}
  /\ pc = "idle" => status = NoStatus /\ ~instCurrent

(* Only what has been sent is recorded, in any copy.                       *)
Truthful == \A e \in Recorded(stored) \union Recorded(status) : count[e] > 0

(* What has been sent is recorded, or will be, or is lost.                 *)
Accounted ==
  \A e \in Events : count[e] > 0 => e \in Recorded(stored) \union Recorded(status) \union lost.events

(* As long as no UUID is lost, the events carry the recorded one or one    *)
(* that a user specified.                                                  *)
OneName == ~lost.uuid => users \ Chosen \subseteq {stored.uuid, status.uuid}

(* The operator's memory says that the event has been sent.                *)
Remembered(e) ==
  (e = Identify => sentInstallInfo) /\ (e = Start => sentStartEvent) /\ (e = End => ~due)

(* A reconciliation that neither remembers an event nor sees it in its copy*)
(* is right that it is not recorded.                                       *)
Noticed ==
  \A e \in Events \ {Refresh} : ~Remembered(e) =>
    /\ e \in Recorded(stored) => e \in Recorded(cache)
    /\ e \in Recorded(stored) /\ pc # "idle" => e \in Recorded(status)
    /\ e \in Recorded(status) => e \in Recorded(cache)

Typed == TypeOK /\ Generated
Kept  == Copies /\ Truthful /\ Accounted /\ OneName /\ Noticed /\ SentOnce

-----------------------------------------------------------------------------
(* The bits of analyticsSent.                                              *)

LEMMA BitNumbers ==
  ASSUME NEW n \in 0..15
  PROVE  n = 0 \/ n = 1 \/ n = 2 \/ n = 3 \/ n = 4 \/ n = 5 \/ n = 6 \/ n = 7
      \/ n = 8 \/ n = 9 \/ n = 10 \/ n = 11 \/ n = 12 \/ n = 13 \/ n = 14 \/ n = 15
  OBVIOUS

LEMMA EventCases == Events = {0, 1, 2, 3}
  BY DEF Events, Identify, Refresh

LEMMA NoBits == \A e \in Events : ~HasBit(0, e)
  BY EventCases DEF HasBit, Weight

(* setBit sets one bit, leaves the others alone and stays in the field.    *)
LEMMA SetBitSets ==
  ASSUME NEW n \in 0..15, NEW p \in Events
  PROVE  /\ SetBit(n, p) \in 0..15
         /\ \A e \in Events : HasBit(SetBit(n, p), e) <=> HasBit(n, e) \/ e = p
<1>1. CASE p = 0
  BY <1>1, BitNumbers, EventCases DEF SetBit, HasBit, Weight
<1>2. CASE p = 1
  BY <1>2, BitNumbers, EventCases DEF SetBit, HasBit, Weight
<1>3. CASE p = 2
  BY <1>3, BitNumbers, EventCases DEF SetBit, HasBit, Weight
<1>4. CASE p = 3
  BY <1>4, BitNumbers, EventCases DEF SetBit, HasBit, Weight
<1>5. QED
  BY <1>1, <1>2, <1>3, <1>4, EventCases
-----------------------------------------------------------------------------
(* Types. *)

LEMMA NoStatusTyped ==
  /\ NoStatus \in Status /\ NoStatus.uuid = 0 /\ NoStatus.sent = 0 /\ Recorded(NoStatus) = {}
<1>1. NoStatus \in Status /\ NoStatus.uuid = 0 /\ NoStatus.sent = 0
  BY DEF NoStatus, Status, Listing, Steps
<1>2. QED
  BY <1>1, NoBits DEF Recorded

(* The UUID of an event is generated by the time it is sent.               *)
LEMMA ComposeTypes ==
  ASSUME Typed, Compose
  PROVE  /\ GetNewUUID.user \in 1..generated' \union Chosen
         /\ GetNewUUID.kept \in 0..generated'
         /\ generated' \in Nat /\ generated' >= generated
<1>1. CASE status.asked # 0
  BY <1>1 DEF Typed, TypeOK, CopyTypes, EventTypes, Generated, Compose, GetNewUUID, Status
<1>2. CASE status.asked = 0 /\ status.uuid # 0
  BY <1>2 DEF Typed, TypeOK, CopyTypes, EventTypes, Generated, Compose, GetNewUUID, Status
<1>3. CASE status.asked = 0 /\ status.uuid = 0
  BY <1>3 DEF Typed, TypeOK, CopyTypes, EventTypes, Generated, Compose, GetNewUUID, Status
<1>4. QED
  BY <1>1, <1>2, <1>3

(* A write stores a status and keeps UUIDs to those generated.             *)
LEMMA WriteTypes ==
  ASSUME Typed, NEW s \in Status, s.uuid \in 0..generated, Write(s) \/ NotStored
  PROVE  /\ stored' \in Status /\ stored'.uuid \in 0..generated
         /\ cacheCurrent' \in BOOLEAN
  BY DEF Typed, TypeOK, CopyTypes, Generated, Write, NotStored

(* A reconciliation ends in the state in which the next one begins.        *)
LEMMA ReturnTypes ==
  ASSUME Typed, NEW s, Return(s)
  PROVE  /\ pc' = "idle" /\ status' = NoStatus /\ instCurrent' = FALSE
         /\ lost' \in [events: SUBSET Events, uuid: BOOLEAN]
  BY DEF Typed, TypeOK, EventTypes, Return

LEMMA CallTypes ==
  ASSUME BudgetTypes, NoFault \/ Fault \/ Edit
  PROVE  BudgetTypes'
  BY StatusAssumption DEF BudgetTypes, NoFault, Fault, Edit, budgetVars

LEMMA TypesInit == Init => Typed
<1> SUFFICES ASSUME Init PROVE Typed
  OBVIOUS
<1>1. CopyTypes /\ stored.uuid = 0 /\ cache = stored /\ status = NoStatus
  <2>1. NoStatus \in Status
    BY NoStatusTyped
  <2>2. PICK u \in Chosen \union {0} : stored = [NoStatus EXCEPT !.asked = u]
    BY DEF Init
  <2>3. stored \in Status /\ stored.uuid = 0
    BY <2>1, <2>2, NoStatusTyped DEF Status
  <2>4. QED
    BY <2>1, <2>3 DEF Init, CopyTypes
<1>2. WorldTypes
  BY DEF Init, WorldTypes, Calls
<1>3. EventTypes
  <2>1. count = [e \in Events |-> 0] /\ users = {} /\ generated = 0
        /\ lost = [events |-> {}, uuid |-> FALSE]
    BY DEF Init
  <2>2. QED
    BY <2>1 DEF EventTypes
<1>4. BudgetTypes
  <2>1. faults = MaxFaults /\ edits = MaxEdits /\ hours = MaxHours
    BY DEF Init
  <2>2. QED
    BY <2>1, StatusAssumption DEF BudgetTypes
<1>5. Generated
  <2>1. stored.uuid = 0 /\ cache.uuid = 0 /\ status.uuid = 0 /\ generated = 0
    BY <1>1, NoStatusTyped DEF Init
  <2>2. QED
    BY <2>1 DEF Generated
<1>6. QED
  BY <1>1, <1>2, <1>3, <1>4, <1>5 DEF Typed, TypeOK

(* The account of an event that is sent, or is not.                        *)
LEMMA SendTypes ==
  ASSUME Typed, NEW e \in Events, NotSent \/ SendFails \/ Sent(e), UNCHANGED lost
  PROVE  EventTypes' /\ BudgetTypes' /\ generated' >= generated
<1> USE DEF Typed, TypeOK
<1>1. CASE NotSent
  BY <1>1, CallTypes DEF NotSent, sentVars, EventTypes
<1>2. CASE SendFails
  <2>1. generated' \in Nat /\ generated' >= generated
    BY <1>2, ComposeTypes DEF SendFails
  <2>2. QED
    BY <1>2, <2>1, CallTypes DEF SendFails, EventTypes
<1>3. CASE Sent(e)
  <2>1. /\ generated' \in Nat /\ generated' >= generated
        /\ GetNewUUID.user \in 1..generated' \union Chosen
    BY <1>3, ComposeTypes DEF Sent
  <2>2. users' \subseteq 1..generated' \union Chosen
    <3>1. users' = users \union {GetNewUUID.user} /\ users \subseteq 1..generated \union Chosen
          /\ generated \in Nat
      BY <1>3 DEF Sent, EventTypes
    <3>2. 1..generated \subseteq 1..generated'
      BY <2>1, <3>1
    <3>3. QED
      BY <2>1, <3>1, <3>2
  <2>3. count' \in [Events -> 0..2]
    <3>1. count[e] \in 0..2
      BY DEF EventTypes
    <3>2. (IF count[e] = 2 THEN 2 ELSE count[e] + 1) \in 0..2
      BY <3>1
    <3>3. QED
      BY <1>3, <3>2 DEF Sent, EventTypes
  <2>4. QED
    BY <1>3, <2>1, <2>2, <2>3, CallTypes DEF Sent, EventTypes
<1>4. QED
  BY <1>1, <1>2, <1>3

(* What the three senders share: nothing is sent, or sending e fails and   *)
(* the copy has the UUID, or e, which neither the memory nor the copy has  *)
(* unless it is a refresh, is sent and both have it.                       *)
SendEffect(e) ==
  \/ NotSent /\ status' = status
  \/ /\ SendFails /\ status' \in Status
     /\ status'.uuid = GetNewUUID.kept /\ Recorded(status') = Recorded(status)
  \/ /\ Sent(e) /\ status' \in Status
     /\ status'.uuid = GetNewUUID.kept /\ Recorded(status') = Recorded(status) \union {e}
     /\ e # Refresh => ~Remembered(e) /\ e \notin Recorded(status)
     /\ Remembered(e)'

(* A copy with another UUID, other bits and another step.                  *)
LEMMA CopyChanges ==
  ASSUME Typed, NEW bits \in 0..15, NEW step \in Steps,
         status' = [status EXCEPT !.uuid = GetNewUUID.kept, !.sent = bits, !.step = step]
  PROVE  status' \in Status /\ status'.uuid = GetNewUUID.kept /\ status'.sent = bits
<1>1. GetNewUUID.kept \in Nat /\ status \in Status
  BY DEF Typed, TypeOK, CopyTypes, EventTypes, Status, GetNewUUID
<1>2. QED
  BY <1>1 DEF Status

LEMMA FailedCopy ==
  ASSUME Typed, NEW s, s = [status EXCEPT !.uuid = GetNewUUID.kept]
  PROVE  s \in Status /\ s.uuid = GetNewUUID.kept /\ Recorded(s) = Recorded(status)
<1>1. GetNewUUID.kept \in Nat /\ status \in Status
  BY DEF Typed, TypeOK, CopyTypes, EventTypes, Status, GetNewUUID
<1>2. s \in Status /\ s.uuid = GetNewUUID.kept /\ s.sent = status.sent
  BY <1>1 DEF Status
<1>3. QED
  BY <1>2 DEF Recorded

LEMMA KnownEvents ==
  /\ Events = {Identify, Start, End, Refresh}
  /\ Identify # Start /\ Identify # End /\ Start # End
  /\ Refresh \notin {Identify, Start, End}
  BY EventCases DEF Identify, Start, End, Refresh

LEMMA InstallationInfoEffect ==
  ASSUME Typed, SendPatternInstallationInfo
  PROVE  SendEffect(Identify)
<1>1. status.sent \in 0..15 /\ status.step \in Steps /\ status \in Status
  BY DEF Typed, TypeOK, CopyTypes, Status
<1>2. CASE NotSent /\ status' = status
  BY <1>2 DEF SendEffect
<1>3. CASE SendFails /\ status' = [status EXCEPT !.uuid = GetNewUUID.kept]
  BY <1>3, FailedCopy DEF SendEffect
<1>4. CASE /\ ~sentInstallInfo /\ ~HasBit(status.sent, Identify) /\ sentInstallInfo' = TRUE
           /\ Sent(Identify) /\ status' = [[status EXCEPT !.uuid = GetNewUUID.kept]
             EXCEPT !.sent = SetBit(@, Identify), !.step = "Updated status with identity sent"]
  <2>1. status' = [status EXCEPT !.uuid = GetNewUUID.kept, !.sent = SetBit(status.sent, Identify),
                                 !.step = "Updated status with identity sent"]
    BY <1>1, <1>4 DEF Status
  <2>2. /\ status' \in Status /\ status'.uuid = GetNewUUID.kept
        /\ status'.sent = SetBit(status.sent, Identify)
    <3>1. SetBit(status.sent, Identify) \in 0..15
      BY <1>1, SetBitSets, KnownEvents
    <3>2. "Updated status with identity sent" \in Steps
      BY DEF Steps
    <3>3. QED
      BY <2>1, <3>1, <3>2, CopyChanges
  <2>3. Recorded(status') = Recorded(status) \union {Identify}
    BY <1>1, <2>2, SetBitSets, KnownEvents DEF Recorded
  <2>4. ~Remembered(Identify) /\ Identify \notin Recorded(status) /\ Remembered(Identify)'
    BY <1>4, KnownEvents DEF Remembered, Recorded
  <2>5. QED
    BY <1>4, <2>2, <2>3, <2>4 DEF SendEffect
<1>5. QED
  BY <1>2, <1>3, <1>4 DEF SendPatternInstallationInfo

LEMMA StartEventEffect ==
  ASSUME Typed, SendPatternStartEventInfo
  PROVE  SendEffect(Start)
<1>1. status.sent \in 0..15 /\ status.step \in Steps /\ status \in Status
  BY DEF Typed, TypeOK, CopyTypes, Status
<1>2. CASE NotSent /\ status' = status
  BY <1>2 DEF SendEffect
<1>3. CASE SendFails /\ status' = [status EXCEPT !.uuid = GetNewUUID.kept]
  BY <1>3, FailedCopy DEF SendEffect
<1>4. CASE /\ ~sentStartEvent /\ ~HasBit(status.sent, Start) /\ sentStartEvent' = TRUE
           /\ Sent(Start) /\ status' = [[status EXCEPT !.uuid = GetNewUUID.kept]
             EXCEPT !.sent = SetBit(@, Start), !.step = "Updated status with start event sent"]
  <2>1. status' = [status EXCEPT !.uuid = GetNewUUID.kept, !.sent = SetBit(status.sent, Start),
                                 !.step = "Updated status with start event sent"]
    BY <1>1, <1>4 DEF Status
  <2>2. /\ status' \in Status /\ status'.uuid = GetNewUUID.kept
        /\ status'.sent = SetBit(status.sent, Start)
    <3>1. SetBit(status.sent, Start) \in 0..15
      BY <1>1, SetBitSets, KnownEvents
    <3>2. "Updated status with start event sent" \in Steps
      BY DEF Steps
    <3>3. QED
      BY <2>1, <3>1, <3>2, CopyChanges
  <2>3. Recorded(status') = Recorded(status) \union {Start}
    BY <1>1, <2>2, SetBitSets, KnownEvents DEF Recorded
  <2>4. ~Remembered(Start) /\ Start \notin Recorded(status) /\ Remembered(Start)'
    BY <1>4, KnownEvents DEF Remembered, Recorded
  <2>5. QED
    BY <1>4, <2>2, <2>3, <2>4 DEF SendEffect
<1>5. QED
  BY <1>2, <1>3, <1>4 DEF SendPatternStartEventInfo

EndOrRefresh == IF HasBit(status.sent, End) THEN Refresh ELSE End

LEMMA EndEventEffect ==
  ASSUME Typed, SendPatternEndEventInfo
  PROVE  SendEffect(EndOrRefresh)
<1>1. status.sent \in 0..15 /\ status.step \in Steps /\ status \in Status
  BY DEF Typed, TypeOK, CopyTypes, Status
<1>2. CASE NotSent /\ status' = status
  BY <1>2 DEF SendEffect
<1>3. CASE SendFails /\ status' = [status EXCEPT !.uuid = GetNewUUID.kept]
  BY <1>3, FailedCopy DEF SendEffect
<1>4. CASE /\ due /\ due' = FALSE
           /\ Sent(EndOrRefresh) /\ status' = [[status EXCEPT !.uuid = GetNewUUID.kept]
             EXCEPT !.sent = SetBit(SetBit(@, End), EndOrRefresh)]
  <2> DEFINE bits == SetBit(SetBit(status.sent, End), EndOrRefresh)
  <2>1. status' = [status EXCEPT !.uuid = GetNewUUID.kept, !.sent = bits, !.step = status.step]
    BY <1>1, <1>4 DEF Status
  <2>2. EndOrRefresh \in Events /\ End \in Events
    BY KnownEvents DEF EndOrRefresh
  <2>3. SetBit(status.sent, End) \in 0..15 /\ bits \in 0..15
    BY <1>1, <2>2, SetBitSets
  <2>4. status' \in Status /\ status'.uuid = GetNewUUID.kept /\ status'.sent = bits
    <3> HIDE DEF bits
    <3> QED
      BY <1>1, <2>1, <2>3, CopyChanges
  <2>5. \A e \in Events : HasBit(bits, e) <=> HasBit(status.sent, e) \/ e = End \/ e = EndOrRefresh
    BY <1>1, <2>2, <2>3, SetBitSets
  <2>6. Recorded(status') = Recorded(status) \union {EndOrRefresh}
    BY <2>2, <2>4, <2>5 DEF Recorded, EndOrRefresh
  <2>7. /\ EndOrRefresh # Refresh => ~Remembered(EndOrRefresh) /\ EndOrRefresh \notin Recorded(status)
        /\ Remembered(EndOrRefresh)'
    BY <1>4, KnownEvents DEF Remembered, Recorded, EndOrRefresh
  <2>8. QED
    BY <1>4, <2>4, <2>6, <2>7 DEF SendEffect
<1>5. QED
  BY <1>2, <1>3, <1>4 DEF SendPatternEndEventInfo, EndOrRefresh

LEMMA SendKeepsTypes ==
  ASSUME Typed, NEW e \in Events, SendEffect(e),
         UNCHANGED <<stored, cacheVars, instCurrent, lost>>
  PROVE  CopyTypes' /\ EventTypes' /\ BudgetTypes' /\ Generated'
<1>1. NotSent \/ SendFails \/ Sent(e)
  BY DEF SendEffect
<1>2. EventTypes' /\ BudgetTypes' /\ generated' >= generated /\ generated' \in Nat
  BY <1>1, SendTypes DEF EventTypes
<1>3. CopyTypes'
  BY DEF SendEffect, Typed, TypeOK, CopyTypes, cacheVars
<1>4. generated \in Nat /\ {stored.uuid, cache.uuid, status.uuid} \subseteq 0..generated
  BY DEF Typed, TypeOK, Generated, EventTypes
<1>5. status'.uuid \in 0..generated'
  BY <1>2, <1>4, ComposeTypes DEF SendEffect, SendFails, Sent
<1>6. Generated'
  BY <1>2, <1>4, <1>5 DEF Generated, cacheVars
<1>7. QED
  BY <1>2, <1>3, <1>6

LEMMA SendersTypes ==
  ASSUME Typed, SendPatternInstallationInfo \/ SendPatternStartEventInfo \/ SendPatternEndEventInfo
  PROVE  Typed'
<1>1. WorldTypes'
  <2>1. CASE SendPatternInstallationInfo
    BY <2>1 DEF SendPatternInstallationInfo, Typed, TypeOK, WorldTypes, Calls, queueVars, clusterVars
  <2>2. CASE SendPatternStartEventInfo
    BY <2>2 DEF SendPatternStartEventInfo, Typed, TypeOK, WorldTypes, Calls, queueVars, clusterVars
  <2>3. CASE SendPatternEndEventInfo
    BY <2>3 DEF SendPatternEndEventInfo, Typed, TypeOK, WorldTypes, Calls, queueVars, clusterVars
  <2>4. QED
    BY <2>1, <2>2, <2>3
<1>2. UNCHANGED <<stored, cacheVars, instCurrent, lost>>
  BY DEF SendPatternInstallationInfo, SendPatternStartEventInfo, SendPatternEndEventInfo
<1>3. \E e \in Events : SendEffect(e)
  BY InstallationInfoEffect, StartEventEffect, EndEventEffect, KnownEvents DEF EndOrRefresh
<1>4. QED
  BY <1>1, <1>2, <1>3, SendKeepsTypes DEF Typed, TypeOK

(* The status s has what the copy has recorded.                            *)
SameRecord(s) == s \in Status /\ s.uuid = status.uuid /\ Recorded(s) = Recorded(status)

LEMMA OtherFields ==
  ASSUME Typed, NEW a \in Listing, NEW m \in {"no", "odd", "even"}, NEW step \in Steps
  PROVE  /\ SameRecord(status)
         /\ SameRecord([status EXCEPT !.applications = a])
         /\ SameRecord([status EXCEPT !.applications = a, !.step = step])
         /\ SameRecord([status EXCEPT !.missing = m, !.step = step])
         /\ SameRecord([status EXCEPT !.missing = m])
         /\ SameRecord([status EXCEPT !.step = step])
<1>1. status \in Status
  BY DEF Typed, TypeOK, CopyTypes
<1>2. \A t \in Status : t.sent = status.sent /\ t.uuid = status.uuid => SameRecord(t)
  BY DEF SameRecord, Recorded
<1>3. SameRecord(status)
  BY <1>1, <1>2
<1>4. SameRecord([status EXCEPT !.applications = a])
  BY <1>1, <1>2 DEF Status
<1>5. SameRecord([status EXCEPT !.applications = a, !.step = step])
  BY <1>1, <1>2 DEF Status
<1>6. SameRecord([status EXCEPT !.missing = m, !.step = step])
  BY <1>1, <1>2 DEF Status
<1>7. SameRecord([status EXCEPT !.missing = m])
  BY <1>1, <1>2 DEF Status
<1>8. SameRecord([status EXCEPT !.step = step])
  BY <1>1, <1>2 DEF Status
<1>9. QED
  BY <1>3, <1>4, <1>5, <1>6, <1>7, <1>8

LEMMA WorkEffect ==
  ASSUME Typed, Work
  PROVE  SameRecord(status') /\ BudgetTypes' /\ pc' \in {"report", "details"}
<1>1. status.missing \in {"no", "odd", "even"}
  BY DEF Typed, TypeOK, CopyTypes, Status
<1>2. applications \in Listing /\ BudgetTypes
  BY DEF Typed, TypeOK, WorldTypes
<1>3. {"prerequisite validation", "updated application"} \subseteq Steps
  BY DEF Steps
<1>4. BudgetTypes' /\ pc' \in {"report", "details"}
  BY <1>2, CallTypes DEF Work
<1>5. PICK m \in {"no", "odd", "even"}, step \in Steps :
        \/ status' = [status EXCEPT !.missing = m, !.step = step]
        \/ status' = [status EXCEPT !.missing = m]
  BY <1>1, <1>3 DEF Work
<1>6. /\ SameRecord([status EXCEPT !.missing = m, !.step = step])
      /\ SameRecord([status EXCEPT !.missing = m])
  BY <1>2, OtherFields
<1>7. QED
  BY <1>4, <1>5, <1>6

LEMMA DetailsEffect ==
  ASSUME Typed, UpdatePatternCRDetails
  PROVE  /\ SameRecord(status') /\ BudgetTypes'
         /\ \E s : SameRecord(s) /\ (NotStored \/ Write(s))
<1>1. applications \in Listing /\ BudgetTypes
  BY DEF Typed, TypeOK, WorldTypes
<1>2. "update pattern application status" \in Steps
  BY DEF Steps
<1> DEFINE listed  == [status EXCEPT !.applications = applications]
           changed == [listed EXCEPT !.step = "update pattern application status"]
<1>3. changed = [status EXCEPT !.applications = applications,
                               !.step = "update pattern application status"]
  BY DEF Typed, TypeOK, CopyTypes, Status
<1>4. SameRecord(status) /\ SameRecord(listed) /\ SameRecord(changed)
  <2>1. SameRecord([status EXCEPT !.applications = applications,
                                  !.step = "update pattern application status"])
    BY <1>1, <1>2, OtherFields
  <2>2. QED
    BY <1>1, <1>2, <1>3, <2>1, OtherFields
<1>5. (NoFault \/ Fault) /\ status' \in {status, listed, changed}
      /\ (NotStored \/ Write(changed))
  BY DEF UpdatePatternCRDetails
<1> HIDE DEF listed, changed
<1>6. QED
  BY <1>1, <1>4, <1>5, CallTypes

LEMMA CompleteEffect ==
  ASSUME Typed, Complete
  PROVE  BudgetTypes' /\ Return(status) /\ \E s : SameRecord(s) /\ (NotStored \/ Write(s))
<1>1. applications \in Listing /\ BudgetTypes /\ "reconcile complete" \in Steps
  BY DEF Typed, TypeOK, WorldTypes, Steps
<1>2. SameRecord(status) /\ SameRecord([status EXCEPT !.step = "reconcile complete"])
  BY <1>1, OtherFields
<1>3. QED
  BY <1>1, <1>2, CallTypes DEF Complete

LEMMA ReportEffect ==
  ASSUME Typed, ActionPerformed
  PROVE  BudgetTypes' /\ Return(status) /\ \E s : SameRecord(s) /\ (NotStored \/ Write(s))
<1>1. SameRecord(status) /\ BudgetTypes
  BY DEF Typed, TypeOK, CopyTypes, SameRecord
<1>2. QED
  BY <1>1, CallTypes DEF ActionPerformed

LEMMA ReturnStepTypes ==
  ASSUME Typed, Complete \/ ActionPerformed
  PROVE  Typed'
<1>1. /\ BudgetTypes' /\ Return(status)
      /\ \E s : SameRecord(s) /\ (NotStored \/ Write(s))
  BY CompleteEffect, ReportEffect
<1>2. /\ UNCHANGED <<cache, queued, clusterVars, memoryVars, sentVars>> /\ timer' \in BOOLEAN
  BY DEF Complete, ActionPerformed, Typed, TypeOK, WorldTypes
<1>3. status.uuid \in 0..generated
  BY DEF Typed, Generated
<1>4. stored' \in Status /\ stored'.uuid \in 0..generated /\ cacheCurrent' \in BOOLEAN
  BY <1>1, <1>3, WriteTypes DEF SameRecord
<1>5. /\ pc' = "idle" /\ status' = NoStatus /\ instCurrent' = FALSE
      /\ lost' \in [events: SUBSET Events, uuid: BOOLEAN]
  BY <1>1, ReturnTypes
<1>6. CopyTypes'
  BY <1>2, <1>4, <1>5, NoStatusTyped DEF Typed, TypeOK, CopyTypes
<1>7. WorldTypes'
  BY <1>2, <1>5 DEF Typed, TypeOK, WorldTypes, Calls, clusterVars, memoryVars
<1>8. EventTypes'
  BY <1>2, <1>5 DEF Typed, TypeOK, EventTypes, sentVars
<1>9. Generated'
  <2>1. generated' = generated /\ cache' = cache /\ status'.uuid = 0 /\ generated \in Nat
    BY <1>2, <1>5, NoStatusTyped DEF sentVars, Typed, TypeOK, EventTypes
  <2>2. QED
    BY <2>1, <1>4 DEF Typed, Generated
<1>10. QED
  BY <1>1, <1>6, <1>7, <1>8, <1>9 DEF Typed, TypeOK

LEMMA WorkStepTypes ==
  ASSUME Typed, Work \/ UpdatePatternCRDetails
  PROVE  Typed'
<1>1. /\ SameRecord(status') /\ BudgetTypes'
      /\ \E s : SameRecord(s) /\ (NotStored \/ Write(s))
  <2>1. CASE Work
    <3>1. NotStored /\ SameRecord(status')
      BY <2>1, WorkEffect DEF Work, NotStored, cacheVars
    <3>2. QED
      BY <2>1, <3>1, WorkEffect
  <2>2. QED
    BY <2>1, DetailsEffect
<1>2. UNCHANGED <<cache, queueVars, clusterVars, memoryVars, instCurrent, sentVars, lost>>
      /\ pc' \in {"report", "details", "end"}
  BY WorkEffect DEF Work, UpdatePatternCRDetails, cacheVars
<1>3. status.uuid \in 0..generated
  BY DEF Typed, Generated
<1>4. stored' \in Status /\ stored'.uuid \in 0..generated /\ cacheCurrent' \in BOOLEAN
  BY <1>1, <1>3, WriteTypes DEF SameRecord
<1>5. CopyTypes'
  BY <1>1, <1>2, <1>4 DEF Typed, TypeOK, CopyTypes, SameRecord
<1>6. WorldTypes'
  BY <1>2 DEF Typed, TypeOK, WorldTypes, Calls, clusterVars, memoryVars, queueVars
<1>7. EventTypes'
  BY <1>2 DEF Typed, TypeOK, EventTypes, sentVars
<1>8. Generated'
  BY <1>1, <1>2, <1>3, <1>4 DEF Typed, Generated, SameRecord, sentVars
<1>9. QED
  BY <1>1, <1>5, <1>6, <1>7, <1>8 DEF Typed, TypeOK

LEMMA CrashTypes ==
  ASSUME Typed, Crash
  PROVE  Typed'
<1>1. /\ pc' = "idle" /\ status' = NoStatus /\ instCurrent' = FALSE
      /\ lost' \in [events: SUBSET Events, uuid: BOOLEAN]
  BY ReturnTypes DEF Crash
<1>2. /\ stored' = stored /\ cache' = stored /\ cacheCurrent' = TRUE
      /\ UNCHANGED <<clusterVars, sentVars>>
  BY DEF Crash
<1>3. CopyTypes'
  BY <1>1, <1>2, NoStatusTyped DEF Typed, TypeOK, CopyTypes
<1>4. WorldTypes'
  BY <1>1, <1>2 DEF Crash, Typed, TypeOK, WorldTypes, Calls, clusterVars
<1>5. EventTypes'
  BY <1>1, <1>2 DEF Typed, TypeOK, EventTypes, sentVars
<1>6. BudgetTypes'
  BY CallTypes DEF Crash, Typed, TypeOK
<1>7. Generated'
  <2>1. status'.uuid = 0 /\ generated' = generated /\ generated \in Nat
    BY <1>1, <1>2, NoStatusTyped DEF Typed, TypeOK, EventTypes, sentVars
  <2>2. QED
    BY <1>2, <2>1 DEF Typed, Generated
<1>8. QED
  BY <1>3, <1>4, <1>5, <1>6, <1>7 DEF Typed, TypeOK

(* The world and the beginning of a reconciliation.                        *)
Outside == CacheSync \/ TimerFires \/ HoursPass \/ Triggered \/ UserEdits \/ ArgoChanges
           \/ RepositoryChanges

(* Of the stored Pattern, users change only the UUID they specify.         *)
LEMMA OutsideStored ==
  ASSUME Typed, Get \/ Outside
  PROVE  /\ stored' \in Status /\ stored'.uuid = stored.uuid
         /\ Recorded(stored') = Recorded(stored)
         /\ stored' # stored => UserEdits /\ ~cacheCurrent' /\ ~instCurrent'
<1>1. stored \in Status
  BY DEF Typed, TypeOK, CopyTypes
<1>2. CASE UserEdits
  <2>1. PICK u \in Chosen \union {0} : stored' = [stored EXCEPT !.asked = u]
    BY <1>2 DEF UserEdits
  <2>2. stored' \in Status /\ stored'.uuid = stored.uuid /\ stored'.sent = stored.sent
    BY <1>1, <2>1 DEF Status
  <2>3. QED
    BY <1>2, <2>2 DEF UserEdits, Recorded
<1>3. CASE ~UserEdits
  <2>1. stored' = stored
    BY <1>3 DEF Outside, Get, CacheSync, TimerFires, HoursPass, Triggered, ArgoChanges,
       RepositoryChanges
  <2>2. QED
    BY <1>1, <2>1
<1>4. QED
  BY <1>2, <1>3

LEMMA OutsideTypes ==
  ASSUME Typed, Get \/ Outside
  PROVE  Typed'
<1> USE DEF Outside
<1>1. CopyTypes'
  BY OutsideStored DEF Typed, TypeOK, CopyTypes, Get, CacheSync, TimerFires, HoursPass, Triggered,
     UserEdits, ArgoChanges, RepositoryChanges, cacheVars
<1>2. WorldTypes'
  <2>1. CASE ArgoChanges
    BY <2>1 DEF ArgoChanges, Typed, TypeOK, WorldTypes, Listing, queueVars, memoryVars
  <2>2. CASE Get \/ CacheSync \/ TimerFires \/ HoursPass \/ Triggered \/ UserEdits
             \/ RepositoryChanges
    BY <2>2 DEF Typed, TypeOK, WorldTypes, Calls, Get, CacheSync, TimerFires, HoursPass,
       Triggered, UserEdits, RepositoryChanges, queueVars, memoryVars, clusterVars
  <2>3. QED
    BY <2>1, <2>2
<1>3. UNCHANGED <<sentVars, lost>>
  BY DEF Get, CacheSync, TimerFires, HoursPass, Triggered, UserEdits, ArgoChanges,
     RepositoryChanges
<1>4. EventTypes'
  BY <1>3 DEF Typed, TypeOK, EventTypes, sentVars
<1>5. BudgetTypes'
  <2>1. CASE HoursPass
    BY <2>1, StatusAssumption DEF HoursPass, Typed, TypeOK, BudgetTypes
  <2>2. CASE Triggered \/ UserEdits \/ ArgoChanges \/ RepositoryChanges
    BY <2>2, CallTypes DEF Triggered, UserEdits, ArgoChanges, RepositoryChanges, Typed, TypeOK
  <2>3. CASE Get \/ CacheSync \/ TimerFires
    BY <2>3, CallTypes DEF Get, CacheSync, TimerFires, NoFault, Typed, TypeOK
  <2>4. QED
    BY <2>1, <2>2, <2>3
<1>6. Generated'
  <2>1. {stored'.uuid, cache'.uuid, status'.uuid} \subseteq {stored.uuid, cache.uuid, status.uuid}
    BY OutsideStored DEF Get, CacheSync, TimerFires, HoursPass, Triggered, UserEdits, ArgoChanges,
       RepositoryChanges, cacheVars
  <2>2. QED
    BY <1>3, <2>1 DEF Typed, Generated, sentVars
<1>7. QED
  BY <1>1, <1>2, <1>4, <1>5, <1>6 DEF Typed, TypeOK

LEMMA TypesStep == Typed /\ [Next]_vars => Typed'
<1> SUFFICES ASSUME Typed, [Next]_vars PROVE Typed'
  OBVIOUS
<1>1. CASE UNCHANGED vars
  BY <1>1 DEF vars, cacheVars, queueVars, clusterVars, memoryVars, sentVars, budgetVars, Typed,
     TypeOK, CopyTypes, WorldTypes, EventTypes, BudgetTypes, Generated
<1>2. QED
  BY <1>1, SendersTypes, WorkStepTypes, ReturnStepTypes, CrashTypes, OutsideTypes
     DEF Next, Reconcile, Outside

(* Every variable has its type for good; in particular the bits of         *)
(* setBit stay in their field, and a UUID that is used was generated.      *)
THEOREM StatusTypeCorrect == Spec => []TypeOK
<1>1. Typed => TypeOK
  BY DEF Typed
<1>2. QED
  BY <1>1, TypesInit, TypesStep, PTL DEF Spec

-----------------------------------------------------------------------------
(* The records. *)

LEMMA KeptInit == Init => Kept
<1> SUFFICES ASSUME Init PROVE Kept
  OBVIOUS
<1>1. /\ cache = stored /\ status = NoStatus /\ pc = "idle" /\ instCurrent = FALSE
      /\ users = {} /\ stored.sent = 0
  <2>1. NoStatus \in Status /\ NoStatus.sent = 0
    BY NoStatusTyped
  <2>2. PICK u \in Chosen \union {0} : stored = [NoStatus EXCEPT !.asked = u]
    BY DEF Init
  <2>3. QED
    BY <2>1, <2>2 DEF Init, Status
<1>2. \A e \in Events : count[e] = 0
  BY DEF Init
<1>3. Copies /\ OneName
  BY <1>1 DEF Copies, OneName
<1>4. Truthful /\ Noticed
  <2>1. Recorded(stored) = {} /\ Recorded(cache) = {} /\ Recorded(status) = {}
    BY <1>1, NoStatusTyped, NoBits DEF Recorded
  <2>2. QED
    BY <2>1 DEF Truthful, Noticed
<1>5. Accounted /\ SentOnce
  BY <1>2 DEF Accounted, SentOnce
<1>6. QED
  BY <1>3, <1>4, <1>5 DEF Kept

(* What a write may do to the stored status: nothing, or give it what the  *)
(* copy has, which is more.                                                *)
LEMMA WriteEffect ==
  ASSUME Typed, Copies, NEW s, SameRecord(s), NotStored \/ Write(s)
  PROVE  /\ Recorded(stored) \subseteq Recorded(stored')
         /\ Recorded(stored') \subseteq Recorded(stored) \union Recorded(status)
         /\ instCurrent => Recorded(stored') \subseteq Recorded(status)
         /\ stored'.uuid \in {stored.uuid, status.uuid} /\ stored.uuid \in {0, stored'.uuid}
         /\ instCurrent => stored'.uuid \in {0, status.uuid}
         /\ cacheCurrent' => cacheCurrent /\ stored' = stored
<1>1. CASE UNCHANGED <<stored, cacheCurrent>>
  <2>1. Recorded(stored') = Recorded(stored) /\ stored'.uuid = stored.uuid
    BY <1>1
  <2>2. QED
    BY <1>1, <2>1 DEF Copies
<1>2. CASE instCurrent /\ stored' = s /\ cacheCurrent' = FALSE
  <2>1. Recorded(stored') = Recorded(status) /\ stored'.uuid = status.uuid
    BY <1>2 DEF SameRecord
  <2>2. QED
    BY <1>2, <2>1 DEF Copies
<1>3. QED
  BY <1>1, <1>2 DEF NotStored, Write

LEMMA WorkStepKept ==
  ASSUME Typed, Kept, Work \/ UpdatePatternCRDetails
  PROVE  Kept'
<1> USE DEF Kept
<1>1. SameRecord(status') /\ \E s : SameRecord(s) /\ (NotStored \/ Write(s))
  BY WorkEffect, DetailsEffect DEF Work, NotStored, cacheVars
<1>2. UNCHANGED <<cache, memoryVars, instCurrent, sentVars, lost>>
      /\ pc # "idle" /\ pc' # "idle"
  BY DEF Work, UpdatePatternCRDetails, cacheVars
<1>3. /\ Recorded(stored) \subseteq Recorded(stored')
      /\ Recorded(stored') \subseteq Recorded(stored) \union Recorded(status)
      /\ instCurrent => Recorded(stored') \subseteq Recorded(status)
      /\ stored'.uuid \in {stored.uuid, status.uuid} /\ stored.uuid \in {0, stored'.uuid}
      /\ instCurrent => stored'.uuid \in {0, status.uuid}
      /\ cacheCurrent' => cacheCurrent /\ stored' = stored
  BY <1>1, WriteEffect
<1>4. Recorded(status') = Recorded(status) /\ status'.uuid = status.uuid
      /\ Recorded(cache') = Recorded(cache)
  BY <1>1, <1>2 DEF SameRecord
<1>5. Copies'
  BY <1>2, <1>3, <1>4 DEF Copies
<1>6. Truthful' /\ Accounted' /\ SentOnce'
  BY <1>2, <1>3, <1>4 DEF Truthful, Accounted, SentOnce, sentVars
<1>7. OneName'
  <2>1. users' = users /\ lost' = lost /\ 0 \notin users \ Chosen
    BY <1>2 DEF sentVars, Typed, TypeOK, EventTypes
  <2>2. QED
    BY <1>3, <1>4, <2>1 DEF OneName
<1>8. Noticed'
  <2>1. \A e : Remembered(e)' = Remembered(e)
    BY <1>2 DEF Remembered, memoryVars
  <2>2. QED
    BY <1>2, <1>3, <1>4, <2>1 DEF Noticed
<1>9. QED
  BY <1>5, <1>6, <1>7, <1>8

LEMMA ReturnEffect ==
  ASSUME Typed, Return(status)
  PROVE  /\ pc' = "idle" /\ status' = NoStatus /\ instCurrent' = FALSE
         /\ lost'.events = lost.events \union (Recorded(status) \ Recorded(stored'))
         /\ lost'.uuid = (lost.uuid \/ status.uuid \notin {0, stored'.uuid})
  BY DEF Return, Recorded, Typed, TypeOK, EventTypes

LEMMA ReturnStepKept ==
  ASSUME Typed, Kept, Complete \/ ActionPerformed
  PROVE  Kept'
<1> USE DEF Kept
<1>1. Return(status) /\ \E s : SameRecord(s) /\ (NotStored \/ Write(s))
  BY CompleteEffect, ReportEffect
<1>2. UNCHANGED <<cache, memoryVars, sentVars>> /\ pc # "idle"
  BY DEF Complete, ActionPerformed
<1>3. /\ Recorded(stored) \subseteq Recorded(stored')
      /\ Recorded(stored') \subseteq Recorded(stored) \union Recorded(status)
      /\ stored'.uuid \in {stored.uuid, status.uuid} /\ stored.uuid \in {0, stored'.uuid}
      /\ cacheCurrent' => cacheCurrent /\ stored' = stored
  BY <1>1, WriteEffect
<1>4. /\ pc' = "idle" /\ status' = NoStatus /\ instCurrent' = FALSE
      /\ lost'.events = lost.events \union (Recorded(status) \ Recorded(stored'))
      /\ lost'.uuid = (lost.uuid \/ status.uuid \notin {0, stored'.uuid})
  BY <1>1, ReturnEffect
<1>5. Recorded(status') = {} /\ Recorded(cache') = Recorded(cache)
  BY <1>2, <1>4, NoStatusTyped
<1>6. Copies'
  BY <1>2, <1>3, <1>4, <1>5 DEF Copies
<1>7. Truthful' /\ Accounted' /\ SentOnce'
  BY <1>2, <1>3, <1>4, <1>5 DEF Truthful, Accounted, SentOnce, sentVars
<1>8. OneName'
  <2>1. users' = users /\ 0 \notin users \ Chosen
    BY <1>2 DEF sentVars, Typed, TypeOK, EventTypes
  <2>2. ~lost'.uuid => ~lost.uuid /\ status.uuid \in {0, stored'.uuid}
    BY <1>4
  <2>3. QED
    BY <1>3, <2>1, <2>2 DEF OneName
<1>9. Noticed'
  <2>1. \A e : Remembered(e)' = Remembered(e)
    BY <1>2 DEF Remembered, memoryVars
  <2>2. QED
    BY <1>2, <1>3, <1>4, <1>5, <2>1 DEF Noticed
<1>10. QED
  BY <1>6, <1>7, <1>8, <1>9

LEMMA CrashKept ==
  ASSUME Typed, Kept, Crash
  PROVE  Kept'
<1> USE DEF Kept
<1>1. /\ stored' = stored /\ cache' = stored /\ UNCHANGED sentVars
  BY DEF Crash
<1>2. /\ pc' = "idle" /\ status' = NoStatus /\ instCurrent' = FALSE
      /\ lost'.events = lost.events \union (Recorded(status) \ Recorded(stored))
      /\ lost'.uuid = (lost.uuid \/ status.uuid \notin {0, stored.uuid})
  BY <1>1, ReturnEffect DEF Crash
<1>3. /\ Recorded(status') = {} /\ Recorded(stored') = Recorded(stored)
      /\ Recorded(cache') = Recorded(stored)
  BY <1>1, <1>2, NoStatusTyped
<1>4. Copies' /\ Noticed'
  BY <1>1, <1>2, <1>3 DEF Copies, Noticed
<1>5. Truthful' /\ Accounted' /\ SentOnce'
  BY <1>1, <1>2, <1>3 DEF Truthful, Accounted, SentOnce, sentVars
<1>6. OneName'
  <2>1. users' = users /\ 0 \notin users \ Chosen
    BY <1>1 DEF sentVars, Typed, TypeOK, EventTypes
  <2>2. ~lost'.uuid => ~lost.uuid /\ status.uuid \in {0, stored.uuid}
    BY <1>2
  <2>3. QED
    BY <1>1, <2>1, <2>2 DEF OneName
<1>7. QED
  BY <1>4, <1>5, <1>6

LEMMA SendersEffect ==
  ASSUME Typed, SendPatternInstallationInfo \/ SendPatternStartEventInfo \/ SendPatternEndEventInfo
  PROVE  /\ UNCHANGED <<stored, cacheVars, instCurrent, lost>> /\ pc # "idle" /\ pc' # "idle"
         /\ \A x \in Events : Remembered(x) => Remembered(x)'
         /\ \E e \in Events : SendEffect(e)
<1>1. UNCHANGED <<stored, cacheVars, instCurrent, lost>> /\ pc # "idle" /\ pc' # "idle"
  BY DEF SendPatternInstallationInfo, SendPatternStartEventInfo, SendPatternEndEventInfo
<1>2. \A x \in Events : Remembered(x) => Remembered(x)'
  <2>1. /\ sentInstallInfo => sentInstallInfo'
        /\ sentStartEvent => sentStartEvent'
        /\ ~due => ~due'
    BY DEF SendPatternInstallationInfo, SendPatternStartEventInfo, SendPatternEndEventInfo
  <2>2. QED
    BY <2>1 DEF Remembered
<1>3. \E e \in Events : SendEffect(e)
  BY InstallationInfoEffect, StartEventEffect, EndEventEffect, KnownEvents DEF EndOrRefresh
<1>4. QED
  BY <1>1, <1>2, <1>3

LEMMA SendersKept ==
  ASSUME Typed, Kept,
         SendPatternInstallationInfo \/ SendPatternStartEventInfo \/ SendPatternEndEventInfo
  PROVE  Kept'
<1> USE DEF Kept
<1>1. /\ stored' = stored /\ cache' = cache /\ cacheCurrent' = cacheCurrent
      /\ instCurrent' = instCurrent /\ lost' = lost /\ pc # "idle" /\ pc' # "idle"
      /\ \A x \in Events : Remembered(x) => Remembered(x)'
  BY SendersEffect DEF cacheVars
<1>2. PICK e \in Events : SendEffect(e)
  BY SendersEffect
<1>3. Recorded(stored') = Recorded(stored) /\ Recorded(cache') = Recorded(cache)
      /\ Recorded(status) \subseteq Recorded(status')
  BY <1>1, <1>2 DEF SendEffect
<1>4. status'.uuid = status.uuid \/ status.uuid = 0
  BY <1>2 DEF SendEffect, GetNewUUID
<1>5. Copies'
  BY <1>1, <1>3, <1>4 DEF Copies
<1>6. (\A x \in Events : count[x] \in 0..2) /\ count' \in [Events -> 0..2]
  <2>1. count \in [Events -> 0..2]
    BY DEF Typed, TypeOK, EventTypes
  <2>2. EventTypes'
    BY <1>2, SendKeepsTypes, SendersEffect
  <2>3. QED
    BY <2>1, <2>2 DEF EventTypes
<1>7. CASE \/ NotSent /\ status' = status
           \/ SendFails /\ Recorded(status') = Recorded(status)
  <2>1. count' = count /\ users' = users /\ Recorded(status') = Recorded(status)
    BY <1>7 DEF NotSent, SendFails, sentVars
  <2>2. Truthful' /\ Accounted' /\ SentOnce'
    BY <1>1, <1>3, <2>1 DEF Truthful, Accounted, SentOnce
  <2>3. OneName'
    <3>1. 0 \notin users \ Chosen
      BY DEF Typed, TypeOK, EventTypes
    <3>2. QED
      BY <1>1, <1>4, <2>1, <3>1 DEF OneName
  <2>4. Noticed'
    BY <1>1, <1>3, <2>1 DEF Noticed
  <2>5. QED
    BY <1>5, <2>2, <2>3, <2>4
<1>8. CASE /\ Sent(e) /\ status'.uuid = GetNewUUID.kept
           /\ Recorded(status') = Recorded(status) \union {e}
           /\ e # Refresh => ~Remembered(e) /\ e \notin Recorded(status)
           /\ Remembered(e)'
  <2>1. /\ count' = [count EXCEPT ![e] = IF @ = 2 THEN 2 ELSE @ + 1]
        /\ users' = users \union {GetNewUUID.user}
    BY <1>8 DEF Sent
  <2>2. count'[e] > 0 /\ \A x \in Events \ {e} : count'[x] = count[x]
    <3>1. count \in [Events -> 0..2]
      BY DEF Typed, TypeOK, EventTypes
    <3>2. QED
      BY <2>1, <3>1
  <2>3. Truthful' /\ Accounted'
    <3>1. Recorded(stored) \subseteq Events /\ Recorded(status) \subseteq Events
      BY DEF Recorded
    <3>2. Truthful'
      BY <1>3, <1>8, <2>2, <3>1 DEF Truthful
    <3>3. Accounted'
      BY <1>1, <1>3, <1>8, <2>2 DEF Accounted
    <3>4. QED
      BY <3>2, <3>3
  <2>4. OneName'
    <3>1. GetNewUUID.user \in {status'.uuid} \union Chosen /\ 0 \notin users \ Chosen
      BY <1>8 DEF GetNewUUID, Typed, TypeOK, CopyTypes, EventTypes, Status
    <3>2. QED
      BY <1>1, <1>4, <2>1, <3>1 DEF OneName
  <2>5. Noticed'
    BY <1>1, <1>3, <1>8 DEF Noticed
  <2>6. SentOnce'
    <3>1. ASSUME e # Refresh, count'[e] > 1
          PROVE  e \in lost.events
      <4>1. count[e] > 0
        BY <2>1, <3>1, <1>6
      <4>2. e \notin Recorded(stored)
        BY <1>1, <1>8, <3>1 DEF Noticed
      <4>3. QED
        BY <1>8, <3>1, <4>1, <4>2 DEF Accounted
    <3>2. QED
      BY <1>1, <2>2, <3>1 DEF SentOnce
  <2>7. QED
    BY <1>5, <2>3, <2>4, <2>5, <2>6
<1>9. QED
  BY <1>2, <1>7, <1>8 DEF SendEffect

LEMMA OutsideKept ==
  ASSUME Typed, Kept, Get \/ Outside
  PROVE  Kept'
<1> USE DEF Kept
<1>1. UNCHANGED <<count, users, lost>> /\ stored'.uuid = stored.uuid
      /\ Recorded(stored') = Recorded(stored)
      /\ (stored' # stored => ~cacheCurrent' /\ ~instCurrent' /\ UserEdits)
  BY OutsideStored DEF Outside, Get, CacheSync, TimerFires, HoursPass, Triggered, UserEdits, ArgoChanges,
     RepositoryChanges, sentVars
<1>2. SentOnce'
  BY <1>1 DEF SentOnce
<1>3. 0 \notin users \ Chosen
  BY DEF Typed, TypeOK, EventTypes
<1>4. CASE Get
  <2>1. /\ pc = "idle" /\ pc' # "idle" /\ status' = cache /\ instCurrent' = cacheCurrent
        /\ UNCHANGED <<stored, cacheVars, memoryVars>> /\ status = NoStatus
    BY <1>4 DEF Get, Copies
  <2>2. /\ Recorded(status) = {} /\ status.uuid = 0 /\ Recorded(status') = Recorded(cache)
        /\ Recorded(stored') = Recorded(stored) /\ Recorded(cache') = Recorded(cache)
        /\ cache' = cache /\ cacheCurrent' = cacheCurrent
    BY <1>1, <2>1, NoStatusTyped DEF cacheVars
  <2>3. Copies'
    BY <1>1, <2>1, <2>2 DEF Copies
  <2>4. Truthful' /\ Accounted'
    BY <1>1, <2>2 DEF Truthful, Accounted, Copies
  <2>5. OneName'
    BY <1>1, <1>3, <2>2 DEF OneName
  <2>6. Noticed'
    <3>1. \A e : Remembered(e)' = Remembered(e)
      BY <2>1 DEF Remembered, memoryVars
    <3>2. QED
      BY <2>1, <2>2, <3>1 DEF Noticed
  <2>7. QED
    BY <1>2, <2>3, <2>4, <2>5, <2>6
<1>5. CASE Outside
  <2>1. UNCHANGED <<status, pc>> /\ instCurrent' \in {instCurrent, FALSE}
    BY <1>5 DEF Outside, CacheSync, TimerFires, HoursPass, Triggered, UserEdits, ArgoChanges,
       RepositoryChanges
  <2>2. \/ cache' = cache /\ (cacheCurrent' => cacheCurrent /\ stored' = stored)
        \/ cache' = stored /\ stored' = stored
    BY <1>5 DEF Outside, CacheSync, TimerFires, HoursPass, Triggered, UserEdits, ArgoChanges,
       RepositoryChanges, cacheVars
  <2>3. /\ Recorded(stored') = Recorded(stored) /\ Recorded(status') = Recorded(status)
        /\ Recorded(cache') \in {Recorded(cache), Recorded(stored)}
    BY <1>1, <2>1, <2>2
  <2>4. Copies'
    <3>1. cacheCurrent' => cache' = stored'
      BY <1>1, <2>2 DEF Copies
    <3>2. Recorded(cache') \subseteq Recorded(stored')
      BY <2>3 DEF Copies
    <3>3. instCurrent' => instCurrent
      BY <2>1 DEF Typed, TypeOK, CopyTypes
    <3>4. instCurrent' => /\ Recorded(stored') \subseteq Recorded(status')
                          /\ stored'.uuid \in {0, status'.uuid}
      BY <1>1, <2>1, <2>3, <3>3 DEF Copies
    <3>5. pc' = "idle" => status' = NoStatus /\ ~instCurrent'
      BY <2>1, <3>3 DEF Copies
    <3>6. QED
      BY <3>1, <3>2, <3>4, <3>5 DEF Copies
  <2>5. Truthful' /\ Accounted' /\ OneName'
    BY <1>1, <2>1, <2>3 DEF Truthful, Accounted, OneName
  <2>6. Noticed'
    <3>1. CASE HoursPass
      <4>1. pc = "idle" /\ cache = stored /\ cache' = cache /\ stored' = stored
            /\ status = NoStatus
        BY <3>1 DEF HoursPass, Copies, cacheVars
      <4>2. Recorded(cache') = Recorded(stored) /\ Recorded(status) = {}
        BY <4>1, NoStatusTyped
      <4>3. QED
        BY <2>1, <2>3, <4>1, <4>2 DEF Noticed
    <3>2. CASE ~HoursPass
      <4>1. UNCHANGED memoryVars
        BY <1>5, <3>2 DEF Outside, CacheSync, TimerFires, Triggered, UserEdits, ArgoChanges,
           RepositoryChanges
      <4>2. \A e : Remembered(e)' = Remembered(e)
        BY <4>1 DEF Remembered, memoryVars
      <4>3. Recorded(cache) \subseteq Recorded(cache')
        BY <2>3 DEF Copies
      <4>4. QED
        BY <2>1, <2>3, <4>2, <4>3 DEF Noticed
    <3>3. QED
      BY <3>1, <3>2
  <2>7. QED
    BY <1>2, <2>4, <2>5, <2>6
<1>6. QED
  BY <1>4, <1>5

LEMMA KeptStep == Typed /\ Kept /\ [Next]_vars => Kept'
<1> SUFFICES ASSUME Typed, Kept, [Next]_vars PROVE Kept'
  OBVIOUS
<1>1. CASE UNCHANGED vars
  <2>1. UNCHANGED <<stored, cache, cacheCurrent, status, instCurrent, pc, count, users, lost,
                    sentInstallInfo, sentStartEvent, due>>
    BY <1>1 DEF vars, cacheVars, memoryVars, sentVars
  <2>2. Recorded(stored') = Recorded(stored) /\ Recorded(status') = Recorded(status)
        /\ Recorded(cache') = Recorded(cache) /\ \A e : Remembered(e)' = Remembered(e)
    BY <2>1 DEF Remembered
  <2>3. QED
    BY <2>1, <2>2 DEF Kept, Copies, Truthful, Accounted, OneName, Noticed, SentOnce
<1>2. QED
  BY <1>1, SendersKept, WorkStepKept, ReturnStepKept, CrashKept, OutsideKept
     DEF Next, Reconcile, Outside

LEMMA Invariant == Spec => [](Typed /\ Kept)
<1>1. Init => Typed /\ Kept
  BY TypesInit, KeptInit
<1>2. Typed /\ Kept /\ [Next]_vars => (Typed /\ Kept)'
  BY TypesStep, KeptStep
<1>3. QED
  BY <1>1, <1>2, PTL DEF Spec

(* The status records only what has been sent.                             *)
THEOREM RecordsAreTrue == Spec => []RecordedWasSent
<1>1. Typed /\ Kept => RecordedWasSent
  BY DEF Kept, Truthful, RecordedWasSent, Recorded
<1>2. QED
  BY <1>1, Invariant, PTL

(* The installation, start and end events are sent once, unless the record *)
(* was lost with a refused or failed write, or a crash.                    *)
THEOREM EventsSentOnce == Spec => []SentOnce
<1>1. Typed /\ Kept => SentOnce
  BY DEF Kept
<1>2. QED
  BY <1>1, Invariant, PTL

(* One Pattern, one generated UUID, unless one could not be stored,        *)
(* whatever UUIDs users specify and take back.                             *)
THEOREM EventsOfOneUser == Spec => []OneUser
<1>1. Typed /\ Kept => OneUser
  <2> SUFFICES ASSUME Typed, Kept, pc = "idle", Cardinality(users \ Chosen) > 1, ~lost.uuid
               PROVE  FALSE
    BY DEF OneUser, Typed, TypeOK, EventTypes
  <2>1. users \ Chosen \subseteq {stored.uuid}
    BY NoStatusTyped DEF Kept, Copies, OneName, Typed, TypeOK, EventTypes
  <2>2. IsFiniteSet({stored.uuid}) /\ Cardinality({stored.uuid}) = 1
    BY FS_Singleton
  <2>3. /\ IsFiniteSet(users \ Chosen) /\ Cardinality(users \ Chosen) <= 1
        /\ Cardinality(users \ Chosen) \in Nat
    BY <2>1, <2>2, FS_Subset, FS_CardinalityType
  <2>4. QED
    BY <2>3
<1>2. QED
  BY <1>1, Invariant, PTL

(* No write takes a record back.                                           *)
THEOREM BitsStayRecorded == Spec => BitsKept
<1>1. Typed /\ Kept /\ [Next]_vars
        => [\A e \in Events : HasBit(stored.sent, e) => HasBit(stored'.sent, e)]_vars
  <2> SUFFICES ASSUME Typed, Kept, Next
               PROVE  Recorded(stored) \subseteq Recorded(stored')
    BY DEF Recorded
  <2>1. CASE Work \/ UpdatePatternCRDetails \/ Complete \/ ActionPerformed
    <3>1. \E s : SameRecord(s) /\ (NotStored \/ Write(s))
      BY <2>1, WorkEffect, DetailsEffect, CompleteEffect, ReportEffect
         DEF Work, NotStored, cacheVars
    <3>2. QED
      BY <3>1, WriteEffect DEF Kept
  <2>2. CASE Get \/ Outside \/ Crash \/ SendPatternInstallationInfo \/ SendPatternStartEventInfo
             \/ SendPatternEndEventInfo
    <3>1. Recorded(stored') = Recorded(stored)
      BY <2>2, SendersEffect, OutsideStored DEF Crash
    <3>2. QED
      BY <3>1
  <2>3. QED
    BY <2>1, <2>2 DEF Next, Reconcile, Outside
<1>2. QED
  BY <1>1, Invariant, PTL DEF Spec, BitsKept
=============================================================================
