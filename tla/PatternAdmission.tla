-------------------------- MODULE PatternAdmission --------------------------
(***************************************************************************)
(* The admission webhook of Patterns (pattern_webhook.go).  A creation is  *)
(* validated first and stored later; the validation looks at the Patterns  *)
(* in the informer's cache.  Updates and deletions are validated against   *)
(* the object they change, which the API server does as one step.          *)
(***************************************************************************)
EXTENDS Naturals, FiniteSets

CONSTANTS
  Patterns,  \* what a Pattern may be called
  Slips      \* "overlapping": creations overlap, or the cache is behind

ASSUME AdmissionAssumption == IsFiniteSet(Patterns) /\ Slips \subseteq {"overlapping"}

VARIABLES
  patterns,  \* the Patterns that are stored, "unnamed" without variant and group
  listed,    \* those in the informer's cache
  admitted,  \* creations that have been validated and are not stored yet
  deleting   \* the Patterns that are being deleted

admissionVars == <<patterns, listed, admitted, deleting>>

States == {"absent", "named", "unnamed"}
Stored == {p \in Patterns : patterns[p] # "absent"}

AdmissionTypeOK ==
  /\ patterns \in [Patterns -> States]
  /\ listed \subseteq Patterns /\ admitted \in [Patterns -> States]
  /\ deleting \subseteq Patterns

AdmissionInit ==
  /\ \E existing \in {{}} \union {{p} : p \in Patterns} :
       /\ patterns = [p \in Patterns |-> IF p \in existing THEN "named" ELSE "absent"]
       /\ listed = existing
  /\ admitted = [p \in Patterns |-> "absent"]
  /\ deleting = {}

-----------------------------------------------------------------------------
(* validateVariantAlias: the variant or the group is given. *)
ValidVariantAlias(state) == state = "named"

ListIgnored == TRUE
NoneListed == listed = {}

Overlapping == listed # Stored \/ \E p \in Patterns : admitted[p] # "absent"

ValidateCreate(p, state) ==
  /\ patterns[p] = "absent" /\ admitted[p] = "absent"
  /\ Overlapping => "overlapping" \in Slips
  /\ ValidVariantAlias(state) /\ NoneListed
  /\ admitted' = [admitted EXCEPT ![p] = state]
  /\ UNCHANGED <<patterns, listed, deleting>>

StoreCreated(p) ==
  /\ admitted[p] # "absent"
  /\ patterns' = [patterns EXCEPT ![p] = admitted[p]]
  /\ admitted' = [admitted EXCEPT ![p] = "absent"]
  /\ UNCHANGED <<listed, deleting>>

ValidateUpdate(p, state) ==
  /\ p \in Stored /\ ValidVariantAlias(state)
  /\ patterns' = [patterns EXCEPT ![p] = state]
  /\ UNCHANGED <<listed, admitted, deleting>>

(* annotated: it carries the prune annotation.  The finalizer keeps the    *)
(* Pattern; that it is taken off is the subject of PatternFinalizer.       *)
ValidateDelete(p, annotated) ==
  /\ p \in Stored \ deleting /\ annotated
  /\ deleting' = deleting \union {p}
  /\ UNCHANGED <<patterns, listed, admitted>>

Finalized(p) ==
  /\ p \in deleting
  /\ patterns' = [patterns EXCEPT ![p] = "absent"]
  /\ deleting' = deleting \ {p}
  /\ UNCHANGED <<listed, admitted>>

ListSync ==
  /\ listed # Stored
  /\ listed' = Stored
  /\ UNCHANGED <<patterns, admitted, deleting>>
=============================================================================
