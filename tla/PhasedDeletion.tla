--------------------------- MODULE PhasedDeletion ---------------------------
(***************************************************************************)
(* What the deletion of a Pattern promises, without saying how: README.md, *)
(* "Delete the pattern", lists what is removed in a phased cleanup, and    *)
(* the phases' descriptions in api/v1alpha1/pattern_types.go say in which  *)
(* order.  There are no caches, versions, failures or restarts here; every *)
(* change of stage is one step that is taken when what the stage is for    *)
(* has been achieved.                                                      *)
(***************************************************************************)
CONSTANT Clusters   \* managed clusters other than local-cluster

VARIABLES
  stage,       \* how far the deletion is
  spokes,      \* clusters with an app of apps
  spokeApps,   \* clusters with child applications
  attached,    \* clusters under ACM's management
  top          \* the app of apps on the hub

vars == <<stage, spokes, spokeApps, attached, top>>

Stages == {"installed", "requested", "DeleteSpokeChildApps", "DeleteSpoke",
           "DeleteHubChildApps", "DeleteHub", "released"}

TypeOK ==
  /\ stage \in Stages
  /\ spokes \subseteq Clusters /\ spokeApps \subseteq Clusters /\ attached \subseteq Clusters
  /\ top \in {"absent", "live", "foreign", "deleting"}

Init ==
  /\ stage = "installed" /\ top = "absent"
  /\ spokes = {} /\ spokeApps = {} /\ attached = {}

SpokesClear == spokes = {} /\ spokeApps = {}

(* While nobody asks for the deletion the pattern grows.  Only a pattern   *)
(* with an app of apps has anything on the spokes.                         *)
Grow ==
  /\ stage = "installed"
  /\ spokes' \in SUBSET Clusters /\ spokes \subseteq spokes'
  /\ spokeApps' \in SUBSET Clusters /\ spokeApps \subseteq spokeApps'
  /\ attached' \in SUBSET Clusters /\ attached \subseteq attached'
  /\ UNCHANGED <<stage, top>>

(* The app of apps may be created by a step that has not seen the request. *)
Deploy ==
  /\ stage \in {"installed", "requested"} /\ top = "absent"
  /\ top' = "live"
  /\ UNCHANGED <<stage, spokes, spokeApps, attached>>

(* Somebody else takes the app of apps over. *)
Disown ==
  /\ top = "live" /\ top' = "foreign"
  /\ UNCHANGED <<stage, spokes, spokeApps, attached>>

MoveTo(next) == stage' = next /\ UNCHANGED <<spokes, spokeApps, attached, top>>

Request == stage = "installed" /\ MoveTo("requested")

(* Without anything on spokes the deletion starts on the hub. *)
Start ==
  /\ stage = "requested" /\ top # "absent"
  /\ \/ MoveTo("DeleteSpokeChildApps")
     \/ SpokesClear /\ attached = {} /\ MoveTo("DeleteHubChildApps")

DropSpokeChild(k) ==
  /\ stage = "DeleteSpokeChildApps" /\ k \in spokeApps
  /\ spokeApps' = spokeApps \ {k}
  /\ UNCHANGED <<stage, spokes, attached, top>>

SpokeChildrenGone ==
  stage = "DeleteSpokeChildApps" /\ spokeApps = {} /\ MoveTo("DeleteSpoke")

DropSpoke(k) ==
  /\ stage = "DeleteSpoke" /\ k \in spokes
  /\ spokes' = spokes \ {k}
  /\ UNCHANGED <<stage, spokeApps, attached, top>>

SpokesGone == stage = "DeleteSpoke" /\ SpokesClear /\ MoveTo("DeleteHubChildApps")

Detach(k) ==
  /\ stage = "DeleteHubChildApps" /\ k \in attached
  /\ attached' = attached \ {k}
  /\ UNCHANGED <<stage, spokes, spokeApps, top>>

HubChildrenGone ==
  stage = "DeleteHubChildApps" /\ SpokesClear /\ attached = {} /\ MoveTo("DeleteHub")

Cascade ==
  /\ stage = "DeleteHub" /\ top # "absent"
  /\ top' = "deleting"
  /\ UNCHANGED <<stage, spokes, spokeApps, attached>>

CascadeEnds ==
  /\ top = "deleting" /\ top' = "absent"
  /\ UNCHANGED <<stage, spokes, spokeApps, attached>>

(* The Pattern goes when its app of apps is gone or going, when it never   *)
(* had one, or when the one there is is not its own.                       *)
Release ==
  /\ stage # "released"
  /\ top # "live"
  /\ MoveTo("released")

(* A Pattern that was let go because its app of apps is another's leaves   *)
(* behind what was under way.                                              *)
RunOut ==
  /\ stage = "released" /\ top = "foreign"
  /\ spokes' \in SUBSET spokes /\ spokeApps' \in SUBSET spokeApps
  /\ attached' \in SUBSET attached
  /\ UNCHANGED <<stage, top>>

Next ==
  \/ Grow \/ Deploy \/ Disown \/ Request \/ Start
  \/ \E k \in Clusters : DropSpokeChild(k) \/ DropSpoke(k) \/ Detach(k)
  \/ SpokeChildrenGone \/ SpokesGone \/ HubChildrenGone
  \/ Cascade \/ CascadeEnds \/ Release \/ RunOut

Spec == Init /\ [][Next]_vars
=============================================================================
