--------------------------- MODULE DeployedSource ---------------------------
(***************************************************************************)
(* What the git settings of a Pattern promise, without saying how: the     *)
(* comments of GitConfig in api/v1alpha1/pattern_types.go and of Reconcile *)
(* say which repository is deployed.  There are no clones, fetches, Gitea  *)
(* servers, versions or failures here; the operator goes by the settings   *)
(* as it knows them, which may be older than those that are stored.        *)
(* A deployment is a repository and a revision that Argo CD is given, and  *)
(* the commit they were checked against; Argo CD resolves them by itself.  *)
(***************************************************************************)
CONSTANTS
  Repositories,  \* repositories of users
  Fork,          \* the one inside the cluster
  None,          \* no repository
  Revisions,     \* HEAD and names of branches and tags
  Commits        \* a commit has a repository and says whether its values file is there

VARIABLES
  settings,  \* the git settings that are stored
  informed,  \* those the operator knows of
  view,      \* those it is acting on, in a set, {} when it rests
  forked,    \* the fork is there
  deployed   \* what Argo CD was given last, in a set, {} before that

vars == <<settings, informed, view, forked, deployed>>

Settings == [url : Repositories \union {Fork, None}, origin : Repositories \union {None},
             revision : Revisions]

Init ==
  /\ settings \in Settings /\ settings.url # Fork
  /\ informed = settings /\ view = {}
  /\ ~forked /\ deployed = {}

(* Users name repositories of theirs. *)
Edit ==
  /\ settings' \in Settings /\ settings'.url \in Repositories \union {settings.url}
  /\ UNCHANGED <<informed, view, forked, deployed>>

Inform == informed' = settings /\ UNCHANGED <<settings, view, forked, deployed>>

Begin == view = {} /\ view' = {informed} /\ UNCHANGED <<settings, informed, forked, deployed>>

End == view' = {} /\ UNCHANGED <<settings, informed, forked, deployed>>

Restart == view' = {} /\ informed' = settings /\ UNCHANGED <<settings, forked, deployed>>

(* "If you specified OriginRepo then we automatically spawn a gitea        *)
(* instance"; the fork is made of it and stays.                            *)
CopyOrigin ==
  /\ \E v \in view : v.origin # None
  /\ forked' = TRUE
  /\ UNCHANGED <<settings, informed, view, deployed>>

(* Where there is a fork the Pattern is pointed to it, if it still has the *)
(* origin and the revision that were known.                                *)
Retarget ==
  /\ forked
  /\ \E v \in view : v.origin # None /\ v.origin = settings.origin /\ v.revision = settings.revision
  /\ settings' = [settings EXCEPT !.url = Fork] /\ view' = {settings'}
  /\ UNCHANGED <<informed, forked, deployed>>

(* The fork's commits are the origin's, or were pushed to it. *)
IsOf(commit, url) == commit.repo = url \/ (url = Fork /\ commit.repo \in Repositories)

(* The origin "takes precedence over TargetRepo"; a fork is deployed only  *)
(* when it is there, and of each repository only a commit of its own that  *)
(* has the values file.                                                    *)
Deploy ==
  /\ \E v \in view, commit \in Commits :
       /\ v.url # None /\ (v.origin # None => v.url = Fork) /\ (v.url = Fork => forked)
       /\ IsOf(commit, v.url) /\ commit.values
       /\ deployed' = {[url |-> v.url, revision |-> v.revision, checked |-> {commit}]}
  /\ UNCHANGED <<settings, informed, view, forked>>

Next ==
  Edit \/ Inform \/ Begin \/ End \/ Restart \/ CopyOrigin \/ Retarget \/ Deploy

Spec == Init /\ [][Next]_vars
=============================================================================
