-------------------------- MODULE SourceRefinement --------------------------
(***************************************************************************)
(* PatternSource implements DeployedSource: with informers that lag, copies*)
(* that are refused, clones that fail half-way, repositories that share a  *)
(* local path and restarts, it looks from outside as if every deployment   *)
(* was of a validated commit of the one repository that is asked for.      *)
(***************************************************************************)
EXTENDS PatternSource

GitSettings(p) == [url |-> p.url, origin |-> p.origin,
                   revision |-> IF p.revision = "" THEN "HEAD" ELSE p.revision]

View == IF pc = "idle" THEN {} ELSE {GitSettings(instance)}
Deployment == {app} \ {NotMade}

Promise == INSTANCE DeployedSource
             WITH Repositories <- Urls, Fork <- GiteaUrl, None <- NoUrl,
                  Revisions <- Names \union {"HEAD"}, Commits <- Commit,
                  settings <- GitSettings(pattern), informed <- GitSettings(cache),
                  view <- View, forked <- Exists(GiteaUrl), deployed <- Deployment

(* Every step of the operator and of the others is a step of the promise   *)
(* or changes nothing it speaks of: what is deployed is of the fork if the *)
(* Pattern has an origin, and of what it names otherwise, as far as the    *)
(* operator knows it.                                                      *)
ImplementsDeployedSource == Promise!Spec
=============================================================================
