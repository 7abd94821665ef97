-------------------------- MODULE MCPatternSource --------------------------
(* What a comment says of it, for the run that refutes it.                 *)
EXTENDS PatternSource

(* pattern_controller.go:592: "Validate that the required values file      *)
(* exists for the cluster group".  Argo CD is given the revision HEAD and  *)
(* resolves it at the remote: for a Pattern without a revision, too, the   *)
(* condition Missing comes to tell whether the file is in what is deployed.*)
HeadIsValidated ==
  <>[](pattern.revision \in {"", "HEAD"} /\ pattern.origin = NoUrl
       => pattern.missing = ~Tip(pattern.url, Main).values)
=============================================================================
