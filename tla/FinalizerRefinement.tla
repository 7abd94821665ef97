------------------------ MODULE FinalizerRefinement ------------------------
(***************************************************************************)
(* PatternFinalizer implements PhasedDeletion: when every answer the       *)
(* finalizer gets is true (no slips), what it does step by step, with      *)
(* stale caches, conflicts, failing calls and restarts, looks from outside *)
(* like the phased deletion.                                               *)
(***************************************************************************)
EXTENDS PatternFinalizer

Stage ==
  CASE ~pattern.exists                        -> "released"
    [] pattern.exists /\ ~pattern.deleting    -> "installed"
    [] pattern.exists /\ pattern.deleting /\ pattern.phase = "" -> "requested"
    [] OTHER                                  -> pattern.phase

Top ==
  IF app.state = "live" /\ ~app.owned THEN "foreign" ELSE app.state

Attached == {k \in Clusters : clusters[k] # "none"}

Promise == INSTANCE PhasedDeletion
             WITH stage <- Stage, top <- Top, attached <- Attached

(* Every step of the finalizer and of its environment is a step of the     *)
(* promised deletion or changes nothing it speaks of.                      *)
ImplementsPhasedDeletion == Promise!Spec
=============================================================================
