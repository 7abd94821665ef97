-------------------------- MODULE MCPatternStatus --------------------------
(* The code's comments without provisos, for the runs that refute them.    *)
EXTENDS PatternStatus

(* pattern_controller.go:1139-1141: updatePatternCRDetails "compares the   *)
(* current CR Status.Applications array against the                        *)
(* instance.Status.Applications array": in the end the list in the status  *)
(* has the Applications there are, if the loop keeps coming to its end.    *)
ApplicationsReported ==
  Looping => <>[](Listed(stored.applications) = Listed(applications))
=============================================================================
