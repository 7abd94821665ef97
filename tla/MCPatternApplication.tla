------------------------ MODULE MCPatternApplication ------------------------
(* Instances of PatternApplication for TLC.                                *)
EXTENDS PatternApplication

AnyText == STRING

Plain == [multiSource |-> TRUE, ownChart |-> FALSE, manualSync |-> FALSE,
          revision |-> "main", version |-> "", extras |-> <<>>]

(* One source, from a branch, with parameters of which one is given twice  *)
(* and one is the operator's; several sources with the user's chart, that  *)
(* are synced by hand, with a parameter that is the operator's only where  *)
(* there are variants; and one that names the parameter of the deletion.   *)
MCSpecs ==
  {Plain,
   [Plain EXCEPT !.multiSource = FALSE, !.revision = "v1",
                 !.extras = <<Param(<<"own">>, "a"), Param(<<"own">>, "b"),
                              Param(Revision, "theirs")>>],
   [Plain EXCEPT !.ownChart = TRUE, !.manualSync = TRUE, !.version = "1.0",
                 !.extras = <<Param(NewFolderDir, "false")>>],
   [Plain EXCEPT !.extras = <<Param(DeletePattern, "none"), Param(<<"global">>, "x")>>]}

MCLayouts ==
  {[slim |-> FALSE, variants |-> FALSE, shared |-> "none"],
   [slim |-> TRUE, variants |-> TRUE, shared |-> "file"],
   [slim |-> TRUE, variants |-> FALSE, shared |-> "bad"]}

(* One repository, whose common is not the slimmed one.                    *)
OneSpec == {Plain}
OneLayout == {[slim |-> FALSE, variants |-> FALSE, shared |-> "none"]}
=============================================================================
