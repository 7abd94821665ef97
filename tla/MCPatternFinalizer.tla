------------------------- MODULE MCPatternFinalizer -------------------------
(* PatternFinalizer for TLC: the README's promise without the provisos of  *)
(* the invariants, for the run that refutes it.                            *)
EXTENDS PatternFinalizer

(* README.md: with the prune annotation, deleting the Pattern "also        *)
(* removes" the top-level application of the hub.                          *)
TopLevelApplicationRemoved ==
  ~pattern.exists /\ pattern.prune /\ app.owned => app.state # "live"
=============================================================================
