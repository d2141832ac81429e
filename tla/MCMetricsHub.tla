---------------------------- MODULE MCMetricsHub ----------------------------
(* Small instances of MetricsHub for TLC.                                  *)
EXTENDS MetricsHub, TLC

Symmetry == Permutations(Conns)
=============================================================================
