---------------------------- MODULE MCServicePool ----------------------------
(* ServicePool for TLC: threads and services are model values, and those     *)
(* that play the same part may be exchanged.                                 *)
EXTENDS ServicePool, TLC

Symmetry == Permutations(Getters) \cup Permutations(Freers) \cup Permutations(Services)
==============================================================================
