---------------------------- MODULE MCPortOwners ----------------------------
(* PortOwners for TLC: owners and services are model values that may be      *)
(* exchanged; ports may not, they get their names in a fixed order.  The     *)
(* number of ports is the only bound: a port object is made once, so that a  *)
(* state in which all of them are gone ends a run.                           *)
EXTENDS PortOwners, TLC

Symmetry == Permutations(Owners) \cup Permutations(Services)
=============================================================================
