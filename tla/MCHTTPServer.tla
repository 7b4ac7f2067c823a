---------------------------- MODULE MCHTTPServer ----------------------------
(* HTTPServer for TLC: what clients send, and symmetry.                      *)
EXTENDS HTTPServer, SequencesExt, TLC

Plain == {<<"req", "blank">>}

(* The two pieces of a split line may also come together, as a whole one.    *)
BadOrSplit == {<<"bad", "blank">>, <<"head", "tail", "blank">>}

(* With a fixed order of the services in the first pool, which no property   *)
(* depends on, liveness needs a sixth of the states.                         *)
InitOneOrder == Init /\ pool = SetToSeq(Services)

FairSpecOneOrder == InitOneOrder /\ [][Next]_vars /\ Fairness

Symmetry == Permutations(Ports) \cup Permutations(Services)
=============================================================================
