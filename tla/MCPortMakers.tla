---------------------------- MODULE MCPortMakers ----------------------------
(* PortOwners for TLC, without symmetry, which liveness does not allow: in a *)
(* behaviour either one owner makes ports and sets timers, or several make   *)
(* ports and only callbacks set timers.                                      *)
EXTENDS PortOwners

VARIABLE acting     \* the owners that act in this behaviour

MakersInit == Init /\ acting \in {Owners, {CHOOSE u \in Owners : TRUE}}

(* What an idle owner begins to do is the only thing restricted, and fairness *)
(* asks no owner to begin anything.                                          *)
MakersNext ==
    /\ Next
    /\ acting' = acting
    /\ \A u \in Owners :
         Idle(u) /\ opc'[u] /= "idle" =>
             u \in acting /\ (opc'[u] = "update" => acting /= Owners)

MakersSpec == MakersInit /\ [][MakersNext]_<<vars, acting>> /\ Fairness
=============================================================================
