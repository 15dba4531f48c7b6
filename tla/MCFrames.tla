------------------------------- MODULE MCFrames -------------------------------
(* Three visible lines, two blank ones, and instructions of two or three   *)
(* ticks against modes of three to eight, so that a mode ends on its limit *)
(* or late and the shortest one may last a single step.                    *)
EXTENDS Frames

MCCosts == {2, 3}

MCStatStores == {[enable |-> {}, coincidence |-> FALSE, mode |-> "HBLANK"]}

=============================================================================
