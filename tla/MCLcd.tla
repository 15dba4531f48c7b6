--------------------------------- MODULE MCLcd ---------------------------------
(* A small LCD: three visible lines and three of blank, modes of a few     *)
(* ticks, instructions of 1 and 6 ticks so that a mode ends exactly on its *)
(* limit or late, and a clock that wraps soon after the longest mode.      *)
EXTENDS LcdAlone

MCCosts == {1, 6}

MCStatStores ==
    {[enable |-> e, coincidence |-> c, mode |-> "VBLANK"] :
        e \in {{}, Sources, {"LYLYC"}}, c \in {TRUE}}

MCLycStores == {0, 2, 7}

=============================================================================
