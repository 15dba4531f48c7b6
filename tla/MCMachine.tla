------------------------------- MODULE MCMachine -------------------------------
(* Two visible lines and one of blank, one HALT and no STOP, one key of the*)
(* button row, one clock select; every instruction takes two ticks and     *)
(* ends one display mode.  The program can switch the display and the      *)
(* timer, ask for either half of the keys, and enable two of the three     *)
(* sources at work.                                                        *)
EXTENDS Machine

MCCosts == {2}
MCHaltSites == {"halt1"}
MCStopSites == {}
MCIeStores == {{"VBLANK", "KEYPAD"}}
MCIfStores == {}
MCStatStores == {[enable |-> {"OAM"}, coincidence |-> FALSE, mode |-> "HBLANK"]}
MCSelects == {"slow"}
MCInterval == [s \in MCSelects |-> 2]
MCStores == {{"LCDC"}, {"TAC"}}
MCButtons == {"A"}
MCDirections == {}
MCJoypStores == {[select |-> {h}, lines |-> {}] : h \in Halves}

=============================================================================
