----------------------------- MODULE MCInterrupts -----------------------------
(* Two HALT instructions, one STOP, nesting of two, and the three sources  *)
(* that reach the extremes of the priority order.                          *)
EXTENDS InterruptsAlone

MCHaltSites == {"halt1", "halt2"}
MCStopSites == {"stop1"}
MCSources   == {"VBLANK", "TIMER", "KEYPAD"}
MCIeStores  == {{}, MCSources, {"VBLANK", "TIMER"}, {"KEYPAD"}}
MCIfStores  == {{}, {"TIMER"}}
MCRequests  == {{}, {"VBLANK"}, {"TIMER"}, {"VBLANK", "TIMER"}}

=============================================================================
