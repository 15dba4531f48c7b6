------------------------------- MODULE MCTimers -------------------------------
(* Instructions shorter than, as long as and half again as long as a       *)
(* divider period (4, 16 and 24 ticks against 16); two clock selects, the  *)
(* faster one as short as that period; two-bit ports.                      *)
EXTENDS TimersAlone

MCCosts    == {1, 4, 6}
MCSelects  == {"slow", "fast"}
MCInterval == [s \in MCSelects |-> IF s = "slow" THEN 8 ELSE 4]
MCStores   == {0, 3}

=============================================================================
