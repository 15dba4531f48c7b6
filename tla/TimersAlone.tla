------------------------------ MODULE TimersAlone ------------------------------
(***************************************************************************)
(* The timers driven by an arbitrary program, with what they must          *)
(* guarantee.                                                              *)
(***************************************************************************)
EXTENDS Timers

VARIABLE
    steady      \* history: the select TIMA has been counting by since it was
                \* started, or "none" if it is off, TAC was rewritten or an
                \* instruction took longer than TIMA's interval

vars == <<stage, timerVars, steady>>

Init == stage = "CPU" /\ TimersInit /\ steady = "none"

Instruction ==
    /\ Call("CPU", "INTERRUPT")
    /\ \E W \in TimerWrites :
          /\ TimerStore(W)
          /\ steady' = IF "TAC" \in W THEN "none" ELSE steady

Step ==
    /\ Call("INTERRUPT", "CPU")
    /\ \E t \in Costs, R \in TimerRequests :
          /\ TimersStep(t, R)
          /\ steady' = IF TAC_on /\ ~TIMA_enabled THEN TAC_select
                       ELSE IF TAC_on /\ t <= Interval[TAC_select] THEN steady
                       ELSE "none"

Next == Instruction \/ Step

SafetySpec == Init /\ [][Next]_vars

Spec == SafetySpec /\ WF_vars(Next)

-----------------------------------------------------------------------------

TypeOK ==
    /\ stage \in {"CPU", "INTERRUPT"}
    /\ TimerTypes
    /\ steady \in Selects \cup {"none"}

(* Its next tick is still to come, and at most a period away.              *)
DivIsOnTime == total_ticks <= DIV_next /\ DIV_next <= total_ticks + DivPeriod

(* The divider falls behind only by an instruction longer than its period: *)
(* the others keep it on time, across rebases too.  The comment in         *)
(* gb_INTERRUPT_update_timers assumes that there are no longer ones.       *)
DivOnTime ==
    [][DivIsOnTime /\ (total_ticks' - total_ticks) % TickTop <= DivPeriod
         => DivIsOnTime']_vars

(* TIMA is on time from its start on, as long as it counts by one clock    *)
(* select and no instruction is longer than the interval: the next         *)
(* increment is still to come, and at most an interval away.               *)
TimaOnTime ==
    steady # "none" =>
        total_ticks < TIMA_next /\ TIMA_next <= total_ticks + Interval[steady]

(* A timer that is left running, its counter and modulo left alone, keeps  *)
(* requesting its interrupt, whatever it was told before.                  *)
TimerKeepsFiring ==
    <>[]TAC_on /\ <>[][stage = "CPU" => UNCHANGED <<TIMA, TMA>>]_vars
        => []<><<\E t \in Costs : TimersStep(t, {"TIMER"})>>_vars

(* interrupts.h on TIMA: "Generates interrupt on overflow."  TIMA leaves   *)
(* its last value, and only that one, for TMA.                             *)
OverflowAtTop ==
    [][stage = "INTERRUPT" /\ TIMA' # TIMA /\ TIMA' # TIMA + 1 => TIMA = ByteMax]_vars

=============================================================================
