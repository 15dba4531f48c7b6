-------------------------------- MODULE Timers --------------------------------
(***************************************************************************)
(* gb_INTERRUPT_update_timers: DIV, and TIMA with its control TAC and its  *)
(* modulo TMA, driven by the running total of instruction ticks and by the *)
(* precalculated tick at which each counter moves next.                    *)
(***************************************************************************)
EXTENDS GameBoy

CONSTANTS
    DivPeriod,      \* GB_DIV_UPDATE_TICKS
    Selects,        \* the clock selects (TAC bits 1-0) the program uses
    ResetSelect,    \* the select 00 of a reset TAC
    Interval,       \* the ticks between two increments of TIMA, by select
    TickTop,        \* total_ticks is rebased at TickTop (2^63)
    ByteMax,        \* the largest value of an I/O port
    TimaStores      \* the values the program writes to TIMA and TMA

ASSUME TimersAssumption ==
    /\ DivPeriod \in Nat \ {0}
    /\ Interval \in [Selects -> Nat \ {0}]
    /\ TickTop \in Nat \ {0} /\ ByteMax \in Nat /\ ByteMax >= 1
    /\ \A c \in Costs : /\ c + DivPeriod <= TickTop
                        /\ \A s \in Selects : c + Interval[s] <= TickTop
    /\ TimaStores \subseteq 0..ByteMax
    /\ ResetSelect \in Selects

VARIABLES
    total_ticks,
    DIV, DIV_next,          \* the port, DIV_next_update_ticks
    TIMA, TMA,
    TAC_on, TAC_select,     \* bit 2 and bits 1-0 of TAC
    TIMA_enabled,
    TIMA_next               \* TIMA_next_update_ticks

timerVars == <<total_ticks, DIV, DIV_next, TIMA, TMA, TAC_on, TAC_select,
               TIMA_enabled, TIMA_next>>

TimersInit ==
    /\ total_ticks = 0 /\ DIV = 0 /\ DIV_next = 0
    /\ TIMA = 0 /\ TMA = 0
    /\ TAC_on = FALSE /\ TAC_select = ResetSelect
    /\ TIMA_enabled = FALSE /\ TIMA_next = 0

-----------------------------------------------------------------------------

TimerWrites == {{}, {"DIV"}, {"TIMA"}, {"TMA"}, {"TAC"},
                {"DIV", "TIMA"}, {"TIMA", "TMA"}, {"TMA", "TAC"}}

(* gb_MMU_store8 on a timer register: DIV resets itself.                   *)
TimerStore(W) ==
    /\ DIV' = IF "DIV" \in W THEN 0 ELSE DIV
    /\ TIMA' \in (IF "TIMA" \in W THEN TimaStores ELSE {TIMA})
    /\ TMA' \in (IF "TMA" \in W THEN TimaStores ELSE {TMA})
    /\ TAC_on' \in (IF "TAC" \in W THEN BOOLEAN ELSE {TAC_on})
    /\ TAC_select' \in (IF "TAC" \in W THEN Selects ELSE {TAC_select})
    /\ UNCHANGED <<total_ticks, DIV_next, TIMA_enabled, TIMA_next>>

(* What is kept of a tick count when total_ticks has its top bit set.      *)
Rebased(now, tick) == IF now >= TickTop THEN tick % TickTop ELSE tick

(* Slip: the next tick of DIV is left out of the rebase.                   *)
UpdateDivUnrebased(now) ==
    IF now >= DIV_next
    THEN DIV' = (DIV + 1) % (ByteMax + 1) /\ DIV_next' = DIV_next + DivPeriod
    ELSE DIV' = DIV /\ DIV_next' = DIV_next

(* At most one increment, however late the update comes.                   *)
UpdateDiv(now) ==
    IF now >= DIV_next
    THEN /\ DIV' = (DIV + 1) % (ByteMax + 1)
         /\ DIV_next' = Rebased(now, DIV_next + DivPeriod)
    ELSE /\ DIV' = DIV
         /\ DIV_next' = Rebased(now, DIV_next)

(* TIMA moves from the tick "due"; it overflows when the increment reaches *)
(* ByteMax, not when it passes it.                                         *)
CountTima(now, due, R) ==
    /\ TIMA_enabled' = TRUE
    /\ TIMA_next' = Rebased(now, due + Interval[TAC_select])
    /\ IF TIMA + 1 >= ByteMax
       THEN TIMA' = TMA /\ R = {"TIMER"}
       ELSE TIMA' = TIMA + 1 /\ R = {}

(* Slip: a restarted timer goes on from the tick it was due at long ago.   *)
StartTimaStale(now, R) ==
    TAC_on /\ ~TIMA_enabled /\ CountTima(now, TIMA_next, R)

StartTima(now, R) ==
    TAC_on /\ ~TIMA_enabled /\ CountTima(now, now, R)

TickTima(now, R) ==
    TAC_on /\ TIMA_enabled /\ now >= TIMA_next /\ CountTima(now, TIMA_next, R)

(* Slip: total_ticks is rebased while TIMA idles, its next tick is not.    *)
IdleTimaUnrebased(now, R) ==
    /\ TAC_on => TIMA_enabled /\ now < TIMA_next
    /\ TIMA_enabled' = TAC_on
    /\ R = {}
    /\ UNCHANGED <<TIMA, TIMA_next>>

IdleTima(now, R) ==
    /\ TAC_on => TIMA_enabled /\ now < TIMA_next
    /\ TIMA_enabled' = TAC_on
    /\ TIMA_next' = Rebased(now, TIMA_next)
    /\ R = {}
    /\ UNCHANGED TIMA

TimersStep(t, R) ==
    LET now == total_ticks + t
    IN  /\ UpdateDiv(now)
        /\ StartTima(now, R) \/ TickTima(now, R) \/ IdleTima(now, R)
        /\ total_ticks' = Rebased(now, now)
        /\ UNCHANGED <<TMA, TAC_on, TAC_select>>

TimerRequests == {{}, {"TIMER"}}

-----------------------------------------------------------------------------

TimerTypes ==
    /\ total_ticks \in 0..(TickTop - 1)
    /\ DIV \in 0..ByteMax /\ TIMA \in 0..ByteMax /\ TMA \in 0..ByteMax
    /\ DIV_next \in Nat /\ TIMA_next \in Nat
    /\ TAC_on \in BOOLEAN /\ TIMA_enabled \in BOOLEAN
    /\ TAC_select \in Selects

=============================================================================
