----------------------------- MODULE MachineProofs -----------------------------
(***************************************************************************)
(* Theorems about the whole machine in its window: what the components     *)
(* keep alone, they keep together, in the order gb_machine_step calls them,*)
(* for every program, cost, raster and user.  From LcdProofs come the      *)
(* lemmas about a step of the controller; vblanks plays no part here.      *)
(***************************************************************************)
EXTENDS Watched, LcdProofs

(* Served a call earlier than PromptDispatch asks: by gb_INTERRUPT_step.   *)
Served == stage \in {"CPU", "DISPLAY"} /\ IME => IO_IE \cap IO_IF = {}

(* A CPU that waits in HALT is at a HALT instruction, with nothing to serve.*)
WaitsInPlace ==
    HALT_is_waiting_for_ISR =>
        /\ HALT /\ PC \in HaltSites
        /\ IME => IO_IE \cap IO_IF = {}

(* Interrupts nest no deeper than the program lets them.                   *)
NestingBound == IME => Len(frames) <= MaxNest

MachineInv == TypeOK /\ LcdInv /\ Served /\ WaitsInPlace /\ NestingBound

(* The part of it the interrupt control keeps, whatever the devices do.    *)
ControlInv ==
    /\ IntTypes /\ Len(frames) <= MaxNest + 1
    /\ Served /\ WaitsInPlace /\ NestingBound

-----------------------------------------------------------------------------

(* The flag served is one of those pending.                                *)
LEMMA FirstIsPending ==
    ASSUME NEW pending \in SUBSET Ints, pending # {}
    PROVE  First(pending) \in pending
<1>1. Control!First(pending) \in pending
  BY Control!FirstIsServed, SitesAssumption, CostsAssumption DEF Ints, Control!Ints
<1>2. First(pending) = Control!First(pending)
  BY DEF First, IntFlags, Control!First, Control!IntFlags
<1>3. QED
  BY <1>1, <1>2

LEMMA MachineInitEstablishesInv == Init => MachineInv
<1> SUFFICES ASSUME Init PROVE MachineInv
  OBVIOUS
<1>1. /\ ScreenH \in Nat /\ LyMax \in Nat /\ 2 <= ScreenH
      /\ ClockTop \in Nat /\ ClockTop > 0
  BY LcdAssumption
<1>2. LcdInv /\ LcdTypes
  BY <1>1, LimitFacts
     DEF Init, LcdInit, LcdInv, LcdTypes, ModeLine, NoModeOverstays, Modes, StatBytes
<1>3. IntTypes
  <2>1. PC \in Places /\ frames \in Seq(Places)
    BY DEF Init, IntInit, Places
  <2>2. /\ IME = FALSE /\ HALT = FALSE /\ HALT_is_waiting_for_ISR = FALSE
        /\ STOP = FALSE /\ STOP_is_waiting_for_JOYP = FALSE
        /\ IO_IE = {} /\ IO_IF = {}
    BY DEF Init, IntInit
  <2>3. QED
    BY <2>1, <2>2 DEF IntTypes
<1>4. TimerTypes
  <2>1. 0 \in 0..(TickTop - 1) /\ 0 \in 0..ByteMax /\ ResetSelect \in Selects
    BY TimersAssumption
  <2>2. TAC_on = FALSE /\ TIMA_enabled = FALSE /\ TAC_select = ResetSelect
    BY DEF Init, TimersInit
  <2>3. /\ total_ticks = 0 /\ DIV = 0 /\ TIMA = 0 /\ TMA = 0
        /\ DIV_next = 0 /\ TIMA_next = 0
    BY DEF Init, TimersInit
  <2>4. QED
    BY <2>1, <2>2, <2>3 DEF TimerTypes
<1>5. Len(frames) = 0 /\ MaxNest \in Nat /\ ~IME /\ ~HALT_is_waiting_for_ISR
  BY SitesAssumption DEF Init, IntInit
<1>6. last_LY \in Visible
  BY <1>1 DEF Init, DisplayInit, Visible
<1>7. /\ stage = "CPU" /\ screen_ready = FALSE /\ glut = "events"
      /\ JOYP.select = {}
  BY DEF Init, DisplayInit, KeypadInit
<1>8. TypeOK
  <2>1. Len(frames) <= MaxNest + 1
    BY <1>5
  <2>2. JOYP.select \in SUBSET Halves
    BY <1>7
  <2>3. QED
    BY <1>2, <1>3, <1>4, <1>6, <1>7, <2>1, <2>2 DEF TypeOK, Stages
<1>9. QED
  BY <1>2, <1>5, <1>8 DEF MachineInv, Served, WaitsInPlace, NestingBound

-----------------------------------------------------------------------------
(* Interrupt control.                                                      *)

(* Popping a stack of S's: the top, and what is left.                      *)
LEMMA PopProperties ==
    ASSUME NEW S, NEW stack \in Seq(S), stack # <<>>
    PROVE  /\ stack[Len(stack)] \in S
           /\ SubSeq(stack, 1, Len(stack) - 1) \in Seq(S)
           /\ Len(SubSeq(stack, 1, Len(stack) - 1)) = Len(stack) - 1
<1>1. Len(stack) \in Nat /\ Len(stack) \in 1..Len(stack)
  OBVIOUS
<1>2. stack[Len(stack)] \in S
  BY <1>1
<1>3. SubSeq(stack, 1, Len(stack) - 1) \in Seq(S)
  BY <1>1
<1>4. Len(SubSeq(stack, 1, Len(stack) - 1)) = Len(stack) - 1
  <2>1. CASE Len(stack) = 1
    BY <2>1
  <2>2. CASE Len(stack) > 1
    BY <1>1, <2>2
  <2>3. \A n \in Nat : n \in 1..n => n = 1 \/ n > 1
    OBVIOUS
  <2>4. QED
    BY <1>1, <2>1, <2>2, <2>3
<1>5. QED
  BY <1>2, <1>3, <1>4

(* An instruction that is neither HALT nor STOP runs while nobody waits in *)
(* HALT, and cannot make anybody.                                          *)
LEMMA OrdinaryKeepsInv ==
    ASSUME ControlInv, stage = "CPU", stage' = "INPUT",
           AtOrdinary, PC' \in Places,
           IME' \in BOOLEAN, IO_IE' \in SUBSET Ints, IO_IF' \in SUBSET Ints,
           HALT' = HALT, STOP' = STOP,
           HALT_is_waiting_for_ISR' \in BOOLEAN,
           HALT_is_waiting_for_ISR' => HALT_is_waiting_for_ISR,
           STOP_is_waiting_for_JOYP' \in BOOLEAN,
           frames' \in Seq(Places), Len(frames') <= MaxNest + 1,
           IME' => Len(frames') <= MaxNest
    PROVE  ControlInv'
<1>1. ~HALT_is_waiting_for_ISR'
  BY DEF ControlInv, WaitsInPlace, AtOrdinary
<1>2. IntTypes'
  BY DEF ControlInv, IntTypes
<1>3. QED
  BY <1>1, <1>2 DEF ControlInv, Served, WaitsInPlace, NestingBound

LEMMA ControlInstructionKeepsInv ==
    ASSUME ControlInv, stage = "CPU", stage' = "INPUT", ControlInstruction
    PROVE  ControlInv'
<1>0. /\ IME \in BOOLEAN /\ IO_IE \in SUBSET Ints /\ IO_IF \in SUBSET Ints
      /\ HALT \in BOOLEAN /\ HALT_is_waiting_for_ISR \in BOOLEAN
      /\ STOP \in BOOLEAN /\ STOP_is_waiting_for_JOYP \in BOOLEAN
      /\ PC \in Places /\ frames \in Seq(Places) /\ Len(frames) \in Nat
      /\ Len(frames) <= MaxNest + 1 /\ (IME => Len(frames) <= MaxNest)
      /\ MaxNest \in Nat
  BY SitesAssumption DEF ControlInv, IntTypes, NestingBound
<1>s. HaltSites \cap StopSites = {}
  BY SitesAssumption
<1>1. CASE Ordinary \/ StoreIE \/ StoreIF \/ DI
  <2>1. /\ AtOrdinary /\ PC' \in Places /\ (IME' = IME \/ IME' = FALSE)
        /\ IO_IE' \in SUBSET Ints /\ IO_IF' \in SUBSET Ints
        /\ UNCHANGED <<HALT, HALT_is_waiting_for_ISR, STOP,
                       STOP_is_waiting_for_JOYP, frames>>
    BY <1>0, <1>1, SitesAssumption
       DEF Ordinary, StoreIE, StoreIF, DI, Unwaited, NextPlaces, Places
  <2>2. IME' \in BOOLEAN /\ (IME' => IME)
    <3>1. CASE IME' = IME
      BY <1>0, <3>1
    <3>2. CASE IME' = FALSE
      BY <3>2
    <3>3. QED
      BY <2>1, <3>1, <3>2
  <2>3. QED
    BY <1>0, <2>1, <2>2, OrdinaryKeepsInv
<1>2. CASE EI
  <2>1. /\ AtOrdinary /\ PC' \in Places /\ IME' = TRUE /\ Len(frames) < MaxNest
        /\ HALT_is_waiting_for_ISR' = FALSE
        /\ UNCHANGED <<IO_IE, IO_IF, HALT, STOP, frames>>
    BY <1>2 DEF EI, NextPlaces, Places
  <2>2. STOP_is_waiting_for_JOYP' \in BOOLEAN
    BY <1>2 DEF EI
  <2>3. Len(frames) <= MaxNest
    BY <1>0, <2>1
  <2>4. IME' \in BOOLEAN /\ HALT_is_waiting_for_ISR' \in BOOLEAN
        /\ ~HALT_is_waiting_for_ISR'
    BY <2>1
  <2>5. QED
    BY <1>0, <2>1, <2>2, <2>3, <2>4, OrdinaryKeepsInv
<1>3. ASSUME NEW enable \in BOOLEAN, Return(enable) PROVE ControlInv'
  <2>1. PC' \in Places /\ frames' \in Seq(Places) /\ Len(frames') = Len(frames) - 1
    <3>1. frames # <<>> /\ PC' = frames[Len(frames)]
          /\ frames' = SubSeq(frames, 1, Len(frames) - 1)
      BY <1>3 DEF Return
    <3>2. frames \in Seq(Places)
      BY <1>0
    <3>3. QED
      BY <3>1, <3>2, PopProperties
  <2>2. /\ AtOrdinary /\ IME' \in BOOLEAN
        /\ UNCHANGED <<IO_IE, IO_IF, HALT, HALT_is_waiting_for_ISR, STOP,
                       STOP_is_waiting_for_JOYP>>
    BY <1>0, <1>3 DEF Return, Unwaited
  <2>3. Len(frames') <= MaxNest /\ Len(frames') <= MaxNest + 1
    BY <1>0, <2>1
  <2>4. QED
    BY <1>0, <2>1, <2>2, <2>3, OrdinaryKeepsInv
<1>4. CASE EnterHalt
  <2>1. /\ PC \in HaltSites /\ PC' = PC /\ HALT' = TRUE
        /\ HALT_is_waiting_for_ISR' = TRUE
        /\ UNCHANGED <<IME, IO_IE, IO_IF, STOP, STOP_is_waiting_for_JOYP, frames>>
    BY <1>4 DEF EnterHalt
  <2>2. IME => IO_IE \cap IO_IF = {}
    BY DEF ControlInv, Served
  <2>3. IntTypes'
    BY <1>0, <2>1 DEF IntTypes
  <2>4. QED
    BY <1>0, <2>1, <2>2, <2>3 DEF ControlInv, Served, WaitsInPlace, NestingBound
<1>5. CASE SpinInHalt \/ SpinInStop
  BY <1>5 DEF SpinInHalt, SpinInStop, intVars, ControlInv, IntTypes, Places,
              Served, WaitsInPlace, NestingBound
<1>6. CASE LeaveHalt
  <2>1. /\ PC' \in Places /\ HALT' = FALSE /\ ~HALT_is_waiting_for_ISR
        /\ UNCHANGED <<IME, IO_IE, IO_IF, HALT_is_waiting_for_ISR, STOP,
                       STOP_is_waiting_for_JOYP, frames>>
    BY <1>6 DEF LeaveHalt, NextPlaces, Places
  <2>2. IntTypes'
    BY <1>0, <2>1 DEF IntTypes
  <2>3. QED
    BY <1>0, <2>1, <2>2 DEF ControlInv, Served, WaitsInPlace, NestingBound
<1>7. CASE EnterStop \/ LeaveStop
  <2>1. /\ PC \in StopSites /\ PC' \in Places
        /\ STOP' \in BOOLEAN /\ STOP_is_waiting_for_JOYP' \in BOOLEAN
        /\ UNCHANGED <<IME, IO_IE, IO_IF, HALT, HALT_is_waiting_for_ISR, frames>>
    BY <1>0, <1>7 DEF EnterStop, LeaveStop, NextPlaces, Places
  <2>2. ~HALT_is_waiting_for_ISR
    BY <1>s, <2>1 DEF ControlInv, WaitsInPlace
  <2>3. IntTypes'
    BY <1>0, <2>1 DEF IntTypes
  <2>4. QED
    BY <1>0, <2>1, <2>2, <2>3 DEF ControlInv, Served, WaitsInPlace, NestingBound
<1>8. QED
  BY <1>1, <1>2, <1>3, <1>4, <1>5, <1>6, <1>7 DEF ControlInstruction

(* The keypad's request is made before the interrupts are served.          *)
LEMMA RequestKeepsInv ==
    ASSUME ControlInv, stage' = "INTERRUPT",
           NEW R \in {{}, {"KEYPAD"}}, Request(R),
           UNCHANGED <<IME, IO_IE, HALT, STOP, PC, frames>>
    PROVE  ControlInv'
<1>1. CASE R = {}
  <2>1. UNCHANGED <<IO_IF, HALT_is_waiting_for_ISR, STOP_is_waiting_for_JOYP>>
    BY <1>1 DEF Request
  <2>2. IntTypes'
    BY <2>1 DEF ControlInv, IntTypes
  <2>3. QED
    BY <2>1, <2>2 DEF ControlInv, Served, WaitsInPlace, NestingBound
<1>2. CASE R = {"KEYPAD"}
  <2>1. IO_IF' = IO_IF \cup {"KEYPAD"} /\ HALT_is_waiting_for_ISR' = FALSE
    BY <1>2 DEF Request
  <2>2. STOP_is_waiting_for_JOYP' \in BOOLEAN
    <3>1. STOP_is_waiting_for_JOYP' = ("KEYPAD" \in IO_IF')
      BY <1>2 DEF Request
    <3>2. QED
      BY <3>1
  <2>3. IO_IF' \in SUBSET Ints
    BY <2>1 DEF ControlInv, IntTypes, Ints
  <2>4. IntTypes'
    BY <2>1, <2>2, <2>3 DEF ControlInv, IntTypes
  <2>5. QED
    BY <2>1, <2>4 DEF ControlInv, Served, WaitsInPlace, NestingBound
<1>3. QED
  BY <1>1, <1>2

(* The step serves the first pending interrupt, or none is pending.        *)
LEMMA ExecuteKeepsInv ==
    ASSUME ControlInv, stage' = "DISPLAY",
           NEW R \in SUBSET Ints, RequestAndExecute(R)
    PROVE  ControlInv'
<1> DEFINE raised == IO_IF \cup R
           pending == IO_IE \cap raised
<1>0. /\ IME \in BOOLEAN /\ IO_IE \in SUBSET Ints /\ IO_IF \in SUBSET Ints
      /\ HALT \in BOOLEAN /\ HALT_is_waiting_for_ISR \in BOOLEAN
      /\ STOP \in BOOLEAN /\ STOP_is_waiting_for_JOYP \in BOOLEAN
      /\ PC \in Places /\ frames \in Seq(Places) /\ Len(frames) \in Nat
      /\ Len(frames) <= MaxNest + 1 /\ (IME => Len(frames) <= MaxNest)
      /\ MaxNest \in Nat
  BY SitesAssumption DEF ControlInv, IntTypes, NestingBound
<1>1. /\ IO_IE' = IO_IE /\ HALT' = HALT /\ STOP' = STOP
      /\ HALT_is_waiting_for_ISR' = (HALT_is_waiting_for_ISR /\ R = {})
  BY DEF RequestAndExecute, Pending, Unserved, WaitsOn
<1>2. HALT_is_waiting_for_ISR' \in BOOLEAN
      /\ (HALT_is_waiting_for_ISR' => HALT_is_waiting_for_ISR /\ R = {})
  BY <1>0, <1>1
<1>3. STOP_is_waiting_for_JOYP' \in BOOLEAN
  <2>1. CASE R = {}
    <3>1. STOP_is_waiting_for_JOYP' = STOP_is_waiting_for_JOYP
      BY <2>1 DEF RequestAndExecute, Pending, Unserved, WaitsOn
    <3>2. QED
      BY <1>0, <3>1
  <2>2. CASE R # {}
    <3>1. STOP_is_waiting_for_JOYP' = ("KEYPAD" \in raised)
      BY <2>2 DEF RequestAndExecute, Pending, Unserved, WaitsOn
    <3> HIDE DEF raised
    <3>2. QED
      BY <3>1
  <2>3. QED
    BY <2>1, <2>2
<1>4. raised \in SUBSET Ints /\ pending \in SUBSET Ints
  BY <1>0
<1>5. CASE IME /\ pending # {}
  <2>1. /\ IME' = FALSE /\ PC' = First(pending)
        /\ IO_IF' = raised \ {First(pending)}
        /\ frames' = Append(frames, PC)
    BY <1>5 DEF RequestAndExecute, Pending, Unserved, WaitsOn
  <2>2. First(pending) \in Ints
    BY <1>4, <1>5, FirstIsPending
  <2>3. PC' \in Places /\ IO_IF' \in SUBSET Ints
    BY <1>4, <2>1, <2>2 DEF Places
  <2>4. frames' \in Seq(Places) /\ Len(frames') = Len(frames) + 1
    BY <1>0, <2>1
  <2>5. ~HALT_is_waiting_for_ISR'
    <3>1. CASE R = {}
      BY <1>2, <1>5, <3>1 DEF ControlInv, WaitsInPlace
    <3>2. CASE R # {}
      BY <1>2, <3>2
    <3>3. QED
      BY <3>1, <3>2
  <2>6. IntTypes'
    BY <1>0, <1>1, <1>2, <1>3, <2>1, <2>3, <2>4 DEF IntTypes
  <2>7. Len(frames') <= MaxNest + 1
    BY <1>0, <1>5, <2>4
  <2>8. QED
    BY <2>1, <2>5, <2>6, <2>7 DEF ControlInv, Served, WaitsInPlace, NestingBound
<1>6. CASE ~(IME /\ pending # {})
  <2>1. IO_IF' = raised /\ UNCHANGED <<IME, frames, PC>>
    BY <1>6 DEF RequestAndExecute, Pending, Unserved, WaitsOn
  <2>2. IntTypes'
    BY <1>0, <1>1, <1>2, <1>3, <1>4, <2>1 DEF IntTypes
  <2>3. IME' => IO_IE' \cap IO_IF' = {}
    BY <1>1, <1>6, <2>1
  <2>4. WaitsInPlace'
    BY <1>1, <1>2, <2>1, <2>3 DEF ControlInv, WaitsInPlace
  <2>5. QED
    BY <1>0, <2>1, <2>2, <2>3, <2>4 DEF ControlInv, Served, NestingBound
<1>7. QED
  BY <1>5, <1>6

-----------------------------------------------------------------------------
(* The timers.                                                             *)

LEMMA TimerStoreKeepsTypes ==
    ASSUME TimerTypes, NEW W \in TimerWrites, TimerStore(W)
    PROVE  TimerTypes'
<1>1. TimaStores \subseteq 0..ByteMax /\ ByteMax \in Nat
  BY TimersAssumption
<1>2. DIV' \in 0..ByteMax /\ TIMA' \in 0..ByteMax /\ TMA' \in 0..ByteMax
  BY <1>1 DEF TimerStore, TimerTypes
<1>3. TAC_on' \in BOOLEAN
  BY DEF TimerStore, TimerTypes
<1>4. TAC_select' \in Selects
  BY DEF TimerStore, TimerTypes
<1>5. UNCHANGED <<total_ticks, DIV_next, TIMA_enabled, TIMA_next>>
  BY DEF TimerStore
<1>6. QED
  BY <1>2, <1>3, <1>4, <1>5 DEF TimerTypes

LEMMA RebasedKeepsTypes ==
    ASSUME NEW now \in Nat, NEW tick \in Nat
    PROVE  Rebased(now, tick) \in Nat /\ Rebased(now, now) \in 0..(TickTop - 1)
<1>1. TickTop \in Nat \ {0}
  BY TimersAssumption
<1>2. tick % TickTop \in 0..(TickTop - 1) /\ now % TickTop \in 0..(TickTop - 1)
  BY <1>1, ModBasics
<1>3. QED
  BY <1>1, <1>2 DEF Rebased

LEMMA TimersStepKeepsTypes ==
    ASSUME TimerTypes, NEW t \in Costs, NEW R \in TimerRequests, TimersStep(t, R)
    PROVE  TimerTypes'
<1> DEFINE now == total_ticks + t
<1>1. /\ ByteMax \in Nat /\ DivPeriod \in Nat /\ now \in Nat
      /\ Interval[TAC_select] \in Nat
      /\ DIV \in 0..ByteMax /\ TIMA \in 0..ByteMax /\ TMA \in 0..ByteMax
      /\ DIV_next \in Nat /\ TIMA_next \in Nat
  <2>1. t \in Nat /\ total_ticks \in Nat
    BY CostsAssumption, TimersAssumption DEF TimerTypes
  <2>2. QED
    BY <2>1, TimersAssumption DEF TimerTypes
<1>2. /\ UpdateDiv(now) /\ total_ticks' = Rebased(now, now)
      /\ StartTima(now, R) \/ TickTima(now, R) \/ IdleTima(now, R)
      /\ UNCHANGED <<TMA, TAC_on, TAC_select>>
  BY DEF TimersStep
<1> HIDE DEF now
<1>3. total_ticks' \in 0..(TickTop - 1)
  BY <1>1, <1>2, RebasedKeepsTypes
<1>4. DIV' \in 0..ByteMax
  <2>1. DIV + 1 \in Nat /\ ByteMax + 1 \in Nat \ {0}
    BY <1>1
  <2>2. (DIV + 1) % (ByteMax + 1) \in 0..((ByteMax + 1) - 1)
    BY <2>1, ModBasics
  <2>3. (ByteMax + 1) - 1 = ByteMax
    BY <1>1
  <2>4. QED
    BY <1>1, <1>2, <2>2, <2>3 DEF UpdateDiv
<1>5. DIV_next' \in Nat
  <2>1. DIV_next + DivPeriod \in Nat
    BY <1>1
  <2>2. QED
    BY <1>1, <1>2, <2>1, RebasedKeepsTypes DEF UpdateDiv
<1>6. CASE IdleTima(now, R)
  <2>1. TIMA_next' \in Nat /\ TIMA' = TIMA /\ TIMA_enabled' = TAC_on
    BY <1>1, <1>6, RebasedKeepsTypes DEF IdleTima
  <2>2. QED
    BY <1>2, <1>3, <1>4, <1>5, <2>1 DEF TimerTypes
<1>7. ASSUME NEW due \in Nat, CountTima(now, due, R) PROVE TimerTypes'
  <2>1. due + Interval[TAC_select] \in Nat
    BY <1>1
  <2>2. TIMA_next' \in Nat
    BY <1>1, <1>7, <2>1, RebasedKeepsTypes DEF CountTima
  <2>3. TIMA' \in 0..ByteMax /\ TIMA_enabled' = TRUE
    BY <1>1, <1>7 DEF CountTima
  <2>4. QED
    BY <1>2, <1>3, <1>4, <1>5, <2>2, <2>3 DEF TimerTypes
<1>8. QED
  BY <1>1, <1>2, <1>6, <1>7 DEF StartTima, TickTima

-----------------------------------------------------------------------------
(* The machine.                                                            *)

(* An instruction in its loop stores to one component at most, and is one  *)
(* of interrupt control's in any case.                                     *)
LEMMA ExecuteEffect ==
    ASSUME NEW W \in Writes, Execute(W)
    PROVE  /\ stage = "CPU" /\ stage' = "INPUT" /\ LoopAgain
           /\ ControlInstruction
           /\ UNCHANGED lcdVars \/ (W \in LcdWrites /\ LcdStore(W))
           /\ UNCHANGED timerVars \/ (W \in TimerWrites /\ TimerStore(W))
           /\ UNCHANGED keypadVars \/ StoreJoyp
           /\ UNCHANGED <<last_LY, screen_ready, glut, key_events>>
           /\ HALT_is_waiting_for_ISR /\ PC \in HaltSites
                => UNCHANGED <<lcdVars, timerVars, keypadVars>>
<1>0. LoopAgain /\ CpuStep(W)
  BY DEF Execute
<1>1. Call("CPU", "INPUT") /\ UNCHANGED <<displayVars, key_events>>
  BY <1>0 DEF CpuStep
<1>2. CASE W = {}
  BY <1>0, <1>1, <1>2 DEF CpuStep, Call, displayVars
<1>3. CASE W # {}
  <2>1. /\ Ordinary
        /\ IF W \in LcdWrites THEN LcdStore(W) ELSE UNCHANGED lcdVars
        /\ IF W \in TimerWrites THEN TimerStore(W) ELSE UNCHANGED timerVars
        /\ IF W = {"JOYP"} THEN StoreJoyp ELSE UNCHANGED keypadVars
    BY <1>0, <1>3 DEF CpuStep
  <2>2. ControlInstruction /\ PC \notin HaltSites
    BY <2>1 DEF ControlInstruction, Ordinary, AtOrdinary
  <2>3. QED
    BY <1>0, <1>1, <2>1, <2>2 DEF Call, displayVars
<1>4. QED
  BY <1>2, <1>3

LEMMA MachineInstructionKeepsInv == ASSUME MachineInv, Instruction PROVE MachineInv'
<1>0. PICK W \in Writes : Execute(W)
  BY DEF Instruction
<1>1. /\ stage = "CPU" /\ stage' = "INPUT" /\ ControlInv /\ LcdInv
      /\ UNCHANGED <<last_LY, screen_ready, glut>>
  BY <1>0, ExecuteEffect DEF MachineInv, ControlInv, TypeOK
<1>2. ControlInstruction
  BY <1>0, ExecuteEffect
<1>3. ControlInv'
  BY <1>1, <1>2, ControlInstructionKeepsInv
<1>4. LcdInv'
  <2>1. CASE UNCHANGED lcdVars
    BY <1>1, <2>1 DEF lcdVars, LcdInv, LcdTypes, ModeLine, NoModeOverstays
  <2>2. CASE W \in LcdWrites /\ LcdStore(W)
    BY <1>1, <2>2, LcdStoreKeepsInv
  <2>3. QED
    BY <1>0, <2>1, <2>2, ExecuteEffect
<1>5. TimerTypes'
  <2>1. CASE UNCHANGED timerVars
    BY <2>1 DEF timerVars, MachineInv, TypeOK, TimerTypes
  <2>2. CASE W \in TimerWrites /\ TimerStore(W)
    BY <2>2, TimerStoreKeepsTypes DEF MachineInv, TypeOK
  <2>3. QED
    BY <1>0, <2>1, <2>2, ExecuteEffect
<1>6. JOYP'.select \in SUBSET Halves
  <2>1. CASE UNCHANGED keypadVars
    BY <2>1 DEF keypadVars, MachineInv, TypeOK
  <2>2. CASE StoreJoyp
    BY <2>2, KeypadAssumption DEF StoreJoyp, JoypBytes
  <2>3. QED
    BY <1>0, <2>1, <2>2, ExecuteEffect
<1>7. last_LY' \in Visible' /\ screen_ready' \in BOOLEAN /\ glut' \in {"events", "frame"}
  BY <1>1 DEF MachineInv, TypeOK, Visible
<1>8. QED
  BY <1>1, <1>3, <1>4, <1>5, <1>6, <1>7
     DEF MachineInv, TypeOK, ControlInv, LcdInv, Stages

LEMMA InputKeepsInv == ASSUME MachineInv, Input PROVE MachineInv'
<1>1. PICK R \in {{}, {"KEYPAD"}} : KeypadStep(R) /\ Request(R)
  BY DEF Input
<1>2. /\ stage' = "INTERRUPT" /\ ControlInv
      /\ UNCHANGED <<IME, IO_IE, HALT, STOP, PC, frames>>
      /\ UNCHANGED lcdVars /\ UNCHANGED timerVars
      /\ UNCHANGED <<last_LY, screen_ready, glut>>
  BY DEF Input, Call, displayVars, MachineInv, ControlInv, TypeOK
<1>3. ControlInv'
  BY <1>1, <1>2, RequestKeepsInv
<1>4. LcdInv' /\ TimerTypes'
  BY <1>2 DEF lcdVars, timerVars, MachineInv, TypeOK, LcdInv, LcdTypes, ModeLine,
              NoModeOverstays, TimerTypes
<1>5. JOYP'.select \in SUBSET Halves
  BY <1>1 DEF KeypadStep, Answer, NoAnswer, Halves, MachineInv, TypeOK
<1>6. QED
  BY <1>2, <1>3, <1>4, <1>5 DEF MachineInv, TypeOK, ControlInv, LcdInv, Stages, Visible

LEMMA MachineStepKeepsInv == ASSUME MachineInv, Step PROVE MachineInv'
<1>1. PICK t \in Costs, Rt \in TimerRequests, Rl \in LcdRequests :
          StepDevices(t, Rt, Rl)
  BY DEF Step
<1>a. TimersStep(t, Rt) /\ LcdStep(t, Rl) /\ RequestAndExecute(Rt \cup Rl)
  BY <1>1 DEF StepDevices
<1>2. /\ stage' = "DISPLAY" /\ ControlInv /\ LcdInv
      /\ UNCHANGED <<last_LY, screen_ready, glut, JOYP>>
  BY <1>1 DEF StepDevices, Call, displayVars, keypadVars, MachineInv, ControlInv, TypeOK
<1>3. Rt \cup Rl \in SUBSET Ints
  BY DEF TimerRequests, LcdRequests, Ints
<1>4. ControlInv'
  BY <1>a, <1>2, <1>3, ExecuteKeepsInv
<1>5. LcdInv'
  BY <1>a, <1>2, LcdStepKeepsInv
<1>6. TimerTypes'
  BY <1>a, TimersStepKeepsTypes DEF MachineInv, TypeOK
<1>7. QED
  BY <1>2, <1>4, <1>5, <1>6
     DEF MachineInv, TypeOK, ControlInv, LcdInv, Stages, Visible

(* Drawing, the window's loop and the user touch none of the components    *)
(* the invariant is about but the display and the keypad.                  *)
LEMMA OthersKeepInv ==
    ASSUME MachineInv,
           Draw \/ DispatchEvents \/ PresentPicture \/ User \/ UNCHANGED vars
    PROVE  MachineInv'
<1>1. /\ UNCHANGED lcdVars /\ UNCHANGED intVars /\ UNCHANGED timerVars
      /\ UNCHANGED JOYP
  BY DEF Draw, DispatchEvents, PresentPicture, User, KeyEvent, Deliver, keypadVars, vars
<1>2. stage' \in {stage, "CPU"} /\ (stage' # stage => stage = "DISPLAY")
  BY DEF Draw, Call, DispatchEvents, PresentPicture, User, KeyEvent, vars
<1>3. /\ last_LY' \in Visible /\ screen_ready' \in BOOLEAN
      /\ glut' \in {"events", "frame"}
  <2>1. CASE RenderLine
    <3>1. /\ LY < ScreenH /\ last_LY' = LY /\ glut' = glut
          /\ screen_ready' = (LY = ScreenH - 1)
      BY <2>1 DEF RenderLine, CanScan
    <3>2. last_LY' \in Visible
      BY <3>1, LcdAssumption DEF MachineInv, TypeOK, LcdTypes, Visible
    <3>3. screen_ready' \in BOOLEAN
      BY <3>1
    <3>4. QED
      BY <3>1, <3>2, <3>3 DEF MachineInv, TypeOK
  <2>2. CASE ~RenderLine
    <3>1. /\ last_LY' = last_LY /\ screen_ready' \in {screen_ready, FALSE}
          /\ glut' \in {glut, "events", "frame"}
      BY <2>2 DEF Draw, SkipLine, DispatchEvents, FireTimer, PresentPicture,
                  Present, User, KeyEvent, displayVars, vars
    <3>2. QED
      BY <3>1 DEF MachineInv, TypeOK
  <2>3. QED
    BY <2>1, <2>2
<1>4. LcdInv' /\ TimerTypes' /\ IntTypes'
  BY <1>1 DEF lcdVars, timerVars, intVars, MachineInv, TypeOK, LcdInv, LcdTypes,
              ModeLine, NoModeOverstays, TimerTypes, IntTypes, Places
<1>5. Served' /\ WaitsInPlace' /\ NestingBound'
  BY <1>1, <1>2 DEF intVars, MachineInv, Served, WaitsInPlace, NestingBound
<1>6. TypeOK'
  <2>1. stage' \in Stages /\ Len(frames') <= MaxNest + 1
    BY <1>1, <1>2 DEF intVars, MachineInv, TypeOK, Stages
  <2>2. JOYP'.select \in SUBSET Halves
    BY <1>1 DEF MachineInv, TypeOK
  <2>3. QED
    BY <1>3, <1>4, <2>1, <2>2 DEF TypeOK, LcdInv, Stages, Visible, Halves
<1>7. QED
  BY <1>4, <1>5, <1>6 DEF MachineInv

LEMMA MachineNextKeepsInv == MachineInv /\ [Next]_vars => MachineInv'
BY MachineInstructionKeepsInv, InputKeepsInv, MachineStepKeepsInv, OthersKeepInv
   DEF Next, Emulator

LEMMA MachineInvHolds == Spec => []MachineInv
BY MachineInitEstablishesInv, MachineNextKeepsInv, PTL DEF Spec

-----------------------------------------------------------------------------

(* Every register, counter and flag of the machine keeps its range, the    *)
(* port asks for a set of halves the keypad has an answer to, and the stack*)
(* of interrupted places is bounded by the nesting the program allows.     *)
THEOREM MachineTypeCorrect == Spec => []TypeOK
<1>1. MachineInv => TypeOK
  BY DEF MachineInv
<1>2. QED
  BY <1>1, MachineInvHolds, PTL

(* Whatever device raised it, no enabled request waits when an instruction *)
(* starts.                                                                 *)
THEOREM MachineDispatchIsPrompt == Spec => []PromptDispatch
<1>1. MachineInv => PromptDispatch
  BY DEF MachineInv, Served, PromptDispatch
<1>2. QED
  BY <1>1, MachineInvHolds, PTL

(* Inside the machine, too, the mode agrees with the line and none         *)
(* overstays, although the program's stores reach every component.         *)
THEOREM MachineKeepsRaster == Spec => [](ModeLine /\ NoModeOverstays)
<1>1. MachineInv => ModeLine /\ NoModeOverstays
  BY DEF MachineInv, LcdInv
<1>2. QED
  BY <1>1, MachineInvHolds, PTL

(* The safety half of HaltWakes: a program that waits in HALT can switch   *)
(* off neither of the devices that may wake it.                            *)
THEOREM WaitingSwitchesNothing ==
    Spec => [][HALT_is_waiting_for_ISR => UNCHANGED <<LCDC_enabled, TAC_on>>]_vars
<1>1. ASSUME MachineInv, [Next]_vars
      PROVE  [HALT_is_waiting_for_ISR => UNCHANGED <<LCDC_enabled, TAC_on>>]_vars
  <2> SUFFICES ASSUME Next, HALT_is_waiting_for_ISR
               PROVE  UNCHANGED <<LCDC_enabled, TAC_on>>
    BY <1>1
  <2>1. CASE Instruction
    <3>1. PC \in HaltSites
      BY <1>1 DEF MachineInv, WaitsInPlace
    <3>2. UNCHANGED <<lcdVars, timerVars>>
      BY <2>1, <3>1, ExecuteEffect DEF Instruction
    <3>3. QED
      BY <3>2 DEF lcdVars, timerVars
  <2>2. CASE Step
    BY <2>2 DEF Step, StepDevices, TimersStep, LcdStep, EndHblank, EndVblank, EndOam, EndVram,
                SwitchOff, SwitchOn, Stay, Enter, Settle
  <2>3. CASE Input \/ Draw \/ DispatchEvents \/ PresentPicture \/ User
    BY <2>3 DEF Input, Draw, DispatchEvents, PresentPicture, User, KeyEvent,
                lcdVars, timerVars
  <2>4. QED
    BY <2>1, <2>2, <2>3 DEF Next, Emulator
<1>2. QED
  BY <1>1, MachineInvHolds, PTL DEF Spec

-----------------------------------------------------------------------------
(* The machine under observation.                                          *)

(* The history variables watch and never interfere: they restrict no step  *)
(* of the machine, and what is observed is the machine and nothing else.   *)
THEOREM HistoryIsFree ==
    /\ Next => \E v, h, s, d, u : Watch(v, h, s, d, u)
    /\ \A v, h, s, d, u : Watch(v, h, s, d, u) => Next
<1>1. ASSUME Next PROVE \E v, h, s, d, u : Watch(v, h, s, d, u)
  <2>1. CASE Instruction
    <3>1. PICK W \in Writes : Execute(W)
      BY <2>1 DEF Instruction
    <3>2. WatchInstruction(vblanks,
              IF ~HALT' THEN "code" ELSE IF HALT THEN halted_at ELSE PC,
              IF "TAC" \in W THEN "none" ELSE steady, drawn,
              disturbed \/ (LY # 0 /\ LY' = 0) \/ ~LCDC_enabled')
      BY <3>1 DEF WatchInstruction
    <3>3. QED
      BY <3>2 DEF Watch
  <2>2. CASE Step
    <3>1. PICK t \in Costs, Rt \in TimerRequests, Rl \in LcdRequests :
              StepDevices(t, Rt, Rl)
      BY <2>2 DEF Step
    <3>2. WatchStep(IF "VBLANK" \in Rl THEN 1 - vblanks ELSE vblanks, halted_at,
              IF TAC_on /\ ~TIMA_enabled THEN TAC_select
              ELSE IF TAC_on /\ t <= Interval[TAC_select] THEN steady ELSE "none",
              drawn, disturbed)
      BY <3>1 DEF WatchStep
    <3>3. QED
      BY <3>2 DEF Watch
  <2>3. CASE Draw
    <3>1. WatchDraw(vblanks, halted_at, steady,
              IF CanScan THEN drawn \cup {LY} ELSE drawn, disturbed)
      BY <2>3 DEF WatchDraw
    <3>2. QED
      BY <3>1 DEF Watch
  <2>4. CASE PresentPicture
    <3>1. WatchPresent(vblanks, halted_at, steady, {}, FALSE)
      BY <2>4 DEF WatchPresent
    <3>2. QED
      BY <3>1 DEF Watch
  <2>5. CASE Input \/ DispatchEvents \/ User
    <3>1. WatchOther(vblanks, halted_at, steady, drawn, disturbed)
      BY <2>5 DEF WatchOther
    <3>2. QED
      BY <3>1 DEF Watch
  <2>6. QED
    BY <1>1, <2>1, <2>2, <2>3, <2>4, <2>5 DEF Next, Emulator
<1>2. ASSUME NEW v, NEW h, NEW s, NEW d, NEW u, Watch(v, h, s, d, u) PROVE Next
  BY <1>2 DEF Watch, WatchInstruction, WatchStep, WatchDraw, WatchPresent, WatchOther,
              Next, Emulator, Instruction, Step
<1>3. QED
  BY <1>1, <1>2

LEMMA WatchedIsMachine ==
    /\ WatchedInit => Init
    /\ [WatchedNext]_watched => [Next]_vars
BY HistoryIsFree DEF WatchedInit, WatchedNext, watched

LEMMA WatchedInvHolds == WatchedSpec => []MachineInv
BY WatchedIsMachine, MachineInitEstablishesInv, MachineNextKeepsInv, PTL DEF WatchedSpec

(* The component's operations are the machine's own: nothing they are made *)
(* of is substituted.                                                      *)
LEMMA SameControl ==
    /\ IntInit => Control!IntInit
    /\ ControlInstruction => Control!ControlInstruction
    /\ \A R : Request(R) => Control!Request(R)
    /\ \A R : RequestAndExecute(R) => Control!RequestAndExecute(R)
<1>1. IntInit => Control!IntInit
  BY DEF IntInit, Control!IntInit
<1>2. ControlInstruction => Control!ControlInstruction
  BY DEF ControlInstruction, Ordinary, StoreIE, StoreIF, DI, EI, Return, EnterHalt,
         SpinInHalt, LeaveHalt, EnterStop, SpinInStop, LeaveStop, AtOrdinary, Unwaited,
         NextPlaces, intVars,
         Control!ControlInstruction, Control!Ordinary, Control!StoreIE,
         Control!StoreIF, Control!DI, Control!EI, Control!Return, Control!EnterHalt,
         Control!SpinInHalt, Control!LeaveHalt, Control!EnterStop,
         Control!SpinInStop, Control!LeaveStop, Control!AtOrdinary,
         Control!Unwaited, Control!NextPlaces, Control!intVars
<1>3. ASSUME NEW R, Request(R) PROVE Control!Request(R)
  BY <1>3 DEF Request, Control!Request
<1>4. ASSUME NEW R, RequestAndExecute(R) PROVE Control!RequestAndExecute(R)
  <2>1. First(Pending(R)) = Control!First(Control!Pending(R))
    BY DEF First, Pending, IntFlags, Control!First, Control!Pending, Control!IntFlags
  <2>2. QED
    BY <1>4, <2>1 DEF RequestAndExecute, Pending, Unserved, WaitsOn,
       Control!RequestAndExecute, Control!Pending, Control!Unserved, Control!WaitsOn
<1>5. QED
  BY <1>1, <1>2, <1>3, <1>4

(* Interrupt control goes through an instruction, an answer of the keypad, *)
(* and a step; it sleeps while a line is drawn and the window is served.   *)
LEMMA WatchedControls ==
    /\ WatchedInit => Control!Init
    /\ [WatchedNext]_watched => [Control!Next]_(Control!vars)
<1>1. ASSUME WatchedInit PROVE Control!Init
  BY <1>1, SameControl DEF WatchedInit, Init, Control!Init
<1>2. ASSUME WatchedNext PROVE [Control!Next]_(Control!vars)
  <2>1. CASE WatchInstruction(vblanks', halted_at', steady', drawn', disturbed')
    <3>1. PICK W \in Writes : Execute(W)
      BY <2>1 DEF WatchInstruction
    <3>2. stage = "CPU" /\ stage' = "INPUT" /\ Control!ControlInstruction
      BY <3>1, ExecuteEffect, SameControl
    <3>3. halted_at' = IF ~HALT' THEN "code" ELSE IF HALT THEN halted_at ELSE PC
      BY <2>1 DEF WatchInstruction
    <3>4. Control!Instruction
      BY <3>2, <3>3 DEF Control!Instruction, Control!Call
    <3>5. QED
      BY <3>4 DEF Control!Next
  <2>2. CASE WatchStep(vblanks', halted_at', steady', drawn', disturbed')
    <3>1. PICK t \in Costs, Rt \in TimerRequests, Rl \in LcdRequests :
              StepDevices(t, Rt, Rl)
      BY <2>2 DEF WatchStep
    <3>2. stage = "INTERRUPT" /\ stage' = "DISPLAY" /\ halted_at' = halted_at
      BY <2>2, <3>1 DEF WatchStep, StepDevices, Call
    <3>3. Control!RequestAndExecute(Rt \cup Rl)
      BY <3>1, SameControl DEF StepDevices
    <3>4. Rt \cup Rl \in SUBSET Ints
      BY DEF TimerRequests, LcdRequests, Ints
    <3>5. Control!Step
      BY <3>2, <3>3, <3>4 DEF Control!Step, Control!Call
    <3>6. QED
      BY <3>5 DEF Control!Next
  <2>3. CASE WatchOther(vblanks', halted_at', steady', drawn', disturbed') /\ Input
    <3>1. PICK R \in {{}, {"KEYPAD"}} : Request(R)
      BY <2>3 DEF Input
    <3>2. /\ stage = "INPUT" /\ stage' = "INTERRUPT" /\ halted_at' = halted_at
          /\ UNCHANGED <<IME, IO_IE, HALT, STOP, PC, frames>>
      BY <2>3 DEF WatchOther, Input, Call
    <3>3. Control!Request(R)
      BY <3>1, SameControl
    <3>4. Control!Input
      BY <3>2, <3>3 DEF Control!Input, Control!Call
    <3>5. QED
      BY <3>4 DEF Control!Next
  <2>4. CASE /\ UNCHANGED <<intVars, halted_at>>
             /\ stage' = stage \/ (stage = "DISPLAY" /\ stage' = "CPU")
    BY <2>4 DEF intVars, Control!vars, Control!intVars
  <2>5. CASE \/ WatchDraw(vblanks', halted_at', steady', drawn', disturbed')
             \/ WatchPresent(vblanks', halted_at', steady', drawn', disturbed')
             \/ /\ WatchOther(vblanks', halted_at', steady', drawn', disturbed')
                /\ DispatchEvents \/ User
    BY <2>4, <2>5 DEF WatchDraw, Draw, Call, WatchPresent, PresentPicture, WatchOther,
                      DispatchEvents, User, KeyEvent
  <2>6. QED
    BY <1>2, <2>1, <2>2, <2>3, <2>5 DEF WatchedNext, Watch, WatchOther
<1>3. ASSUME UNCHANGED watched PROVE UNCHANGED Control!vars
  <2>1. UNCHANGED <<stage, intVars, halted_at>>
    BY <1>3 DEF watched, vars
  <2>2. QED
    BY <2>1 DEF intVars, Control!vars, Control!intVars
<1>4. QED
  BY <1>1, <1>2, <1>3

LEMMA SameClocks ==
    /\ TimersInit => Clocks!TimersInit
    /\ \A W \in TimerWrites : TimerStore(W) => Clocks!TimerStore(W)
    /\ \A t, R : TimersStep(t, R) => Clocks!TimersStep(t, R)
    /\ TimerWrites = Clocks!TimerWrites /\ TimerRequests = Clocks!TimerRequests
<1>1. TimersInit => Clocks!TimersInit
  BY DEF TimersInit, Clocks!TimersInit
<1>2. ASSUME NEW W, TimerStore(W) PROVE Clocks!TimerStore(W)
  BY <1>2 DEF TimerStore, Clocks!TimerStore
<1>3. ASSUME NEW t, NEW R, TimersStep(t, R) PROVE Clocks!TimersStep(t, R)
  BY <1>3 DEF TimersStep, UpdateDiv, Rebased, CountTima, StartTima, TickTima, IdleTima,
              Clocks!TimersStep, Clocks!UpdateDiv, Clocks!Rebased, Clocks!CountTima,
              Clocks!StartTima, Clocks!TickTima, Clocks!IdleTima
<1>4. TimerWrites = Clocks!TimerWrites /\ TimerRequests = Clocks!TimerRequests
  BY DEF TimerWrites, TimerRequests, Clocks!TimerWrites, Clocks!TimerRequests
<1>5. QED
  BY <1>1, <1>2, <1>3, <1>4

(* An instruction that writes no timer register is a store of none.        *)
LEMMA ExecuteStoresTimer ==
    ASSUME NEW W \in Writes, Execute(W)
    PROVE  \E V \in TimerWrites : TimerStore(V) /\ ("TAC" \in V <=> "TAC" \in W)
<1>1. CASE W \in TimerWrites \ {{}}
  BY <1>1 DEF Execute, CpuStep
<1>2. CASE W \notin TimerWrites \ {{}}
  <2>1. UNCHANGED timerVars
    BY <1>2 DEF Execute, CpuStep
  <2>2. TimerStore({})
    BY <2>1 DEF TimerStore, timerVars
  <2>3. "TAC" \notin W /\ {} \in TimerWrites
    BY <1>2 DEF Writes, LcdWrites, TimerWrites
  <2>4. QED
    BY <2>2, <2>3
<1>3. QED
  BY <1>1, <1>2

(* The timers go through an instruction and a step.                        *)
LEMMA WatchedTimes ==
    /\ WatchedInit => Clocks!Init
    /\ [WatchedNext]_watched => [Clocks!Next]_(Clocks!vars)
<1>1. ASSUME WatchedInit PROVE Clocks!Init
  BY <1>1, SameClocks DEF WatchedInit, Init, Clocks!Init
<1>2. ASSUME WatchedNext PROVE [Clocks!Next]_(Clocks!vars)
  <2>1. CASE WatchInstruction(vblanks', halted_at', steady', drawn', disturbed')
    <3>1. PICK W \in Writes :
              Execute(W) /\ steady' = IF "TAC" \in W THEN "none" ELSE steady
      BY <2>1 DEF WatchInstruction
    <3>2. PICK V \in TimerWrites : TimerStore(V) /\ ("TAC" \in V <=> "TAC" \in W)
      BY <3>1, ExecuteStoresTimer
    <3>3. /\ V \in Clocks!TimerWrites /\ Clocks!TimerStore(V)
          /\ steady' = IF "TAC" \in V THEN "none" ELSE steady
      BY <3>1, <3>2, SameClocks
    <3>4. stage = "CPU" /\ stage' = "INPUT"
      BY <3>1, ExecuteEffect
    <3>5. Clocks!Instruction
      BY <3>3, <3>4 DEF Clocks!Instruction, Clocks!Call
    <3>6. QED
      BY <3>5 DEF Clocks!Next
  <2>2. CASE WatchStep(vblanks', halted_at', steady', drawn', disturbed')
    <3>1. PICK t \in Costs, Rt \in TimerRequests, Rl \in LcdRequests :
              /\ StepDevices(t, Rt, Rl)
              /\ steady' = IF TAC_on /\ ~TIMA_enabled THEN TAC_select
                           ELSE IF TAC_on /\ t <= Interval[TAC_select] THEN steady
                           ELSE "none"
      BY <2>2 DEF WatchStep
    <3>2. stage = "INTERRUPT" /\ stage' = "DISPLAY"
      BY <3>1 DEF StepDevices, Call
    <3>3. Clocks!TimersStep(t, Rt) /\ Rt \in Clocks!TimerRequests
      BY <3>1, SameClocks DEF StepDevices
    <3>4. Clocks!Step
      BY <3>1, <3>2, <3>3 DEF Clocks!Step, Clocks!Call
    <3>5. QED
      BY <3>4 DEF Clocks!Next
  <2>3. CASE /\ UNCHANGED <<timerVars, steady>>
             /\ \/ stage' = stage
                \/ stage = "INPUT" /\ stage' = "INTERRUPT"
                \/ stage = "DISPLAY" /\ stage' = "CPU"
    BY <2>3 DEF timerVars, Clocks!vars, Clocks!timerVars
  <2>4. CASE \/ WatchDraw(vblanks', halted_at', steady', drawn', disturbed')
             \/ WatchPresent(vblanks', halted_at', steady', drawn', disturbed')
             \/ WatchOther(vblanks', halted_at', steady', drawn', disturbed')
    BY <2>3, <2>4 DEF WatchDraw, Draw, Call, WatchPresent, PresentPicture, WatchOther,
                      Input, DispatchEvents, User, KeyEvent
  <2>5. QED
    BY <1>2, <2>1, <2>2, <2>4 DEF WatchedNext, Watch
<1>3. ASSUME UNCHANGED watched PROVE UNCHANGED Clocks!vars
  <2>1. UNCHANGED <<stage, timerVars, steady>>
    BY <1>3 DEF watched, vars
  <2>2. QED
    BY <2>1 DEF timerVars, Clocks!vars, Clocks!timerVars
<1>4. QED
  BY <1>1, <1>2, <1>3

LEMMA SameWindow ==
    /\ LcdInit /\ DisplayInit => Window!LcdInit /\ Window!DisplayInit
    /\ \A W : LcdStore(W) => Window!LcdStore(W)
    /\ \A t, R : LcdStep(t, R) => Window!LcdStep(t, R)
    /\ LcdWrites = Window!LcdWrites /\ LcdRequests = Window!LcdRequests
    /\ RenderLine => Window!RenderLine
    /\ SkipLine => Window!SkipLine
    /\ FireTimer => Window!FireTimer
    /\ Present => Window!Present
<1>1. LcdInit /\ DisplayInit => Window!LcdInit /\ Window!DisplayInit
  BY DEF LcdInit, DisplayInit, Window!LcdInit, Window!DisplayInit
<1>2. ASSUME NEW W, LcdStore(W) PROVE Window!LcdStore(W)
  BY <1>2 DEF LcdStore, Window!LcdStore
<1>3. ASSUME NEW t, NEW R, LcdStep(t, R) PROVE Window!LcdStep(t, R)
  BY <1>3 DEF LcdStep, EndHblank, EndVblank, EndOam, EndVram, SwitchOff, SwitchOn,
              Stay, Settle, Enter, StatRequest, Coincident, Over, Ticked, Limit, Modes,
              Toggled, NextLine,
              Window!LcdStep, Window!EndHblank, Window!EndVblank, Window!EndOam,
              Window!EndVram, Window!SwitchOff, Window!SwitchOn, Window!Stay,
              Window!Settle, Window!Enter, Window!StatRequest, Window!Coincident,
              Window!Over, Window!Ticked, Window!Limit, Window!Modes,
              Window!Toggled, Window!NextLine
<1>4. LcdWrites = Window!LcdWrites /\ LcdRequests = Window!LcdRequests
  BY DEF LcdWrites, LcdRequests, Window!LcdWrites, Window!LcdRequests
<1>5. /\ RenderLine => Window!RenderLine
      /\ SkipLine => Window!SkipLine
  BY DEF RenderLine, SkipLine, CanScan, displayVars,
         Window!RenderLine, Window!SkipLine, Window!CanScan, Window!displayVars
<1>6. /\ FireTimer => Window!FireTimer
      /\ Present => Window!Present
  BY DEF FireTimer, Present, Window!FireTimer, Window!Present
<1>7. QED
  BY <1>1, <1>2, <1>3, <1>4, <1>5, <1>6

(* An instruction that writes no LCD register is a store of none.          *)
LEMMA ExecuteStoresLcd ==
    ASSUME NEW W \in Writes, Execute(W)
    PROVE  \E V \in LcdWrites : LcdStore(V)
<1>1. CASE UNCHANGED lcdVars
  <2>1. LcdStore({})
    BY <1>1 DEF LcdStore, lcdVars
  <2>2. QED
    BY <2>1 DEF LcdWrites
<1>2. QED
  BY <1>1, ExecuteEffect

(* The frame hand-over goes through an instruction, a step of the          *)
(* controller, a line drawn, and what the window and the user do.          *)
LEMMA WatchedPresents ==
    /\ WatchedInit => Window!Init
    /\ [WatchedNext]_watched => [Window!Next]_(Window!vars)
<1>1. ASSUME WatchedInit PROVE Window!Init
  BY <1>1, SameWindow DEF WatchedInit, Init, Window!Init
<1>2. ASSUME WatchedNext PROVE [Window!Next]_(Window!vars)
  <2>1. CASE WatchInstruction(vblanks', halted_at', steady', drawn', disturbed')
    <3>1. PICK W \in Writes : Execute(W)
      BY <2>1 DEF WatchInstruction
    <3>2. /\ stage = "CPU" /\ stage' = "INPUT" /\ LoopAgain
          /\ UNCHANGED <<last_LY, screen_ready, glut, key_events>>
      BY <3>1, ExecuteEffect
    <3>3. \E V \in Window!LcdWrites : Window!LcdStore(V)
      BY <3>1, ExecuteStoresLcd, SameWindow
    <3>4. /\ disturbed' = (disturbed \/ (LY # 0 /\ LY' = 0) \/ ~LCDC_enabled')
          /\ drawn' = drawn
      BY <2>1 DEF WatchInstruction
    <3>5. Window!Instruction
      BY <3>2, <3>3, <3>4
         DEF LoopAgain, Window!Instruction, Window!LoopAgain, Window!Call,
             Window!Disturbs, Window!displayVars
    <3>6. QED
      BY <3>5 DEF Window!Next, Window!Emulator
  <2>2. CASE WatchStep(vblanks', halted_at', steady', drawn', disturbed')
    <3>1. PICK t \in Costs, Rt \in TimerRequests, Rl \in LcdRequests :
              StepDevices(t, Rt, Rl)
      BY <2>2 DEF WatchStep
    <3>2. /\ stage = "INTERRUPT" /\ stage' = "DISPLAY"
          /\ UNCHANGED <<last_LY, screen_ready, glut, key_events, drawn, disturbed>>
      BY <2>2, <3>1 DEF WatchStep, StepDevices, Call, displayVars
    <3>3. Window!LcdStep(t, Rl) /\ Rl \in Window!LcdRequests
      BY <3>1, SameWindow DEF StepDevices
    <3>4. Window!Tick
      BY <3>2, <3>3 DEF Window!Tick, Window!Call, Window!displayVars
    <3>5. QED
      BY <3>4 DEF Window!Next, Window!Emulator
  <2>3. CASE WatchDraw(vblanks', halted_at', steady', drawn', disturbed')
    <3>1. /\ stage = "DISPLAY" /\ stage' = "CPU"
          /\ UNCHANGED <<lcdVars, key_events, disturbed>>
      BY <2>3 DEF WatchDraw, Draw, Call
    <3>2. \/ Window!RenderLine /\ drawn' = drawn \cup {LY}
          \/ Window!SkipLine /\ drawn' = drawn
      BY <2>3, SameWindow DEF WatchDraw, Draw, RenderLine, SkipLine
    <3>3. Window!Draw
      BY <3>1, <3>2 DEF lcdVars, Window!Draw, Window!Call, Window!lcdVars
    <3>4. QED
      BY <3>3 DEF Window!Next, Window!Emulator
  <2>4. CASE WatchPresent(vblanks', halted_at', steady', drawn', disturbed')
    <3>1. /\ Window!Present /\ drawn' = {} /\ disturbed' = FALSE
          /\ UNCHANGED <<stage, lcdVars, key_events>>
      BY <2>4, SameWindow DEF WatchPresent, PresentPicture
    <3>2. Window!PresentPicture
      BY <3>1 DEF lcdVars, Window!PresentPicture, Window!lcdVars
    <3>3. QED
      BY <3>2 DEF Window!Next, Window!Emulator
  <2>5. CASE /\ WatchOther(vblanks', halted_at', steady', drawn', disturbed')
             /\ DispatchEvents
    <3>1. /\ Window!FireTimer /\ key_events' = <<>>
          /\ UNCHANGED <<stage, lcdVars, drawn, disturbed>>
      BY <2>5, SameWindow DEF WatchOther, DispatchEvents
    <3>2. Window!DispatchEvents
      BY <3>1 DEF lcdVars, Window!DispatchEvents, Window!lcdVars
    <3>3. QED
      BY <3>2 DEF Window!Next, Window!Emulator
  <2>6. CASE WatchOther(vblanks', halted_at', steady', drawn', disturbed') /\ User
    <3>1. PICK e \in Event : KeyEvent(e)
      BY <2>6 DEF User
    <3>2. /\ key_events' = Append(key_events, e)
          /\ UNCHANGED <<stage, lcdVars, displayVars, drawn, disturbed>>
      BY <2>6, <3>1 DEF WatchOther, KeyEvent
    <3>3. key_events' # <<>>
      BY <3>2
    <3>4. Window!KeyArrives
      BY <3>2, <3>3 DEF lcdVars, displayVars, Window!KeyArrives, Window!lcdVars,
                        Window!displayVars
    <3>5. QED
      BY <3>4 DEF Window!Next
  <2>7. CASE WatchOther(vblanks', halted_at', steady', drawn', disturbed') /\ Input
    <3>1. /\ stage = "INPUT" /\ stage' = "INTERRUPT"
          /\ UNCHANGED <<lcdVars, displayVars, key_events, drawn, disturbed>>
      BY <2>7 DEF WatchOther, Input, Call
    <3>2. QED
      BY <3>1 DEF lcdVars, displayVars, Window!vars, Window!lcdVars, Window!displayVars
  <2>8. QED
    BY <1>2, <2>1, <2>2, <2>3, <2>4, <2>5, <2>6, <2>7 DEF WatchedNext, Watch, WatchOther
<1>3. ASSUME UNCHANGED watched PROVE UNCHANGED Window!vars
  <2>1. UNCHANGED <<stage, lcdVars, displayVars, key_events, drawn, disturbed>>
    BY <1>3 DEF watched, vars
  <2>2. QED
    BY <2>1 DEF lcdVars, displayVars, Window!vars, Window!lcdVars, Window!displayVars
<1>4. QED
  BY <1>1, <1>2, <1>3

(* The beam moves with an instruction that clears LY and with a step of the*)
(* controller, whose invariant the machine keeps.                          *)
LEMMA WatchedScans ==
    /\ WatchedInit => Beam!RasterInit
    /\ MachineInv /\ [WatchedNext]_watched => [Beam!RasterNext]_(Beam!rasterVars)
<1>1. ASSUME WatchedInit PROVE Beam!RasterInit
  BY <1>1 DEF WatchedInit, Init, LcdInit, Beam!RasterInit
<1>2. ASSUME MachineInv, WatchedNext PROVE [Beam!RasterNext]_(Beam!rasterVars)
  <2>1. CASE WatchInstruction(vblanks', halted_at', steady', drawn', disturbed')
    <3>1. \E V \in LcdWrites : LcdStore(V)
      BY <2>1, ExecuteStoresLcd DEF WatchInstruction
    <3>2. QED
      BY <2>1, <3>1, LcdStoreIsRasterStep DEF WatchInstruction
  <2>2. CASE WatchStep(vblanks', halted_at', steady', drawn', disturbed')
    <3>1. PICK t \in Costs, Rl \in LcdRequests :
              /\ LcdStep(t, Rl)
              /\ vblanks' = IF "VBLANK" \in Rl THEN 1 - vblanks ELSE vblanks
      BY <2>2 DEF WatchStep, StepDevices
    <3>2. QED
      BY <1>2, <3>1, LcdStepIsRasterStep DEF MachineInv
  <2>3. CASE UNCHANGED <<lcdVars, vblanks>>
    BY <2>3 DEF lcdVars, Beam!rasterVars
  <2>4. QED
    BY <1>2, <2>1, <2>2, <2>3
       DEF WatchedNext, Watch, WatchDraw, Draw, WatchPresent, PresentPicture, WatchOther,
           Input, DispatchEvents, User, KeyEvent
<1>3. ASSUME UNCHANGED watched PROVE UNCHANGED Beam!rasterVars
  BY <1>3 DEF watched, vars, lcdVars, Beam!rasterVars
<1>4. QED
  BY <1>1, <1>2, <1>3

(* The whole machine implements its components: whatever is proved of one  *)
(* of them in an arbitrary environment is true of it inside the machine.   *)
THEOREM MachineImplementsComponents == WatchedSpec => ComponentsImplemented
<1>1. WatchedSpec => Control!SafetySpec
  BY WatchedControls, PTL DEF WatchedSpec, Control!SafetySpec
<1>2. WatchedSpec => Clocks!SafetySpec
  BY WatchedTimes, PTL DEF WatchedSpec, Clocks!SafetySpec
<1>3. WatchedSpec => Window!SafetySpec
  BY WatchedPresents, PTL DEF WatchedSpec, Window!SafetySpec
<1>4. WatchedSpec => RasterImplemented
  BY WatchedScans, WatchedInvHolds, PTL DEF WatchedSpec, RasterImplemented, Beam!RasterSpec
<1>5. QED
  BY <1>1, <1>2, <1>3, <1>4 DEF ComponentsImplemented

(* The machine serves by priority, keeps every request and waits in HALT   *)
(* where it was told to, for what its own devices and keypad request.      *)
THEOREM MachineKeepsControl ==
    WatchedSpec => /\ []Control!HaltWaitsInPlace /\ []Control!HaltHasOwner
                   /\ Control!ServedByPriority /\ Control!RequestsAreKept
                   /\ Control!StopStaysJammed
<1>1. /\ SUBSET Ints \subseteq SUBSET Control!Ints
      /\ HaltSites \cap StopSites = {}
      /\ "code" \notin HaltSites \cup StopSites
      /\ Control!Ints \cap (HaltSites \cup StopSites) = {}
      /\ MaxNest \in Nat
      /\ IeStores \subseteq SUBSET Control!Ints /\ IfStores \subseteq SUBSET Control!Ints
  BY SitesAssumption DEF Ints, Control!Ints
<1>2. WatchedSpec => Control!SafetySpec
  BY MachineImplementsComponents, PTL DEF ComponentsImplemented
<1>3. QED
  BY <1>1, <1>2, CostsAssumption, Control!WaitingStaysInPlace, Control!HaltIsOwned,
     Control!PriorityIsKept, Control!NoRequestIsLost, Control!JamsLast, PTL

(* DIV and TIMA are on time in the machine: neither the LCD nor a HALT     *)
(* makes the timers miss an instruction's ticks.                           *)
THEOREM MachineKeepsTime ==
    WatchedSpec => []Clocks!TimaOnTime /\ Clocks!DivOnTime
<1>1. WatchedSpec => Clocks!SafetySpec
  BY MachineImplementsComponents, PTL DEF ComponentsImplemented
<1>2. QED
  BY <1>1, CostsAssumption, TimersAssumption, Clocks!TimaStaysOnTime,
     Clocks!DivStaysOnTime, PTL

(* The window gets whole pictures, drawn in order, from the whole machine. *)
THEOREM MachineKeepsPictures ==
    WatchedSpec => /\ []Window!ScanKeepsUp /\ []Window!PresentedWhole
                   /\ Window!DrawnInOrder
<1>1. StatStores \subseteq Window!StatBytes
  BY LcdAssumption DEF StatBytes, Modes, Sources, Window!StatBytes, Window!Modes,
                       Window!Sources
<1>2. WatchedSpec => Window!SafetySpec
  BY MachineImplementsComponents, PTL DEF ComponentsImplemented
<1>3. QED
  BY <1>1, <1>2, CostsAssumption, LcdAssumption, Window!ScanIsNeverLate,
     Window!PicturesAreWhole, Window!LinesAreDrawnInOrder, PTL

-----------------------------------------------------------------------------
(* The other side of HaltWakes.                                            *)

LEMMA DeafStaysDeaf == ASSUME MachineInv, Deaf, [Next]_vars PROVE Deaf'
<1>1. CASE Instruction
  <2>1. PICK W \in Writes : Execute(W)
    BY <1>1 DEF Instruction
  <2>2. HALT /\ PC \in HaltSites
    BY DEF MachineInv, WaitsInPlace, Deaf
  <2>3. UNCHANGED <<lcdVars, timerVars, keypadVars>> /\ UNCHANGED <<screen_ready, glut>>
    BY <2>1, <2>2, ExecuteEffect DEF Deaf
  <2>4. HALT_is_waiting_for_ISR'
    <3>1. ControlInstruction /\ PC \notin StopSites
      BY <2>1, <2>2, ExecuteEffect, SitesAssumption
    <3>2. SpinInHalt
      BY <2>2, <3>1 DEF ControlInstruction, Ordinary, StoreIE, StoreIF, DI, EI, Return,
                        AtOrdinary, EnterHalt, LeaveHalt, EnterStop, SpinInStop,
                        LeaveStop, Deaf
    <3>3. QED
      BY <3>2 DEF SpinInHalt, intVars
  <2>5. QED
    BY <2>3, <2>4 DEF Deaf, lcdVars, timerVars, keypadVars
<1>2. CASE Input
  <2>1. PICK R \in {{}, {"KEYPAD"}} : KeypadStep(R) /\ Request(R)
    BY <1>2 DEF Input
  <2>2. R = {} /\ JOYP' = JOYP
    BY <2>1 DEF KeypadStep, Answer, NoAnswer, Deaf, Halves
  <2>3. HALT_is_waiting_for_ISR' = HALT_is_waiting_for_ISR
    BY <2>1, <2>2 DEF Request
  <2>4. QED
    BY <1>2, <2>2, <2>3 DEF Input, Deaf, lcdVars, timerVars, displayVars
<1>3. CASE Step
  <2>1. PICK t \in Costs, Rt \in TimerRequests, Rl \in LcdRequests :
            StepDevices(t, Rt, Rl)
    BY <1>3 DEF Step
  <2>2. Rt = {} /\ TAC_on' = TAC_on
    BY <2>1 DEF StepDevices, TimersStep, StartTima, TickTima, IdleTima, Deaf
  <2>3. Rl = {} /\ LCDC_enabled' = LCDC_enabled /\ display_mode' = display_mode
    <3>1. ~Toggled
      BY DEF Toggled, Deaf, MachineInv, TypeOK, LcdTypes
    <3>2. Stay(t, Rl)
      BY <2>1, <3>1 DEF StepDevices, LcdStep, EndHblank, EndVblank, EndOam, EndVram,
                        Over, SwitchOff, SwitchOn, Deaf
    <3>3. QED
      BY <3>2 DEF Stay, Settle
  <2>4. HALT_is_waiting_for_ISR'
    BY <2>1, <2>2, <2>3 DEF StepDevices, RequestAndExecute, WaitsOn, Deaf
  <2>5. QED
    BY <2>1, <2>2, <2>3, <2>4 DEF StepDevices, Deaf, displayVars, keypadVars
<1>4. CASE Draw
  <2>1. ~RenderLine
    BY DEF RenderLine, CanScan, Deaf
  <2>2. QED
    BY <1>4, <2>1 DEF Draw, SkipLine, displayVars, lcdVars, intVars, timerVars,
                      keypadVars, Deaf
<1>5. CASE User \/ UNCHANGED vars
  <2>1. UNCHANGED <<lcdVars, displayVars, intVars, timerVars, keypadVars>>
    BY <1>5 DEF User, KeyEvent, vars
  <2>2. QED
    BY <2>1 DEF displayVars, lcdVars, intVars, timerVars, keypadVars, Deaf
<1>6. ~DispatchEvents /\ ~PresentPicture
  BY DEF DispatchEvents, FireTimer, PresentPicture, Present, Deaf
<1>7. QED
  BY <1>1, <1>2, <1>3, <1>4, <1>5, <1>6 DEF Next, Emulator

(* A wait in HALT without display and timer does not end by itself, and no *)
(* key ends it.                                                            *)
THEOREM DeafStays == Spec => DeafForEver
<1>1. MachineInv /\ [Next]_vars => [Deaf => Deaf']_vars
  BY DeafStaysDeaf
<1>2. QED
  BY <1>1, MachineInvHolds, PTL DEF Spec, DeafForEver

(* Nor does GLUT get back to dispatching the key events that are queued.   *)
THEOREM DeafHangsTheWindow == Spec => [](Deaf => [](glut # "events"))
<1>1. Deaf => glut # "events"
  BY DEF Deaf
<1>2. QED
  BY <1>1, DeafStaysDeaf, MachineInvHolds, PTL DEF Spec

=============================================================================
