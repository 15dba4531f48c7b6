----------------------------- MODULE TimersProofs -----------------------------
(***************************************************************************)
(* Theorems about the timers, for every period, every set of clock selects *)
(* and instruction costs, and every width of the tick counter.             *)
(***************************************************************************)
EXTENDS TimersAlone, TLAPS

(* TimaOnTime speaks of the select TIMA has been counting by, the step of  *)
(* the one TAC holds.  That they are the same is SteadySelect.             *)
SteadySelect == steady # "none" => TAC_on /\ TIMA_enabled /\ TAC_select = steady

IInv == TypeOK /\ SteadySelect /\ TimaOnTime

-----------------------------------------------------------------------------

(* What the rebase does to a number below twice its span.                  *)
LEMMA ModFacts ==
    ASSUME NEW m \in Nat \ {0}, NEW n \in Int
    PROVE  /\ n % m \in 0..(m - 1)
           /\ n \in 0..(m - 1) => n % m = n
           /\ n \in m..(2 * m - 1) => n % m = n - m
           /\ n \in (-m)..(-1) => n % m = n + m
  OBVIOUS

(* A rebase moves the tick total and a tick to come by the same distance.  *)
LEMMA RebaseKeepsDistance ==
    ASSUME NEW now \in 0..(2 * TickTop - 1), NEW tick \in now..(2 * TickTop - 1)
    PROVE  /\ Rebased(now, now) \in 0..(TickTop - 1)
           /\ Rebased(now, tick) \in Nat
           /\ Rebased(now, tick) - Rebased(now, now) = tick - now
<1>1. TickTop \in Nat \ {0}
  BY TimersAssumption
<1>2. CASE now < TickTop
  BY <1>1, <1>2 DEF Rebased
<1>3. CASE now >= TickTop
  <2>1. /\ now \in Int /\ now \in TickTop..(2 * TickTop - 1)
        /\ tick \in Int /\ tick \in TickTop..(2 * TickTop - 1)
    BY <1>1, <1>3
  <2>2. now % TickTop = now - TickTop /\ tick % TickTop = tick - TickTop
    BY <1>1, <2>1, ModFacts
  <2>3. QED
    BY <1>1, <1>3, <2>1, <2>2 DEF Rebased
<1>4. QED
  BY <1>1, <1>2, <1>3

(* Any other tick stays a natural number.                                  *)
LEMMA RebasedIsNat ==
    ASSUME NEW now \in Nat, NEW tick \in Nat
    PROVE  Rebased(now, tick) \in Nat
<1>1. TickTop \in Nat \ {0}
  BY TimersAssumption
<1>2. CASE now < TickTop
  BY <1>1, <1>2 DEF Rebased
<1>3. CASE now >= TickTop
  BY <1>1, <1>3, ModFacts DEF Rebased
<1>4. QED
  BY <1>1, <1>2, <1>3

LEMMA InitEstablishesInv == Init => IInv
<1> SUFFICES ASSUME Init PROVE IInv
  OBVIOUS
<1>1. /\ 0 \in 0..(TickTop - 1) /\ 0 \in 0..ByteMax /\ 0 \in Nat
      /\ ResetSelect \in Selects
  BY TimersAssumption
<1>2. TypeOK
  BY <1>1 DEF Init, TimersInit, TypeOK, TimerTypes
<1>3. SteadySelect /\ TimaOnTime
  BY DEF Init, SteadySelect, TimaOnTime
<1>4. QED
  BY <1>2, <1>3 DEF IInv

LEMMA InstructionKeepsInv == IInv /\ Instruction => IInv'
<1> SUFFICES ASSUME IInv, Instruction PROVE IInv'
  OBVIOUS
<1>1. PICK W \in TimerWrites :
          TimerStore(W) /\ steady' = IF "TAC" \in W THEN "none" ELSE steady
  BY DEF Instruction
<1>2. TypeOK'
  <2>1. /\ DIV' \in 0..ByteMax /\ TIMA' \in 0..ByteMax /\ TMA' \in 0..ByteMax
        /\ TAC_on' \in BOOLEAN /\ TAC_select' \in Selects
    BY <1>1, TimersAssumption DEF IInv, TypeOK, TimerTypes, TimerStore
  <2>2. /\ total_ticks' = total_ticks /\ DIV_next' = DIV_next
        /\ TIMA_next' = TIMA_next /\ TIMA_enabled' = TIMA_enabled
        /\ steady' \in {"none", steady} /\ stage' = "INTERRUPT"
    BY <1>1 DEF TimerStore, Instruction, Call
  <2>3. QED
    BY <2>1, <2>2 DEF IInv, TypeOK, TimerTypes
<1>3. SteadySelect' /\ TimaOnTime'
  BY <1>1 DEF IInv, SteadySelect, TimaOnTime, TimerStore
<1>4. QED
  BY <1>2, <1>3 DEF IInv

(* What a step knows before it: the ticks that have passed, and how far    *)
(* they may be from the counters' next ones.                               *)
LEMMA StepBounds ==
    ASSUME TypeOK, NEW t \in Costs
    PROVE  /\ t \in Nat /\ total_ticks + t \in 0..(2 * TickTop - 1)
           /\ total_ticks + t + DivPeriod < 2 * TickTop
           /\ total_ticks + t + Interval[TAC_select] < 2 * TickTop
           /\ Interval[TAC_select] \in Nat \ {0} /\ DivPeriod \in Nat \ {0}
           /\ TickTop \in Nat \ {0}
<1>1. t \in Nat /\ TickTop \in Nat \ {0} /\ DivPeriod \in Nat \ {0}
  BY CostsAssumption, TimersAssumption
<1>2. TAC_select \in Selects /\ Interval[TAC_select] \in Nat \ {0}
  BY TimersAssumption DEF TypeOK, TimerTypes
<1>3. t + DivPeriod <= TickTop /\ t + Interval[TAC_select] <= TickTop
  BY <1>2, TimersAssumption
<1>4. total_ticks \in 0..(TickTop - 1)
  BY DEF TypeOK, TimerTypes
<1>5. QED
  BY <1>1, <1>2, <1>3, <1>4

(* Where TIMA stands after a step that left it counting by one clock.      *)
LEMMA StepKeepsTime ==
    ASSUME IInv, NEW t \in Costs, NEW R \in TimerRequests, TimersStep(t, R),
           TAC_on, TAC_select # "none",
           TIMA_enabled => steady = TAC_select /\ t <= Interval[TAC_select]
    PROVE  total_ticks' < TIMA_next' /\ TIMA_next' <= total_ticks' + Interval[TAC_select]
<1> DEFINE now == total_ticks + t
           I == Interval[TAC_select]
<1>1. /\ now \in 0..(2 * TickTop - 1) /\ now + I < 2 * TickTop
      /\ I \in Nat \ {0} /\ TickTop \in Nat \ {0} /\ t \in Nat
      /\ total_ticks \in Nat /\ TIMA_next \in Nat
  BY StepBounds DEF IInv, TypeOK, TimerTypes
<1>2. total_ticks' = Rebased(now, now)
  BY DEF TimersStep
<1>3. \E due \in now + 1..now + I : TIMA_next' = Rebased(now, due)
  <2>1. CASE StartTima(now, R)
    BY <1>1, <2>1 DEF StartTima, CountTima
  <2>2. CASE TickTima(now, R)
    <3>1. /\ total_ticks < TIMA_next /\ TIMA_next <= total_ticks + I /\ t <= I
      BY <2>2 DEF TickTima, IInv, TimaOnTime
    <3>2. QED
      BY <1>1, <2>2, <3>1 DEF TickTima, CountTima
  <2>3. CASE IdleTima(now, R)
    <3>1. /\ TIMA_next <= total_ticks + I /\ now < TIMA_next
      BY <2>3 DEF IdleTima, IInv, TimaOnTime
    <3>2. QED
      BY <1>1, <2>3, <3>1 DEF IdleTima
  <2>4. QED
    BY <2>1, <2>2, <2>3 DEF TimersStep
<1>4. PICK due \in now + 1..now + I : TIMA_next' = Rebased(now, due)
  BY <1>3
<1>5. due \in now..(2 * TickTop - 1)
  BY <1>1
<1>6. /\ Rebased(now, now) \in 0..(TickTop - 1) /\ Rebased(now, due) \in Nat
      /\ Rebased(now, due) - Rebased(now, now) = due - now
  BY <1>1, <1>5, RebaseKeepsDistance
<1>7. QED
  BY <1>1, <1>2, <1>4, <1>6

LEMMA StepKeepsInv == IInv /\ Step => IInv'
<1> SUFFICES ASSUME IInv, Step PROVE IInv'
  OBVIOUS
<1>1. PICK t \in Costs, R \in TimerRequests :
          /\ TimersStep(t, R)
          /\ steady' = IF TAC_on /\ ~TIMA_enabled THEN TAC_select
                       ELSE IF TAC_on /\ t <= Interval[TAC_select] THEN steady
                       ELSE "none"
  BY DEF Step
<1> DEFINE now == total_ticks + t
           I == Interval[TAC_select]
<1>2. /\ now \in 0..(2 * TickTop - 1) /\ now + I < 2 * TickTop
      /\ I \in Nat \ {0} /\ TickTop \in Nat \ {0} /\ DivPeriod \in Nat \ {0}
  BY StepBounds DEF IInv
<1>3. total_ticks' \in 0..(TickTop - 1)
  <2>1. now \in now..(2 * TickTop - 1)
    BY <1>2
  <2>2. QED
    BY <1>1, <1>2, <2>1, RebaseKeepsDistance DEF TimersStep
<1>4. DIV' \in 0..ByteMax /\ DIV_next' \in Nat
  <2>1. (DIV + 1) % (ByteMax + 1) \in 0..ByteMax
    BY TimersAssumption, ModFacts DEF IInv, TypeOK, TimerTypes
  <2>2. Rebased(now, DIV_next + DivPeriod) \in Nat /\ Rebased(now, DIV_next) \in Nat
    <3>1. now \in Nat /\ DIV_next \in Nat /\ DIV_next + DivPeriod \in Nat
      BY <1>2 DEF IInv, TypeOK, TimerTypes
    <3>2. QED
      BY <3>1, RebasedIsNat
  <2>3. QED
    BY <1>1, <2>1, <2>2 DEF TimersStep, UpdateDiv, IInv, TypeOK, TimerTypes
<1>5. /\ TIMA' \in 0..ByteMax /\ TIMA_next' \in Nat /\ TIMA_enabled' = TAC_on
  <2>1. /\ Rebased(now, now + I) \in Nat /\ Rebased(now, TIMA_next + I) \in Nat
        /\ Rebased(now, TIMA_next) \in Nat
    <3>1. /\ now \in Nat /\ TIMA_next \in Nat
          /\ now + I \in Nat /\ TIMA_next + I \in Nat
      BY <1>2 DEF IInv, TypeOK, TimerTypes
    <3>2. QED
      BY <3>1, RebasedIsNat
  <2>2. TIMA \in 0..ByteMax /\ TMA \in 0..ByteMax /\ ByteMax \in Nat /\ TAC_on \in BOOLEAN
    BY TimersAssumption DEF IInv, TypeOK, TimerTypes
  <2>3. CASE StartTima(now, R) \/ TickTima(now, R)
    <3>1. PICK due \in {now, TIMA_next} : TAC_on /\ CountTima(now, due, R)
      BY <2>3 DEF StartTima, TickTima
    <3>2. TIMA' \in 0..ByteMax
      BY <2>2, <3>1 DEF CountTima
    <3>3. TIMA_next' \in Nat
      BY <2>1, <3>1 DEF CountTima
    <3>4. TIMA_enabled' = TAC_on
      BY <2>2, <3>1 DEF CountTima
    <3>5. QED
      BY <3>2, <3>3, <3>4
  <2>4. CASE IdleTima(now, R)
    BY <2>1, <2>2, <2>4 DEF IdleTima
  <2>5. QED
    BY <1>1, <2>3, <2>4 DEF TimersStep
<1>6. /\ TMA' = TMA /\ TAC_on' = TAC_on /\ TAC_select' = TAC_select /\ stage' = "CPU"
      /\ steady' \in {steady, TAC_select, "none"}
  BY <1>1 DEF TimersStep, Step, Call
<1>7. TypeOK'
  BY <1>3, <1>4, <1>5, <1>6 DEF IInv, TypeOK, TimerTypes
<1>8. SteadySelect'
  BY <1>1, <1>5, <1>6 DEF IInv, SteadySelect
<1>9. TimaOnTime'
  <2> SUFFICES ASSUME steady' # "none"
               PROVE  total_ticks' < TIMA_next' /\ TIMA_next' <= total_ticks' + Interval[steady']
    BY DEF TimaOnTime
  <2>1. TAC_on /\ steady' = TAC_select /\ TAC_select # "none"
    BY <1>1, <1>8, <1>6 DEF SteadySelect
  <2>2. TIMA_enabled => steady = TAC_select /\ t <= Interval[TAC_select]
    BY <1>1, <2>1
  <2>3. QED
    BY <1>1, <2>1, <2>2, StepKeepsTime
<1>10. QED
  BY <1>7, <1>8, <1>9 DEF IInv

LEMMA NextKeepsInv == IInv /\ [Next]_vars => IInv'
<1>1. IInv /\ UNCHANGED vars => IInv'
  BY DEF IInv, TypeOK, TimerTypes, SteadySelect, TimaOnTime, vars, timerVars
<1>2. QED
  BY <1>1, InstructionKeepsInv, StepKeepsInv DEF Next

(* The inductive invariant: every counter that runs by one clock has its   *)
(* next tick ahead of it, and the timer is still on with that clock.       *)
THEOREM InvHolds == SafetySpec => []IInv
  BY InitEstablishesInv, NextKeepsInv, PTL DEF SafetySpec

(* The ports keep to a byte and the tick total below the rebase, whatever  *)
(* the program stores.                                                     *)
THEOREM TimersTypeCorrect == SafetySpec => []TypeOK
<1>1. IInv => TypeOK
  BY DEF IInv
<1>2. QED
  BY <1>1, InvHolds, PTL

(* TIMA never falls behind while it counts by one clock select, through    *)
(* every rebase of the tick total.                                         *)
THEOREM TimaStaysOnTime == SafetySpec => []TimaOnTime
<1>1. IInv => TimaOnTime
  BY DEF IInv
<1>2. QED
  BY <1>1, InvHolds, PTL

(* A step no longer than the divider's period keeps it on time.            *)
LEMMA StepKeepsDivOnTime ==
    ASSUME IInv, [Next]_vars, DivIsOnTime,
           (total_ticks' - total_ticks) % TickTop <= DivPeriod
    PROVE  DivIsOnTime'
<1>1. CASE Instruction \/ UNCHANGED vars
  <2>1. total_ticks' = total_ticks /\ DIV_next' = DIV_next
    BY <1>1 DEF Instruction, TimerStore, vars, timerVars
  <2>2. QED
    BY <2>1 DEF DivIsOnTime
<1>2. CASE Step
  <2>1. PICK t \in Costs, R \in TimerRequests : TimersStep(t, R)
    BY <1>2 DEF Step
  <2> DEFINE now == total_ticks + t
  <2>2. /\ now \in 0..(2 * TickTop - 1) /\ now + DivPeriod < 2 * TickTop
        /\ t \in Nat /\ TickTop \in Nat \ {0} /\ DivPeriod \in Nat \ {0}
        /\ total_ticks \in 0..(TickTop - 1) /\ DIV_next \in Nat
    BY StepBounds DEF IInv, TypeOK, TimerTypes
  <2>3. total_ticks' = Rebased(now, now)
    BY <2>1 DEF TimersStep
  <2>4. t <= DivPeriod
    <3>1. t + DivPeriod <= TickTop
      BY TimersAssumption
    <3>2. t \in 0..(TickTop - 1) /\ t - TickTop \in (-TickTop)..(-1)
      BY <2>2, <3>1
    <3>3. t % TickTop = t /\ (t - TickTop) % TickTop = t
      <4>1. t \in Int /\ t - TickTop \in Int
        BY <2>2
      <4>2. t % TickTop = t
        BY <2>2, <3>2, <4>1, ModFacts
      <4>3. (t - TickTop) % TickTop = (t - TickTop) + TickTop
        BY <2>2, <3>2, <4>1, ModFacts
      <4>4. QED
        BY <2>2, <4>2, <4>3
    <3>4. total_ticks' - total_ticks \in {t, t - TickTop}
      <4>1. CASE now < TickTop
        BY <2>2, <2>3, <4>1 DEF Rebased
      <4>2. CASE now >= TickTop
        <5>1. now % TickTop = now - TickTop
          <6>1. now \in Int /\ now \in TickTop..(2 * TickTop - 1)
            BY <2>2, <4>2
          <6>2. QED
            BY <2>2, <6>1, ModFacts
        <5>2. QED
          BY <2>2, <2>3, <4>2, <5>1 DEF Rebased
      <4>3. QED
        BY <2>2, <4>1, <4>2
    <3>5. QED
      BY <3>3, <3>4
  <2>5. \E due \in now..(now + DivPeriod) : DIV_next' = Rebased(now, due)
    <3>1. total_ticks <= DIV_next /\ DIV_next <= total_ticks + DivPeriod
      BY DEF DivIsOnTime
    <3>2. CASE now >= DIV_next
      BY <2>1, <2>2, <2>4, <3>1, <3>2 DEF TimersStep, UpdateDiv
    <3>3. CASE now < DIV_next
      BY <2>1, <2>2, <2>4, <3>1, <3>3 DEF TimersStep, UpdateDiv
    <3>4. QED
      BY <2>2, <3>2, <3>3
  <2>6. PICK due \in now..(now + DivPeriod) : DIV_next' = Rebased(now, due)
    BY <2>5
  <2>7. due \in now..(2 * TickTop - 1)
    BY <2>2
  <2>8. /\ Rebased(now, now) \in 0..(TickTop - 1) /\ Rebased(now, due) \in Nat
        /\ Rebased(now, due) - Rebased(now, now) = due - now
    BY <2>2, <2>7, RebaseKeepsDistance
  <2>9. QED
    BY <2>2, <2>3, <2>6, <2>8 DEF DivIsOnTime
<1>3. QED
  BY <1>1, <1>2 DEF Next

(* The divider falls behind only by an instruction longer than its period. *)
THEOREM DivStaysOnTime == SafetySpec => DivOnTime
<1>1. IInv /\ [Next]_vars =>
        [DivIsOnTime /\ (total_ticks' - total_ticks) % TickTop <= DivPeriod
            => DivIsOnTime']_vars
  BY StepKeepsDivOnTime
<1>2. QED
  BY <1>1, InvHolds, PTL DEF SafetySpec, DivOnTime

=============================================================================
