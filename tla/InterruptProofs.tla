---------------------------- MODULE InterruptProofs ----------------------------
(***************************************************************************)
(* Theorems about interrupt control, for every set of HALT and STOP        *)
(* instructions, every nesting, and every pattern of requests and stores.  *)
(***************************************************************************)
EXTENDS InterruptsAlone, TLAPS

(* HaltWaitsInPlace is not inductive alone: that HALT is entered with      *)
(* nothing to serve is PromptDispatch, and that nothing but a spin is      *)
(* possible while it waits is HALT /\ PC \in HaltSites.                    *)
OwnerIsHalt == HALT => halted_at \in HaltSites

IInv ==
    TypeOK /\ PromptDispatch /\ HaltWaitsInPlace /\ OwnerIsHalt /\ HaltHasOwner

-----------------------------------------------------------------------------

(* The served flag is pending, and outranks every other pending flag.      *)
LEMMA FirstIsServed ==
    ASSUME NEW pending \in SUBSET Ints, pending # {}
    PROVE  /\ First(pending) \in pending
           /\ \A f \in pending \ {First(pending)} : Outranks(First(pending), f)
<1> DEFINE Lowest(n) == /\ IntFlags[n] \in pending
                        /\ \A m \in 1..(n - 1) : IntFlags[m] \notin pending
           i == CHOOSE n \in 1..5 : Lowest(n)
<1>1. \E n \in 1..5 : Lowest(n)
  <2>1. CASE IntFlags[1] \in pending
    <3>1. Lowest(1) BY <2>1
    <3>2. QED BY <3>1
  <2>2. CASE IntFlags[1] \notin pending /\ IntFlags[2] \in pending
    <3>1. Lowest(2) BY <2>2
    <3>2. QED BY <3>1
  <2>3. CASE /\ IntFlags[1] \notin pending /\ IntFlags[2] \notin pending
             /\ IntFlags[3] \in pending
    <3>1. \A m \in 1..(3 - 1) : m = 1 \/ m = 2 OBVIOUS
    <3>2. Lowest(3) BY <2>3, <3>1
    <3>3. QED BY <3>2
  <2>4. CASE /\ IntFlags[1] \notin pending /\ IntFlags[2] \notin pending
             /\ IntFlags[3] \notin pending /\ IntFlags[4] \in pending
    <3>1. \A m \in 1..(4 - 1) : m = 1 \/ m = 2 \/ m = 3 OBVIOUS
    <3>2. Lowest(4) BY <2>4, <3>1
    <3>3. QED BY <3>2
  <2>5. CASE /\ IntFlags[1] \notin pending /\ IntFlags[2] \notin pending
             /\ IntFlags[3] \notin pending /\ IntFlags[4] \notin pending
    <3>1. IntFlags[5] \in pending
      BY <2>5 DEF Ints, IntFlags
    <3>2. \A m \in 1..(5 - 1) : m = 1 \/ m = 2 \/ m = 3 \/ m = 4 OBVIOUS
    <3>3. Lowest(5) BY <2>5, <3>1, <3>2
    <3>4. QED BY <3>3
  <2>6. QED BY <2>1, <2>2, <2>3, <2>4, <2>5
<1>2. i \in 1..5 /\ Lowest(i)
  BY <1>1
<1>3. First(pending) = IntFlags[i]
  BY DEF First
<1>4. ASSUME NEW f \in pending \ {IntFlags[i]}
      PROVE  \E j \in 1..5 : i < j /\ IntFlags[j] = f
  <2>1. PICK j \in 1..5 : IntFlags[j] = f
    BY DEF Ints, IntFlags
  <2>2. ~(j \in 1..(i - 1)) /\ j # i
    BY <1>2, <1>4, <2>1
  <2>3. i < j
    BY <1>2, <2>1, <2>2
  <2>4. QED BY <2>1, <2>3
<1>5. QED
  BY <1>2, <1>3, <1>4 DEF Outranks

LEMMA InitEstablishesInv == Init => IInv
<1> SUFFICES ASSUME Init PROVE IInv
  OBVIOUS
<1>1. TypeOK
  <2>1. PC \in Places /\ halted_at \in Places /\ frames \in Seq(Places)
    BY DEF Init, IntInit, Places
  <2>2. /\ IME = FALSE /\ HALT = FALSE /\ HALT_is_waiting_for_ISR = FALSE
        /\ STOP = FALSE /\ STOP_is_waiting_for_JOYP = FALSE
        /\ IO_IE = {} /\ IO_IF = {} /\ stage = "CPU"
    BY DEF Init, IntInit
  <2>3. IO_IE \in SUBSET Ints /\ IO_IF \in SUBSET Ints
    BY <2>2
  <2>4. QED
    BY <2>1, <2>2, <2>3 DEF TypeOK, IntTypes
<1>2. PromptDispatch /\ HaltWaitsInPlace /\ OwnerIsHalt /\ HaltHasOwner
  BY DEF Init, IntInit, PromptDispatch, HaltWaitsInPlace, OwnerIsHalt, HaltHasOwner
<1>3. QED
  BY <1>1, <1>2 DEF IInv

(* The instructions that stay clear of HALT keep its bookkeeping if what   *)
(* they do to the stack does not lose the owner.                           *)
LEMMA FrameStep ==
    ASSUME IInv, HALT, PC \notin HaltSites, halted_at' = halted_at,
           \/ frames' = frames
           \/ /\ frames # <<>> /\ PC' = frames[Len(frames)]
              /\ frames' = SubSeq(frames, 1, Len(frames) - 1)
    PROVE  \/ PC' = halted_at'
           \/ \E i \in 1..Len(frames') : frames'[i] = halted_at'
<1>1. PICK i \in 1..Len(frames) : frames[i] = halted_at
  BY DEF IInv, OwnerIsHalt, HaltHasOwner
<1>2. CASE frames' = frames
  BY <1>1, <1>2
<1>3. CASE /\ frames # <<>> /\ PC' = frames[Len(frames)]
           /\ frames' = SubSeq(frames, 1, Len(frames) - 1)
  <2>1. frames \in Seq(Places) /\ Len(frames) \in Nat
    BY DEF IInv, TypeOK, IntTypes
  <2>2. CASE i = Len(frames)
    BY <1>1, <1>3, <2>2
  <2>3. CASE i # Len(frames)
    <3>1. i \in 1..(Len(frames) - 1)
      BY <1>1, <2>1, <2>3
    <3>2. Len(frames') = Len(frames) - 1 /\ frames'[i] = frames[i]
      BY <1>3, <2>1, <3>1
    <3>3. QED BY <1>1, <3>1, <3>2
  <2>4. QED BY <2>2, <2>3
<1>4. QED
  BY <1>2, <1>3

LEMMA InstructionKeepsInv == IInv /\ Instruction => IInv'
<1> SUFFICES ASSUME IInv, Instruction PROVE IInv'
  OBVIOUS
<1>0. /\ stage = "CPU" /\ stage' = "INPUT"
      /\ halted_at' = IF ~HALT' THEN "code" ELSE IF HALT THEN halted_at ELSE PC
      /\ TypeOK /\ (IME => IO_IE \cap IO_IF = {})
      /\ (HALT_is_waiting_for_ISR => HALT /\ PC \in HaltSites /\ PC = halted_at)
      /\ PromptDispatch'
  BY DEF Instruction, Call, IInv, PromptDispatch, HaltWaitsInPlace
<1>s. HaltSites \cap StopSites = {} /\ "code" \notin HaltSites \cup StopSites
  BY SitesAssumption
(* The instructions that are neither HALT nor STOP: nobody waits in HALT.  *)
<1>1. ASSUME AtOrdinary, PC' \in Places, frames' \in Seq(Places),
             IME' \in BOOLEAN, IO_IE' \in SUBSET Ints, IO_IF' \in SUBSET Ints,
             HALT' = HALT, STOP' = STOP,
             HALT_is_waiting_for_ISR' \in BOOLEAN,
             HALT_is_waiting_for_ISR' => HALT_is_waiting_for_ISR,
             STOP_is_waiting_for_JOYP' \in BOOLEAN,
             \/ frames' = frames
             \/ /\ frames # <<>> /\ PC' = frames[Len(frames)]
                /\ frames' = SubSeq(frames, 1, Len(frames) - 1)
      PROVE  IInv'
  <2>1. ~HALT_is_waiting_for_ISR'
    BY <1>0, <1>1 DEF AtOrdinary
  <2>2. halted_at' = IF HALT THEN halted_at ELSE "code"
    BY <1>0, <1>1
  <2>3. TypeOK'
    BY <1>0, <1>1, <2>2 DEF TypeOK, IntTypes, Places
  <2>4. HaltWaitsInPlace'
    BY <2>1 DEF HaltWaitsInPlace
  <2>5. OwnerIsHalt'
    BY <1>1, <2>2 DEF OwnerIsHalt, IInv
  <2>6. HaltHasOwner'
    BY <1>1, <2>2, FrameStep DEF HaltHasOwner, AtOrdinary
  <2>7. QED BY <1>0, <2>3, <2>4, <2>5, <2>6 DEF IInv
<1>2. CASE Ordinary
  BY <1>0, <1>1, <1>2 DEF Ordinary, Unwaited, NextPlaces, Places, TypeOK, IntTypes
<1>3. CASE StoreIE
  BY <1>0, <1>1, <1>3, SitesAssumption DEF StoreIE, Unwaited, NextPlaces, Places, TypeOK, IntTypes
<1>4. CASE StoreIF
  BY <1>0, <1>1, <1>4, SitesAssumption DEF StoreIF, Unwaited, NextPlaces, Places, TypeOK, IntTypes
<1>5. CASE DI
  <2>1. /\ AtOrdinary /\ PC' \in Places /\ IME' \in BOOLEAN
        /\ UNCHANGED <<IO_IE, IO_IF, frames>> /\ Unwaited
    BY <1>5 DEF DI, NextPlaces, Places
  <2>2. QED
    BY <1>0, <1>1, <2>1 DEF Unwaited, TypeOK, IntTypes
<1>6. CASE EI
  <2>1. /\ AtOrdinary /\ PC' \in Places /\ IME' \in BOOLEAN
        /\ ~HALT_is_waiting_for_ISR' /\ HALT_is_waiting_for_ISR' \in BOOLEAN
        /\ UNCHANGED <<IO_IE, IO_IF, HALT, STOP, frames>>
    BY <1>6 DEF EI, NextPlaces, Places
  <2>2. STOP_is_waiting_for_JOYP' \in BOOLEAN
    BY <1>6 DEF EI
  <2>3. QED
    BY <1>0, <1>1, <2>1, <2>2 DEF TypeOK, IntTypes
<1>7. ASSUME NEW enable \in BOOLEAN, Return(enable) PROVE IInv'
  <2>1. frames \in Seq(Places) /\ frames # <<>>
    BY <1>0, <1>7 DEF Return, TypeOK, IntTypes
  <2>2. PC' \in Places /\ frames' \in Seq(Places)
    BY <1>7, <2>1 DEF Return
  <2>3. QED
    BY <1>0, <1>1, <1>7, <2>2 DEF Return, Unwaited, TypeOK, IntTypes
<1>8. CASE EnterHalt
  <2>1. /\ halted_at' = PC /\ PC' = PC /\ PC \in HaltSites /\ HALT'
        /\ UNCHANGED <<IME, IO_IE, IO_IF, frames>>
    BY <1>0, <1>8 DEF EnterHalt
  <2>2. TypeOK'
    BY <1>0, <1>8, <2>1 DEF EnterHalt, TypeOK, IntTypes
  <2>3. HaltWaitsInPlace'
    BY <1>0, <2>1 DEF HaltWaitsInPlace
  <2>4. OwnerIsHalt' /\ HaltHasOwner'
    BY <2>1 DEF OwnerIsHalt, HaltHasOwner
  <2>5. QED
    BY <1>0, <2>2, <2>3, <2>4 DEF IInv
<1>9. CASE SpinInHalt \/ SpinInStop
  <2>1. UNCHANGED intVars
    BY <1>9 DEF SpinInHalt, SpinInStop
  <2>2. halted_at' = IF HALT THEN halted_at ELSE "code"
    BY <1>0, <2>1 DEF intVars
  <2>3. TypeOK'
    BY <1>0, <2>1, <2>2 DEF TypeOK, IntTypes, intVars, Places
  <2>4. QED
    BY <1>0, <2>1, <2>2, <2>3
       DEF IInv, HaltWaitsInPlace, OwnerIsHalt, HaltHasOwner, intVars
<1>10. CASE LeaveHalt
  <2>1. /\ ~HALT' /\ halted_at' = "code" /\ ~HALT_is_waiting_for_ISR'
        /\ PC' \in Places
    BY <1>0, <1>10 DEF LeaveHalt, NextPlaces, Places
  <2>2. TypeOK'
    BY <1>0, <1>10, <2>1 DEF LeaveHalt, TypeOK, IntTypes, Places
  <2>3. QED
    BY <1>0, <2>1, <2>2 DEF IInv, HaltWaitsInPlace, OwnerIsHalt, HaltHasOwner
(* At a STOP, nobody waits in HALT either, and the stack stays as it is.   *)
<1>11. CASE EnterStop \/ LeaveStop
  <2>1. /\ PC \in StopSites /\ PC \notin HaltSites
        /\ UNCHANGED <<IME, IO_IE, IO_IF, HALT, HALT_is_waiting_for_ISR, frames>>
        /\ STOP' \in BOOLEAN /\ STOP_is_waiting_for_JOYP' \in BOOLEAN
        /\ PC' \in Places
    BY <1>0, <1>s, <1>11 DEF EnterStop, LeaveStop, NextPlaces, Places, TypeOK, IntTypes
  <2>2. halted_at' = IF HALT THEN halted_at ELSE "code"
    BY <1>0, <2>1
  <2>3. TypeOK'
    BY <1>0, <2>1, <2>2 DEF TypeOK, IntTypes, Places
  <2>4. ~HALT_is_waiting_for_ISR'
    BY <1>0, <2>1
  <2>5. HaltHasOwner'
    BY <2>1, <2>2, FrameStep DEF HaltHasOwner
  <2>6. OwnerIsHalt'
    BY <2>1, <2>2 DEF OwnerIsHalt, IInv
  <2>7. QED
    BY <1>0, <2>3, <2>4, <2>5, <2>6 DEF IInv, HaltWaitsInPlace
<1>12. ControlInstruction
  BY DEF Instruction
<1>13. QED
  BY <1>2, <1>3, <1>4, <1>5, <1>6, <1>7, <1>8, <1>9, <1>10, <1>11, <1>12
     DEF ControlInstruction

LEMMA InputKeepsInv == IInv /\ Input => IInv'
<1> SUFFICES ASSUME IInv, Input PROVE IInv'
  OBVIOUS
<1>1. PICK R \in {{}, {"KEYPAD"}} : Request(R)
  BY DEF Input
<1>2. /\ stage' = "INTERRUPT"
      /\ UNCHANGED <<IME, IO_IE, HALT, STOP, PC, frames, halted_at>>
  BY DEF Input, Call
<1>3. /\ IO_IF' \in SUBSET Ints
      /\ HALT_is_waiting_for_ISR' \in BOOLEAN
      /\ HALT_is_waiting_for_ISR' => HALT_is_waiting_for_ISR /\ IO_IF' = IO_IF
  <2>1. CASE R = {}
    BY <1>1, <2>1 DEF Request, IInv, TypeOK, IntTypes
  <2>2. CASE R = {"KEYPAD"}
    <3>1. IO_IF' = IO_IF \cup {"KEYPAD"} /\ HALT_is_waiting_for_ISR' = FALSE
      BY <1>1, <2>2 DEF Request
    <3>2. QED BY <3>1 DEF IInv, TypeOK, IntTypes, Ints
  <2>3. QED BY <1>1, <2>1, <2>2
<1>4. STOP_is_waiting_for_JOYP' \in BOOLEAN
  <2>1. CASE R = {}
    BY <1>1, <2>1 DEF Request, IInv, TypeOK, IntTypes
  <2>2. CASE R = {"KEYPAD"}
    <3>1. STOP_is_waiting_for_JOYP' = ("KEYPAD" \in IO_IF')
      BY <1>1, <2>2 DEF Request
    <3>2. QED BY <3>1
  <2>3. QED BY <1>1, <2>1, <2>2
<1>5. TypeOK'
  BY <1>2, <1>3, <1>4 DEF IInv, TypeOK, IntTypes
<1>6. PromptDispatch'
  BY <1>2 DEF PromptDispatch
<1>7. HaltWaitsInPlace'
  BY <1>2, <1>3 DEF IInv, HaltWaitsInPlace
<1>8. OwnerIsHalt' /\ HaltHasOwner'
  BY <1>2 DEF IInv, OwnerIsHalt, HaltHasOwner
<1>9. QED
  BY <1>5, <1>6, <1>7, <1>8 DEF IInv

(* What the end of a step does: it serves the first pending interrupt, or  *)
(* leaves everything but IF alone.                                         *)
LEMMA StepEffect ==
    ASSUME IInv, NEW R \in SUBSET Ints, RequestAndExecute(R)
    PROVE  /\ IO_IE' = IO_IE /\ HALT' = HALT /\ STOP' = STOP
           /\ HALT_is_waiting_for_ISR' = (HALT_is_waiting_for_ISR /\ R = {})
           /\ STOP_is_waiting_for_JOYP' \in BOOLEAN
           /\ \/ /\ IME /\ IME' = FALSE
                 /\ PC' \in IO_IE \cap (IO_IF \cup R)
                 /\ \A f \in (IO_IE \cap (IO_IF \cup R)) \ {PC'} : Outranks(PC', f)
                 /\ IO_IF' = (IO_IF \cup R) \ {PC'}
                 /\ frames' = Append(frames, PC)
              \/ /\ IME => IO_IE \cap (IO_IF \cup R) = {}
                 /\ IO_IF' = IO_IF \cup R
                 /\ UNCHANGED <<IME, frames, PC>>
<1> DEFINE raised == IO_IF \cup R
           pending == IO_IE \cap raised
<1>1. pending \in SUBSET Ints
  BY DEF IInv, TypeOK, IntTypes
<1>2. /\ IO_IE' = IO_IE /\ HALT' = HALT /\ STOP' = STOP
      /\ HALT_is_waiting_for_ISR' = (HALT_is_waiting_for_ISR /\ R = {})
  BY DEF RequestAndExecute, Pending, Unserved, WaitsOn
<1>3. STOP_is_waiting_for_JOYP' \in BOOLEAN
  <2>1. CASE R = {}
    <3>1. STOP_is_waiting_for_JOYP' = STOP_is_waiting_for_JOYP
      BY <2>1 DEF RequestAndExecute, Pending, Unserved, WaitsOn
    <3>2. STOP_is_waiting_for_JOYP \in BOOLEAN
      BY DEF IInv, TypeOK, IntTypes
    <3>3. QED BY <3>1, <3>2
  <2>2. CASE R # {}
    <3>1. STOP_is_waiting_for_JOYP' = ("KEYPAD" \in raised)
      BY <2>2 DEF RequestAndExecute, Pending, Unserved, WaitsOn
    <3> HIDE DEF raised
    <3>2. QED BY <3>1
  <2>3. QED BY <2>1, <2>2
<1>4. CASE IME /\ pending # {}
  <2>1. /\ IME' = FALSE /\ PC' = First(pending)
        /\ IO_IF' = raised \ {First(pending)}
        /\ frames' = Append(frames, PC)
    BY <1>4 DEF RequestAndExecute, Pending, Unserved, WaitsOn
  <2>2. /\ First(pending) \in pending
        /\ \A f \in pending \ {First(pending)} : Outranks(First(pending), f)
    BY <1>1, <1>4, FirstIsServed
  <2>3. QED BY <1>2, <1>3, <1>4, <2>1, <2>2
<1>5. CASE ~(IME /\ pending # {})
  <2>1. IO_IF' = raised /\ UNCHANGED <<IME, frames, PC>>
    BY <1>5 DEF RequestAndExecute, Pending, Unserved, WaitsOn
  <2>2. QED BY <1>2, <1>3, <1>5, <2>1
<1>6. QED BY <1>4, <1>5

LEMMA StepKeepsInv == IInv /\ Step => IInv'
<1> SUFFICES ASSUME IInv, Step PROVE IInv'
  OBVIOUS
<1>1. PICK R \in SUBSET Ints : RequestAndExecute(R)
  BY RequestsAssumption DEF Step
<1>2. stage' = "CPU" /\ halted_at' = halted_at
  BY DEF Step, Call
<1>3. /\ IO_IE' = IO_IE /\ HALT' = HALT /\ STOP' = STOP
      /\ HALT_is_waiting_for_ISR' = (HALT_is_waiting_for_ISR /\ R = {})
      /\ HALT_is_waiting_for_ISR' \in BOOLEAN
      /\ STOP_is_waiting_for_JOYP' \in BOOLEAN
  BY <1>1, StepEffect
<1>4. IO_IE \in SUBSET Ints /\ IO_IF \in SUBSET Ints /\ frames \in Seq(Places)
      /\ PC \in Places /\ halted_at \in Places /\ HALT \in BOOLEAN /\ STOP \in BOOLEAN
      /\ IME \in BOOLEAN
  BY DEF IInv, TypeOK, IntTypes
<1>5. CASE /\ IME /\ IME' = FALSE
           /\ PC' \in IO_IE \cap (IO_IF \cup R)
           /\ IO_IF' = (IO_IF \cup R) \ {PC'}
           /\ frames' = Append(frames, PC)
  <2>1. ~HALT_is_waiting_for_ISR'
    <3>1. CASE R = {}
      BY <1>3, <1>5, <3>1 DEF IInv, HaltWaitsInPlace
    <3>2. CASE R # {}
      BY <1>3, <3>2
    <3>3. QED BY <3>1, <3>2
  <2>2. PC' \in Places /\ IO_IF' \in SUBSET Ints
    BY <1>4, <1>5 DEF Places
  <2>3. /\ frames' \in Seq(Places) /\ Len(frames') = Len(frames) + 1
        /\ frames'[Len(frames) + 1] = PC
        /\ \A i \in 1..Len(frames) : frames'[i] = frames[i]
        /\ Len(frames) \in Nat
    BY <1>4, <1>5
  <2>4. TypeOK'
    BY <1>2, <1>3, <1>4, <1>5, <2>2, <2>3 DEF TypeOK, IntTypes
  <2>5. PromptDispatch' /\ HaltWaitsInPlace'
    BY <1>5, <2>1 DEF PromptDispatch, HaltWaitsInPlace
  <2>6. HaltHasOwner'
    <3> SUFFICES ASSUME HALT
                 PROVE  \E i \in 1..Len(frames') : frames'[i] = halted_at
      BY <1>2, <1>3 DEF HaltHasOwner
    <3>1. CASE PC = halted_at
      BY <2>3, <3>1
    <3>2. CASE \E i \in 1..Len(frames) : frames[i] = halted_at
      <4>1. PICK i \in 1..Len(frames) : frames[i] = halted_at
        BY <3>2
      <4>2. i \in 1..Len(frames')
        BY <2>3
      <4>3. QED BY <2>3, <4>1, <4>2
    <3>3. QED BY <3>1, <3>2 DEF IInv, HaltHasOwner
  <2>7. OwnerIsHalt'
    BY <1>2, <1>3 DEF IInv, OwnerIsHalt
  <2>8. QED BY <2>4, <2>5, <2>6, <2>7 DEF IInv
<1>6. CASE /\ IME => IO_IE \cap (IO_IF \cup R) = {}
           /\ IO_IF' = IO_IF \cup R
           /\ UNCHANGED <<IME, frames, PC>>
  <2>1. TypeOK'
    BY <1>2, <1>3, <1>4, <1>6 DEF TypeOK, IntTypes
  <2>2. PromptDispatch'
    BY <1>3, <1>6 DEF PromptDispatch
  <2>3. HaltWaitsInPlace'
    BY <1>2, <1>3, <1>6 DEF IInv, HaltWaitsInPlace
  <2>4. OwnerIsHalt' /\ HaltHasOwner'
    BY <1>2, <1>3, <1>6 DEF IInv, OwnerIsHalt, HaltHasOwner
  <2>5. QED BY <2>1, <2>2, <2>3, <2>4 DEF IInv
<1>7. QED
  BY <1>1, <1>5, <1>6, StepEffect

LEMMA NextKeepsInv == IInv /\ [Next]_vars => IInv'
<1> SUFFICES ASSUME IInv, [Next]_vars PROVE IInv'
  OBVIOUS
<1>1. CASE UNCHANGED vars
  BY <1>1 DEF vars, intVars, IInv, TypeOK, IntTypes, PromptDispatch, HaltWaitsInPlace,
              OwnerIsHalt, HaltHasOwner
<1>2. QED
  BY <1>1, InstructionKeepsInv, InputKeepsInv, StepKeepsInv DEF Next

-----------------------------------------------------------------------------

(* The registers and the wait flags keep their ranges.                     *)
THEOREM TypeCorrect == SafetySpec => []TypeOK
<1>1. IInv => TypeOK BY DEF IInv
<1>2. QED BY <1>1, InitEstablishesInv, NextKeepsInv, PTL DEF SafetySpec

(* No instruction starts with an enabled request unserved.                 *)
THEOREM DispatchIsPrompt == SafetySpec => []PromptDispatch
<1>1. IInv => PromptDispatch BY DEF IInv
<1>2. QED BY <1>1, InitEstablishesInv, NextKeepsInv, PTL DEF SafetySpec

(* A HALT that waits is where the CPU is, with nothing to serve.           *)
THEOREM WaitingStaysInPlace == SafetySpec => []HaltWaitsInPlace
<1>1. IInv => HaltWaitsInPlace BY DEF IInv
<1>2. QED BY <1>1, InitEstablishesInv, NextKeepsInv, PTL DEF SafetySpec

(* The HALT flag always has an owner that will be returned to.             *)
THEOREM HaltIsOwned == SafetySpec => []HaltHasOwner
<1>1. IInv => HaltHasOwner BY DEF IInv
<1>2. QED BY <1>1, InitEstablishesInv, NextKeepsInv, PTL DEF SafetySpec

(* The interrupt served is the highest of those pending.                   *)
THEOREM PriorityIsKept == SafetySpec => ServedByPriority
<1>1. ASSUME IInv, [Next]_vars
      PROVE  [stage = "INTERRUPT" /\ frames' # frames
                => \A f \in IO_IE' \cap IO_IF' : Outranks(PC', f)]_vars
  <2> SUFFICES ASSUME Next, stage = "INTERRUPT", frames' # frames
               PROVE  \A f \in IO_IE' \cap IO_IF' : Outranks(PC', f)
    BY <1>1
  <2>1. Step
    BY DEF Next, Instruction, Input, Call
  <2>2. PICK R \in SUBSET Ints : RequestAndExecute(R)
    BY <2>1, RequestsAssumption DEF Step
  <2>3. QED
    BY <1>1, <2>2, StepEffect
<1>2. QED
  BY <1>1, InitEstablishesInv, NextKeepsInv, PTL DEF SafetySpec, ServedByPriority

(* A request leaves IF by being served, or by the program's own store.     *)
THEOREM NoRequestIsLost == SafetySpec => RequestsAreKept
<1>1. ASSUME IInv, [Next]_vars
      PROVE  [stage # "CPU" =>
                IO_IF \subseteq
                  IO_IF' \cup (IF frames' # frames THEN {PC'} ELSE {})]_vars
  <2> SUFFICES ASSUME Next, stage # "CPU"
               PROVE  IO_IF \subseteq
                        IO_IF' \cup (IF frames' # frames THEN {PC'} ELSE {})
    BY <1>1
  <2>1. CASE Input
    <3>1. PICK R \in {{}, {"KEYPAD"}} : Request(R)
      BY <2>1 DEF Input
    <3>2. IO_IF \subseteq IO_IF'
      BY <3>1 DEF Request
    <3>3. QED
      BY <3>2
  <2>2. CASE Step
    <3>1. PICK R \in SUBSET Ints : RequestAndExecute(R)
      BY <2>2, RequestsAssumption DEF Step
    <3>2. CASE /\ IO_IF' = (IO_IF \cup R) \ {PC'}
               /\ frames' = Append(frames, PC)
      <4>1. frames' # frames
        <5>1. frames \in Seq(Places) /\ PC \in Places
          BY <1>1 DEF IInv, TypeOK, IntTypes
        <5>2. Len(frames') = Len(frames) + 1 /\ Len(frames) \in Nat
          BY <3>2, <5>1
        <5>3. \A n \in Nat : n # n + 1
          OBVIOUS
        <5>4. QED
          BY <5>2, <5>3
      <4>2. QED
        BY <3>2, <4>1
    <3>3. CASE IO_IF' = IO_IF \cup R
      BY <3>3
    <3>4. QED
      BY <1>1, <3>1, <3>2, <3>3, StepEffect
  <2>3. QED
    BY <2>1, <2>2 DEF Next, Instruction, Call
<1>2. QED
  BY <1>1, InitEstablishesInv, NextKeepsInv, PTL DEF SafetySpec, RequestsAreKept

(* A jammed STOP keeps waiting through every instruction that leaves       *)
(* KEYPAD pending and masked.                                              *)
LEMMA InstructionKeepsJam ==
    ASSUME Jammed, Instruction, "KEYPAD" \in IO_IF' \ IO_IE'
    PROVE  Jammed'
<1> SUFFICES STOP' /\ STOP_is_waiting_for_JOYP'
  BY DEF Jammed
<1>0. STOP /\ STOP_is_waiting_for_JOYP /\ "KEYPAD" \in IO_IF
  BY DEF Jammed
<1>1. CASE Ordinary \/ StoreIE \/ StoreIF \/ DI
  BY <1>0, <1>1 DEF Ordinary, StoreIE, StoreIF, DI, Unwaited
<1>2. CASE EI
  BY <1>0, <1>2 DEF EI
<1>3. ASSUME NEW enable \in BOOLEAN, Return(enable)
      PROVE  STOP' /\ STOP_is_waiting_for_JOYP'
  BY <1>0, <1>3 DEF Return, Unwaited
<1>4. CASE EnterHalt \/ SpinInHalt \/ LeaveHalt
  BY <1>0, <1>4 DEF EnterHalt, SpinInHalt, LeaveHalt, intVars
<1>5. CASE EnterStop \/ SpinInStop \/ LeaveStop
  BY <1>0, <1>5 DEF EnterStop, SpinInStop, LeaveStop, intVars
<1>6. ControlInstruction
  BY DEF Instruction
<1>7. QED
  BY <1>1, <1>2, <1>3, <1>4, <1>5, <1>6 DEF ControlInstruction

(* Requests and the dispatch of others keep it waiting with KEYPAD pending.*)
LEMMA DevicesKeepJam ==
    ASSUME IInv, Jammed, Input \/ Step
    PROVE  Jammed'
<1>0. STOP /\ STOP_is_waiting_for_JOYP /\ "KEYPAD" \in IO_IF /\ "KEYPAD" \notin IO_IE
  BY DEF Jammed
<1>1. CASE Input
  <2>1. PICK R \in {{}, {"KEYPAD"}} : Request(R)
    BY <1>1 DEF Input
  <2>2. UNCHANGED <<IO_IE, STOP>>
    BY <1>1 DEF Input
  <2>3. "KEYPAD" \in IO_IF' /\ STOP_is_waiting_for_JOYP'
    BY <1>0, <2>1 DEF Request
  <2>4. QED
    BY <1>0, <2>2, <2>3 DEF Jammed
<1>2. CASE Step
  <2>1. PICK R \in SUBSET Ints : RequestAndExecute(R)
    BY <1>2, RequestsAssumption DEF Step
  <2>2. IO_IE' = IO_IE /\ STOP' = STOP
    BY <2>1, StepEffect
  <2>3. STOP_is_waiting_for_JOYP'
    BY <1>0, <2>1 DEF RequestAndExecute
  <2>4. "KEYPAD" \in IO_IF'
    <3>1. \/ /\ PC' \in IO_IE \cap (IO_IF \cup R)
             /\ IO_IF' = (IO_IF \cup R) \ {PC'}
          \/ IO_IF' = IO_IF \cup R
      BY <2>1, StepEffect
    <3>2. QED
      BY <1>0, <3>1
  <2>5. QED
    BY <1>0, <2>2, <2>3, <2>4 DEF Jammed
<1>3. QED
  BY <1>1, <1>2

(* Only the program's own store to IE or IF frees a jammed STOP.           *)
THEOREM JamsLast == SafetySpec => StopStaysJammed
<1>1. ASSUME IInv, [Next]_vars
      PROVE  [Jammed /\ ~Jammed'
                => stage = "CPU" /\ "KEYPAD" \notin IO_IF' \ IO_IE']_vars
  <2> SUFFICES ASSUME Next, Jammed, ~Jammed'
               PROVE  stage = "CPU" /\ "KEYPAD" \notin IO_IF' \ IO_IE'
    BY <1>1
  <2>1. Instruction
    BY <1>1, DevicesKeepJam DEF Next
  <2>2. QED
    BY <2>1, InstructionKeepsJam DEF Instruction, Call
<1>2. QED
  BY <1>1, InitEstablishesInv, NextKeepsInv, PTL DEF SafetySpec, StopStaysJammed

=============================================================================
