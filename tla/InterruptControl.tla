--------------------------- MODULE InterruptControl ---------------------------
(***************************************************************************)
(* Requesting and dispatching interrupts (interrupts.c), and the           *)
(* instructions of cpu.c that take part: EI, DI, HALT, STOP, RET and RETI. *)
(*                                                                         *)
(* PC is abstracted to the place of the program it points at: one of the   *)
(* HALT or STOP instructions, an interrupt vector (named by its flag), or  *)
(* "code", anything else.  The stack is abstracted to the return places    *)
(* the interrupts pushed; the program is assumed to keep SP in plain RAM   *)
(* and its pushes and pops paired.                                         *)
(***************************************************************************)
EXTENDS GameBoy

CONSTANTS
    HaltSites,      \* the program's HALT instructions
    StopSites,      \* the program's STOP instructions
    MaxNest,        \* bound: interrupts are enabled below this nesting only
    IeStores,       \* the values the program writes to IE
    IfStores        \* the values the program writes to IF

ASSUME SitesAssumption ==
    /\ HaltSites \cap StopSites = {}
    /\ "code" \notin HaltSites \cup StopSites
    /\ Ints \cap (HaltSites \cup StopSites) = {}
    /\ MaxNest \in Nat
    /\ IeStores \subseteq SUBSET Ints /\ IfStores \subseteq SUBSET Ints

VARIABLES
    IME, IO_IE, IO_IF,
    HALT, HALT_is_waiting_for_ISR,
    STOP, STOP_is_waiting_for_JOYP,
    PC,
    frames          \* the places pushed by interrupts, innermost last

intVars == <<IME, IO_IE, IO_IF, HALT, HALT_is_waiting_for_ISR,
             STOP, STOP_is_waiting_for_JOYP, PC, frames>>

Places == {"code"} \cup Ints \cup HaltSites \cup StopSites

(* Where an instruction that is neither a return nor waiting can lead; the *)
(* program may also jump to a vector's address, which is code like any.    *)
NextPlaces == {"code"} \cup HaltSites \cup StopSites

IntInit ==
    /\ IME = FALSE /\ IO_IE = {} /\ IO_IF = {}
    /\ HALT = FALSE /\ HALT_is_waiting_for_ISR = FALSE
    /\ STOP = FALSE /\ STOP_is_waiting_for_JOYP = FALSE
    /\ PC = "code" /\ frames = <<>>

-----------------------------------------------------------------------------

(* gb_INTERRUPT_request, called once for each flag of a nonempty R; the    *)
(* STOP flag follows the KEYPAD bit (true while it is set).                *)
Request(R) ==
    IF R = {} THEN UNCHANGED <<IO_IF, HALT_is_waiting_for_ISR, STOP_is_waiting_for_JOYP>>
    ELSE /\ IO_IF' = IO_IF \cup R
         /\ HALT_is_waiting_for_ISR' = FALSE
         /\ STOP_is_waiting_for_JOYP' = ("KEYPAD" \in IO_IF')

(* Instructions.  AtOrdinary: PC is at one that is neither HALT nor STOP.  *)
AtOrdinary == PC \notin HaltSites \cup StopSites

Unwaited == UNCHANGED <<HALT, HALT_is_waiting_for_ISR,
                        STOP, STOP_is_waiting_for_JOYP>>

Ordinary ==
    /\ AtOrdinary
    /\ PC' \in NextPlaces
    /\ UNCHANGED <<IME, IO_IE, IO_IF, frames>> /\ Unwaited

StoreIE ==
    /\ AtOrdinary
    /\ PC' \in NextPlaces /\ IO_IE' \in IeStores
    /\ UNCHANGED <<IME, IO_IF, frames>> /\ Unwaited

StoreIF ==
    /\ AtOrdinary
    /\ PC' \in NextPlaces /\ IO_IF' \in IfStores
    /\ UNCHANGED <<IME, IO_IE, frames>> /\ Unwaited

DI ==
    /\ AtOrdinary
    /\ PC' \in NextPlaces /\ IME' = FALSE
    /\ UNCHANGED <<IO_IE, IO_IF, frames>> /\ Unwaited

(* Slip: EI's empty request ends the wait of STOP as it does that of HALT. *)
EIEndsStop ==
    /\ AtOrdinary /\ Len(frames) < MaxNest
    /\ PC' \in NextPlaces /\ IME' = TRUE
    /\ HALT_is_waiting_for_ISR' = FALSE
    /\ STOP_is_waiting_for_JOYP' = FALSE
    /\ UNCHANGED <<IO_IE, IO_IF, HALT, STOP, frames>>

(* EI takes effect at once, and makes an empty request: no flag is raised, *)
(* but nobody waits any longer, except a STOP with KEYPAD pending.         *)
EI ==
    /\ AtOrdinary /\ Len(frames) < MaxNest
    /\ PC' \in NextPlaces /\ IME' = TRUE
    /\ HALT_is_waiting_for_ISR' = FALSE
    /\ STOP_is_waiting_for_JOYP' = ("KEYPAD" \in IO_IF)
    /\ UNCHANGED <<IO_IE, IO_IF, HALT, STOP, frames>>

(* RET or RETI from an interrupt handler, to the place it interrupted.     *)
Return(enable) ==
    /\ AtOrdinary /\ frames # <<>>
    /\ PC' = frames[Len(frames)]
    /\ frames' = SubSeq(frames, 1, Len(frames) - 1)
    /\ IME' = (IME \/ enable)
    /\ UNCHANGED <<IO_IE, IO_IF>> /\ Unwaited

(* Slip: HALT advances PC, as every other instruction does.                *)
EnterHaltAdvances ==
    /\ PC \in HaltSites /\ ~HALT
    /\ HALT' = TRUE /\ HALT_is_waiting_for_ISR' = TRUE
    /\ PC' \in NextPlaces
    /\ UNCHANGED <<IME, IO_IE, IO_IF, STOP, STOP_is_waiting_for_JOYP, frames>>

(* HALT leaves PC where it is until a later pass finds the wait over.      *)
EnterHalt ==
    /\ PC \in HaltSites /\ ~HALT
    /\ HALT' = TRUE /\ HALT_is_waiting_for_ISR' = TRUE
    /\ UNCHANGED <<IME, IO_IE, IO_IF, STOP, STOP_is_waiting_for_JOYP, PC, frames>>

SpinInHalt ==
    /\ PC \in HaltSites /\ HALT /\ HALT_is_waiting_for_ISR
    /\ UNCHANGED intVars

LeaveHalt ==
    /\ PC \in HaltSites /\ HALT /\ ~HALT_is_waiting_for_ISR
    /\ PC' \in NextPlaces \ {PC} /\ HALT' = FALSE
    /\ UNCHANGED <<IME, IO_IE, IO_IF, HALT_is_waiting_for_ISR,
                   STOP, STOP_is_waiting_for_JOYP, frames>>

EnterStop ==
    /\ PC \in StopSites /\ ~STOP
    /\ STOP' = TRUE /\ STOP_is_waiting_for_JOYP' = TRUE
    /\ UNCHANGED <<IME, IO_IE, IO_IF, HALT, HALT_is_waiting_for_ISR, PC, frames>>

SpinInStop ==
    /\ PC \in StopSites /\ STOP /\ STOP_is_waiting_for_JOYP
    /\ UNCHANGED intVars

LeaveStop ==
    /\ PC \in StopSites /\ STOP /\ ~STOP_is_waiting_for_JOYP
    /\ PC' \in NextPlaces \ {PC} /\ STOP' = FALSE
    /\ UNCHANGED <<IME, IO_IE, IO_IF, HALT, HALT_is_waiting_for_ISR,
                   STOP_is_waiting_for_JOYP, frames>>

ControlInstruction ==
    \/ Ordinary \/ StoreIE \/ StoreIF \/ DI \/ EI \/ Return(TRUE) \/ Return(FALSE)
    \/ EnterHalt \/ SpinInHalt \/ LeaveHalt
    \/ EnterStop \/ SpinInStop \/ LeaveStop

(* Slip: the bits are scanned from the top.                                *)
FirstFromTop(pending) ==
    LET i == CHOOSE n \in 1..5 : /\ IntFlags[n] \in pending
                                 /\ \A m \in (n + 1)..5 : IntFlags[m] \notin pending
    IN  IntFlags[i]

(* The lowest of the pending bits: the one gb_INTERRUPT_execute serves.    *)
First(pending) ==
    LET i == CHOOSE n \in 1..5 : /\ IntFlags[n] \in pending
                                 /\ \A m \in 1..(n - 1) : IntFlags[m] \notin pending
    IN  IntFlags[i]

(* Slip: IF is read before the requests of the step are in it.             *)
PendingStale(R) == IO_IE \cap IO_IF

(* What gb_INTERRUPT_execute finds enabled and requested.                  *)
Pending(R) == IO_IE \cap (IO_IF \cup R)

(* Slip: serving one interrupt clears every enabled bit.                   *)
UnservedNone(raised, flag) == raised \ IO_IE

(* Slip: the served bit stays set.                                         *)
UnservedAll(raised, flag) == raised

(* The requests left in IF when one is served.                             *)
Unserved(raised, flag) == raised \ {flag}

(* Slip: a request does not end the wait of HALT.                          *)
WaitsOnAlways(R) == HALT_is_waiting_for_ISR

(* Slip: only an interrupt that is served ends the wait of HALT.           *)
WaitsOnUnserved(R) == HALT_is_waiting_for_ISR /\ ~(IME /\ Pending(R) # {})

(* Any request ends the wait of HALT, enabled or not.                      *)
WaitsOn(R) == HALT_is_waiting_for_ISR /\ R = {}

(* The end of gb_INTERRUPT_step: the requests R made during the step, then *)
(* gb_INTERRUPT_execute with gb_CPU_interrupt.                             *)
RequestAndExecute(R) ==
    LET raised == IO_IF \cup R
    IN  /\ HALT_is_waiting_for_ISR' = WaitsOn(R)
        /\ STOP_is_waiting_for_JOYP' =
               IF R = {} THEN STOP_is_waiting_for_JOYP ELSE "KEYPAD" \in raised
        /\ UNCHANGED <<IO_IE, HALT, STOP>>
        /\ IF IME /\ Pending(R) # {}
           THEN /\ IME' = FALSE
                /\ IO_IF' = Unserved(raised, First(Pending(R)))
                /\ frames' = Append(frames, PC)
                /\ PC' = First(Pending(R))
           ELSE IO_IF' = raised /\ UNCHANGED <<IME, frames, PC>>

-----------------------------------------------------------------------------

IntTypes ==
    /\ IME \in BOOLEAN /\ IO_IE \in SUBSET Ints /\ IO_IF \in SUBSET Ints
    /\ HALT \in BOOLEAN /\ HALT_is_waiting_for_ISR \in BOOLEAN
    /\ STOP \in BOOLEAN /\ STOP_is_waiting_for_JOYP \in BOOLEAN
    /\ PC \in Places /\ frames \in Seq(Places)

=============================================================================
