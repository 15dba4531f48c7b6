---------------------------- MODULE InterruptsAlone ----------------------------
(***************************************************************************)
(* Interrupt control driven by an arbitrary program and by arbitrary       *)
(* requests from the devices, with what it must guarantee.                 *)
(***************************************************************************)
EXTENDS InterruptControl

CONSTANT
    Requests    \* the sets of interrupts a step of the devices may request

ASSUME RequestsAssumption == Requests \subseteq SUBSET Ints

VARIABLE
    halted_at   \* history: the HALT instruction that set HALT, while it is set

vars == <<stage, intVars, halted_at>>

Init == stage = "CPU" /\ IntInit /\ halted_at = "code"

(* One instruction of the program.                                         *)
Instruction ==
    /\ Call("CPU", "INPUT")
    /\ ControlInstruction
    /\ halted_at' = IF ~HALT' THEN "code" ELSE IF HALT THEN halted_at ELSE PC

(* gb_INPUT_step answered a request for the keys: the one source of KEYPAD.*)
Input ==
    /\ Call("INPUT", "INTERRUPT")
    /\ \E R \in {{}, {"KEYPAD"}} : Request(R)
    /\ UNCHANGED <<IME, IO_IE, HALT, STOP, PC, frames, halted_at>>

(* gb_INTERRUPT_step.                                                      *)
Step ==
    /\ Call("INTERRUPT", "CPU")
    /\ \E R \in Requests : RequestAndExecute(R)
    /\ UNCHANGED halted_at

Next == Instruction \/ Input \/ Step

SafetySpec == Init /\ [][Next]_vars

Spec == SafetySpec /\ WF_vars(Next)

-----------------------------------------------------------------------------

TypeOK ==
    /\ stage \in {"CPU", "INPUT", "INTERRUPT"}
    /\ IntTypes
    /\ halted_at \in Places

(* No enabled request is left waiting when the next instruction starts.    *)
PromptDispatch == stage = "CPU" /\ IME => IO_IE \cap IO_IF = {}

(* A CPU that waits in HALT is at a HALT instruction, with nothing to      *)
(* serve: no dispatch takes PC away from a HALT that still waits.          *)
HaltWaitsInPlace ==
    HALT_is_waiting_for_ISR =>
        /\ HALT /\ PC \in HaltSites /\ PC = halted_at
        /\ IME => IO_IE \cap IO_IF = {}

(* The HALT flag has an owner: while it is set, the instruction that set   *)
(* it is at PC or will be returned to, however the handlers nest; the flag *)
(* is never left over for an unrelated HALT to find.                       *)
HaltHasOwner ==
    HALT => \/ PC = halted_at
            \/ \E i \in 1..Len(frames) : frames[i] = halted_at

(* A served interrupt outranks every other one that was pending.           *)
ServedByPriority ==
    [][stage = "INTERRUPT" /\ frames' # frames
         => \A f \in IO_IE' \cap IO_IF' : Outranks(PC', f)]_vars

(* A request is forgotten only by serving it or by the program's own store.*)
RequestsAreKept ==
    [][stage # "CPU" =>
         IO_IF \subseteq IO_IF' \cup (IF frames' # frames THEN {PC'} ELSE {})]_vars

(* A STOP that waits while KEYPAD is pending and masked.                   *)
Jammed == STOP /\ STOP_is_waiting_for_JOYP /\ "KEYPAD" \in IO_IF \ IO_IE

(* gb_INTERRUPT_request keeps STOP waiting while KEYPAD is set in IF, where*)
(* the interrupt it waits for should end the wait.  So no request, no      *)
(* handler with its EI and RETI and no pass of the STOP itself gets a      *)
(* jammed STOP going: only a store of the program that clears KEYPAD in IF *)
(* or enables it in IE, which a STOP that is not interrupted never makes.  *)
StopStaysJammed ==
    [][Jammed /\ ~Jammed' => stage = "CPU" /\ "KEYPAD" \notin IO_IF' \ IO_IE']_vars

(* The highest source cannot be starved: VBLANK, kept enabled and not      *)
(* cleared by the program, is served if the program keeps enabling IME.    *)
VblankIsServed ==
    []<>IME /\ <>[]("VBLANK" \in IO_IE)
        => ("VBLANK" \in IO_IF ~> "VBLANK" \notin IO_IF)

(* The comment in gb_HALT: HALT "halts the CPU until next interrupt fires":*)
(* a HALT instruction is passed only after it has halted the CPU itself.   *)
HaltAlwaysHalts ==
    [][stage = "CPU" /\ PC \in HaltSites /\ PC' # PC => PC = halted_at]_vars

=============================================================================
