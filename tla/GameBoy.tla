------------------------------- MODULE GameBoy -------------------------------
(***************************************************************************)
(* What every component of the emulator shares: the instruction costs, the *)
(* five interrupt sources, and the fixed order of calls in one step of the *)
(* machine (gb_machine_step).  The emulator is single threaded: a step is  *)
(* four calls, made one after the other, and "stage" names the next one.   *)
(***************************************************************************)
EXTENDS Integers, FiniteSets, Sequences

CONSTANT
    Costs       \* what an instruction handler may return: a number of ticks

(* byte_t: a handler's result is a byte, and no handler returns 0.         *)
ASSUME CostsAssumption == Costs \subseteq 1..255

VARIABLE
    stage       \* the call of gb_machine_step that is made next

Stages == {"CPU", "INPUT", "INTERRUPT", "DISPLAY"}

(* The machine makes the call "from" and goes on to the call "to".         *)
Call(from, to) == stage = from /\ stage' = to

-----------------------------------------------------------------------------

(* The bits of IF and IE, from bit 0 (served first) to bit 4.              *)
IntFlags == <<"VBLANK", "LCDC_STAT", "TIMER", "SERIAL", "KEYPAD">>

Ints == {"VBLANK", "LCDC_STAT", "TIMER", "SERIAL", "KEYPAD"}

(* a is served before b.                                                   *)
Outranks(a, b) ==
    \E i, j \in 1..5 : i < j /\ IntFlags[i] = a /\ IntFlags[j] = b

=============================================================================
