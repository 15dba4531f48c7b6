-------------------------------- MODULE Keypad --------------------------------
(***************************************************************************)
(* input.c: the state of the eight keys, and the P1/JOYP port through which*)
(* the program asks for one half of them.  A key line is 0 while its key is*)
(* pressed; "lines" is the set of keys whose line reads 0.                 *)
(***************************************************************************)
EXTENDS GameBoy, SequencesExt

CONSTANTS
    Buttons, Directions,    \* the keys of the two halves
    JoypStores              \* the values the program writes to JOYP

VARIABLES
    button_keys, direction_keys,    \* the pressed keys of each half
    JOYP                            \* the port: select bits and key lines

keypadVars == <<button_keys, direction_keys, JOYP>>

Keys == Buttons \cup Directions

(* The four lines of the port serve both halves; a line that reads 0 is    *)
(* named by the half the port last answered for.                           *)
Halves == {"buttons", "directions"}
JoypBytes == [select : SUBSET Halves, lines : SUBSET Keys]

ASSUME KeypadAssumption ==
    Buttons \cap Directions = {} /\ JoypStores \subseteq JoypBytes

(* The port is 0 in the zeroed machine: nothing selected, every line 0.    *)
KeypadInit ==
    /\ button_keys = {} /\ direction_keys = {}
    /\ JOYP = [select |-> {}, lines |-> Keys]

(* gb_INPUT_press_key: the pressed keys of one half after an event.        *)
Event == [key : Keys, is_pressed : BOOLEAN]

PressKey(half, pressed, e) ==
    IF e.key \notin half THEN pressed
    ELSE IF e.is_pressed THEN pressed \cup {e.key} ELSE pressed \ {e.key}

(* The pressed keys of one half after a queue of events.                   *)
PressedAfter(half, pressed, events) ==
    FoldLeft(LAMBDA p, e : PressKey(half, p, e), pressed, events)

Deliver(events) ==
    /\ button_keys' = PressedAfter(Buttons, button_keys, events)
    /\ direction_keys' = PressedAfter(Directions, direction_keys, events)
    /\ UNCHANGED JOYP

(* The program writes select bits, and whatever line bits its byte has.    *)
StoreJoyp ==
    /\ JOYP' \in JoypStores
    /\ UNCHANGED <<button_keys, direction_keys>>

(* gb_INPUT_step: the answer to a request for one half clears the request  *)
(* and asks for the KEYPAD interrupt, whether or not a key is pressed.     *)
Answer(half, pressed, R) ==
    /\ JOYP.select = {half}
    /\ JOYP' = [select |-> {}, lines |-> pressed]
    /\ R = {"KEYPAD"}

(* Slip: the interrupt is requested although nothing is asked for.         *)
NoAnswerAsks(R) ==
    /\ JOYP.select \in {{}, Halves}
    /\ UNCHANGED JOYP
    /\ R = {"KEYPAD"}

NoAnswer(R) ==
    /\ JOYP.select \in {{}, Halves}
    /\ UNCHANGED JOYP
    /\ R = {}

KeypadStep(R) ==
    /\ \/ Answer("buttons", button_keys, R)
       \/ Answer("directions", direction_keys, R)
       \/ NoAnswer(R)
    /\ UNCHANGED <<button_keys, direction_keys>>

=============================================================================
