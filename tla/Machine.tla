-------------------------------- MODULE Machine --------------------------------
(***************************************************************************)
(* The whole machine in its window: interrupt control, LCD controller,     *)
(* timers, keypad and display in the order of gb_machine_step, inside the  *)
(* frame loop of the window.  One instruction writes the registers of one  *)
(* component at most (no 16-bit store reaches two).                        *)
(***************************************************************************)
EXTENDS Display, InterruptControl, Timers, Keypad

CONSTANTS
    Stores,     \* the kinds of register stores the program uses
    MaxEvents   \* bound: the key events queued at a time

VARIABLE
    key_events  \* the key events queued in the window system

vars == <<stage, lcdVars, displayVars, intVars, timerVars, keypadVars, key_events>>

Init ==
    /\ stage = "CPU"
    /\ LcdInit /\ DisplayInit /\ IntInit /\ TimersInit /\ KeypadInit
    /\ key_events = <<>>

-----------------------------------------------------------------------------

(* The registers an instruction may write: none, the keypad port, or those*)
(* of one of the kinds of stores.                                          *)
Writes == {{}, {"JOYP"}} \cup (Stores \cap (LcdWrites \cup TimerWrites))

(* gb_CPU_step: an instruction of interrupt control, or a store into one of*)
(* the other components.                                                   *)
CpuStep(W) ==
    /\ Call("CPU", "INPUT")
    /\ \/ /\ W = {} /\ ControlInstruction
          /\ UNCHANGED <<lcdVars, timerVars, keypadVars>>
       \/ /\ W # {} /\ Ordinary
          /\ IF W \in LcdWrites THEN LcdStore(W) ELSE UNCHANGED lcdVars
          /\ IF W \in TimerWrites THEN TimerStore(W) ELSE UNCHANGED timerVars
          /\ IF W = {"JOYP"} THEN StoreJoyp ELSE UNCHANGED keypadVars
    /\ UNCHANGED <<displayVars, key_events>>

Execute(W) == LoopAgain /\ CpuStep(W)

Instruction == \E W \in Writes : Execute(W)

(* gb_INPUT_step                                                           *)
Input ==
    /\ Call("INPUT", "INTERRUPT")
    /\ \E R \in {{}, {"KEYPAD"}} : KeypadStep(R) /\ Request(R)
    /\ UNCHANGED <<lcdVars, timerVars, displayVars, key_events,
                   IME, IO_IE, HALT, STOP, PC, frames>>

(* gb_INTERRUPT_step: timers, then the LCD, then what they requested.      *)
StepDevices(t, Rt, Rl) ==
    /\ Call("INTERRUPT", "DISPLAY")
    /\ TimersStep(t, Rt) /\ LcdStep(t, Rl) /\ RequestAndExecute(Rt \cup Rl)
    /\ UNCHANGED <<displayVars, keypadVars, key_events>>

Step ==
    \E t \in Costs, Rt \in TimerRequests, Rl \in LcdRequests : StepDevices(t, Rt, Rl)

(* gb_DISPLAY_render_line                                                  *)
Draw ==
    /\ Call("DISPLAY", "CPU")
    /\ RenderLine \/ SkipLine
    /\ UNCHANGED <<lcdVars, intVars, timerVars, keypadVars, key_events>>

(* The user presses a released key or releases a pressed one: the event is *)
(* queued (key repeat is off).                                             *)
Held ==
    PressedAfter(Buttons, button_keys, key_events)
    \cup PressedAfter(Directions, direction_keys, key_events)

KeyEvent(e) ==
    /\ Len(key_events) < MaxEvents
    /\ e.is_pressed = (e.key \notin Held)
    /\ key_events' = Append(key_events, e)
    /\ UNCHANGED <<stage, lcdVars, displayVars, intVars, timerVars, keypadVars>>

(* GLUT delivers the queued events to gb_INPUT_press_key, in their order,  *)
(* then fires the timer: a key pressed and released between two frames is  *)
(* never seen by the program.                                              *)
DispatchEvents ==
    /\ FireTimer
    /\ Deliver(key_events)
    /\ key_events' = <<>>
    /\ UNCHANGED <<stage, lcdVars, intVars, timerVars>>

PresentPicture ==
    /\ Present
    /\ UNCHANGED <<stage, lcdVars, intVars, timerVars, keypadVars, key_events>>

Emulator ==
    Instruction \/ Input \/ Step \/ Draw
    \/ DispatchEvents \/ PresentPicture

User == \E e \in Event : KeyEvent(e)

Next == Emulator \/ User

(* One thread that never blocks; the user owes nothing.                    *)
Spec == Init /\ [][Next]_vars /\ WF_vars(Emulator)

-----------------------------------------------------------------------------

TypeOK ==
    /\ stage \in Stages
    /\ LcdTypes /\ IntTypes /\ TimerTypes
    /\ Len(frames) <= MaxNest + 1
    /\ JOYP.select \in SUBSET Halves
    /\ last_LY \in Visible
    /\ screen_ready \in BOOLEAN /\ glut \in {"events", "frame"}

(* Whatever device raised it, no enabled request is left waiting when the  *)
(* next instruction starts.                                                *)
PromptDispatch == stage = "CPU" /\ IME => IO_IE \cap IO_IF = {}

(* A halted CPU wakes up as long as the display or the timer runs: the     *)
(* waiting program cannot turn them off, and the flag falls on any request *)
(* they make, enabled or not.                                              *)
HaltWakes ==
    HALT_is_waiting_for_ISR /\ stage = "CPU" /\ (LCDC_enabled \/ TAC_on)
        ~> ~HALT_is_waiting_for_ISR

(* The CPU waits in HALT inside the frame loop, neither the display nor the*)
(* timer runs, and the keypad has nothing to answer.                       *)
Deaf ==
    /\ HALT_is_waiting_for_ISR
    /\ ~LCDC_enabled /\ display_mode = "DISABLED" /\ ~TAC_on
    /\ JOYP.select \in {{}, Halves}
    /\ glut = "frame" /\ ~screen_ready

(* HaltWakes asks for no more than it needs: a wait in HALT does not end by*)
(* itself, and no key ends it.  No line is drawn any more either, so       *)
(* gb_disp_prepare_frame loops for ever and the events stay in the queue.  *)
DeafForEver == [][Deaf => Deaf']_vars

=============================================================================
