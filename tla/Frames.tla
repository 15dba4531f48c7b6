-------------------------------- MODULE Frames --------------------------------
(***************************************************************************)
(* The LCD controller, the display and the window, driven by an arbitrary  *)
(* program and a user who presses keys: which pictures reach the window,   *)
(* and whether the window stays responsive.                                *)
(***************************************************************************)
EXTENDS Display

VARIABLES
    key_waiting,    \* a key event is queued in the window system
    drawn,          \* history: lines rendered since the last presentation
    disturbed       \* history: in that time the raster left its order

vars == <<stage, lcdVars, displayVars, key_waiting, drawn, disturbed>>

(* The zeroed machine starts in the H-blank of line 0, with last_LY = 0:   *)
(* the first frame never has a line 0 and counts as disturbed.             *)
Init ==
    /\ stage = "CPU" /\ LcdInit /\ DisplayInit
    /\ key_waiting = FALSE
    /\ drawn = {} /\ disturbed = TRUE

(* The program moves the raster out of its order.                          *)
Disturbs == (LY # 0 /\ LY' = 0) \/ ~LCDC_enabled'

Instruction ==
    /\ LoopAgain
    /\ Call("CPU", "INTERRUPT")
    /\ \E W \in LcdWrites : LcdStore(W)
    /\ disturbed' = (disturbed \/ Disturbs)
    /\ UNCHANGED <<displayVars, key_waiting, drawn>>

Tick ==
    /\ Call("INTERRUPT", "DISPLAY")
    /\ \E t \in Costs, R \in LcdRequests : LcdStep(t, R)
    /\ UNCHANGED <<displayVars, key_waiting, drawn, disturbed>>

Draw ==
    /\ Call("DISPLAY", "CPU")
    /\ \/ RenderLine /\ drawn' = drawn \cup {LY}
       \/ SkipLine /\ UNCHANGED drawn
    /\ UNCHANGED <<lcdVars, key_waiting, disturbed>>

KeyArrives ==
    /\ key_waiting' = TRUE
    /\ UNCHANGED <<stage, lcdVars, displayVars, drawn, disturbed>>

(* The queued key events are delivered, then the timer fires.              *)
DispatchEvents ==
    /\ FireTimer
    /\ key_waiting' = FALSE
    /\ UNCHANGED <<stage, lcdVars, drawn, disturbed>>

PresentPicture ==
    /\ Present
    /\ drawn' = {} /\ disturbed' = FALSE
    /\ UNCHANGED <<stage, lcdVars, key_waiting>>

Emulator == Instruction \/ Tick \/ Draw \/ DispatchEvents \/ PresentPicture

Next == Emulator \/ KeyArrives

SafetySpec == Init /\ [][Next]_vars

(* One thread runs it all and never blocks; keys need not be pressed.      *)
Spec == SafetySpec /\ WF_vars(Emulator)

-----------------------------------------------------------------------------

TypeOK ==
    /\ stage \in {"CPU", "INTERRUPT", "DISPLAY"}
    /\ LcdTypes
    /\ last_LY \in Visible
    /\ screen_ready \in BOOLEAN /\ glut \in {"events", "frame"}
    /\ key_waiting \in BOOLEAN /\ disturbed \in BOOLEAN
    /\ drawn \subseteq Visible

(* A picture is presented whole: if the program left the raster alone since*)
(* the previous presentation, every visible line has been drawn since then.*)
PresentedWhole == screen_ready /\ ~disturbed => drawn = Visible

(* Between two steps of the machine, a line the controller is reading has  *)
(* been rendered: no instruction is long enough to skip a scan.            *)
ScanKeepsUp ==
    stage = "CPU" /\ display_mode \in {"OAM_READ", "VRAM_READ"} => last_LY = LY

(* Lines are drawn from top to bottom and none twice in a picture.         *)
DrawnInOrder ==
    [][drawn' # {} /\ drawn' # drawn /\ ~disturbed
         => drawn' = 0..LY /\ drawn = 0..(LY - 1)]_vars

(* The window stays responsive: a queued key is delivered, provided the    *)
(* program leaves the display on and does not keep clearing LY; otherwise  *)
(* gb_disp_prepare_frame never returns to GLUT.                            *)
KeysAreDelivered ==
    <>[]LCDC_enabled /\ <>[][~LyReset]_vars
        => (key_waiting ~> glut = "events")

=============================================================================
