-------------------------------- MODULE Display --------------------------------
(***************************************************************************)
(* How a picture gets from the LCD controller to the window: the scan      *)
(* condition and line rendering of display.c, the screen_ready flag of     *)
(* glut_display.c, and the window's event loop, which runs the machine in  *)
(* a loop of its own (gb_disp_prepare_frame) until a frame is ready.  The  *)
(* pixels are left out; which lines get drawn is what matters here.        *)
(***************************************************************************)
EXTENDS LcdController

VARIABLES
    last_LY,        \* static in gb_DISPLAY_can_scan: the last line rendered
    screen_ready,   \* g_context.screen_ready
    glut            \* "events": GLUT dispatches window events;
                    \* "frame": it is inside internal_main_timer_evt

displayVars == <<last_LY, screen_ready, glut>>

Visible == 0..(ScreenH - 1)

DisplayInit == last_LY = 0 /\ screen_ready = FALSE /\ glut = "events"

-----------------------------------------------------------------------------

(* The loop of gb_disp_prepare_frame tests the flag before each step.      *)
LoopAgain == glut = "frame" /\ screen_ready = FALSE

(* Slip: a line is scanned only once the controller reads VRAM.            *)
CanScanLate ==
    /\ LY # last_LY /\ LY < ScreenH
    /\ display_mode = "VRAM_READ"

(* Slip: "not the last line" taken for "below the last line".              *)
CanScanAscending ==
    /\ LY > last_LY /\ LY < ScreenH
    /\ display_mode \in {"OAM_READ", "VRAM_READ"}

(* A visible line is scanned once, while the controller reads OAM or VRAM. *)
CanScan ==
    /\ LY # last_LY /\ LY < ScreenH
    /\ display_mode \in {"OAM_READ", "VRAM_READ"}

(* Slip: the picture is ready one line before its last.                    *)
RenderLineReadyEarly ==
    /\ CanScan
    /\ last_LY' = LY
    /\ screen_ready' = (LY = ScreenH - 2)
    /\ UNCHANGED glut

(* gb_DISPLAY_render_line: every pixel makes the screen dirty, the last    *)
(* line makes it ready.                                                    *)
RenderLine ==
    /\ CanScan
    /\ last_LY' = LY
    /\ screen_ready' = (LY = ScreenH - 1)
    /\ UNCHANGED glut

SkipLine == ~CanScan /\ UNCHANGED displayVars

(* GLUT fires the timer after it has delivered the queued window events.   *)
FireTimer == glut = "events" /\ glut' = "frame" /\ UNCHANGED <<last_LY, screen_ready>>

(* Slip: a new picture starts with last_LY at 0, so line 0 is skipped.     *)
PresentRewinds ==
    /\ glut = "frame" /\ stage = "CPU" /\ screen_ready
    /\ screen_ready' = FALSE
    /\ glut' = "events"
    /\ last_LY' = 0

(* The loop has ended: internal_main_timer_evt copies the buffer, clears   *)
(* the flag, asks for a redisplay and re-arms the timer.                   *)
Present ==
    /\ glut = "frame" /\ stage = "CPU" /\ screen_ready
    /\ screen_ready' = FALSE
    /\ glut' = "events"
    /\ UNCHANGED last_LY

=============================================================================
