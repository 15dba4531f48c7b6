------------------------------- MODULE LcdAlone -------------------------------
(***************************************************************************)
(* The LCD controller driven by an arbitrary program, with what it must    *)
(* guarantee: each instruction may write the LCD registers, and is followed*)
(* by one step of the controller with the ticks the instruction took.      *)
(***************************************************************************)
EXTENDS LcdController

VARIABLE
    vblanks     \* history: the VBLANK interrupts requested so far, modulo 2

lcdAlone == <<stage, lcdVars, vblanks>>

LcdAloneInit == stage = "CPU" /\ LcdInit /\ vblanks = 0

LcdInstruction ==
    /\ Call("CPU", "INTERRUPT")
    /\ \E W \in LcdWrites : LcdStore(W)
    /\ UNCHANGED vblanks

LcdTick ==
    /\ Call("INTERRUPT", "CPU")
    /\ \E t \in Costs, R \in LcdRequests :
          /\ LcdStep(t, R)
          /\ vblanks' = IF "VBLANK" \in R THEN 1 - vblanks ELSE vblanks

LcdNext == LcdInstruction \/ LcdTick

(* gb_machine_step is called in a loop that nothing interrupts.            *)
LcdSpec == LcdAloneInit /\ [][LcdNext]_lcdAlone /\ WF_lcdAlone(LcdNext)

-----------------------------------------------------------------------------

LcdTypeOK ==
    /\ stage \in {"CPU", "INTERRUPT"}
    /\ vblanks \in {0, 1}
    /\ LcdTypes

(* The mode and the line agree at every call: the controller reads or shows*)
(* visible lines only, blanks only below the screen (or at line 0, when the*)
(* program cleared LY during the blank), and a disabled one is at line 0.  *)
ModeLine ==
    /\ display_mode = "VBLANK" => LY >= ScreenH \/ LY = 0
    /\ display_mode \in {"HBLANK", "OAM_READ", "VRAM_READ"} => LY < ScreenH
    /\ display_mode = "DISABLED" => LY = 0

(* No mode overstays: between two calls the clock of a running mode is     *)
(* below its limit, whatever the program toggles and however long the      *)
(* clock was left to run (and to wrap) while the display was off.          *)
NoModeOverstays ==
    display_mode # "DISABLED" => display_modeclock < Limit[display_mode]

(* Vertical blanks recur as long as the program leaves the display on and  *)
(* does not keep clearing LY.                                              *)
VblankRecurs ==
    <>[]LCDC_enabled /\ <>[][~LyReset]_lcdAlone
        => []<>(display_mode = "VBLANK")

(* The controller implements the abstract raster: every line exactly once  *)
(* and in order, one VBLANK request at each start of the blank and none at *)
(* any other time.                                                         *)
Beam == INSTANCE Raster WITH on <- display_mode # "DISABLED",
                          line <- LY,
                          blanking <- display_mode = "VBLANK"

RasterImplemented == Beam!RasterSpec

=============================================================================
