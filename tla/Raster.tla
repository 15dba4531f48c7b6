-------------------------------- MODULE Raster --------------------------------
(***************************************************************************)
(* What the LCD controller promises, without its modes, clocks and STAT: a *)
(* beam that scans the lines 0..LyMax in order, blanks from line ScreenH   *)
(* on, starts again at line 0, and asks for the VBLANK interrupt exactly   *)
(* when the blank begins.  "vblanks" counts these requests modulo 2, so    *)
(* that a request can be neither lost nor repeated.                        *)
(***************************************************************************)
EXTENDS Integers

CONSTANTS ScreenH, LyMax

VARIABLES on, line, blanking, vblanks

rasterVars == <<on, line, blanking, vblanks>>

RasterInit == on = TRUE /\ line = 0 /\ blanking = FALSE /\ vblanks = 0

(* The next line; the blank begins at ScreenH and ends at line 0, or at    *)
(* line 1 if the program moved a blanking beam back to line 0.             *)
Advance ==
    /\ on
    /\ line' = (line + 1) % (LyMax + 1)
    /\ blanking' = (line' >= ScreenH)
    /\ vblanks' = IF ~blanking /\ blanking' THEN 1 - vblanks ELSE vblanks
    /\ UNCHANGED on

(* The program clears LY: the beam moves, a blank in progress goes on.     *)
Reset == line' = 0 /\ UNCHANGED <<on, blanking, vblanks>>

PowerOff == on /\ ~on' /\ line' = 0 /\ ~blanking' /\ UNCHANGED vblanks

PowerOn == ~on /\ on' /\ UNCHANGED <<line, blanking, vblanks>>

RasterNext == Advance \/ Reset \/ PowerOff \/ PowerOn

RasterSpec == RasterInit /\ [][RasterNext]_rasterVars

=============================================================================
