----------------------------- MODULE FramesProofs -----------------------------
(***************************************************************************)
(* Theorems about the line scan and the hand-over of the picture, for every*)
(* number of lines, every duration of the modes and every set of           *)
(* instruction costs.  From LcdProofs come the lemmas about a step of the  *)
(* controller; its variable vblanks plays no part here.                    *)
(***************************************************************************)
EXTENDS Frames, LcdProofs

(* The frame loop runs while an instruction is under way, and ends before  *)
(* the next one when the last line is there: nothing moves in between.     *)
Looping == stage # "CPU" => glut = "frame" /\ ~screen_ready

Ready ==
    screen_ready => /\ glut = "frame"
                    /\ LY = ScreenH - 1 /\ last_LY = ScreenH - 1
                    /\ display_mode \in {"OAM_READ", "VRAM_READ"}

(* The controller notices a change of LCDC in the very same step.          *)
Noticed == stage # "INTERRUPT" => LCDC_enabled = (display_mode # "DISABLED")

(* The controller has just gone on to LY, and nothing is drawn of it yet.  *)
Entered == stage = "DISPLAY" /\ display_mode = "OAM_READ"

(* Nothing of the picture is drawn: the beam is still on the last line of  *)
(* the one before, in the blank below it, or has just come to line 0.      *)
Beginning ==
    /\ drawn = {} /\ last_LY = ScreenH - 1 /\ ~screen_ready
    /\ LY >= ScreenH - 1 \/ (LY = 0 /\ Entered)

(* The lines down to last_LY are drawn; the beam is there or has just come *)
(* to the next one.                                                        *)
Underway ==
    /\ drawn = 0..last_LY
    /\ screen_ready = (last_LY = ScreenH - 1)
    /\ LY = last_LY \/ (LY = last_LY + 1 /\ LY < ScreenH /\ Entered)

(* What the raster is like while the program leaves it alone.              *)
Undisturbed ==
    ~disturbed => /\ LCDC_enabled /\ display_mode # "DISABLED"
                  /\ display_mode = "VBLANK" => LY >= ScreenH
                  /\ Beginning \/ Underway

FramesInv ==
    /\ TypeOK /\ LcdInv
    /\ Looping /\ Ready /\ Noticed /\ ScanKeepsUp /\ Undisturbed

-----------------------------------------------------------------------------

LEMMA FramesInitEstablishesInv == Init => FramesInv
<1> SUFFICES ASSUME Init PROVE FramesInv
  OBVIOUS
<1>1. /\ ScreenH \in Nat /\ LyMax \in Nat /\ 2 <= ScreenH
      /\ ClockTop \in Nat /\ ClockTop > 0
  BY LcdAssumption
<1>2. LcdInv /\ LcdTypes
  BY <1>1, LimitFacts
     DEF Init, LcdInit, LcdInv, LcdTypes, ModeLine, NoModeOverstays, Modes, StatBytes
<1>3. TypeOK
  <2>1. last_LY \in Visible
    BY <1>1 DEF Init, DisplayInit, Visible
  <2>2. /\ stage = "CPU" /\ screen_ready = FALSE /\ glut = "events"
        /\ key_waiting = FALSE /\ disturbed = TRUE /\ drawn = {}
    BY DEF Init, DisplayInit
  <2>3. QED
    BY <1>2, <2>1, <2>2 DEF TypeOK
<1>4. QED
  BY <1>2, <1>3
     DEF Init, LcdInit, DisplayInit, FramesInv, Looping, Ready, Noticed,
         ScanKeepsUp, Undisturbed

(* A program that does not disturb the raster leaves it where it is.       *)
LEMMA InstructionKeepsInv == ASSUME FramesInv, Instruction PROVE FramesInv'
<1>1. PICK W \in LcdWrites : LcdStore(W)
  BY DEF Instruction
<1>2. LcdInv' /\ LcdTypes'
  BY <1>1, LcdStoreKeepsInv DEF FramesInv, LcdInv
<1>3. /\ stage = "CPU" /\ stage' = "INTERRUPT"
      /\ glut = "frame" /\ screen_ready = FALSE
      /\ UNCHANGED <<last_LY, screen_ready, glut, key_waiting, drawn>>
      /\ disturbed' = (disturbed \/ Disturbs)
  BY DEF Instruction, LoopAgain, Call, displayVars
<1>4. UNCHANGED display_mode /\ (LY' = LY \/ LY' = 0)
  BY <1>1 DEF LcdStore
<1>5. disturbed' \in BOOLEAN
  BY <1>2, <1>3 DEF FramesInv, TypeOK, Disturbs, LcdTypes
<1>6. TypeOK'
  BY <1>2, <1>3, <1>5 DEF FramesInv, TypeOK, Visible
<1>7. Looping' /\ Ready' /\ Noticed' /\ ScanKeepsUp'
  BY <1>3 DEF Looping, Ready, Noticed, ScanKeepsUp
<1>8. Undisturbed'
  <2>1. SUFFICES ASSUME ~disturbed'
                 PROVE  /\ LCDC_enabled' /\ display_mode' # "DISABLED"
                        /\ display_mode' = "VBLANK" => LY' >= ScreenH
                        /\ Beginning' \/ Underway'
    BY DEF Undisturbed
  <2>2. ~disturbed /\ LCDC_enabled' /\ LY' = LY
    BY <1>3, <1>4, <1>5, <2>1 DEF Disturbs, FramesInv, TypeOK
  <2>3. /\ display_mode # "DISABLED"
        /\ display_mode = "VBLANK" => LY >= ScreenH
        /\ Beginning \/ Underway
    BY <2>2 DEF FramesInv, Undisturbed
  <2>4. Beginning' \/ Underway'
    BY <1>3, <2>2, <2>3 DEF Beginning, Underway, Entered
  <2>5. QED
    BY <1>4, <2>2, <2>3, <2>4
<1>9. QED
  BY <1>2, <1>6, <1>7, <1>8 DEF FramesInv

(* One step of the controller in an undisturbed frame: the beam stays on   *)
(* its line, or goes on to the next.                                       *)
LEMMA UndisturbedStep ==
    ASSUME LcdInv, NEW t \in Costs, NEW R \in LcdRequests, LcdStep(t, R),
           LCDC_enabled, display_mode # "DISABLED",
           display_mode = "VBLANK" => LY >= ScreenH
    PROVE  /\ LCDC_enabled' /\ display_mode' # "DISABLED"
           /\ display_mode' = "VBLANK" => LY' >= ScreenH
           /\ \/ LY' = LY
              \/ /\ LY < ScreenH - 1 /\ LY' = LY + 1
                 /\ display_mode' = "OAM_READ"
              \/ LY >= ScreenH - 1 /\ LY' = LY + 1
              \/ LY >= ScreenH /\ LY' = 0 /\ display_mode' = "OAM_READ"
<1>0. /\ ScreenH \in Nat /\ LyMax \in Nat /\ 2 <= ScreenH /\ ScreenH <= LyMax
      /\ LY \in 0..LyMax
      /\ NextLine \in 0..LyMax
      /\ LY < LyMax => NextLine = LY + 1
      /\ LY = LyMax => NextLine = 0
  BY LcdAssumption, NextLineFacts DEF LcdInv, LcdTypes
<1>1. CASE EndHblank(t, R)
  <2>1. LY < ScreenH
    BY <1>1 DEF EndHblank, Over, LcdInv, ModeLine
  <2>2. NextLine = LY + 1
    BY <1>0, <2>1
  <2>3. /\ LY' = NextLine /\ LCDC_enabled' = LCDC_enabled
        /\ \/ NextLine = ScreenH /\ display_mode' = "VBLANK"
           \/ NextLine # ScreenH /\ display_mode' = "OAM_READ"
    BY <1>1 DEF EndHblank, Enter
  <2>4. QED
    BY <1>0, <2>1, <2>2, <2>3
<1>2. CASE EndVblank(t, R)
  <2>1. LY >= ScreenH
    BY <1>2 DEF EndVblank, Over
  <2>2. /\ LY' = NextLine /\ LCDC_enabled' = LCDC_enabled
        /\ \/ NextLine > ScreenH /\ display_mode' = "VBLANK"
           \/ NextLine <= ScreenH /\ display_mode' = "OAM_READ"
    BY <1>2 DEF EndVblank, Enter
  <2>3. QED
    BY <1>0, <2>1, <2>2
<1>3. CASE EndOam(t, R) \/ EndVram(t, R)
  BY <1>3 DEF EndOam, EndVram, Enter
<1>4. CASE SwitchOff(t, R) \/ SwitchOn(t, R)
  BY <1>4 DEF SwitchOff, SwitchOn, Toggled
<1>5. CASE Stay(t, R)
  BY <1>5 DEF Stay, Settle
<1>6. QED
  BY <1>1, <1>2, <1>3, <1>4, <1>5 DEF LcdStep

(* Before the controller's step the beam is on the line drawn last, or     *)
(* nothing is drawn yet; the step takes it one line further at most.       *)
LEMMA TickKeepsInv == ASSUME FramesInv, Tick PROVE FramesInv'
<1>1. PICK t \in Costs, R \in LcdRequests : LcdStep(t, R)
  BY DEF Tick
<1>2. LcdInv' /\ LcdTypes'
  BY <1>1, LcdStepKeepsInv DEF FramesInv, LcdInv
<1>3. /\ stage = "INTERRUPT" /\ stage' = "DISPLAY"
      /\ UNCHANGED <<last_LY, screen_ready, glut, key_waiting, drawn, disturbed>>
  BY DEF Tick, Call, displayVars
<1>4. glut = "frame" /\ ~screen_ready
  BY <1>3 DEF FramesInv, Looping
<1>5. TypeOK'
  BY <1>2, <1>3 DEF FramesInv, TypeOK, Visible
<1>6. Looping' /\ Ready' /\ ScanKeepsUp'
  BY <1>3, <1>4 DEF Looping, Ready, ScanKeepsUp
<1>7. Noticed'
  <2>1. LCDC_enabled \in BOOLEAN
    BY DEF FramesInv, LcdInv, LcdTypes
  <2>2. CASE Toggled
    BY <1>1, <2>1, <2>2
       DEF LcdStep, EndHblank, EndVblank, EndOam, EndVram, Over, SwitchOff,
           SwitchOn, Stay, Enter, Settle, Toggled, Noticed
  <2>3. CASE ~Toggled
    BY <1>1, <2>1, <2>3
       DEF LcdStep, EndHblank, EndVblank, EndOam, EndVram, Over, SwitchOff,
           SwitchOn, Stay, Enter, Settle, Toggled, Noticed
  <2>4. QED
    BY <2>2, <2>3
<1>8. Undisturbed'
  <2>1. SUFFICES ASSUME ~disturbed
                 PROVE  /\ LCDC_enabled' /\ display_mode' # "DISABLED"
                        /\ display_mode' = "VBLANK" => LY' >= ScreenH
                        /\ Beginning' \/ Underway'
    BY <1>3 DEF Undisturbed
  <2>2. /\ LCDC_enabled /\ display_mode # "DISABLED"
        /\ display_mode = "VBLANK" => LY >= ScreenH
        /\ Beginning \/ Underway
    BY <2>1 DEF FramesInv, Undisturbed
  <2>3. /\ LCDC_enabled' /\ display_mode' # "DISABLED"
        /\ display_mode' = "VBLANK" => LY' >= ScreenH
        /\ \/ LY' = LY
           \/ /\ LY < ScreenH - 1 /\ LY' = LY + 1
              /\ display_mode' = "OAM_READ"
           \/ LY >= ScreenH - 1 /\ LY' = LY + 1
           \/ LY >= ScreenH /\ LY' = 0 /\ display_mode' = "OAM_READ"
    BY <1>1, <2>2, UndisturbedStep DEF FramesInv
  <2>4. ScreenH \in Nat /\ 2 <= ScreenH /\ LY \in Nat /\ last_LY \in 0..(ScreenH - 1)
    BY LcdAssumption DEF FramesInv, TypeOK, LcdTypes, Visible
  <2>5. CASE Beginning
    <3>1. drawn' = {} /\ last_LY' = ScreenH - 1 /\ ~screen_ready' /\ LY >= ScreenH - 1
      BY <1>3, <1>4, <2>5 DEF Beginning, Entered
    <3>2. LY' >= ScreenH - 1 \/ (LY' = 0 /\ Entered')
      BY <1>3, <2>3, <2>4, <3>1 DEF Entered
    <3>3. QED
      BY <2>3, <3>1, <3>2 DEF Beginning
  <2>6. CASE Underway
    <3>1. LY = last_LY /\ last_LY # ScreenH - 1 /\ drawn = 0..last_LY
      BY <1>3, <1>4, <2>6 DEF Underway, Entered
    <3>2. LY < ScreenH - 1
      BY <2>4, <3>1
    <3>3. LY' = last_LY \/ (LY' = last_LY + 1 /\ LY' < ScreenH /\ Entered')
      BY <1>3, <2>3, <2>4, <3>1, <3>2 DEF Entered
    <3>4. screen_ready' = (last_LY' = ScreenH - 1)
      BY <1>3, <2>6 DEF Underway
    <3>5. QED
      BY <1>3, <2>3, <3>1, <3>3, <3>4 DEF Underway
  <2>7. QED
    BY <2>2, <2>3, <2>5, <2>6
<1>9. QED
  BY <1>2, <1>5, <1>6, <1>7, <1>8 DEF FramesInv

-----------------------------------------------------------------------------

(* The line drawn in an undisturbed frame is the one below the last.       *)
LEMMA NextLineDrawn ==
    ASSUME FramesInv, ~disturbed, stage = "DISPLAY"
    PROVE  /\ CanScan => drawn = 0..(LY - 1) /\ drawn \cup {LY} = 0..LY
           /\ ~CanScan => /\ Beginning => LY >= ScreenH - 1
                          /\ Underway => LY = last_LY
<1>1. Beginning \/ Underway
  BY DEF FramesInv, Undisturbed
<1>2. ScreenH \in Nat /\ 2 <= ScreenH /\ LY \in Nat /\ last_LY \in 0..(ScreenH - 1)
  BY LcdAssumption DEF FramesInv, TypeOK, LcdTypes, Visible
<1>3. ASSUME CanScan PROVE drawn = 0..(LY - 1) /\ drawn \cup {LY} = 0..LY
  <2>1. LY # last_LY /\ LY < ScreenH
    BY <1>3 DEF CanScan
  <2>2. CASE Beginning
    <3>1. LY = 0 /\ drawn = {}
      BY <1>2, <2>1, <2>2 DEF Beginning
    <3>2. QED
      BY <3>1
  <2>3. CASE Underway
    <3>1. LY = last_LY + 1 /\ drawn = 0..last_LY
      BY <2>1, <2>3 DEF Underway
    <3>2. QED
      BY <1>2, <3>1
  <2>4. QED
    BY <1>1, <2>2, <2>3
<1>4. ASSUME ~CanScan
      PROVE  (Beginning => LY >= ScreenH - 1) /\ (Underway => LY = last_LY)
  BY <1>2, <1>4 DEF CanScan, Beginning, Underway, Entered
<1>5. QED
  BY <1>3, <1>4

(* Drawing brings last_LY to the beam's line.                              *)
LEMMA DrawKeepsInv == ASSUME FramesInv, Draw PROVE FramesInv'
<1>0. /\ ScreenH \in Nat /\ 2 <= ScreenH /\ LY \in Nat
      /\ last_LY \in 0..(ScreenH - 1) /\ drawn \subseteq 0..(ScreenH - 1)
  BY LcdAssumption DEF FramesInv, TypeOK, LcdTypes, Visible
<1>1. /\ stage = "DISPLAY" /\ stage' = "CPU"
      /\ UNCHANGED <<LCDC_enabled, display_mode, display_modeclock, LY, LYC, STAT>>
      /\ UNCHANGED <<key_waiting, disturbed>>
  BY DEF Draw, Call, lcdVars
<1>2. LcdInv' /\ LcdTypes'
  BY <1>1 DEF FramesInv, LcdInv, LcdTypes, ModeLine, NoModeOverstays
<1>3. glut = "frame" /\ ~screen_ready
  BY <1>1 DEF FramesInv, Looping
<1>4. /\ ~disturbed => /\ LCDC_enabled /\ display_mode # "DISABLED"
                       /\ display_mode = "VBLANK" => LY >= ScreenH
                       /\ Beginning \/ Underway
      /\ LCDC_enabled = (display_mode # "DISABLED")
  BY <1>1 DEF FramesInv, Undisturbed, Noticed
<1>5. CASE RenderLine /\ drawn' = drawn \cup {LY}
  <2>1. /\ CanScan /\ last_LY' = LY
        /\ screen_ready' = (LY = ScreenH - 1) /\ glut' = glut
    BY <1>5 DEF RenderLine
  <2>2. LY < ScreenH /\ display_mode \in {"OAM_READ", "VRAM_READ"}
    BY <2>1 DEF CanScan
  <2>3. TypeOK'
    BY <1>0, <1>1, <1>2, <1>5, <2>1, <2>2 DEF FramesInv, TypeOK, Visible
  <2>4. Looping' /\ Ready' /\ Noticed' /\ ScanKeepsUp'
    BY <1>0, <1>1, <1>3, <1>4, <2>1, <2>2 DEF Looping, Ready, Noticed, ScanKeepsUp
  <2>5. ~disturbed => Underway'
    BY <1>1, <1>5, <2>1, NextLineDrawn DEF Underway
  <2>6. QED
    BY <1>1, <1>2, <1>4, <2>3, <2>4, <2>5 DEF FramesInv, Undisturbed
<1>6. CASE SkipLine /\ UNCHANGED drawn
  <2>1. ~CanScan /\ UNCHANGED <<last_LY, screen_ready, glut, drawn>>
    BY <1>6 DEF SkipLine, displayVars
  <2>2. TypeOK'
    BY <1>1, <1>2, <2>1 DEF FramesInv, TypeOK, Visible
  <2>3. Looping' /\ Ready' /\ Noticed'
    BY <1>1, <1>3, <1>4, <2>1 DEF Looping, Ready, Noticed
  <2>4. ScanKeepsUp'
    <3>1. display_mode \in {"OAM_READ", "VRAM_READ"} => LY < ScreenH
      BY DEF FramesInv, LcdInv, ModeLine
    <3>2. QED
      BY <1>1, <2>1, <3>1 DEF ScanKeepsUp, CanScan
  <2>5. ~disturbed => Beginning' \/ Underway'
    BY <1>1, <1>4, <2>1, NextLineDrawn DEF Beginning, Underway
  <2>6. QED
    BY <1>1, <1>2, <1>4, <2>2, <2>3, <2>4, <2>5 DEF FramesInv, Undisturbed
<1>7. QED
  BY <1>5, <1>6 DEF Draw

(* Between two frames the machine stands still, on the last line.          *)
LEMMA WindowKeepsInv ==
    ASSUME FramesInv, DispatchEvents \/ PresentPicture \/ KeyArrives
    PROVE  FramesInv'
<1>1. UNCHANGED <<stage, LCDC_enabled, display_mode, display_modeclock, LY, LYC, STAT, last_LY>>
  BY DEF DispatchEvents, FireTimer, PresentPicture, Present, KeyArrives,
         lcdVars, displayVars
<1>2. LcdInv' /\ LcdTypes'
  BY <1>1 DEF FramesInv, LcdInv, LcdTypes, ModeLine, NoModeOverstays
<1>3. Noticed' /\ ScanKeepsUp'
  BY <1>1 DEF FramesInv, Noticed, ScanKeepsUp
<1>4. CASE PresentPicture
  <2>1. /\ stage = "CPU" /\ screen_ready /\ ~screen_ready' /\ screen_ready' = FALSE
        /\ glut' = "events" /\ drawn' = {} /\ disturbed' = FALSE
        /\ UNCHANGED key_waiting
    BY <1>4 DEF PresentPicture, Present
  <2>2. /\ LY = ScreenH - 1 /\ last_LY = ScreenH - 1
        /\ display_mode \in {"OAM_READ", "VRAM_READ"} /\ LCDC_enabled
    BY <2>1 DEF FramesInv, Ready, Noticed, LcdInv, LcdTypes
  <2>3. TypeOK'
    BY <1>1, <1>2, <2>1 DEF FramesInv, TypeOK, Visible
  <2>4. Beginning'
    BY <1>1, <2>1, <2>2, LcdAssumption DEF Beginning
  <2>5. Looping' /\ Ready' /\ Undisturbed'
    BY <1>1, <2>1, <2>2, <2>4 DEF Looping, Ready, Undisturbed
  <2>6. QED
    BY <1>2, <1>3, <2>3, <2>5 DEF FramesInv
<1>5. CASE DispatchEvents \/ KeyArrives
  <2>1. /\ UNCHANGED <<screen_ready, drawn, disturbed>>
        /\ glut' \in {glut, "frame"} /\ key_waiting' \in BOOLEAN
    BY <1>5 DEF DispatchEvents, FireTimer, KeyArrives, displayVars
  <2>2. TypeOK'
    BY <1>1, <1>2, <2>1 DEF FramesInv, TypeOK, Visible
  <2>3. Looping' /\ Ready'
    BY <1>1, <2>1 DEF FramesInv, Looping, Ready
  <2>4. Undisturbed'
    BY <1>1, <2>1 DEF FramesInv, Undisturbed, Beginning, Underway, Entered
  <2>5. QED
    BY <1>2, <1>3, <2>2, <2>3, <2>4 DEF FramesInv
<1>6. QED
  BY <1>4, <1>5

LEMMA FramesNextKeepsInv == FramesInv /\ [Next]_vars => FramesInv'
<1> SUFFICES ASSUME FramesInv, [Next]_vars PROVE FramesInv'
  OBVIOUS
<1>1. CASE UNCHANGED vars
  BY <1>1
     DEF vars, lcdVars, displayVars, FramesInv, TypeOK, Visible, LcdInv, LcdTypes,
         ModeLine, NoModeOverstays, Looping, Ready, Noticed, ScanKeepsUp,
         Undisturbed, Beginning, Underway, Entered
<1>2. QED
  BY <1>1, InstructionKeepsInv, TickKeepsInv, DrawKeepsInv, WindowKeepsInv
     DEF Next, Emulator

-----------------------------------------------------------------------------

LEMMA FramesInvHolds == SafetySpec => []FramesInv
BY FramesInitEstablishesInv, FramesNextKeepsInv, PTL DEF SafetySpec

(* The registers, the lines drawn and the flags keep their ranges.         *)
THEOREM FramesTypeCorrect == SafetySpec => []TypeOK
<1>1. FramesInv => TypeOK
  BY DEF FramesInv
<1>2. QED
  BY <1>1, FramesInvHolds, PTL

(* No instruction is long enough to skip a line the controller reads.      *)
THEOREM ScanIsNeverLate == SafetySpec => []ScanKeepsUp
<1>1. FramesInv => ScanKeepsUp
  BY DEF FramesInv
<1>2. QED
  BY <1>1, FramesInvHolds, PTL

(* A picture the program did not disturb is presented whole.               *)
THEOREM PicturesAreWhole == SafetySpec => []PresentedWhole
<1>1. FramesInv => PresentedWhole
  <2> SUFFICES ASSUME FramesInv, screen_ready, ~disturbed PROVE drawn = Visible
    BY DEF PresentedWhole
  <2>1. Underway
    BY DEF FramesInv, Undisturbed, Beginning
  <2>2. last_LY = ScreenH - 1
    BY DEF FramesInv, Ready
  <2>3. QED
    BY <2>1, <2>2 DEF Underway, Visible
<1>2. QED
  BY <1>1, FramesInvHolds, PTL

(* Undisturbed lines are drawn from top to bottom, none twice.             *)
THEOREM LinesAreDrawnInOrder == SafetySpec => DrawnInOrder
<1>1. ASSUME FramesInv, [Next]_vars
      PROVE  [drawn' # {} /\ drawn' # drawn /\ ~disturbed
                => drawn' = 0..LY /\ drawn = 0..(LY - 1)]_vars
  <2> SUFFICES ASSUME Next, drawn' # {}, drawn' # drawn, ~disturbed
               PROVE  drawn' = 0..LY /\ drawn = 0..(LY - 1)
    BY <1>1
  <2>1. Draw
    BY DEF Next, Emulator, Instruction, Tick, DispatchEvents, PresentPicture, KeyArrives
  <2>2. stage = "DISPLAY" /\ CanScan /\ drawn' = drawn \cup {LY}
    BY <2>1 DEF Draw, Call, RenderLine
  <2>3. QED
    BY <1>1, <2>2, NextLineDrawn
<1>2. QED
  BY <1>1, FramesInvHolds, PTL DEF SafetySpec, DrawnInOrder

=============================================================================
