------------------------------- MODULE LcdProofs -------------------------------
(***************************************************************************)
(* Theorems about the LCD controller, for every number of lines, every     *)
(* duration of the modes and every set of instruction costs.               *)
(***************************************************************************)
EXTENDS LcdAlone, TLAPS

USE DEF Modes, StatBytes

(* The inductive invariant.  ModeLine alone is not inductive: that the     *)
(* blank goes on at NextLine > ScreenH needs the range of LY.              *)
LcdInv == LcdTypes /\ ModeLine /\ NoModeOverstays

LcdAloneInv == LcdTypeOK /\ LcdInv

-----------------------------------------------------------------------------

(* A remainder stays below its divisor, and a small number is its own.     *)
LEMMA ModBasics ==
    ASSUME NEW n \in Nat, NEW m \in Nat \ {0}
    PROVE  /\ n % m \in 0..(m - 1)
           /\ n < m => n % m = n
           /\ n = m => n % m = 0
OBVIOUS

(* The line after LY: the next one, or line 0 after the last.              *)
LEMMA NextLineFacts ==
    ASSUME LcdTypes
    PROVE  /\ NextLine \in 0..LyMax
           /\ LY < LyMax => NextLine = LY + 1
           /\ LY = LyMax => NextLine = 0
<1>1. LY \in 0..LyMax /\ LyMax \in Nat
  BY LcdAssumption DEF LcdTypes
<1>2. LY + 1 \in Nat /\ LyMax + 1 \in Nat \ {0}
  BY <1>1
<1>3. /\ (LY + 1) % (LyMax + 1) \in 0..((LyMax + 1) - 1)
      /\ LY + 1 < LyMax + 1 => (LY + 1) % (LyMax + 1) = LY + 1
      /\ LY + 1 = LyMax + 1 => (LY + 1) % (LyMax + 1) = 0
  BY <1>2, ModBasics
<1>4. (LyMax + 1) - 1 = LyMax /\ (LY < LyMax => LY + 1 < LyMax + 1)
  BY <1>1
<1>5. (LY = LyMax => LY + 1 = LyMax + 1)
  OBVIOUS
<1>6. QED
  BY <1>3, <1>4, <1>5 DEF NextLine

(* The clock stays in range, whatever it wraps at.                         *)
LEMMA TickedInRange ==
    ASSUME LcdTypes, NEW t \in Costs
    PROVE  Ticked(t) \in 0..(ClockTop - 1)
<1>1. /\ t \in Nat /\ t > 0
      /\ ClockTop \in Nat /\ OamTicks \in Nat /\ OamTicks + t < ClockTop
  BY LcdAssumption, CostsAssumption
<1>2. display_modeclock + t \in Nat /\ ClockTop \in Nat \ {0}
  BY <1>1 DEF LcdTypes
<1>3. (display_modeclock + t) % ClockTop \in 0..(ClockTop - 1)
  BY <1>2, ModBasics
<1>4. QED
  BY <1>3 DEF Ticked

(* Every mode lasts at least the ticks below which nothing is evaluated.   *)
LEMMA LimitFacts ==
    ASSUME NEW m \in Modes
    PROVE  Limit[m] \in Nat /\ OamTicks <= Limit[m] /\ 0 < Limit[m]
BY LcdAssumption DEF Limit

-----------------------------------------------------------------------------

(* A change of mode keeps the invariant when it fits the line it leads to. *)
LEMMA EnterKeepsInv ==
    ASSUME LcdInv,
           NEW mode \in Modes \cup {"DISABLED"}, NEW line \in 0..LyMax,
           NEW bits \in Modes,
           mode = "VBLANK" => line >= ScreenH \/ line = 0,
           mode \in Modes \ {"VBLANK"} => line < ScreenH,
           mode = "DISABLED" => line = 0,
           Enter(mode, line, bits)
    PROVE  LcdInv'
<1>1. ClockTop \in Nat /\ 0 < ClockTop
  <2>1. display_modeclock \in 0..(ClockTop - 1) BY DEF LcdInv, LcdTypes
  <2>2. QED BY <2>1, LcdAssumption
<1>2. STAT' \in StatBytes
  BY DEF Enter, LcdInv, LcdTypes, Coincident
<1>3. ModeLine'
  BY DEF Enter, ModeLine
<1>4. NoModeOverstays'
  BY LimitFacts DEF Enter, NoModeOverstays
<1>5. QED
  BY <1>1, <1>2, <1>3, <1>4 DEF Enter, LcdInv, LcdTypes

(* One step of the controller keeps the invariant.                         *)
LEMMA LcdStepKeepsInv ==
    ASSUME LcdInv, NEW t \in Costs, NEW R \in LcdRequests, LcdStep(t, R)
    PROVE  LcdInv'
<1> USE DEF LcdInv
<1>0. /\ ScreenH \in Nat /\ LyMax \in Nat /\ 2 <= ScreenH /\ ScreenH <= LyMax
      /\ LY \in 0..LyMax
      /\ NextLine \in 0..LyMax
      /\ LY < LyMax => NextLine = LY + 1
      /\ LY = LyMax => NextLine = 0
  BY LcdAssumption, NextLineFacts DEF LcdTypes
<1>1. CASE EndHblank(t, R)
  <2>1. LY < ScreenH
    BY <1>1 DEF EndHblank, Over, ModeLine
  <2>2. CASE NextLine = ScreenH /\ Enter("VBLANK", NextLine, "VBLANK")
    BY <1>0, <2>2, EnterKeepsInv
  <2>3. CASE NextLine # ScreenH /\ Enter("OAM_READ", NextLine, "OAM_READ")
    <3>1. NextLine < ScreenH
      BY <1>0, <2>1, <2>3
    <3>2. QED
      BY <1>0, <2>3, <3>1, EnterKeepsInv
  <2>4. QED
    BY <1>1, <2>2, <2>3 DEF EndHblank
<1>2. CASE EndVblank(t, R)
  <2>1. LY >= ScreenH \/ LY = 0
    BY <1>2 DEF EndVblank, Over, ModeLine
  <2>2. CASE NextLine > ScreenH /\ Enter("VBLANK", NextLine, "VBLANK")
    BY <1>0, <2>2, EnterKeepsInv
  <2>3. CASE NextLine <= ScreenH /\ Enter("OAM_READ", NextLine, "OAM_READ")
    <3>1. NextLine < ScreenH
      BY <1>0, <2>1, <2>3
    <3>2. QED
      BY <1>0, <2>3, <3>1, EnterKeepsInv
  <2>4. QED
    BY <1>2, <2>2, <2>3 DEF EndVblank
<1>3. CASE EndOam(t, R)
  <2>1. LY < ScreenH /\ Enter("VRAM_READ", LY, "VRAM_READ")
    BY <1>3 DEF EndOam, Over, ModeLine
  <2>2. QED
    BY <1>0, <2>1, EnterKeepsInv
<1>4. CASE EndVram(t, R)
  <2>1. LY < ScreenH /\ Enter("HBLANK", LY, "HBLANK")
    BY <1>4 DEF EndVram, Over, ModeLine
  <2>2. QED
    BY <1>0, <2>1, EnterKeepsInv
<1>5. CASE SwitchOff(t, R)
  <2>1. Enter("DISABLED", 0, "HBLANK")
    BY <1>5 DEF SwitchOff
  <2>2. QED
    BY <1>0, <2>1, EnterKeepsInv
<1>6. CASE SwitchOn(t, R)
  <2>1. display_mode = "DISABLED" /\ LY = 0
    BY <1>6 DEF SwitchOn, Toggled, ModeLine, LcdTypes
  <2>2. display_mode' = "HBLANK" /\ display_modeclock' = 0 /\ UNCHANGED <<LCDC_enabled, LY, LYC>>
    BY <1>6 DEF SwitchOn, Settle
  <2>3. STAT' \in StatBytes
    BY <1>6 DEF SwitchOn, Settle, LcdTypes
  <2>4. 0 \in 0..(ClockTop - 1)
    BY TickedInRange, LcdAssumption
  <2>5. ModeLine' /\ NoModeOverstays'
    BY <1>0, <2>1, <2>2, LimitFacts DEF ModeLine, NoModeOverstays
  <2>6. QED
    BY <2>2, <2>3, <2>4, <2>5 DEF LcdTypes
<1>7. CASE Stay(t, R)
  <2>1. /\ display_modeclock' = Ticked(t) /\ UNCHANGED display_mode
        /\ UNCHANGED <<LCDC_enabled, LY, LYC>>
    BY <1>7 DEF Stay, Settle
  <2>2. STAT' \in StatBytes
    BY <1>7 DEF Stay, Settle, LcdTypes
  <2>3. Ticked(t) \in 0..(ClockTop - 1)
    BY TickedInRange
  <2>4. ModeLine'
    BY <2>1 DEF ModeLine
  <2>5. NoModeOverstays'
    <3>1. CASE display_mode = "DISABLED"
      BY <2>1, <3>1 DEF NoModeOverstays
    <3>2. CASE display_mode # "DISABLED"
      <4>1. display_mode \in Modes /\ LCDC_enabled
        BY <1>7, <3>2 DEF Stay, Toggled, LcdTypes
      <4>2. ~(Ticked(t) >= OamTicks /\ Ticked(t) >= Limit[display_mode])
        BY <1>7, <4>1 DEF Stay, Over
      <4>3. Ticked(t) < Limit[display_mode]
        BY <2>3, <4>1, <4>2, LimitFacts, LcdAssumption
      <4>4. QED
        BY <2>1, <4>3 DEF NoModeOverstays
    <3>3. QED BY <3>1, <3>2
  <2>6. QED
    BY <2>1, <2>2, <2>3, <2>4, <2>5 DEF LcdTypes
<1>8. QED
  BY <1>1, <1>2, <1>3, <1>4, <1>5, <1>6, <1>7 DEF LcdStep

(* An instruction touches neither the mode nor its clock, and clears LY if *)
(* it touches it at all.                                                   *)
LEMMA LcdStoreKeepsInv ==
    ASSUME LcdInv, NEW W \in LcdWrites, LcdStore(W)
    PROVE  LcdInv'
<1> USE DEF LcdInv
<1>1. /\ StatStores \subseteq StatBytes /\ LycStores \subseteq 0..255
      /\ ScreenH \in Nat /\ LyMax \in Nat /\ 2 <= ScreenH
  BY LcdAssumption
<1>2. LY' \in 0..LyMax /\ (LY' = LY \/ LY' = 0)
  BY <1>1 DEF LcdStore, LcdTypes
<1>3. LCDC_enabled' \in BOOLEAN
  BY DEF LcdStore, LcdTypes
<1>4. LYC' \in 0..255 /\ STAT' \in StatBytes
  BY <1>1 DEF LcdStore, LcdTypes
<1>5. UNCHANGED <<display_mode, display_modeclock>>
  BY DEF LcdStore
<1>6. ModeLine'
  BY <1>1, <1>2, <1>5 DEF ModeLine, LcdTypes
<1>7. NoModeOverstays'
  BY <1>5 DEF NoModeOverstays
<1>8. QED
  BY <1>2, <1>3, <1>4, <1>5, <1>6, <1>7 DEF LcdTypes

LEMMA LcdInitEstablishesInv == LcdAloneInit => LcdAloneInv
<1> SUFFICES ASSUME stage = "CPU", LcdInit, vblanks = 0 PROVE LcdAloneInv
  BY DEF LcdAloneInit
<1>1. /\ ScreenH \in Nat /\ LyMax \in Nat /\ 2 <= ScreenH
      /\ ClockTop \in Nat
  BY LcdAssumption
<1>2. ClockTop > 0
  BY LcdAssumption
<1>3. QED
  BY <1>1, <1>2, LimitFacts DEF LcdInit, LcdAloneInv, LcdInv, LcdTypeOK, LcdTypes, ModeLine, NoModeOverstays

LEMMA LcdNextKeepsInv == LcdAloneInv /\ [LcdNext]_lcdAlone => LcdAloneInv'
<1> SUFFICES ASSUME LcdAloneInv, [LcdNext]_lcdAlone PROVE LcdAloneInv'
  OBVIOUS
<1>1. CASE LcdInstruction
  <2>1. PICK W \in LcdWrites : LcdStore(W)
    BY <1>1 DEF LcdInstruction
  <2>2. stage' = "INTERRUPT" /\ vblanks' = vblanks
    BY <1>1 DEF LcdInstruction, Call
  <2>3. QED
    BY <2>1, <2>2, LcdStoreKeepsInv DEF LcdAloneInv, LcdInv, LcdTypeOK
<1>2. CASE LcdTick
  <2>1. PICK t \in Costs, R \in LcdRequests :
          /\ LcdStep(t, R)
          /\ vblanks' = IF "VBLANK" \in R THEN 1 - vblanks ELSE vblanks
    BY <1>2 DEF LcdTick
  <2>2. stage' = "CPU" /\ vblanks' \in {0, 1}
    BY <1>2, <2>1 DEF LcdTick, Call, LcdAloneInv, LcdTypeOK
  <2>3. QED
    BY <2>1, <2>2, LcdStepKeepsInv DEF LcdAloneInv, LcdInv, LcdTypeOK
<1>3. CASE UNCHANGED lcdAlone
  BY <1>3 DEF lcdAlone, lcdVars, LcdAloneInv, LcdInv, LcdTypeOK, LcdTypes, ModeLine, NoModeOverstays
<1>4. QED
  BY <1>1, <1>2, <1>3 DEF LcdNext

(* The registers, the mode and its clock keep their ranges.                *)
THEOREM LcdTypeCorrect == LcdSpec => []LcdTypeOK
<1>1. LcdAloneInv => LcdTypeOK BY DEF LcdAloneInv
<1>2. QED BY <1>1, LcdInitEstablishesInv, LcdNextKeepsInv, PTL DEF LcdSpec

(* The mode always agrees with the line.                                   *)
THEOREM ModeAgreesWithLine == LcdSpec => []ModeLine
<1>1. LcdAloneInv => ModeLine BY DEF LcdAloneInv, LcdInv
<1>2. QED BY <1>1, LcdInitEstablishesInv, LcdNextKeepsInv, PTL DEF LcdSpec

(* No mode overstays its limit by a whole instruction.                     *)
THEOREM ModesEndInTime == LcdSpec => []NoModeOverstays
<1>1. LcdAloneInv => NoModeOverstays BY DEF LcdAloneInv, LcdInv
<1>2. QED BY <1>1, LcdInitEstablishesInv, LcdNextKeepsInv, PTL DEF LcdSpec

-----------------------------------------------------------------------------
(* The controller implements the raster.                                   *)

LEMMA StatIsNotVblank ==
    ASSUME NEW events, NEW line
    PROVE  "VBLANK" \notin StatRequest(events, line)
BY DEF StatRequest

(* The beam advances when a line is over, ...                              *)
LEMMA LineEndAdvances ==
    ASSUME LcdInv, NEW t \in Costs, NEW R \in LcdRequests,
           EndHblank(t, R) \/ EndVblank(t, R),
           vblanks' = IF "VBLANK" \in R THEN 1 - vblanks ELSE vblanks
    PROVE  Beam!Advance
<1>0. /\ ScreenH \in Nat /\ LyMax \in Nat /\ 2 <= ScreenH /\ ScreenH <= LyMax
      /\ LY \in 0..LyMax
      /\ NextLine \in 0..LyMax
      /\ LY < LyMax => NextLine = LY + 1
      /\ LY = LyMax => NextLine = 0
  BY LcdAssumption, NextLineFacts DEF LcdInv, LcdTypes
<1>1. CASE EndHblank(t, R)
  <2>1. display_mode = "HBLANK" /\ LY < ScreenH
    BY <1>1 DEF EndHblank, Over, LcdInv, ModeLine
  <2>2. CASE /\ NextLine = ScreenH /\ Enter("VBLANK", NextLine, "VBLANK")
             /\ R = {"VBLANK"} \cup StatRequest({"VBLANK"}, NextLine)
    <3>1. LY' = NextLine /\ display_mode' = "VBLANK" /\ vblanks' = 1 - vblanks
      BY <2>2 DEF Enter
    <3>2. NextLine >= ScreenH
      BY <1>0, <2>2
    <3>3. QED
      BY <2>1, <3>1, <3>2 DEF Beam!Advance, NextLine
  <2>3. CASE /\ NextLine # ScreenH /\ Enter("OAM_READ", NextLine, "OAM_READ")
             /\ R = StatRequest({"OAM"}, NextLine)
    <3>1. LY' = NextLine /\ display_mode' = "OAM_READ" /\ vblanks' = vblanks
      BY <2>3, StatIsNotVblank DEF Enter
    <3>2. ~(NextLine >= ScreenH)
      BY <1>0, <2>1, <2>3
    <3>3. QED
      BY <2>1, <3>1, <3>2 DEF Beam!Advance, NextLine
  <2>4. QED
    BY <1>1, <2>2, <2>3 DEF EndHblank
<1>2. CASE EndVblank(t, R)
  <2>1. display_mode = "VBLANK" /\ (LY >= ScreenH \/ LY = 0)
    BY <1>2 DEF EndVblank, Over, LcdInv, ModeLine
  <2>2. CASE /\ NextLine > ScreenH /\ Enter("VBLANK", NextLine, "VBLANK")
             /\ R = StatRequest({"HBLANK"}, NextLine)
    <3>1. LY' = NextLine /\ display_mode' = "VBLANK" /\ vblanks' = vblanks
      BY <2>2, StatIsNotVblank DEF Enter
    <3>2. NextLine >= ScreenH
      BY <1>0, <2>2
    <3>3. QED
      BY <2>1, <3>1, <3>2 DEF Beam!Advance, NextLine
  <2>3. CASE /\ NextLine <= ScreenH /\ Enter("OAM_READ", NextLine, "OAM_READ")
             /\ R = StatRequest({"OAM"}, NextLine)
    <3>1. LY' = NextLine /\ display_mode' = "OAM_READ" /\ vblanks' = vblanks
      BY <2>3, StatIsNotVblank DEF Enter
    <3>2. ~(NextLine >= ScreenH)
      BY <1>0, <2>1, <2>3
    <3>3. QED
      BY <2>1, <3>1, <3>2 DEF Beam!Advance, NextLine
  <2>4. QED
    BY <1>2, <2>2, <2>3 DEF EndVblank
<1>3. QED
  BY <1>1, <1>2

(* ... changes power when the switch is noticed, and moves at no other     *)
(* step of the controller.                                                 *)
LEMMA LcdStepIsRasterStep ==
    ASSUME LcdInv, NEW t \in Costs, NEW R \in LcdRequests, LcdStep(t, R),
           vblanks' = IF "VBLANK" \in R THEN 1 - vblanks ELSE vblanks
    PROVE  [Beam!RasterNext]_(Beam!rasterVars)
<1> USE DEF Beam!RasterNext, Beam!rasterVars
<1>1. CASE EndHblank(t, R) \/ EndVblank(t, R)
  BY <1>1, LineEndAdvances
<1>2. CASE EndOam(t, R) \/ EndVram(t, R)
  <2>1. "VBLANK" \notin R /\ LY' = LY
    BY <1>2, StatIsNotVblank DEF EndOam, EndVram, Enter
  <2>2. /\ display_mode # "DISABLED" /\ display_mode' # "DISABLED"
        /\ display_mode # "VBLANK" /\ display_mode' # "VBLANK"
    BY <1>2 DEF EndOam, EndVram, Enter, Over
  <2>3. QED
    BY <2>1, <2>2
<1>3. CASE SwitchOff(t, R)
  <2>1. "VBLANK" \notin R /\ LY' = 0 /\ display_mode' = "DISABLED"
    BY <1>3, StatIsNotVblank DEF SwitchOff, Enter
  <2>2. display_mode # "DISABLED"
    BY <1>3 DEF SwitchOff, Toggled, LcdInv, LcdTypes
  <2>3. QED
    BY <2>1, <2>2 DEF Beam!PowerOff
<1>4. CASE SwitchOn(t, R)
  <2>1. "VBLANK" \notin R /\ LY' = LY /\ display_mode' = "HBLANK"
    BY <1>4 DEF SwitchOn, Settle
  <2>2. display_mode = "DISABLED"
    BY <1>4 DEF SwitchOn, Toggled, LcdInv, LcdTypes
  <2>3. QED
    BY <2>1, <2>2 DEF Beam!PowerOn
<1>5. CASE Stay(t, R)
  <2>1. "VBLANK" \notin R /\ LY' = LY /\ display_mode' = display_mode
    BY <1>5 DEF Stay, Settle
  <2>2. QED
    BY <2>1
<1>6. QED
  BY <1>1, <1>2, <1>3, <1>4, <1>5 DEF LcdStep

(* A store of the program is a reset of the beam, or nothing to it.        *)
LEMMA LcdStoreIsRasterStep ==
    ASSUME NEW W \in LcdWrites, LcdStore(W), UNCHANGED vblanks
    PROVE  [Beam!RasterNext]_(Beam!rasterVars)
<1>1. display_mode' = display_mode /\ (LY' = LY \/ LY' = 0)
  BY DEF LcdStore
<1>2. QED
  BY <1>1 DEF Beam!Reset, Beam!RasterNext, Beam!rasterVars

LEMMA NextIsRasterStep ==
    LcdAloneInv /\ [LcdNext]_lcdAlone => [Beam!RasterNext]_(Beam!rasterVars)
<1> SUFFICES ASSUME LcdAloneInv, [LcdNext]_lcdAlone
             PROVE  [Beam!RasterNext]_(Beam!rasterVars)
  OBVIOUS
<1>1. CASE LcdInstruction
  BY <1>1, LcdStoreIsRasterStep DEF LcdInstruction
<1>2. CASE LcdTick
  BY <1>2, LcdStepIsRasterStep DEF LcdTick, LcdAloneInv
<1>3. CASE UNCHANGED lcdAlone
  BY <1>3 DEF lcdAlone, lcdVars, Beam!rasterVars
<1>4. QED
  BY <1>1, <1>2, <1>3 DEF LcdNext

(* Whatever the program does, the lines come in order, each once, and each *)
(* blank requests VBLANK exactly once, when it begins.                     *)
THEOREM LcdImplementsRaster == LcdSpec => RasterImplemented
<1>1. LcdAloneInit => Beam!RasterInit
  BY DEF LcdAloneInit, LcdInit, Beam!RasterInit
<1>2. QED
  BY <1>1, LcdInitEstablishesInv, LcdNextKeepsInv, NextIsRasterStep, PTL
     DEF LcdSpec, RasterImplemented, Beam!RasterSpec

=============================================================================
