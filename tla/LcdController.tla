---------------------------- MODULE LcdController ----------------------------
(***************************************************************************)
(* The LCD mode machine of gb_INTERRUPT_step: the display mode, the clock  *)
(* of the current mode, the line register LY, its comparison with LYC, the *)
(* STAT register, and the VBLANK and STAT interrupts it requests.          *)
(*                                                                         *)
(* The program owns LCDC, STAT and LYC and may clear LY; an instruction    *)
(* writes one of these registers, or two neighbours with a 16-bit store.   *)
(* Everything else is done by one action per branch of the mode machine.   *)
(* Each takes the ticks t of the instruction that just ran and the set R   *)
(* of interrupts it requests, for the composition to put into IF.          *)
(***************************************************************************)
EXTENDS GameBoy

CONSTANTS
    ScreenH,        \* GB_SCREEN_H: the visible lines are 0..ScreenH-1
    LyMax,          \* GB_LY_MAX: the last line of the vertical blank
    OamTicks, VramTicks, HblankTicks, VblankTicks,  \* GB_TICKS_*
    ClockTop,       \* display_modeclock wraps at ClockTop (2^32)
    StatStores,     \* the values the program writes to STAT
    LycStores       \* the values the program writes to LYC

Modes   == {"HBLANK", "VBLANK", "OAM_READ", "VRAM_READ"}
Sources == {"LYLYC", "OAM", "VBLANK", "HBLANK"}   \* bits 6..3 of STAT
StatBytes == [enable : SUBSET Sources, coincidence : BOOLEAN, mode : Modes]

(* GB_TICKS_*: how long each mode lasts.                                   *)
Limit == [m \in Modes |-> CASE m = "HBLANK"    -> HblankTicks
                            [] m = "VBLANK"    -> VblankTicks
                            [] m = "OAM_READ"  -> OamTicks
                            [] m = "VRAM_READ" -> VramTicks]

ASSUME LcdAssumption ==
    /\ ScreenH \in Nat /\ LyMax \in Nat /\ 2 <= ScreenH /\ ScreenH <= LyMax
    /\ LyMax <= 255
    /\ OamTicks \in Nat \ {0} /\ ClockTop \in Nat \ {0}
    /\ VramTicks \in Nat /\ HblankTicks \in Nat /\ VblankTicks \in Nat
    /\ OamTicks <= VramTicks /\ OamTicks <= HblankTicks /\ OamTicks <= VblankTicks
    /\ \A c \in Costs : /\ OamTicks + c < ClockTop /\ VramTicks + c < ClockTop
                        /\ HblankTicks + c < ClockTop /\ VblankTicks + c < ClockTop
    /\ StatStores \subseteq StatBytes
    /\ LycStores \subseteq 0..255

VARIABLES
    LCDC_enabled,       \* bit 7 of LCDC
    display_mode,       \* g_GB.interrupts.display_mode
    display_modeclock,  \* g_GB.interrupts.display_modeclock
    LY, LYC, STAT       \* the I/O ports

lcdVars == <<LCDC_enabled, display_mode, display_modeclock, LY, LYC, STAT>>

LcdInit ==
    /\ LCDC_enabled = TRUE              \* LCDC = 0x91
    /\ display_mode = "HBLANK"          \* the zeroed machine: mode 0
    /\ display_modeclock = 0
    /\ LY = 0 /\ LYC = 0
    /\ STAT = [enable |-> {}, coincidence |-> FALSE, mode |-> "HBLANK"]

-----------------------------------------------------------------------------
(* The program's side.                                                     *)

(* The registers one instruction can write: none, one, or two neighbours.  *)
LcdWrites == {{}, {"LCDC"}, {"STAT"}, {"LY"}, {"LYC"},
              {"LCDC", "STAT"}, {"LY", "LYC"}}

(* gb_MMU_store8 on an LCD register: LY resets itself, whatever is written.*)
LcdStore(W) ==
    /\ LCDC_enabled' \in (IF "LCDC" \in W THEN BOOLEAN ELSE {LCDC_enabled})
    /\ STAT' \in (IF "STAT" \in W THEN StatStores ELSE {STAT})
    /\ LY' = IF "LY" \in W THEN 0 ELSE LY
    /\ LYC' \in (IF "LYC" \in W THEN LycStores ELSE {LYC})
    /\ UNCHANGED <<display_mode, display_modeclock>>

-----------------------------------------------------------------------------
(* The controller's side: the branches of gb_INTERRUPT_step.               *)

Ticked(t) == (display_modeclock + t) % ClockTop

NextLine == (LY + 1) % (LyMax + 1)

Toggled == LCDC_enabled # (display_mode # "DISABLED")

(* Slip: a mode that lasted exactly as long as it may is not over.         *)
OverPastLimit(mode, t) ==
    /\ LCDC_enabled /\ display_mode = mode
    /\ Ticked(t) >= OamTicks
    /\ Ticked(t) > Limit[mode]

(* The current mode has lasted long enough; nothing is evaluated before    *)
(* GB_TICKS_MINIMAL = GB_TICKS_OAM_READ ticks.                             *)
Over(mode, t) ==
    /\ LCDC_enabled /\ display_mode = mode
    /\ Ticked(t) >= OamTicks
    /\ Ticked(t) >= Limit[mode]

Coincident(line) == line = LYC /\ line # LY

(* STAT_event, and the STAT interrupt if the program enabled the event.    *)
StatRequest(events, line) ==
    LET all == events \cup (IF Coincident(line) THEN {"LYLYC"} ELSE {})
    IN  IF STAT.enable \cap all # {} THEN {"LCDC_STAT"} ELSE {}

(* A change to the given mode and line: the clock restarts, STAT shows it. *)
Enter(mode, line, bits) ==
    /\ display_mode' = mode
    /\ display_modeclock' = 0
    /\ LY' = line
    /\ STAT' = [STAT EXCEPT !.mode = bits, !.coincidence = Coincident(line)]
    /\ UNCHANGED <<LCDC_enabled, LYC>>

EndHblank(t, R) ==
    /\ Over("HBLANK", t)
    /\ \/ /\ NextLine = ScreenH
          /\ Enter("VBLANK", NextLine, "VBLANK")
          /\ R = {"VBLANK"} \cup StatRequest({"VBLANK"}, NextLine)
       \/ /\ NextLine # ScreenH
          /\ Enter("OAM_READ", NextLine, "OAM_READ")
          /\ R = StatRequest({"OAM"}, NextLine)

(* Slip: every blank line asks for the interrupt of the first.             *)
EndVblankRepeats(t, R) ==
    /\ Over("VBLANK", t)
    /\ \/ /\ NextLine > ScreenH
          /\ Enter("VBLANK", NextLine, "VBLANK")
          /\ R = {"VBLANK"} \cup StatRequest({"HBLANK"}, NextLine)
       \/ /\ NextLine <= ScreenH
          /\ Enter("OAM_READ", NextLine, "OAM_READ")
          /\ R = StatRequest({"OAM"}, NextLine)

EndVblank(t, R) ==
    /\ Over("VBLANK", t)
    /\ \/ /\ NextLine > ScreenH
          /\ Enter("VBLANK", NextLine, "VBLANK")
          /\ R = StatRequest({"HBLANK"}, NextLine)
       \/ /\ NextLine <= ScreenH
          /\ Enter("OAM_READ", NextLine, "OAM_READ")
          /\ R = StatRequest({"OAM"}, NextLine)

EndOam(t, R) ==
    /\ Over("OAM_READ", t)
    /\ Enter("VRAM_READ", LY, "VRAM_READ")
    /\ R = StatRequest({}, LY)

EndVram(t, R) ==
    /\ Over("VRAM_READ", t)
    /\ Enter("HBLANK", LY, "HBLANK")
    /\ R = StatRequest({"HBLANK"}, LY)

(* Slip: the line is not reset with the mode.                              *)
SwitchOffKeepsLine(t, R) ==
    /\ Toggled /\ ~LCDC_enabled
    /\ Enter("DISABLED", LY, "HBLANK")
    /\ R = StatRequest({}, LY)

(* The controller notices that the program cleared bit 7 of LCDC.          *)
SwitchOff(t, R) ==
    /\ Toggled /\ ~LCDC_enabled
    /\ Enter("DISABLED", 0, "HBLANK")
    /\ R = StatRequest({}, 0)

(* No mode is due: only the clock moves, and the coincidence flag falls.   *)
(* current_mode was read before a toggle, so switching on ends no mode and *)
(* leaves the mode bits of STAT alone.                                     *)
Settle(t, R) ==
    /\ STAT' = [STAT EXCEPT !.coincidence = FALSE]
    /\ R = {}
    /\ UNCHANGED <<LCDC_enabled, LY, LYC>>

(* Slip: the clock restarts, the mode does not.                            *)
SwitchOnForgets(t, R) ==
    /\ Toggled /\ LCDC_enabled
    /\ display_modeclock' = 0
    /\ UNCHANGED display_mode
    /\ Settle(t, R)

SwitchOn(t, R) ==
    /\ Toggled /\ LCDC_enabled
    /\ display_mode' = "HBLANK" /\ display_modeclock' = 0
    /\ Settle(t, R)

Stay(t, R) ==
    /\ ~Toggled
    /\ \A m \in Modes : ~Over(m, t)
    /\ display_modeclock' = Ticked(t)
    /\ UNCHANGED display_mode
    /\ Settle(t, R)

LcdStep(t, R) ==
    \/ EndHblank(t, R) \/ EndVblank(t, R) \/ EndOam(t, R) \/ EndVram(t, R)
    \/ SwitchOff(t, R) \/ SwitchOn(t, R) \/ Stay(t, R)

LcdRequests == SUBSET {"VBLANK", "LCDC_STAT"}

-----------------------------------------------------------------------------

LcdTypes ==
    /\ LCDC_enabled \in BOOLEAN
    /\ display_mode \in Modes \cup {"DISABLED"}
    /\ display_modeclock \in 0..(ClockTop - 1)
    /\ LY \in 0..LyMax
    /\ LYC \in 0..255
    /\ STAT \in StatBytes

(* The program sets LY back to 0 in the middle of a frame.                 *)
LyReset == stage = "CPU" /\ LY # 0 /\ LY' = 0

=============================================================================
