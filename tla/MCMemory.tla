------------------------------- MODULE MCMemory -------------------------------
(* Pages of four words, banks of four, work RAM of four with an echo of    *)
(* two, two words of sprites, one ordinary port; cartridges of none to     *)
(* four banks whose words differ from bank to bank.                        *)
EXTENDS Memory, TLC

MCBegin == [s \in Sections |->
    CASE s = "ROM_BANK_0" -> 0          [] s = "ROM_BANK_S" -> 4
      [] s = "RAM_VIDEO" -> 8           [] s = "RAM_BANK_S" -> 9
      [] s = "RAM_INTERNAL" -> 10       [] s = "RAM_INTERNAL_ECHO" -> 14
      [] s = "SPRITE_ATTRIB_MEM" -> 16  [] s = "UNUSABLE_EMPTY_1" -> 18
      [] s = "IO_PORTS" -> 19           [] s = "UNUSABLE_EMPTY_2" -> 23
      [] s = "RAM_INTERNAL_EXT" -> 24   [] s = "INTERRUPT_ENABLE" -> 27]

MCEnd == [s \in Sections |->
    CASE s = "ROM_BANK_0" -> 4          [] s = "ROM_BANK_S" -> 8
      [] s = "RAM_VIDEO" -> 9           [] s = "RAM_BANK_S" -> 10
      [] s = "RAM_INTERNAL" -> 14       [] s = "RAM_INTERNAL_ECHO" -> 16
      [] s = "SPRITE_ATTRIB_MEM" -> 18  [] s = "UNUSABLE_EMPTY_1" -> 19
      [] s = "IO_PORTS" -> 23           [] s = "UNUSABLE_EMPTY_2" -> 24
      [] s = "RAM_INTERNAL_EXT" -> 27   [] s = "INTERRUPT_ENABLE" -> 28]

MCImage == [c \in (0..3) \X (0..3) |-> (c[1] + 2 * c[2]) % 7]
(* Every kind of place, both ends of the bank select, and the pairs a      *)
(* 16-bit store can straddle: window and RAM, RAM and echo, echo and       *)
(* sprites, two special ports, the last address and the first.             *)
MCTargets == {1, 2, 3, 4, 7, 11, 13, 14, 15, 20, 21, 27}

=============================================================================
