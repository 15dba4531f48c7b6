------------------------------ MODULE AddressMap ------------------------------
(***************************************************************************)
(* The address space: the table of memory sections (memory.h), and the     *)
(* addresses memory.c and cart.c treat apart.  The sizes are parameters;   *)
(* the assumptions are what the code relies on of the real ones.           *)
(***************************************************************************)
EXTENDS Integers

Sections == {"ROM_BANK_0", "ROM_BANK_S", "RAM_VIDEO", "RAM_BANK_S",
             "RAM_INTERNAL", "RAM_INTERNAL_ECHO", "SPRITE_ATTRIB_MEM",
             "UNUSABLE_EMPTY_1", "IO_PORTS", "UNUSABLE_EMPTY_2",
             "RAM_INTERNAL_EXT", "INTERRUPT_ENABLE"}

CONSTANTS
    Begin, End,             \* the first address of each section, and past the last
    Total,                  \* GB_TOTAL_MEMSIZE
    DivPort, LyPort, DmaPort,   \* GB_IO_DIV, GB_IO_LY, GB_IO_OAM_DMA
    WordMax,                \* the largest gb_word_t
    Page,                   \* 2^8: the addresses of a page
    SelectSpan, LowSpan,    \* one more than the masks 0x1F and 0xF of the bank select
    MaxBanks,               \* the largest cartridge considered
    Image                   \* the cartridge: the word at each offset of each bank

Words == 0..WordMax
Addresses == 0..(Total - 1)

Extent(s) == Begin[s]..(End[s] - 1)

BankSize == End["ROM_BANK_0"]               \* GB_ROMBANK_BYTES

(* What gb_MMU_validate_is_memory_continous checks of the table: the       *)
(* sections cover the addresses without a gap or an overlap.               *)
MapIsContinuous ==
    /\ Begin \in [Sections -> Addresses] /\ End \in [Sections -> 1..Total]
    /\ \A a \in Addresses : \E s \in Sections : a \in Extent(s)
    /\ \A s, t \in Sections : s # t => Extent(s) \cap Extent(t) = {}

ASSUME MapAssumption ==
    /\ Total \in Nat /\ WordMax \in Nat /\ Page \in Nat \ {0}
    /\ MapIsContinuous
    /\ Begin["ROM_BANK_0"] = 0 /\ Begin["ROM_BANK_S"] = BankSize
    /\ End["ROM_BANK_S"] = 2 * BankSize
    /\ {DivPort, LyPort, DmaPort} \subseteq Extent("IO_PORTS")
    /\ DivPort # LyPort /\ LyPort # DmaPort /\ DivPort # DmaPort
    /\ End["RAM_INTERNAL_ECHO"] - Begin["RAM_INTERNAL_ECHO"]
         <= End["RAM_INTERNAL"] - Begin["RAM_INTERNAL"]

(* A transfer copies the start of a page to the sprite table, which starts *)
(* a page of its own and is no longer than one.                            *)
ASSUME DmaAssumption ==
    /\ (WordMax + 1) * Page = Total
    /\ Begin["SPRITE_ATTRIB_MEM"] % Page = 0
    /\ End["SPRITE_ATTRIB_MEM"] - Begin["SPRITE_ATTRIB_MEM"] \in 1..Page

ASSUME CartridgeAssumption ==
    /\ MaxBanks \in Nat
    /\ SelectSpan \in Nat \ {0} /\ LowSpan \in Nat \ {0, 1}
    /\ Image \in [(0..(MaxBanks - 1)) \X (0..(BankSize - 1)) -> Words]

(* gb_MMU_get_section_range: the section of each address.                  *)
SectionOf == [a \in Addresses |-> CHOOSE s \in Sections : a \in Extent(s)]

(* The addresses that reach the same memory as each one: work RAM is seen  *)
(* again in its echo.                                                      *)
Same ==
    LET Echoed(x) == x - Begin["RAM_INTERNAL_ECHO"] + Begin["RAM_INTERNAL"]
        echo == Extent("RAM_INTERNAL_ECHO")
    IN  [a \in Addresses |->
           {a} \cup (IF a \in echo THEN {Echoed(a)} ELSE {})
               \cup {x \in echo : Echoed(x) = a}]

=============================================================================
