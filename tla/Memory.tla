-------------------------------- MODULE Memory --------------------------------
(***************************************************************************)
(* The memory unit (memory.c) and the MBC1 cartridge (cart.c): a view maps *)
(* each section to a place in a block of memory, loads and stores go       *)
(* through it, stores to ROM reach the controller's hook, and stores to    *)
(* some I/O ports do more than store.                                      *)
(*                                                                         *)
(* The blocks are the internal memory, with a cell for every address, and  *)
(* the cartridge's ROM banks.  The ports the devices write by themselves   *)
(* belong to the device modules.                                           *)
(***************************************************************************)
EXTENDS AddressMap

CONSTANTS
    Targets,        \* the addresses the program stores at
    Values,         \* the words the program stores
    MaxStores       \* bound: the stores the program makes

ASSUME ProgramAssumption ==
    Targets \subseteq Addresses /\ Values \subseteq Words /\ MaxStores \in Nat

VARIABLES
    ROM_banks_n, ROM1_selector,
    view,           \* memory_view: the place and the attributes of each section
    cells,          \* the contents of the blocks
    second,         \* the second byte of a 16-bit store still to be made
    stores          \* the stores made so far

vars == <<ROM_banks_n, ROM1_selector, view, cells, second, stores>>

Cells == ({"internal"} \X Addresses) \cup ({"ROM"} \X (0..(MaxBanks * BankSize - 1)))

(* The second byte is at address + 1, which wraps.                         *)
NoSecond == [at |-> 0, value |-> 0, due |-> FALSE]

-----------------------------------------------------------------------------

Place(block, base, readonly) ==
    [block |-> block, base |-> base, readonly |-> readonly]

(* Slip: the switchable bank is mapped without its read-only attribute.    *)
InitialViewWritable(n) ==
    [s \in Sections |->
       IF s = "ROM_BANK_0" /\ n > 0 THEN Place("ROM", 0, TRUE)
       ELSE IF s = "ROM_BANK_S" /\ n > 1 THEN Place("ROM", BankSize, FALSE)
       ELSE IF s = "RAM_INTERNAL_ECHO" THEN Place("internal", Begin["RAM_INTERNAL"], FALSE)
       ELSE Place("internal", Begin[s], FALSE)]

(* gb_CART_map_into_memory_view and then gb_MMU_initialize_internal_RAM,   *)
(* for a cartridge of n banks (none if the image is too small): whatever   *)
(* the cartridge leaves unmapped is internal memory, and can be written.   *)
(* External RAM is never mapped, for EXT_RAM_banks_n stays 0.              *)
InitialView(n) ==
    [s \in Sections |->
       IF s = "ROM_BANK_0" /\ n > 0 THEN Place("ROM", 0, TRUE)
       ELSE IF s = "ROM_BANK_S" /\ n > 1 THEN Place("ROM", BankSize, TRUE)
       ELSE IF s = "RAM_INTERNAL_ECHO" THEN Place("internal", Begin["RAM_INTERNAL"], FALSE)
       ELSE Place("internal", Begin[s], FALSE)]

(* gb_CART_initialize copies the whole banks of the image.                 *)
InitialCells(n) ==
    [c \in Cells |->
       IF c[1] = "ROM" /\ c[2] < n * BankSize
       THEN Image[<<c[2] \div BankSize, c[2] % BankSize>>] ELSE 0]

Init ==
    /\ ROM_banks_n \in 0..MaxBanks
    /\ ROM1_selector = IF ROM_banks_n > 1 THEN 1 ELSE 0
    /\ view = InitialView(ROM_banks_n)
    /\ cells = InitialCells(ROM_banks_n)
    /\ second = NoSecond /\ stores = 0

(* gb_MMU_access_internal: the cell behind an address.                     *)
Cell(a) ==
    LET s == SectionOf[a] IN <<view[s].block, view[s].base + a - Begin[s]>>

load8(a) == cells[Cell(a)]

IsRom(a) == view[SectionOf[a]].readonly

-----------------------------------------------------------------------------

(* gb_CART_MBC1_write_hook.  IN_RANGE excludes its end: the last address   *)
(* of the select range does nothing.                                       *)
SelectRange == (BankSize \div 2)..(BankSize - 2)

(* Slip: number 0 selects bank 0.                                          *)
BankIndexZero(v) == v % SelectSpan

(* A bank number whose low bits are all 0 is moved to the next one.        *)
BankIndex(v) ==
    LET bits == v % SelectSpan
    IN  IF bits % LowSpan = 0 THEN bits + 1 ELSE bits

SwitchBank(a, v) ==
    /\ IsRom(a) /\ a \in SelectRange /\ BankIndex(v) < ROM_banks_n
    /\ ROM1_selector' = BankIndex(v)
    /\ view' = [view EXCEPT !["ROM_BANK_S"].block = "ROM",
                            !["ROM_BANK_S"].base = BankSize * BankIndex(v)]
    /\ UNCHANGED cells

IgnoreStore(a, v) ==
    /\ IsRom(a) /\ (a \in SelectRange => BankIndex(v) >= ROM_banks_n)
    /\ UNCHANGED <<ROM1_selector, view, cells>>

(* Slip: the port keeps the page number.                                   *)
TransferOamKeepsPage(a, v) ==
    /\ a = DmaPort
    /\ LET source(c) == v * Page + c[2] - Begin["SPRITE_ATTRIB_MEM"]
           oam == {Cell(x) : x \in Extent("SPRITE_ATTRIB_MEM")}
       IN  cells' = [c \in Cells |->
                       IF c \in oam THEN load8(source(c))
                       ELSE IF c = Cell(a) THEN v ELSE cells[c]]
    /\ UNCHANGED <<ROM1_selector, view>>

(* gb_MMU_OAM_DMA_execute; the port then falls through to the autoreset.   *)
TransferOam(a, v) ==
    /\ a = DmaPort
    /\ LET source(c) == v * Page + c[2] - Begin["SPRITE_ATTRIB_MEM"]
           oam == {Cell(x) : x \in Extent("SPRITE_ATTRIB_MEM")}
       IN  cells' = [c \in Cells |->
                       IF c \in oam THEN load8(source(c))
                       ELSE IF c = Cell(a) THEN 0 ELSE cells[c]]
    /\ UNCHANGED <<ROM1_selector, view>>

ResetPort(a) ==
    /\ a \in {DivPort, LyPort}
    /\ cells' = [cells EXCEPT ![Cell(a)] = 0]
    /\ UNCHANGED <<ROM1_selector, view>>

StoreCell(a, v) ==
    /\ ~IsRom(a) /\ a \notin {DmaPort, DivPort, LyPort}
    /\ cells' = [cells EXCEPT ![Cell(a)] = v]
    /\ UNCHANGED <<ROM1_selector, view>>

(* gb_MMU_store8                                                           *)
store8(a, v) ==
    /\ \/ SwitchBank(a, v) \/ IgnoreStore(a, v)
       \/ TransferOam(a, v) \/ ResetPort(a) \/ StoreCell(a, v)
    /\ UNCHANGED ROM_banks_n

(* Instructions that store: a byte; two bytes, the low one first; and the  *)
(* CB instructions on (HL), which write back the byte they read, BIT too.  *)
Store(a, v) ==
    /\ ~second.due /\ stores < MaxStores
    /\ store8(a, v)
    /\ stores' = stores + 1 /\ UNCHANGED second

StoreLow(a, lo, hi) ==
    /\ ~second.due /\ stores < MaxStores
    /\ store8(a, lo)
    /\ second' = [at |-> (a + 1) % Total, value |-> hi, due |-> TRUE]
    /\ stores' = stores + 1

StoreHigh ==
    /\ second.due
    /\ store8(second.at, second.value)
    /\ second' = NoSecond /\ UNCHANGED stores

TestBit(a) ==
    /\ ~second.due /\ stores < MaxStores
    /\ store8(a, load8(a))
    /\ stores' = stores + 1 /\ UNCHANGED second

Next ==
    \/ \E a \in Targets :
          \/ TestBit(a)
          \/ \E v \in Values : Store(a, v)
          \/ \E lo, hi \in Values : StoreLow(a, lo, hi)
    \/ StoreHigh

Spec == Init /\ [][Next]_vars

-----------------------------------------------------------------------------

TypeOK ==
    /\ ROM_banks_n \in 0..MaxBanks /\ ROM1_selector \in 0..MaxBanks
    /\ view \in [Sections -> [block : {"internal", "ROM"}, base : Nat, readonly : BOOLEAN]]
    /\ cells \in [Cells -> Words]
    /\ second \in [at : Addresses, value : Words, due : BOOLEAN]
    /\ stores \in 0..MaxStores

(* No store, transfer or bank switch ever changes the cartridge's ROM.     *)
RomIsPermanent ==
    \A i \in 0..(ROM_banks_n * BankSize - 1) :
        cells[<<"ROM", i>>] = Image[<<i \div BankSize, i % BankSize>>]

(* The window always shows a whole bank of the cartridge other than bank 0,*)
(* the one the selector names; no access leaves the block it starts in.    *)
WindowShowsBank ==
    /\ ROM_banks_n > 1 =>
         /\ ROM1_selector \in 1..(ROM_banks_n - 1)
         /\ view["ROM_BANK_S"].base = ROM1_selector * BankSize
    /\ \A a \in Addresses :
         LET c == Cell(a) IN IF c[1] = "ROM" THEN c[2] \in 0..(ROM_banks_n * BankSize - 1)
                                             ELSE c[2] \in Addresses

(* Through sections, attributes and pointers the program sees a plain      *)
(* memory with a window, an echo and three special ports.                  *)
Program == INSTANCE Bus WITH banks <- ROM_banks_n, bank <- ROM1_selector,
                             seen <- [a \in Addresses |-> load8(a)]

BusImplemented == Program!Spec

(* cart.c on the bank select: "When 00h is written, the MBC translates     *)
(* that to bank 01h also": any other number that fits selects its bank, if *)
(* the cartridge has it.                                                   *)
EveryBankSelectable ==
    [][\A a \in SelectRange, v \in 1..(SelectSpan - 1) :
         v < ROM_banks_n /\ SwitchBank(a, v) => ROM1_selector' = v]_vars

=============================================================================
