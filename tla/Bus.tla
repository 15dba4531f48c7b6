---------------------------------- MODULE Bus ----------------------------------
(***************************************************************************)
(* What a program sees of the memory, without sections, attributes and     *)
(* pointers: "seen" is the word read at each address.                      *)
(***************************************************************************)
EXTENDS AddressMap

VARIABLES
    banks,      \* the ROM banks of the cartridge, 0 without one
    bank,       \* the bank in the switchable window, 0 without a window
    seen

busVars == <<banks, bank, seen>>

Window == IF banks > 1 THEN Extent("ROM_BANK_S") ELSE {}
Fixed  == IF banks > 0 THEN Extent("ROM_BANK_0") ELSE {}

Init ==
    /\ banks \in 0..MaxBanks
    /\ bank = IF banks > 1 THEN 1 ELSE 0
    /\ seen = [a \in Addresses |->
                 IF a \in Fixed THEN Image[<<0, a>>]
                 ELSE IF a \in Window THEN Image[<<1, a - BankSize>>] ELSE 0]

-----------------------------------------------------------------------------

(* A write to ROM changes no memory; at most another bank of the cartridge *)
(* comes into the window.                                                  *)
WriteRom(a) ==
    /\ a \in Fixed \cup Window
    /\ bank' \in {bank} \cup 1..(banks - 1)
    /\ seen' = [x \in Addresses |->
                  IF x \in Window THEN Image[<<bank', x - BankSize>>] ELSE seen[x]]

WriteReset(a) ==
    /\ a \in {DivPort, LyPort}
    /\ seen' = [seen EXCEPT ![a] = 0]
    /\ UNCHANGED bank

(* The sprite table becomes a copy of the start of page v, all at once.    *)
WriteTransfer(a, v) ==
    /\ a = DmaPort
    /\ seen' = [x \in Addresses |->
                  IF x \in Extent("SPRITE_ATTRIB_MEM")
                  THEN seen[v * Page + x - Begin["SPRITE_ATTRIB_MEM"]]
                  ELSE IF x = DmaPort THEN 0 ELSE seen[x]]
    /\ UNCHANGED bank

(* Everywhere else a write is seen at its address, and at its echo.        *)
WriteRam(a, v) ==
    /\ a \notin Fixed \cup Window \cup {DivPort, LyPort, DmaPort}
    /\ seen' = [x \in Addresses |-> IF x \in Same[a] THEN v ELSE seen[x]]
    /\ UNCHANGED bank

Write(a, v) ==
    /\ WriteRom(a) \/ WriteReset(a) \/ WriteTransfer(a, v) \/ WriteRam(a, v)
    /\ UNCHANGED banks

Spec == Init /\ [][\E a \in Addresses, v \in Words : Write(a, v)]_busVars

=============================================================================
