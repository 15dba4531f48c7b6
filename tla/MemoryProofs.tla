----------------------------- MODULE MemoryProofs -----------------------------
(***************************************************************************)
(* Theorems about the memory unit and the cartridge, for every table of    *)
(* sections the code's own validation accepts, every cartridge and every   *)
(* program.                                                                *)
(***************************************************************************)
EXTENDS Memory, TLAPS

(* After any number of bank switches the view differs from the initial one *)
(* by the base of the window alone.                                        *)
ViewShape ==
    /\ IF ROM_banks_n > 1 THEN ROM1_selector \in 1..(ROM_banks_n - 1) ELSE ROM1_selector = 0
    /\ view = [s \in Sections |->
                 IF s = "ROM_BANK_S" /\ ROM_banks_n > 1
                 THEN Place("ROM", ROM1_selector * BankSize, TRUE)
                 ELSE InitialView(ROM_banks_n)[s]]

IInv == TypeOK /\ ViewShape /\ RomIsPermanent

-----------------------------------------------------------------------------

(* Products of the numbers of banks, the only non-linear facts needed.     *)
LEMMA ProductFacts ==
    ASSUME NEW size \in Nat \ {0}, NEW n \in Nat, NEW k \in 0..n
    PROVE  /\ k * size \in Nat /\ n * size \in Nat /\ k * size <= n * size
           /\ k < n => k * size + size <= n * size
<1>1. PICK d \in Nat : n = k + d
  <2>1. n - k \in Nat /\ n = k + (n - k)
    OBVIOUS
  <2>2. QED
    BY <2>1
<1>2. n * size = k * size + d * size /\ k * size \in Nat /\ d * size \in Nat
  BY <1>1
<1>3. k < n => d * size >= size
  <2>1. SUFFICES ASSUME k < n PROVE d * size >= size
    OBVIOUS
  <2>2. PICK e \in Nat : d = e + 1
    <3>1. d - 1 \in Nat /\ d = (d - 1) + 1
      BY <1>1, <2>1
    <3>2. QED
      BY <3>1
  <2>3. d * size = e * size + size /\ e * size \in Nat
    BY <2>2
  <2>4. QED
    BY <2>3
<1>4. QED
  BY <1>2, <1>3

LEMMA DivisionFacts ==
    ASSUME NEW size \in Nat \ {0}, NEW i \in Nat
    PROVE  /\ i \div size \in Int /\ i % size \in 0..(size - 1)
           /\ i = size * (i \div size) + (i % size)
  OBVIOUS

(* The bank and the offset in it of a place in the ROM.                    *)
LEMMA QuotientFacts ==
    ASSUME NEW size \in Nat \ {0}, NEW n \in Nat, NEW i \in 0..(n * size - 1)
    PROVE  i \div size \in 0..(n - 1) /\ i % size \in 0..(size - 1)
<1> DEFINE q == i \div size
           r == i % size
<1>1. n * size \in Nat
  BY ProductFacts
<1>2. i \in Nat /\ q \in Int /\ r \in 0..(size - 1) /\ i = size * q + r
  BY <1>1
<1>3. q >= 0
  <2>1. SUFFICES ASSUME q < 0 PROVE FALSE
    BY <1>2
  <2>2. PICK e \in Nat : q = - e - 1
    <3>1. - q - 1 \in Nat /\ q = - (- q - 1) - 1
      BY <1>2, <2>1
    <3>2. QED
      BY <3>1
  <2>3. size * q = - (size * e) - size /\ size * e \in Nat
    BY <2>2
  <2>4. QED
    BY <1>2, <2>3
<1>4. q < n
  <2>1. SUFFICES ASSUME q >= n PROVE FALSE
    BY <1>2
  <2>2. q \in Nat /\ n \in 0..q
    BY <1>2, <1>3, <2>1
  <2>3. n * size <= q * size /\ q * size = size * q /\ q * size \in Nat
    BY <2>2, ProductFacts
  <2>4. QED
    BY <1>1, <1>2, <2>3
<1>5. QED
  BY <1>2, <1>3, <1>4

LEMMA MapFacts ==
    /\ Total \in Nat /\ BankSize \in Nat \ {0}
    /\ \A s \in Sections : Begin[s] \in Nat /\ End[s] \in Nat /\ End[s] <= Total
    /\ Extent("ROM_BANK_0") = 0..(BankSize - 1)
    /\ Extent("ROM_BANK_S") = BankSize..(2 * BankSize - 1)
<1>1. Total \in Nat /\ Begin \in [Sections -> Addresses] /\ End \in [Sections -> 1..Total]
  BY MapAssumption DEF MapIsContinuous
<1>2. {"ROM_BANK_0", "ROM_BANK_S"} \subseteq Sections
  BY DEF Sections
<1>3. QED
  BY <1>1, <1>2, MapAssumption DEF Addresses, Extent, BankSize

LEMMA SectionFacts ==
    ASSUME NEW a \in Addresses
    PROVE  /\ SectionOf[a] \in Sections /\ a \in Extent(SectionOf[a])
           /\ \A s \in Sections : a \in Extent(s) => SectionOf[a] = s
<1>1. \E s \in Sections : a \in Extent(s)
  BY MapAssumption DEF MapIsContinuous
<1>2. SectionOf[a] \in Sections /\ a \in Extent(SectionOf[a])
  BY <1>1 DEF SectionOf
<1>3. QED
  BY <1>2, MapAssumption DEF MapIsContinuous

(* Where an address leads to, by the kind of its section.                  *)
LEMMA CellFacts ==
    ASSUME ROM_banks_n \in 0..MaxBanks, ViewShape, NEW a \in Addresses
    PROVE  /\ IsRom(a) => /\ Cell(a)[1] = "ROM"
                          /\ Cell(a)[2] \in 0..(ROM_banks_n * BankSize - 1)
           /\ ~IsRom(a) => Cell(a)[1] = "internal" /\ Cell(a)[2] \in Addresses
           /\ Cell(a) = <<Cell(a)[1], Cell(a)[2]>> /\ Cell(a) \in Cells
<1> DEFINE s == SectionOf[a]
           n == ROM_banks_n
<1>1. s \in Sections /\ a \in Extent(s) /\ a \in Nat /\ a < Total
  BY SectionFacts, MapFacts DEF Addresses
<1>2. Cell(a) = <<view[s].block, view[s].base + a - Begin[s]>> /\ IsRom(a) = view[s].readonly
  BY DEF Cell, IsRom
<1>3. /\ n \in Nat /\ MaxBanks \in Nat /\ BankSize \in Nat \ {0} /\ Total \in Nat
      /\ n * BankSize \in Nat /\ n * BankSize <= MaxBanks * BankSize
      /\ MaxBanks * BankSize \in Nat
  <2>1. MaxBanks \in Nat /\ BankSize \in Nat \ {0} /\ Total \in Nat
    BY CartridgeAssumption, MapFacts
  <2>2. QED
    BY <2>1, ProductFacts
<1>4. /\ Begin[s] \in Nat /\ Begin[s] <= a /\ a < End[s] /\ End[s] \in Nat
  BY <1>1, MapFacts DEF Extent
<1>5. CASE s = "ROM_BANK_S" /\ n > 1
  <2>1. view[s] = Place("ROM", ROM1_selector * BankSize, TRUE)
    BY <1>1, <1>5 DEF ViewShape
  <2>2. Begin[s] = BankSize /\ a < 2 * BankSize
    BY <1>1, <1>5, MapAssumption, MapFacts DEF Extent
  <2>3. ROM1_selector * BankSize \in Nat /\ ROM1_selector * BankSize + BankSize <= n * BankSize
    <3>1. ROM1_selector \in 0..n /\ ROM1_selector < n
      BY <1>3, <1>5 DEF ViewShape
    <3>2. QED
      BY <1>3, <3>1, ProductFacts
  <2>4. /\ IsRom(a) /\ Cell(a)[1] = "ROM"
        /\ Cell(a) = <<"ROM", ROM1_selector * BankSize + a - BankSize>>
    BY <1>2, <2>1, <2>2 DEF Place
  <2>5. ROM1_selector * BankSize + a - BankSize \in 0..(n * BankSize - 1)
    BY <1>1, <1>3, <1>4, <2>2, <2>3
  <2>6. QED
    BY <1>3, <2>4, <2>5 DEF Cells
<1>6. CASE ~(s = "ROM_BANK_S" /\ n > 1)
  <2>1. view[s] = InitialView(n)[s]
    BY <1>1, <1>6 DEF ViewShape
  <2>2. CASE s = "ROM_BANK_0" /\ n > 0
    <3>1. view[s] = Place("ROM", 0, TRUE)
      BY <1>1, <2>1, <2>2 DEF InitialView
    <3>2. Begin[s] = 0 /\ a < BankSize /\ BankSize <= n * BankSize
      <4>1. Begin[s] = 0 /\ a < BankSize
        BY <1>1, <2>2, MapAssumption, MapFacts
      <4>2. 1 * BankSize <= n * BankSize
        BY <1>3, <2>2, ProductFacts
      <4>3. QED
        BY <1>3, <4>1, <4>2
    <3>3. IsRom(a) /\ Cell(a) = <<"ROM", a>>
      BY <1>1, <1>2, <3>1, <3>2 DEF Place
    <3>4. a \in 0..(n * BankSize - 1)
      BY <1>1, <1>3, <3>2
    <3>5. QED
      BY <1>3, <3>3, <3>4 DEF Cells
  <2>3. CASE s = "RAM_INTERNAL_ECHO"
    <3>1. view[s] = Place("internal", Begin["RAM_INTERNAL"], FALSE)
      BY <1>1, <2>1, <2>3 DEF InitialView
    <3>2. "RAM_INTERNAL" \in Sections
      BY DEF Sections
    <3>3. Begin["RAM_INTERNAL"] + a - Begin[s] \in Addresses
      <4>1. /\ Begin["RAM_INTERNAL"] \in Nat /\ End["RAM_INTERNAL"] \in Nat
            /\ End["RAM_INTERNAL"] <= Total
        BY <3>2, MapFacts
      <4>2. End[s] - Begin[s] <= End["RAM_INTERNAL"] - Begin["RAM_INTERNAL"]
        BY <2>3, MapAssumption
      <4>3. QED
        BY <1>1, <1>3, <1>4, <4>1, <4>2 DEF Addresses
    <3>4. ~IsRom(a) /\ Cell(a) = <<"internal", Begin["RAM_INTERNAL"] + a - Begin[s]>>
      BY <1>2, <3>1 DEF Place
    <3>5. <<"internal", Begin["RAM_INTERNAL"] + a - Begin[s]>> \in Cells
      BY <3>3 DEF Cells
    <3>6. QED
      BY <3>3, <3>4, <3>5
  <2>4. CASE ~(s = "ROM_BANK_0" /\ n > 0) /\ s # "RAM_INTERNAL_ECHO"
    <3>1. view[s] = Place("internal", Begin[s], FALSE)
      BY <1>1, <1>6, <2>1, <2>4 DEF InitialView
    <3>2. ~IsRom(a) /\ Cell(a) = <<"internal", Begin[s] + a - Begin[s]>>
      BY <1>2, <3>1 DEF Place
    <3>3. Begin[s] + a - Begin[s] = a
      BY <1>1, <1>4
    <3>4. Cell(a) = <<"internal", a>>
      BY <3>2, <3>3
    <3>5. <<"internal", a>> \in Cells
      BY DEF Cells
    <3>6. QED
      BY <3>2, <3>4, <3>5
  <2>5. QED
    BY <2>2, <2>3, <2>4
<1>7. QED
  BY <1>5, <1>6

(* The ports and the sprite table are internal memory under their own      *)
(* addresses.                                                              *)
LEMMA DeviceCells ==
    ASSUME ROM_banks_n \in 0..MaxBanks, ViewShape, NEW a \in Addresses,
           a \in Extent("SPRITE_ATTRIB_MEM") \cup Extent("IO_PORTS")
    PROVE  Cell(a) = <<"internal", a>>
<1> DEFINE s == SectionOf[a]
<1>1. {"SPRITE_ATTRIB_MEM", "IO_PORTS"} \subseteq Sections
  BY DEF Sections
<1>2. s \in {"SPRITE_ATTRIB_MEM", "IO_PORTS"}
  BY <1>1, SectionFacts
<1>3. view[s] = Place("internal", Begin[s], FALSE)
  BY <1>1, <1>2 DEF ViewShape, InitialView
<1>4. Begin[s] + a - Begin[s] = a
  BY <1>1, <1>2, MapFacts DEF Addresses
<1>5. QED
  BY <1>3, <1>4 DEF Cell, Place

(* A transfer starts at a page and stays in memory.                        *)
LEMMA TransferSource ==
    ASSUME NEW v \in Words, NEW x \in Extent("SPRITE_ATTRIB_MEM")
    PROVE  v * Page + x - Begin["SPRITE_ATTRIB_MEM"] \in Addresses
<1> DEFINE b == Begin["SPRITE_ATTRIB_MEM"]
<1>1. /\ WordMax \in Nat /\ Page \in Nat \ {0} /\ Total \in Nat
      /\ v \in 0..(WordMax + 1) /\ v < WordMax + 1
  BY MapAssumption DEF Words
<1>2. v * Page \in Nat /\ v * Page + Page <= Total
  BY <1>1, ProductFacts, DmaAssumption
<1>3. "SPRITE_ATTRIB_MEM" \in Sections
  BY DEF Sections
<1>4. b \in Nat /\ End["SPRITE_ATTRIB_MEM"] \in Nat /\ x \in Nat
  BY <1>3, MapFacts DEF Extent
<1>5. x - b >= 0 /\ x - b < Page
  BY <1>1, <1>4, DmaAssumption DEF Extent
<1>6. QED
  BY <1>1, <1>2, <1>4, <1>5 DEF Addresses

(* The hook selects a bank other than 0.                                   *)
LEMMA BankIndexFacts ==
    ASSUME NEW v \in Words
    PROVE  BankIndex(v) \in Nat \ {0}
<1>1. v \in Nat /\ SelectSpan \in Nat \ {0} /\ LowSpan \in Nat \ {0, 1}
  BY MapAssumption, CartridgeAssumption DEF Words
<1>2. v % SelectSpan \in Nat
  BY <1>1
<1>3. v % SelectSpan = 0 => (v % SelectSpan) % LowSpan = 0
  BY <1>1
<1>4. QED
  BY <1>2, <1>3 DEF BankIndex

-----------------------------------------------------------------------------

LEMMA InitialShape ==
    ASSUME NEW n \in 0..MaxBanks
    PROVE  InitialView(n) \in [Sections -> [block : {"internal", "ROM"}, base : Nat, readonly : BOOLEAN]]
<1>1. "RAM_INTERNAL" \in Sections
  BY DEF Sections
<1>2. QED
  BY <1>1, MapFacts DEF InitialView, Place

LEMMA InitEstablishesInv == Init => IInv
<1> SUFFICES ASSUME Init PROVE IInv
  OBVIOUS
<1> DEFINE n == ROM_banks_n
<1>1. /\ n \in Nat /\ n \in 0..MaxBanks /\ MaxBanks \in Nat
      /\ BankSize \in Nat \ {0} /\ 0 \in Words /\ MaxStores \in Nat /\ 0 \in Addresses
  <2>1. Total > 0
    BY MapFacts, MapAssumption DEF MapIsContinuous, Sections
  <2>2. QED
    BY <2>1, MapFacts, CartridgeAssumption, MapAssumption, ProgramAssumption
       DEF Init, Words, Addresses
<1>2. cells \in [Cells -> Words] /\ RomIsPermanent
  <2>1. \A i \in 0..(n * BankSize - 1) :
            Image[<<i \div BankSize, i % BankSize>>] \in Words
    <3> SUFFICES ASSUME NEW i \in 0..(n * BankSize - 1)
                 PROVE  Image[<<i \div BankSize, i % BankSize>>] \in Words
      OBVIOUS
    <3>1. i \div BankSize \in 0..(n - 1) /\ i % BankSize \in 0..(BankSize - 1)
      BY <1>1, QuotientFacts
    <3>2. i \div BankSize \in 0..(MaxBanks - 1)
      BY <1>1, <3>1
    <3>3. <<i \div BankSize, i % BankSize>> \in (0..(MaxBanks - 1)) \X (0..(BankSize - 1))
      BY <3>1, <3>2
    <3>4. QED
      BY <3>3, CartridgeAssumption
  <2>2. n * BankSize \in Nat /\ n * BankSize <= MaxBanks * BankSize /\ MaxBanks * BankSize \in Nat
    BY <1>1, ProductFacts
  <2>3. \A c \in Cells : c[1] = "ROM" /\ c[2] < n * BankSize => c[2] \in 0..(n * BankSize - 1)
    BY <2>2 DEF Cells
  <2>4. cells \in [Cells -> Words]
    BY <1>1, <2>1, <2>3 DEF Init, InitialCells
  <2>5. \A i \in 0..(n * BankSize - 1) : <<"ROM", i>> \in Cells
    BY <2>2 DEF Cells
  <2>6. RomIsPermanent
    <3> SUFFICES ASSUME NEW i \in 0..(n * BankSize - 1)
                 PROVE  cells[<<"ROM", i>>] = Image[<<i \div BankSize, i % BankSize>>]
      BY DEF RomIsPermanent
    <3>1. <<"ROM", i>> \in Cells /\ i < n * BankSize
      BY <2>2, <2>5
    <3> DEFINE c == <<"ROM", i>>
    <3>2. c[1] = "ROM" /\ c[2] = i
      OBVIOUS
    <3>3. cells[c] = Image[<<c[2] \div BankSize, c[2] % BankSize>>]
      <4> HIDE DEF c
      <4>1. QED
        BY <3>1, <3>2 DEF Init, InitialCells, c
    <3>4. QED
      BY <3>2, <3>3
  <2>7. QED
    BY <2>4, <2>6
<1>3. ViewShape
  <2>1. CASE n > 1
    <3>1. ROM1_selector = 1 /\ view = InitialView(n) /\ 1 * BankSize = BankSize
      BY <1>1, <2>1 DEF Init
    <3>2. view = [s \in Sections |->
                    IF s = "ROM_BANK_S" /\ n > 1 THEN Place("ROM", ROM1_selector * BankSize, TRUE)
                    ELSE InitialView(n)[s]]
      BY <2>1, <3>1 DEF InitialView
    <3>3. QED
      BY <1>1, <2>1, <3>1, <3>2 DEF ViewShape
  <2>2. CASE ~(n > 1)
    BY <2>2 DEF Init, ViewShape, InitialView
  <2>3. QED
    BY <2>1, <2>2
<1>4. TypeOK
  <2>1. ROM1_selector \in 0..MaxBanks
    BY <1>1 DEF Init
  <2>2. view \in [Sections -> [block : {"internal", "ROM"}, base : Nat, readonly : BOOLEAN]]
    BY <1>1, InitialShape DEF Init
  <2>3. QED
    BY <1>1, <1>2, <2>1, <2>2 DEF Init, TypeOK, NoSecond
<1>5. QED
  BY <1>2, <1>3, <1>4 DEF IInv

(* A store to RAM leaves the ROM cells alone, whatever it puts elsewhere.  *)
LEMMA RamStore ==
    ASSUME IInv, UNCHANGED <<ROM_banks_n, ROM1_selector, view>>,
           \A c \in Cells : cells'[c] = cells[c] \/ (c[1] = "internal" /\ cells'[c] \in Words),
           cells' = [c \in Cells |-> cells'[c]]
    PROVE  ViewShape' /\ RomIsPermanent' /\ cells' \in [Cells -> Words]
<1>1. ViewShape'
  BY DEF IInv, ViewShape, InitialView
<1>2. cells' \in [Cells -> Words]
  BY DEF IInv, TypeOK
<1>3. \A i \in 0..(ROM_banks_n * BankSize - 1) : cells'[<<"ROM", i>>] = cells[<<"ROM", i>>]
  <2> SUFFICES ASSUME NEW i \in 0..(ROM_banks_n * BankSize - 1)
               PROVE  cells'[<<"ROM", i>>] = cells[<<"ROM", i>>]
    OBVIOUS
  <2>1. /\ ROM_banks_n * BankSize \in Nat /\ MaxBanks * BankSize \in Nat
        /\ ROM_banks_n * BankSize <= MaxBanks * BankSize
    <3>1. ROM_banks_n \in 0..MaxBanks /\ MaxBanks \in Nat /\ BankSize \in Nat \ {0}
      BY MapFacts, CartridgeAssumption DEF IInv, TypeOK
    <3>2. ROM_banks_n \in Nat
      BY <3>1
    <3>3. QED
      BY <3>1, <3>2, ProductFacts
  <2>2. <<"ROM", i>> \in Cells
    BY <2>1 DEF Cells
  <2>3. <<"ROM", i>>[1] # "internal"
    OBVIOUS
  <2>4. QED
    BY <2>2, <2>3
<1>4. QED
  BY <1>1, <1>2, <1>3 DEF IInv, RomIsPermanent

(* gb_MMU_store8 keeps the invariant's three parts about the memory.       *)
LEMMA StoreKeepsMemory ==
    ASSUME IInv, NEW a \in Addresses, NEW v \in Words, store8(a, v)
    PROVE  /\ ROM_banks_n' = ROM_banks_n /\ ROM1_selector' \in 0..MaxBanks
           /\ view' \in [Sections -> [block : {"internal", "ROM"}, base : Nat, readonly : BOOLEAN]]
           /\ ViewShape' /\ RomIsPermanent' /\ cells' \in [Cells -> Words]
<1> DEFINE n == ROM_banks_n
           Views == [Sections -> [block : {"internal", "ROM"}, base : Nat, readonly : BOOLEAN]]
<1>1. /\ n \in 0..MaxBanks /\ n \in Nat /\ MaxBanks \in Nat /\ BankSize \in Nat \ {0}
      /\ ROM1_selector \in 0..MaxBanks /\ view \in Views
      /\ cells \in [Cells -> Words] /\ 0 \in Words /\ ViewShape
  BY MapFacts, CartridgeAssumption, MapAssumption DEF IInv, TypeOK, Words
<1>2. n' = n
  BY DEF store8
<1>3. CASE SwitchBank(a, v)
  <2>1. /\ BankIndex(v) \in 1..(n - 1) /\ n > 1 /\ ROM1_selector' = BankIndex(v)
        /\ BankIndex(v) \in Nat
    BY <1>1, <1>3, BankIndexFacts DEF SwitchBank
  <2>2. "ROM_BANK_S" \in Sections
    BY DEF Sections
  <2>3. view["ROM_BANK_S"] = Place("ROM", ROM1_selector * BankSize, TRUE)
    BY <1>1, <2>1, <2>2 DEF ViewShape
  <2>4. /\ BankSize * BankIndex(v) = ROM1_selector' * BankSize
        /\ ROM1_selector' * BankSize \in Nat
    BY <1>1, <2>1
  <2>5. view' = [view EXCEPT !["ROM_BANK_S"] = Place("ROM", ROM1_selector' * BankSize, TRUE)]
    <3> DEFINE w == "ROM_BANK_S"
               base == BankSize * BankIndex(v)
               old == view[w]
    <3>1. view' = [view EXCEPT ![w] = [[old EXCEPT !.block = "ROM"] EXCEPT !.base = base]]
      <4> HIDE DEF base
      <4>1. view' = [view EXCEPT ![w].block = "ROM", ![w].base = base]
        BY <1>3 DEF SwitchBank, base
      <4>2. QED
        BY <1>1, <2>2, <4>1
    <3>2. [[old EXCEPT !.block = "ROM"] EXCEPT !.base = base] = Place("ROM", ROM1_selector' * BankSize, TRUE)
      <4> DEFINE b == ROM1_selector' * BankSize
                 o == ROM1_selector * BankSize
      <4>1. old = [block |-> "ROM", base |-> o, readonly |-> TRUE] /\ base = b
        BY <2>3, <2>4 DEF Place
      <4>2. old \in [block : {"internal", "ROM"}, base : Nat, readonly : BOOLEAN] /\ old.block = "ROM"
        <5>1. old \in [block : {"internal", "ROM"}, base : Nat, readonly : BOOLEAN]
          BY <1>1, <2>2
        <5>2. QED
          BY <4>1, <5>1
      <4> HIDE DEF old, base, b, o
      <4>3. [old EXCEPT !.block = "ROM"] = old
        BY <4>2
      <4>4. [old EXCEPT !.base = b] = [block |-> "ROM", base |-> b, readonly |-> TRUE]
        BY <4>1
      <4>5. QED
        BY <4>1, <4>3, <4>4 DEF Place, b
    <3>3. QED
      BY <3>1, <3>2
  <2>6. view' \in Views
    BY <1>1, <2>4, <2>5 DEF Place
  <2>7. ViewShape'
    <3>1. view' = [s \in Sections |->
                     IF s = "ROM_BANK_S" /\ n > 1
                     THEN Place("ROM", ROM1_selector' * BankSize, TRUE)
                     ELSE InitialView(n)[s]]
      BY <1>1, <2>1, <2>5 DEF ViewShape
    <3>2. QED
      BY <1>2, <2>1, <3>1 DEF ViewShape, InitialView
  <2>8. cells' = cells
    BY <1>3 DEF SwitchBank
  <2>9. RomIsPermanent'
    BY <1>2, <2>8 DEF IInv, RomIsPermanent
  <2>10. QED
    BY <1>1, <1>2, <2>1, <2>6, <2>7, <2>8, <2>9
<1>4. CASE IgnoreStore(a, v)
  <2>1. UNCHANGED <<ROM_banks_n, ROM1_selector, view, cells>>
    BY <1>2, <1>4 DEF IgnoreStore
  <2>2. ViewShape' /\ RomIsPermanent'
    BY <2>1 DEF IInv, ViewShape, InitialView, RomIsPermanent
  <2>3. QED
    BY <1>1, <2>1, <2>2
<1>5. CASE TransferOam(a, v) \/ ResetPort(a) \/ StoreCell(a, v)
  <2>1. UNCHANGED <<ROM_banks_n, ROM1_selector, view>>
    BY <1>2, <1>5 DEF TransferOam, ResetPort, StoreCell
  <2>2. a \in {DivPort, LyPort, DmaPort} => Cell(a) = <<"internal", a>>
    BY <1>1, DeviceCells, MapAssumption
  <2>3. cells' = [c \in Cells |-> cells'[c]]
    BY <1>1, <1>5 DEF TransferOam, ResetPort, StoreCell
  <2>4. ASSUME NEW c \in Cells
        PROVE  cells'[c] = cells[c] \/ (c[1] = "internal" /\ cells'[c] \in Words)
    <3>1. CASE TransferOam(a, v)
      <4> DEFINE oam == {Cell(x) : x \in Extent("SPRITE_ATTRIB_MEM")}
                 b == Begin["SPRITE_ATTRIB_MEM"]
      <4>1. CASE c \in oam
        <5>1. PICK x \in Extent("SPRITE_ATTRIB_MEM") : c = Cell(x)
          BY <4>1
        <5>2. x \in Addresses
          <6>1. "SPRITE_ATTRIB_MEM" \in Sections
            BY DEF Sections
          <6>2. QED
            BY <6>1, MapFacts DEF Extent, Addresses
        <5>3. c = <<"internal", x>>
          BY <1>1, <5>1, <5>2, DeviceCells
        <5>4. c[1] = "internal" /\ c[2] = x
          BY <5>3
        <5>5. v * Page + c[2] - b \in Addresses
          BY <5>4, TransferSource
        <5>6. load8(v * Page + c[2] - b) \in Words
          BY <1>1, <5>5, CellFacts DEF load8
        <5>7. cells'[c] = load8(v * Page + c[2] - b)
          BY <3>1, <4>1 DEF TransferOam
        <5>8. QED
          BY <5>4, <5>6, <5>7
      <4>2. CASE c \notin oam
        <5>1. cells'[c] = IF c = Cell(a) THEN 0 ELSE cells[c]
          BY <3>1, <4>2 DEF TransferOam
        <5>2. a = DmaPort
          BY <3>1 DEF TransferOam
        <5>3. QED
          BY <1>1, <2>2, <5>1, <5>2
      <4>3. QED
        BY <4>1, <4>2
    <3>2. CASE ResetPort(a)
      BY <1>1, <2>2, <3>2 DEF ResetPort
    <3>3. CASE StoreCell(a, v)
      <4>1. Cell(a)[1] = "internal"
        BY <1>1, <3>3, CellFacts DEF StoreCell
      <4>2. QED
        BY <1>1, <3>3, <4>1 DEF StoreCell
    <3>4. QED
      BY <1>5, <3>1, <3>2, <3>3
  <2>5. ViewShape' /\ RomIsPermanent' /\ cells' \in [Cells -> Words]
    BY <2>1, <2>3, <2>4, RamStore
  <2>6. QED
    BY <1>1, <2>1, <2>5
<1>6. QED
  BY <1>3, <1>4, <1>5 DEF store8

LEMMA NextKeepsInv == IInv /\ [Next]_vars => IInv'
<1> SUFFICES ASSUME IInv, [Next]_vars PROVE IInv'
  OBVIOUS
<1>1. /\ Targets \subseteq Addresses /\ Values \subseteq Words /\ MaxStores \in Nat
      /\ Total \in Nat /\ 0 \in Words
  BY ProgramAssumption, MapFacts, MapAssumption DEF Words
<1>2. /\ ROM_banks_n \in 0..MaxBanks /\ ViewShape /\ cells \in [Cells -> Words]
      /\ second \in [at : Addresses, value : Words, due : BOOLEAN]
      /\ stores \in 0..MaxStores
  BY DEF IInv, TypeOK
<1>3. ASSUME NEW a \in Addresses, NEW v \in Words, store8(a, v),
             second' \in [at : Addresses, value : Words, due : BOOLEAN],
             stores' \in 0..MaxStores
      PROVE  IInv'
  BY <1>2, <1>3, StoreKeepsMemory DEF IInv, TypeOK
<1>4. stores < MaxStores => stores + 1 \in 0..MaxStores
  BY <1>1, <1>2
<1>5. ASSUME NEW a \in Targets, TestBit(a) PROVE IInv'
  <2>1. a \in Addresses /\ load8(a) \in Words
    BY <1>1, <1>2, CellFacts DEF load8
  <2>2. QED
    BY <1>2, <1>3, <1>4, <1>5, <2>1 DEF TestBit
<1>6. ASSUME NEW a \in Targets, NEW v \in Values, Store(a, v) PROVE IInv'
  <2>1. a \in Addresses /\ v \in Words
    BY <1>1
  <2>2. QED
    BY <1>2, <1>3, <1>4, <1>6, <2>1 DEF Store
<1>7. ASSUME NEW a \in Targets, NEW lo \in Values, NEW hi \in Values, StoreLow(a, lo, hi)
      PROVE  IInv'
  <2>1. a \in Addresses /\ lo \in Words /\ hi \in Words
    BY <1>1
  <2>2. (a + 1) % Total \in Addresses
    <3>1. a + 1 \in Int /\ Total \in Nat \ {0}
      BY <1>1, <2>1 DEF Addresses
    <3>2. QED
      BY <3>1 DEF Addresses
  <2>3. second' \in [at : Addresses, value : Words, due : BOOLEAN]
    BY <1>7, <2>1, <2>2 DEF StoreLow
  <2>4. QED
    BY <1>3, <1>4, <1>7, <2>1, <2>3 DEF StoreLow
<1>8. CASE StoreHigh
  <2>1. second.at \in Addresses /\ second.value \in Words /\ 0 \in Addresses
    BY <1>1, <1>2 DEF Addresses
  <2>2. NoSecond \in [at : Addresses, value : Words, due : BOOLEAN]
    BY <1>1, <2>1 DEF NoSecond
  <2>3. QED
    BY <1>2, <1>3, <1>8, <2>1, <2>2 DEF StoreHigh
<1>9. CASE UNCHANGED vars
  BY <1>9 DEF IInv, TypeOK, ViewShape, RomIsPermanent, InitialView, vars
<1>10. QED
  BY <1>5, <1>6, <1>7, <1>8, <1>9 DEF Next

(* The inductive invariant: the view keeps its initial shape but for the   *)
(* base of the window, and the ROM its contents.                           *)
THEOREM InvHolds == Spec => []IInv
  BY InitEstablishesInv, NextKeepsInv, PTL DEF Spec

(* The view, the cells and the pending byte of a 16-bit store keep their   *)
(* types for every program.                                                *)
THEOREM MemoryTypeCorrect == Spec => []TypeOK
<1>1. IInv => TypeOK
  BY DEF IInv
<1>2. QED
  BY <1>1, InvHolds, PTL

(* Nothing the program does with gb_MMU_store8 changes the cartridge.      *)
THEOREM RomStaysPermanent == Spec => []RomIsPermanent
<1>1. IInv => RomIsPermanent
  BY DEF IInv
<1>2. QED
  BY <1>1, InvHolds, PTL

(* The window shows a bank the cartridge has, and every access stays in    *)
(* its block.                                                              *)
THEOREM WindowStaysInCartridge == Spec => []WindowShowsBank
<1>1. IInv => WindowShowsBank
  <2> SUFFICES ASSUME IInv PROVE WindowShowsBank
    OBVIOUS
  <2>1. ROM_banks_n \in 0..MaxBanks /\ ViewShape
    BY DEF IInv, TypeOK
  <2>2. ROM_banks_n > 1 =>
          /\ ROM1_selector \in 1..(ROM_banks_n - 1)
          /\ view["ROM_BANK_S"].base = ROM1_selector * BankSize
    BY <2>1 DEF ViewShape, Sections, Place
  <2>3. ASSUME NEW a \in Addresses
        PROVE  IF Cell(a)[1] = "ROM" THEN Cell(a)[2] \in 0..(ROM_banks_n * BankSize - 1)
                                     ELSE Cell(a)[2] \in Addresses
    BY <2>1, CellFacts
  <2>4. QED
    BY <2>2, <2>3 DEF WindowShowsBank
<1>2. QED
  BY <1>1, InvHolds, PTL

-----------------------------------------------------------------------------

(* The bank and the offset of a place are those it was put together from.  *)
LEMMA QuotientUnique ==
    ASSUME NEW size \in Nat \ {0}, NEW k \in Nat, NEW r \in 0..(size - 1)
    PROVE  (k * size + r) \div size = k /\ (k * size + r) % size = r
<1> DEFINE i == k * size + r
           q == i \div size
<1>1. k * size \in Nat /\ i \in Nat /\ i = k * size + r
  OBVIOUS
<1> HIDE DEF i
<1>2. q \in Int /\ i % size \in 0..(size - 1) /\ i = size * q + (i % size)
  BY <1>1, DivisionFacts
<1>3. q >= 0
  <2>1. i \in 0..((k + 1) * size - 1) /\ k + 1 \in Nat
    <3>1. (k + 1) * size = k * size + size
      OBVIOUS
    <3>2. QED
      BY <1>1, <3>1
  <2>2. q \in 0..(k + 1 - 1)
    BY <2>1, QuotientFacts
  <2>3. QED
    BY <2>2
<1>4. q * size = size * q /\ q \in Nat
  BY <1>2, <1>3
<1>5. q = k
  <2>1. CASE q < k
    <3>1. q \in 0..k
      BY <1>4, <2>1
    <3>2. q * size + size <= k * size
      BY <2>1, <3>1, ProductFacts
    <3>3. QED
      BY <1>1, <1>2, <1>4, <3>2
  <2>2. CASE q > k
    <3>1. k \in 0..q
      BY <1>4, <2>2
    <3>2. k * size + size <= q * size
      BY <1>4, <2>2, <3>1, ProductFacts
    <3>3. QED
      BY <1>1, <1>2, <1>4, <3>2
  <2>3. QED
    BY <1>4, <2>1, <2>2
<1>6. i = k * size + (i % size)
  BY <1>2, <1>4, <1>5
<1>7. QED
  BY <1>1, <1>2, <1>5, <1>6 DEF i

(* The names the bus shares with the memory.                               *)
LEMMA SharedNames ==
    /\ Program!Addresses = Addresses /\ Program!Words = Words
    /\ Program!BankSize = BankSize /\ Program!Same = Same
    /\ Program!Fixed = IF ROM_banks_n > 0 THEN Extent("ROM_BANK_0") ELSE {}
    /\ Program!Window = IF ROM_banks_n > 1 THEN Extent("ROM_BANK_S") ELSE {}
    /\ Program!Extent("SPRITE_ATTRIB_MEM") = Extent("SPRITE_ATTRIB_MEM")
  BY DEF Program!Addresses, Addresses, Program!Words, Words, Program!BankSize, BankSize,
         Program!Same, Same, Program!Fixed, Program!Window, Program!Extent, Extent

(* The three kinds of address: ROM, echo, and memory under its own number. *)
Echoed(x) == x - Begin["RAM_INTERNAL_ECHO"] + Begin["RAM_INTERNAL"]

Home(x) == IF x \in Extent("RAM_INTERNAL_ECHO") THEN Echoed(x) ELSE x

LEMMA EchoFacts ==
    ASSUME NEW x \in Extent("RAM_INTERNAL_ECHO")
    PROVE  Echoed(x) \in Addresses /\ Echoed(x) \in Extent("RAM_INTERNAL")
<1>1. {"RAM_INTERNAL", "RAM_INTERNAL_ECHO"} \subseteq Sections
  BY DEF Sections
<1>2. /\ Begin["RAM_INTERNAL"] \in Nat /\ End["RAM_INTERNAL"] \in Nat
      /\ Begin["RAM_INTERNAL_ECHO"] \in Nat /\ End["RAM_INTERNAL_ECHO"] \in Nat
      /\ Total \in Nat /\ End["RAM_INTERNAL"] <= Total
      /\ End["RAM_INTERNAL_ECHO"] - Begin["RAM_INTERNAL_ECHO"]
           <= End["RAM_INTERNAL"] - Begin["RAM_INTERNAL"]
  BY <1>1, MapFacts, MapAssumption
<1>3. QED
  BY <1>2 DEF Extent, Echoed, Addresses

LEMMA KindOfAddress ==
    ASSUME ROM_banks_n \in 0..MaxBanks, ViewShape, NEW x \in Addresses
    PROVE  /\ IsRom(x) <=> x \in Program!Fixed \cup Program!Window
           /\ x \in Program!Fixed => Cell(x) = <<"ROM", x>>
           /\ x \in Program!Window => Cell(x) = <<"ROM", ROM1_selector * BankSize + (x - BankSize)>>
           /\ ~IsRom(x) => Cell(x) = <<"internal", Home(x)>>
<1> DEFINE s == SectionOf[x]
           n == ROM_banks_n
<1>1. /\ s \in Sections /\ x \in Extent(s) /\ x \in Nat /\ Begin[s] \in Nat
      /\ \A t \in Sections : x \in Extent(t) => s = t
      /\ n \in Nat /\ BankSize \in Nat
  BY SectionFacts, MapFacts DEF Addresses
<1>2. {"ROM_BANK_0", "ROM_BANK_S", "RAM_INTERNAL_ECHO"} \subseteq Sections
  BY DEF Sections
<1>3. Cell(x) = <<view[s].block, view[s].base + x - Begin[s]>> /\ IsRom(x) = view[s].readonly
  BY DEF Cell, IsRom
<1>4. CASE s = "ROM_BANK_S" /\ n > 1
  <2>1. view[s] = Place("ROM", ROM1_selector * BankSize, TRUE) /\ Begin[s] = BankSize
    BY <1>1, <1>4, MapAssumption DEF ViewShape
  <2>2. ROM1_selector \in Nat /\ ROM1_selector * BankSize \in Nat
    BY <1>1, <1>4 DEF ViewShape
  <2>3. IsRom(x) /\ x \in Program!Window /\ x \notin Program!Fixed
    BY <1>1, <1>2, <1>3, <1>4, <2>1, SharedNames DEF Place
  <2>4. Cell(x) = <<"ROM", ROM1_selector * BankSize + x - BankSize>>
    BY <1>3, <2>1 DEF Place
  <2>5. ROM1_selector * BankSize + x - BankSize = ROM1_selector * BankSize + (x - BankSize)
    BY <1>1, <2>2
  <2>6. QED
    BY <2>3, <2>4, <2>5
<1>5. CASE s = "ROM_BANK_0" /\ n > 0
  <2>1. view[s] = Place("ROM", 0, TRUE) /\ Begin[s] = 0
    BY <1>1, <1>5, MapAssumption DEF ViewShape, InitialView
  <2>2. IsRom(x) /\ x \notin Program!Window /\ x \in Program!Fixed
    BY <1>1, <1>2, <1>3, <1>5, <2>1, SharedNames DEF Place
  <2>3. Cell(x) = <<"ROM", x>>
    BY <1>1, <1>3, <2>1 DEF Place
  <2>4. QED
    BY <2>2, <2>3
<1>6. CASE s = "RAM_INTERNAL_ECHO"
  <2>1. view[s] = Place("internal", Begin["RAM_INTERNAL"], FALSE)
    BY <1>1, <1>6 DEF ViewShape, InitialView
  <2>2. ~IsRom(x) /\ x \notin Program!Window /\ x \notin Program!Fixed
    BY <1>1, <1>2, <1>3, <1>6, <2>1, SharedNames DEF Place
  <2>3. "RAM_INTERNAL" \in Sections
    BY DEF Sections
  <2>4. Begin["RAM_INTERNAL"] + x - Begin[s] = Home(x)
    BY <1>1, <1>6, <2>3, MapFacts DEF Home, Echoed
  <2>5. Cell(x) = <<"internal", Home(x)>>
    BY <1>3, <2>1, <2>4 DEF Place
  <2>6. QED
    BY <2>2, <2>5
<1>7. CASE /\ ~(s = "ROM_BANK_S" /\ n > 1) /\ ~(s = "ROM_BANK_0" /\ n > 0)
           /\ s # "RAM_INTERNAL_ECHO"
  <2>1. view[s] = Place("internal", Begin[s], FALSE)
    BY <1>1, <1>7 DEF ViewShape, InitialView
  <2>2. ~IsRom(x) /\ x \notin Program!Window /\ x \notin Program!Fixed
    BY <1>1, <1>2, <1>3, <1>7, <2>1, SharedNames DEF Place
  <2>3. Begin[s] + x - Begin[s] = x /\ Home(x) = x
    BY <1>1, <1>2, <1>7 DEF Home
  <2>4. Cell(x) = <<"internal", Home(x)>>
    BY <1>3, <2>1, <2>3 DEF Place
  <2>5. QED
    BY <2>2, <2>4
<1>8. QED
  BY <1>4, <1>5, <1>6, <1>7

(* Two addresses outside the ROM share a cell exactly if one echoes the    *)
(* other.                                                                  *)
LEMMA SharedCells ==
    ASSUME ROM_banks_n \in 0..MaxBanks, ViewShape,
           NEW a \in Addresses, ~IsRom(a), NEW x \in Addresses
    PROVE  Cell(x) = Cell(a) <=> x \in Same[a]
<1> DEFINE echo == Extent("RAM_INTERNAL_ECHO")
<1>1. {"RAM_INTERNAL", "RAM_INTERNAL_ECHO", "ROM_BANK_0", "ROM_BANK_S"} \subseteq Sections
  BY DEF Sections
<1>2. /\ \A y \in echo : Echoed(y) \in Extent("RAM_INTERNAL") /\ Echoed(y) \notin echo
      /\ \A y \in echo : y \in Addresses /\ Echoed(y) \in Addresses
      /\ \A y \in Extent("RAM_INTERNAL") \cup echo :
            y \notin Extent("ROM_BANK_0") /\ y \notin Extent("ROM_BANK_S")
  <2>1. \A s, t \in Sections : s # t => Extent(s) \cap Extent(t) = {}
    BY MapAssumption DEF MapIsContinuous
  <2>2. \A y \in echo : y \in Addresses
    BY <1>1, MapFacts DEF Extent, Addresses
  <2>3. QED
    BY <1>1, <2>1, <2>2, EchoFacts
<1>3. \A y \in Addresses : y \in Extent("RAM_INTERNAL") \cup echo => ~IsRom(y)
  BY <1>2, KindOfAddress, SharedNames
<1>4. Same[a] = {a} \cup (IF a \in echo THEN {Echoed(a)} ELSE {})
                    \cup {y \in echo : Echoed(y) = a}
  BY DEF Same, Echoed
<1>5. CASE IsRom(x)
  <2>1. Cell(x) # Cell(a)
    BY <1>5, CellFacts
  <2>2. x \notin Same[a]
    BY <1>2, <1>3, <1>4, <1>5
  <2>3. QED
    BY <2>1, <2>2
<1>6. CASE ~IsRom(x)
  <2>1. Cell(x) = Cell(a) <=> Home(x) = Home(a)
    BY <1>6, KindOfAddress
  <2>2. \A y, z \in echo : Echoed(y) = Echoed(z) => y = z
    BY <1>1, MapFacts DEF Extent, Echoed
  <2>3. Home(x) = Home(a) <=> x \in Same[a]
    BY <1>2, <1>4, <2>2 DEF Home
  <2>4. QED
    BY <2>1, <2>3
<1>7. QED
  BY <1>5, <1>6

(* A port and a byte of the sprite table have no echo.                     *)
LEMMA DevicesHaveNoEcho ==
    ASSUME NEW a \in Addresses, a \in Extent("SPRITE_ATTRIB_MEM") \cup Extent("IO_PORTS")
    PROVE  Same[a] = {a}
<1>1. {"SPRITE_ATTRIB_MEM", "IO_PORTS", "RAM_INTERNAL", "RAM_INTERNAL_ECHO"} \subseteq Sections
  BY DEF Sections
<1>2. \A s, t \in Sections : s # t => Extent(s) \cap Extent(t) = {}
  BY MapAssumption DEF MapIsContinuous
<1>3. a \notin Extent("RAM_INTERNAL") /\ a \notin Extent("RAM_INTERNAL_ECHO")
  BY <1>1, <1>2
<1>4. \A y \in Extent("RAM_INTERNAL_ECHO") : Echoed(y) # a
  BY <1>3, EchoFacts
<1>5. QED
  BY <1>3, <1>4 DEF Same, Echoed

(* What is read from ROM is the cartridge's bank 0 and the selected one.   *)
RomIsSeen ==
    \A x \in Addresses :
        /\ x \in Program!Fixed => load8(x) = Image[<<0, x>>]
        /\ x \in Program!Window => load8(x) = Image[<<ROM1_selector, x - BankSize>>]

LEMMA RomSeen == IInv => RomIsSeen
<1> SUFFICES ASSUME IInv, NEW x \in Addresses
             PROVE  /\ x \in Program!Fixed => load8(x) = Image[<<0, x>>]
                    /\ x \in Program!Window => load8(x) = Image[<<ROM1_selector, x - BankSize>>]
  BY DEF RomIsSeen
<1>1. /\ ROM_banks_n \in 0..MaxBanks /\ ViewShape /\ BankSize \in Nat \ {0} /\ x \in Nat
      /\ ROM1_selector \in Nat
  BY MapFacts DEF IInv, TypeOK, Addresses
<1>2. \A k \in Nat, r \in 0..(BankSize - 1) :
          k * BankSize + r \in 0..(ROM_banks_n * BankSize - 1)
            => cells[<<"ROM", k * BankSize + r>>] = Image[<<k, r>>]
  <2> SUFFICES ASSUME NEW k \in Nat, NEW r \in 0..(BankSize - 1),
                      k * BankSize + r \in 0..(ROM_banks_n * BankSize - 1)
               PROVE  cells[<<"ROM", k * BankSize + r>>] = Image[<<k, r>>]
    OBVIOUS
  <2> DEFINE i == k * BankSize + r
  <2>1. i \div BankSize = k /\ i % BankSize = r
    BY <1>1, QuotientUnique
  <2>2. cells[<<"ROM", i>>] = Image[<<i \div BankSize, i % BankSize>>]
    BY DEF IInv, RomIsPermanent
  <2>3. QED
    BY <2>1, <2>2
<1>3. CASE x \in Program!Fixed
  <2>1. Cell(x) = <<"ROM", x>> /\ x \in 0..(ROM_banks_n * BankSize - 1)
    BY <1>1, <1>3, KindOfAddress, CellFacts
  <2>2. x \in 0..(BankSize - 1) /\ 0 * BankSize + x = x
    BY <1>1, <1>3, SharedNames, MapFacts
  <2>3. cells[<<"ROM", x>>] = Image[<<0, x>>]
    BY <1>2, <2>1, <2>2
  <2>4. x \notin Program!Window
    BY <1>1, <2>2, SharedNames, MapFacts
  <2>5. QED
    BY <2>1, <2>3, <2>4 DEF load8
<1>4. CASE x \in Program!Window
  <2> DEFINE r == x - BankSize
             i == ROM1_selector * BankSize + r
  <2>1. Cell(x) = <<"ROM", i>> /\ i \in 0..(ROM_banks_n * BankSize - 1)
    <3>1. Cell(x) = <<"ROM", i>> /\ IsRom(x)
      BY <1>1, <1>4, KindOfAddress
    <3>2. Cell(x)[2] \in 0..(ROM_banks_n * BankSize - 1)
      BY <1>1, <3>1, CellFacts
    <3>3. Cell(x)[2] = i
      BY <3>1
    <3>4. QED
      BY <3>1, <3>2, <3>3
  <2>2. r \in 0..(BankSize - 1) /\ x \notin Program!Fixed
    BY <1>1, <1>4, SharedNames, MapFacts
  <2>3. cells[<<"ROM", i>>] = Image[<<ROM1_selector, r>>]
    BY <1>1, <1>2, <2>1, <2>2
  <2>4. QED
    BY <2>1, <2>2, <2>3 DEF load8
<1>5. QED
  BY <1>3, <1>4

LEMMA RomSeenNext == IInv' => RomIsSeen'
  BY RomSeen, PTL

LEMMA InitMapsToInit == Init => Program!Init
<1> SUFFICES ASSUME Init PROVE Program!Init
  OBVIOUS
<1>1. /\ IInv /\ ROM_banks_n \in 0..MaxBanks /\ ViewShape
      /\ ROM1_selector = IF ROM_banks_n > 1 THEN 1 ELSE 0
  BY InitEstablishesInv DEF IInv, TypeOK, Init
<1>2. ASSUME NEW x \in Addresses
      PROVE  load8(x) = IF x \in Program!Fixed THEN Image[<<0, x>>]
                        ELSE IF x \in Program!Window THEN Image[<<1, x - BankSize>>] ELSE 0
  <2>1. CASE x \in Program!Fixed
    BY <1>1, <2>1, RomSeen DEF RomIsSeen
  <2>2. CASE x \in Program!Window /\ x \notin Program!Fixed
    <3>1. ROM1_selector = 1
      BY <1>1, <2>2, SharedNames
    <3>2. QED
      BY <1>1, <2>2, <3>1, RomSeen DEF RomIsSeen
  <2>3. CASE x \notin Program!Fixed \cup Program!Window
    <3>1. ~IsRom(x)
      BY <1>1, <2>3, KindOfAddress
    <3>2. Cell(x) \in Cells /\ Cell(x)[1] = "internal"
      BY <1>1, <3>1, CellFacts
    <3>3. QED
      BY <2>3, <3>2 DEF load8, Init, InitialCells
  <2>4. QED
    BY <2>1, <2>2, <2>3
<1>3. QED
  BY <1>1, <1>2, SharedNames DEF Program!Init

(* Every byte stored is one write on the bus.                              *)
LEMMA StoreIsWrite ==
    ASSUME IInv, IInv', NEW a \in Addresses, NEW v \in Words, store8(a, v)
    PROVE  Program!Write(a, v)
<1> DEFINE n == ROM_banks_n
           now == [x \in Addresses |-> load8(x)]
<1>1. /\ n \in 0..MaxBanks /\ ViewShape /\ cells \in [Cells -> Words] /\ n' = n
      /\ BankSize \in Nat \ {0} /\ n \in Nat
  BY MapFacts, CartridgeAssumption DEF IInv, TypeOK, store8
<1>2. \A x \in Addresses : Cell(x) \in Cells
  BY <1>1, CellFacts
<1>3. CASE IsRom(a)
  <2>1. SwitchBank(a, v) \/ IgnoreStore(a, v)
    <3>1. a \notin Extent("IO_PORTS")
      BY <1>1, <1>3, DeviceCells, CellFacts
    <3>2. a \notin {DivPort, LyPort, DmaPort}
      BY <3>1, MapAssumption
    <3>3. QED
      BY <1>3, <3>2 DEF store8, TransferOam, ResetPort, StoreCell
  <2>2. ROM1_selector' \in {ROM1_selector} \cup 1..(n - 1)
    <3>1. CASE SwitchBank(a, v)
      BY <1>1, <3>1, BankIndexFacts DEF SwitchBank
    <3>2. CASE IgnoreStore(a, v)
      BY <3>2 DEF IgnoreStore
    <3>3. QED
      BY <2>1, <3>1, <3>2
  <2>3. ASSUME NEW x \in Addresses
        PROVE  load8(x)' = IF x \in Program!Window THEN Image[<<ROM1_selector', x - BankSize>>]
                           ELSE load8(x)
    <3>1. CASE x \in Program!Window
      <4>1. (x \in Program!Window)'
        BY <1>1, <3>1 DEF Program!Window, Program!Extent
      <4>2. (load8(x) = Image[<<ROM1_selector, x - BankSize>>])'
        BY <4>1, RomSeenNext DEF RomIsSeen
      <4>3. QED
        BY <3>1, <4>2
    <3>2. CASE x \notin Program!Window
      <4>1. SectionOf[x] \in Sections /\ x \in Extent(SectionOf[x])
        BY SectionFacts
      <4>2. view'[SectionOf[x]] = view[SectionOf[x]] /\ cells' = cells
        <5>1. CASE SwitchBank(a, v)
          <6>1. n > 1
            BY <1>1, <5>1, BankIndexFacts DEF SwitchBank
          <6>2. SectionOf[x] # "ROM_BANK_S"
            BY <3>2, <4>1, <6>1, SharedNames
          <6>3. view \in [Sections -> [block : {"internal", "ROM"}, base : Nat, readonly : BOOLEAN]]
            BY DEF IInv, TypeOK
          <6>4. QED
            BY <4>1, <5>1, <6>2, <6>3 DEF SwitchBank
        <5>2. CASE IgnoreStore(a, v)
          BY <5>2 DEF IgnoreStore
        <5>3. QED
          BY <2>1, <5>1, <5>2
      <4>3. QED
        BY <3>2, <4>2 DEF load8, Cell
    <3>3. QED
      BY <3>1, <3>2
  <2>4. a \in Program!Fixed \cup Program!Window
    BY <1>1, <1>3, KindOfAddress
  <2>5. now' = [x \in Addresses |->
                  IF x \in Program!Window THEN Image[<<ROM1_selector', x - BankSize>>] ELSE now[x]]
    BY <2>3
  <2>6. QED
    BY <1>1, <2>2, <2>4, <2>5, SharedNames DEF Program!Write, Program!WriteRom
<1>4. CASE ~IsRom(a)
  <2>1. TransferOam(a, v) \/ ResetPort(a) \/ StoreCell(a, v)
    BY <1>4 DEF store8, SwitchBank, IgnoreStore
  <2>2. UNCHANGED <<view, ROM1_selector>>
    BY <2>1 DEF TransferOam, ResetPort, StoreCell
  <2>3. \A x \in Addresses : load8(x)' = cells'[Cell(x)]
    BY <2>2 DEF load8, Cell
  <2>4. \A x \in Addresses : Cell(x) = Cell(a) <=> x \in Same[a]
    BY <1>1, <1>4, SharedCells
  <2>5. a \in {DivPort, LyPort, DmaPort} => Same[a] = {a}
    BY DevicesHaveNoEcho, MapAssumption
  <2>6. CASE StoreCell(a, v)
    <3>1. \A x \in Addresses : load8(x)' = IF x \in Same[a] THEN v ELSE load8(x)
      BY <1>1, <1>2, <2>3, <2>4, <2>6 DEF StoreCell, load8
    <3>2. now' = [x \in Addresses |-> IF x \in Same[a] THEN v ELSE now[x]]
      BY <3>1
    <3>3. a \notin Program!Fixed \cup Program!Window \cup {DivPort, LyPort, DmaPort}
      BY <1>1, <1>4, <2>6, KindOfAddress DEF StoreCell
    <3>4. QED
      BY <1>1, <2>2, <3>2, <3>3, SharedNames DEF Program!Write, Program!WriteRam
  <2>7. CASE ResetPort(a)
    <3>1. \A x \in Addresses : load8(x)' = IF x = a THEN 0 ELSE load8(x)
      BY <1>1, <1>2, <2>3, <2>4, <2>5, <2>7 DEF ResetPort, load8
    <3>2. now' = [now EXCEPT ![a] = 0]
      BY <3>1
    <3>3. a \in {DivPort, LyPort}
      BY <2>7 DEF ResetPort
    <3>4. QED
      BY <1>1, <2>2, <3>2, <3>3, SharedNames DEF Program!Write, Program!WriteReset
  <2>8. CASE TransferOam(a, v)
    <3> DEFINE table == Extent("SPRITE_ATTRIB_MEM")
               b == Begin["SPRITE_ATTRIB_MEM"]
               oam == {Cell(y) : y \in table}
    <3>1. \A x \in table : x \in Addresses
      <4>1. "SPRITE_ATTRIB_MEM" \in Sections
        BY DEF Sections
      <4>2. QED
        BY <4>1, MapFacts DEF Extent, Addresses
    <3>2. ASSUME NEW x \in Addresses
          PROVE  load8(x)' = IF x \in table THEN load8(v * Page + x - b)
                             ELSE IF x = DmaPort THEN 0 ELSE load8(x)
      <4>1. CASE x \in table
        <5>1. Cell(x) = <<"internal", x>>
          BY <1>1, <4>1, DeviceCells
        <5>2. Cell(x) \in oam /\ Cell(x)[2] = x
          BY <4>1, <5>1
        <5>3. cells'[Cell(x)] = load8(v * Page + Cell(x)[2] - b)
          BY <1>2, <2>8, <5>2 DEF TransferOam
        <5>4. QED
          BY <2>3, <4>1, <5>2, <5>3
      <4>2. CASE x \notin table
        <5>1. Cell(x) \notin oam
          <6>1. SUFFICES ASSUME NEW y \in table, Cell(x) = Cell(y) PROVE FALSE
            OBVIOUS
          <6>2. y \in Addresses /\ Cell(y) = <<"internal", y>> /\ Same[y] = {y}
            BY <1>1, <3>1, DeviceCells, DevicesHaveNoEcho
          <6>3. ~IsRom(y)
            BY <1>1, <6>2, CellFacts
          <6>4. x \in Same[y]
            BY <1>1, <6>1, <6>2, <6>3, SharedCells
          <6>5. QED
            BY <4>2, <6>2, <6>4
        <5>2. cells'[Cell(x)] = IF Cell(x) = Cell(a) THEN 0 ELSE load8(x)
          BY <1>2, <2>8, <5>1 DEF TransferOam, load8
        <5>3. a = DmaPort /\ (Cell(x) = Cell(a) <=> x = a)
          BY <2>4, <2>5, <2>8 DEF TransferOam
        <5>4. QED
          BY <2>3, <4>2, <5>2, <5>3
      <4>3. QED
        BY <4>1, <4>2
    <3>3. now' = [x \in Addresses |-> IF x \in table THEN now[v * Page + x - b]
                                      ELSE IF x = DmaPort THEN 0 ELSE now[x]]
      <4>1. \A x \in table : now[v * Page + x - b] = load8(v * Page + x - b)
        BY TransferSource
      <4>2. QED
        BY <3>2, <4>1
    <3>4. a = DmaPort
      BY <2>8 DEF TransferOam
    <3>5. QED
      BY <1>1, <2>2, <3>3, <3>4, SharedNames DEF Program!Write, Program!WriteTransfer
  <2>9. QED
    BY <2>1, <2>6, <2>7, <2>8
<1>5. QED
  BY <1>3, <1>4

LEMMA StepIsBusStep ==
    IInv /\ IInv' /\ [Next]_vars
      => [\E a \in Program!Addresses, v \in Program!Words : Program!Write(a, v)]_Program!busVars
<1> SUFFICES ASSUME IInv, IInv', [Next]_vars
             PROVE  [\E a \in Program!Addresses, v \in Program!Words : Program!Write(a, v)]_Program!busVars
  OBVIOUS
<1>1. ASSUME NEW a \in Addresses, NEW v \in Words, store8(a, v)
      PROVE  \E x \in Program!Addresses, w \in Program!Words : Program!Write(x, w)
  BY <1>1, StoreIsWrite, SharedNames
<1>2. Targets \subseteq Addresses /\ Values \subseteq Words
  BY ProgramAssumption
<1>3. CASE \E a \in Targets : TestBit(a)
  <2>1. PICK a \in Targets : TestBit(a)
    BY <1>3
  <2>2. a \in Addresses /\ load8(a) \in Words
    BY <1>2, CellFacts DEF IInv, TypeOK, load8
  <2>3. QED
    BY <1>1, <2>1, <2>2 DEF TestBit
<1>4. CASE \E a \in Targets, v \in Values : Store(a, v)
  BY <1>1, <1>2, <1>4 DEF Store
<1>5. CASE \E a \in Targets : \E lo, hi \in Values : StoreLow(a, lo, hi)
  BY <1>1, <1>2, <1>5 DEF StoreLow
<1>6. CASE StoreHigh
  <2>1. second.at \in Addresses /\ second.value \in Words
    BY DEF IInv, TypeOK
  <2>2. QED
    BY <1>1, <1>6, <2>1 DEF StoreHigh
<1>7. CASE UNCHANGED vars
  BY <1>7 DEF vars, Program!busVars, load8, Cell
<1>8. QED
  BY <1>3, <1>4, <1>5, <1>6, <1>7 DEF Next

(* The program sees a plain memory with a window, an echo and three special*)
(* ports: sections, attributes and pointers implement exactly that.        *)
THEOREM MemoryImplementsBus == Spec => BusImplemented
  BY InitMapsToInit, InvHolds, StepIsBusStep, PTL DEF Spec, BusImplemented, Program!Spec

=============================================================================
