------------------------------- MODULE CpuProofs -------------------------------
(***************************************************************************)
(* Theorems about the processor: what its arithmetic computes for every    *)
(* byte, word and carry; that the decoder builds the table its definitions *)
(* say; that no instruction leaves a register or the memory out of its     *)
(* range; and that calls, returns and interrupts find their way back.      *)
(***************************************************************************)
EXTENDS CpuPrograms, FiniteSetTheorems, TLAPS

(* The numbers a byte and a word hold, by their bounds.                    *)
IsByte(v) == v \in Nat /\ v < 256
IsWord(w) == w \in Nat /\ w < 65536

(* The outcome o of an addition is the sum s: the carry is what r lacks;   *)
(* of a subtraction, the difference s: the borrow is what r has too much.  *)
IsSum(o, s) ==
    IsByte(o.r) /\ o.C \in BOOLEAN /\ o.r + 256 * Bit(o.C) = s
IsDifference(o, s) ==
    IsByte(o.r) /\ o.C \in BOOLEAN /\ o.r = s + 256 * Bit(o.C)

-----------------------------------------------------------------------------
(* Digits, and what a sum or a difference of bytes wraps to.               *)

(* A carry counts for nought or one.                                       *)
LEMMA BitIsBinary ==
    ASSUME NEW c
    PROVE  Bit(c) \in {0, 1}
BY DEF Bit

(* The byte a sum or a difference of two bytes and a carry is stored as.   *)
LEMMA ByteWraps ==
    ASSUME NEW s \in Int, -256 <= s, s < 512
    PROVE  /\ s % 256 \in Nat /\ s % 256 < 256
           /\ s < 0 => s % 256 = s + 256
           /\ s >= 0 /\ s < 256 => s % 256 = s
           /\ s >= 256 => s % 256 = s - 256
BY SMT

(* A word is its two bytes.                                                *)
LEMMA WordBytes ==
    ASSUME NEW w, IsWord(w)
    PROVE  /\ IsByte(w % 256) /\ IsByte(w \div 256)
           /\ w = 256 * (w \div 256) + (w % 256)
BY SMT DEF IsByte, IsWord

(* A byte is its two halves.                                               *)
LEMMA ByteDigits ==
    ASSUME NEW v, IsByte(v)
    PROVE  /\ v % 16 \in Nat /\ v % 16 < 16 /\ v \div 16 \in Nat /\ v \div 16 < 16
           /\ v = 16 * (v \div 16) + (v % 16)
BY SMT DEF IsByte

-----------------------------------------------------------------------------
(* Addition and subtraction.                                               *)

(* ADC, whose carry compares the unwrapped sum, is exact for any carry in. *)
THEOREM AdcIsExact ==
    ASSUME NEW a, NEW b, NEW c \in BOOLEAN, IsByte(a), IsByte(b)
    PROVE  IsSum(ADC(a, b, c), a + b + Bit(c))
<1> DEFINE s == a + b + Bit(c)
           r == s % 256
<1>1. s \in Int /\ -256 <= s /\ s < 512 /\ s >= 0
  BY BitIsBinary, SMT DEF IsByte
<1>2. ADC(a, b, c).r = r /\ ADC(a, b, c).C = (s > r)
  BY DEF ADC, Outcome
<1> HIDE DEF s
<1>3. IsByte(r) /\ r + 256 * Bit(s > r) = s
  BY <1>1, ByteWraps, SMT DEF IsByte, Bit
<1>4. QED
  BY <1>2, <1>3 DEF IsSum, s

(* So is ADD, whose carry compares the wrapped sum with the operand.       *)
THEOREM AddIsExact ==
    ASSUME NEW a, NEW b, IsByte(a), IsByte(b)
    PROVE  IsSum(ADD(a, b), a + b)
<1> DEFINE s == a + b
           r == s % 256
<1>1. s \in Int /\ -256 <= s /\ s < 512 /\ s >= a /\ s - 256 < a /\ a \in Nat
  BY SMT DEF IsByte
<1>2. ADD(a, b).r = r /\ ADD(a, b).C = (r < a)
  BY DEF ADD, Outcome
<1> HIDE DEF s
<1>3. IsByte(r) /\ r + 256 * Bit(r < a) = s
  BY <1>1, ByteWraps, SMT DEF IsByte, Bit
<1>4. QED
  BY <1>2, <1>3 DEF IsSum, s

(* The borrow of SBC counts the borrow in.                                 *)
THEOREM SbcIsExact ==
    ASSUME NEW a, NEW b, NEW c \in BOOLEAN, IsByte(a), IsByte(b)
    PROVE  IsDifference(SBC(a, b, c), a - b - Bit(c))
<1> DEFINE s == a - b - Bit(c)
           r == s % 256
<1>1. s \in Int /\ -256 <= s /\ s < 256 /\ (b + Bit(c) > a <=> s < 0)
  BY BitIsBinary, SMT DEF IsByte
<1>2. SBC(a, b, c).r = r /\ SBC(a, b, c).C = (b + Bit(c) > a)
  BY DEF SBC, Outcome
<1> HIDE DEF s
<1>3. IsByte(r) /\ r = s + 256 * Bit(b + Bit(c) > a)
  BY <1>1, ByteWraps, SMT DEF IsByte, Bit
<1>4. QED
  BY <1>2, <1>3 DEF IsDifference, s

(* SUB is SBC with nothing borrowed.                                       *)
THEOREM SubIsExact ==
    ASSUME NEW a, NEW b, IsByte(a), IsByte(b)
    PROVE  IsDifference(SUB(a, b), a - b)
<1> DEFINE s == a - b
           r == s % 256
<1>1. s \in Int /\ -256 <= s /\ s < 256 /\ (b > a <=> s < 0)
  BY SMT DEF IsByte
<1>2. SUB(a, b).r = r /\ SUB(a, b).C = (b > a)
  BY DEF SUB, Outcome
<1> HIDE DEF s
<1>3. IsByte(r) /\ r = s + 256 * Bit(b > a)
  BY <1>1, ByteWraps, SMT DEF IsByte, Bit
<1>4. QED
  BY <1>2, <1>3 DEF IsDifference, s

(* A comparison (CP, which is SUB) orders bytes as numbers.                *)
THEOREM CompareOrders ==
    ASSUME NEW a, NEW b, IsByte(a), IsByte(b)
    PROVE  /\ SUB(a, b).C <=> a < b
           /\ SUB(a, b).Z <=> a = b
<1>1. a - b \in Int /\ -256 <= a - b /\ a - b < 256 /\ (b > a <=> a < b)
  BY SMT DEF IsByte
<1>2. (a - b) % 256 = 0 <=> a = b
  BY <1>1, ByteWraps, SMT DEF IsByte
<1>3. SUB(a, b).C = (b > a) /\ SUB(a, b).Z = ((a - b) % 256 = 0)
  BY DEF SUB, Outcome
<1>4. QED
  BY <1>1, <1>2, <1>3

(* INC and DEC undo each other and keep the carry, and each tells by Z and *)
(* H whether the byte, or its lower half, has come round.                  *)
THEOREM CountingKeepsCarry ==
    ASSUME NEW v, NEW F \in Flags, IsByte(v)
    PROVE  /\ IsByte(INC(v, F).r) /\ IsByte(DEC(v, F).r)
           /\ DEC(INC(v, F).r, F).r = v /\ INC(DEC(v, F).r, F).r = v
           /\ INC(v, F).C = F.C /\ DEC(v, F).C = F.C
           /\ INC(v, F).Z <=> v = 255
           /\ DEC(v, F).Z <=> v = 1
           /\ INC(v, F).H <=> INC(v, F).r % 16 = 0
           /\ DEC(v, F).H <=> DEC(v, F).r % 16 = 15
<1> DEFINE up == (v + 1) % 256
           down == (v - 1) % 256
<1>1. /\ IsByte(up) /\ up = (IF v = 255 THEN 0 ELSE v + 1)
      /\ IsByte(down) /\ down = (IF v = 0 THEN 255 ELSE v - 1)
  BY SMT DEF IsByte
<1>2. /\ INC(v, F).r = up /\ INC(v, F).C = F.C
      /\ INC(v, F).Z = (up = 0) /\ INC(v, F).H = (v % 16 = 15)
      /\ DEC(v, F).r = down /\ DEC(v, F).C = F.C
      /\ DEC(v, F).Z = (down = 0) /\ DEC(v, F).H = (v % 16 < 1)
  BY DEF INC, DEC, Outcome
<1>3. DEC(up, F).r = (up - 1) % 256 /\ INC(down, F).r = (down + 1) % 256
  BY DEF INC, DEC, Outcome
<1> HIDE DEF up, down
<1>4. (up - 1) % 256 = v /\ (down + 1) % 256 = v
  BY <1>1, SMT DEF IsByte
<1>5. (up = 0 <=> v = 255) /\ (down = 0 <=> v = 1)
  BY <1>1, SMT DEF IsByte
<1>6. (v % 16 = 15 <=> up % 16 = 0) /\ (v % 16 < 1 <=> down % 16 = 15)
  BY <1>1, SMT DEF IsByte
<1>7. /\ IsByte(INC(v, F).r) /\ IsByte(DEC(v, F).r)
      /\ DEC(INC(v, F).r, F).r = v /\ INC(DEC(v, F).r, F).r = v
  <2>1. DEC(up, F).r = v /\ INC(down, F).r = v
    BY <1>3, <1>4
  <2>2. QED
    BY <1>1, <1>2, <2>1, Zenon
<1>8. /\ INC(v, F).H <=> INC(v, F).r % 16 = 0
      /\ DEC(v, F).H <=> DEC(v, F).r % 16 = 15
  BY <1>2, <1>6, Zenon
<1>9. (INC(v, F).Z <=> v = 255) /\ (DEC(v, F).Z <=> v = 1)
  BY <1>2, <1>5, Zenon
<1>10. QED
  BY <1>2, <1>7, <1>8, <1>9, SMT

-----------------------------------------------------------------------------
(* Two bytes at a time: ADD or SUB on the lower, ADC or SBC on the higher. *)

AddLow(p, q)  == ADD(p % 256, q % 256)
AddHigh(p, q) == ADC(p \div 256, q \div 256, AddLow(p, q).C)
SubLow(p, q)  == SUB(p % 256, q % 256)
SubHigh(p, q) == SBC(p \div 256, q \div 256, SubLow(p, q).C)

(* Words added byte by byte are the sum, with the carry out of bit 15.     *)
THEOREM WordsAddByBytes ==
    ASSUME NEW p, NEW q, IsWord(p), IsWord(q)
    PROVE  /\ 256 * AddHigh(p, q).r + AddLow(p, q).r = (p + q) % 65536
           /\ AddHigh(p, q).C <=> p + q > 65535
<1> DEFINE p0 == p % 256
           p1 == p \div 256
           q0 == q % 256
           q1 == q \div 256
           l == AddLow(p, q).r
           h == AddHigh(p, q).r
           i == Bit(AddLow(p, q).C)
           j == Bit(AddHigh(p, q).C)
           w == (256 * h) + l
<1>1. /\ IsByte(p0) /\ IsByte(p1) /\ p = 256 * p1 + p0
      /\ IsByte(q0) /\ IsByte(q1) /\ q = 256 * q1 + q0
  BY WordBytes, SMT
<1>2. AddLow(p, q) = ADD(p0, q0) /\ AddHigh(p, q) = ADC(p1, q1, AddLow(p, q).C)
  BY Zenon DEF AddLow, AddHigh
<1> HIDE DEF p0, p1, q0, q1
<1>3. IsSum(AddLow(p, q), p0 + q0)
  BY <1>1, <1>2, AddIsExact, Zenon
<1>4. AddLow(p, q).C \in BOOLEAN
  BY <1>3, Zenon DEF IsSum
<1>5. IsSum(AddHigh(p, q), p1 + q1 + Bit(AddLow(p, q).C))
  <2>1. IsSum(ADC(p1, q1, AddLow(p, q).C), p1 + q1 + Bit(AddLow(p, q).C))
    BY <1>1, <1>4, AdcIsExact, SMT
  <2>2. QED
    BY <1>2, <2>1, Zenon
<1>6. IsByte(l) /\ IsByte(h) /\ l + 256 * i = p0 + q0 /\ h + 256 * j = p1 + q1 + i
      /\ AddHigh(p, q).C \in BOOLEAN
  BY <1>3, <1>5, Zenon DEF IsSum
<1>7. i \in {0, 1} /\ j \in {0, 1} /\ (j = 1 <=> AddHigh(p, q).C)
  BY SMT DEF Bit
<1> HIDE DEF i, j, l, h
<1>8. /\ w \in Nat /\ w < 65536 /\ p \in Nat /\ q \in Nat
      /\ w + 65536 * j = p + q
  BY <1>1, <1>6, <1>7, SMT DEF IsByte, IsWord
<1> HIDE DEF w
<1>9. w = (p + q) % 65536 /\ (j = 1 <=> p + q > 65535)
  <2>1. CASE j = 0
    BY <1>8, <2>1, SMT
  <2>2. CASE j = 1
    BY <1>8, <2>2, SMT
  <2>3. QED
    BY <1>7, <2>1, <2>2, SMT
<1>10. QED
  BY <1>7, <1>9, SMT DEF w, l, h

(* Words subtracted byte by byte are the difference, with the borrow of    *)
(* the whole.                                                              *)
THEOREM WordsSubtractByBytes ==
    ASSUME NEW p, NEW q, IsWord(p), IsWord(q)
    PROVE  /\ 256 * SubHigh(p, q).r + SubLow(p, q).r = (p - q) % 65536
           /\ SubHigh(p, q).C <=> p < q
<1> DEFINE p0 == p % 256
           p1 == p \div 256
           q0 == q % 256
           q1 == q \div 256
           l == SubLow(p, q).r
           h == SubHigh(p, q).r
           i == Bit(SubLow(p, q).C)
           j == Bit(SubHigh(p, q).C)
           w == (256 * h) + l
<1>1. /\ IsByte(p0) /\ IsByte(p1) /\ p = 256 * p1 + p0
      /\ IsByte(q0) /\ IsByte(q1) /\ q = 256 * q1 + q0
  BY WordBytes, SMT
<1>2. SubLow(p, q) = SUB(p0, q0) /\ SubHigh(p, q) = SBC(p1, q1, SubLow(p, q).C)
  BY Zenon DEF SubLow, SubHigh
<1> HIDE DEF p0, p1, q0, q1
<1>3. IsDifference(SubLow(p, q), p0 - q0)
  BY <1>1, <1>2, SubIsExact, Zenon
<1>4. SubLow(p, q).C \in BOOLEAN
  BY <1>3, Zenon DEF IsDifference
<1>5. IsDifference(SubHigh(p, q), p1 - q1 - Bit(SubLow(p, q).C))
  <2>1. IsDifference(SBC(p1, q1, SubLow(p, q).C), p1 - q1 - Bit(SubLow(p, q).C))
    BY <1>1, <1>4, SbcIsExact, SMT
  <2>2. QED
    BY <1>2, <2>1, Zenon
<1>6. IsByte(l) /\ IsByte(h) /\ l = p0 - q0 + 256 * i /\ h = p1 - q1 - i + 256 * j
      /\ SubHigh(p, q).C \in BOOLEAN
  BY <1>3, <1>5, Zenon DEF IsDifference
<1>7. i \in {0, 1} /\ j \in {0, 1} /\ (j = 1 <=> SubHigh(p, q).C)
  BY SMT DEF Bit
<1> HIDE DEF i, j, l, h
<1>8. /\ w \in Nat /\ w < 65536 /\ p \in Nat /\ q \in Nat
      /\ w + q = p + 65536 * j
  BY <1>1, <1>6, <1>7, SMT DEF IsByte, IsWord
<1> HIDE DEF w
<1>9. w = (p - q) % 65536 /\ (j = 1 <=> p < q)
  <2>1. CASE j = 0
    BY <1>8, <2>1, SMT
  <2>2. CASE j = 1
    BY <1>8, <2>2, SMT
  <2>3. QED
    BY <1>7, <2>1, <2>2, SMT
<1>10. QED
  BY <1>7, <1>9, SMT DEF w, l, h

(* ADD HL, which adds words at once, agrees with the byte instructions on  *)
(* the sum, on the carry and on the half carry, which is that of the       *)
(* higher bytes with the carry of the lower ones taken in.                 *)
THEOREM AddHlAddsByBytes ==
    ASSUME NEW p, NEW q, NEW F \in Flags, IsWord(p), IsWord(q)
    PROVE  /\ ADD_HL(p, q, F).r = 256 * AddHigh(p, q).r + AddLow(p, q).r
           /\ ADD_HL(p, q, F).C <=> AddHigh(p, q).C
           /\ ADD_HL(p, q, F).H <=> AddHigh(p, q).H
<1> DEFINE s == (p + q) % 65536
           wraps == s < p
           halfWraps == (p % 4096) + (q % 4096) >= 4096
<1>1. /\ ADD_HL(p, q, F).r = s
      /\ ADD_HL(p, q, F).C = wraps
      /\ ADD_HL(p, q, F).H = halfWraps
  <2> HIDE DEF s, wraps, halfWraps
  <2>1. ADD_HL(p, q, F) = [r |-> s, Z |-> F.Z, N |-> FALSE, H |-> halfWraps, C |-> wraps]
    BY SMT DEF ADD_HL, s, wraps, halfWraps
  <2>2. ADD_HL(p, q, F).r = s
    BY <2>1
  <2>3. ADD_HL(p, q, F).C = wraps
    BY <2>1
  <2>4. ADD_HL(p, q, F).H = halfWraps
    BY <2>1
  <2>5. QED
    BY <2>2, <2>3, <2>4
<1>2. wraps <=> p + q > 65535
  <2>1. CASE p + q > 65535
    BY <2>1, SMT DEF IsWord
  <2>2. CASE ~(p + q > 65535)
    BY <2>2, SMT DEF IsWord
  <2>3. QED
    BY <2>1, <2>2
<1> HIDE DEF s, wraps, halfWraps
<1>3. ADD_HL(p, q, F).r = 256 * AddHigh(p, q).r + AddLow(p, q).r
  BY <1>1, WordsAddByBytes, SMT DEF s
<1>4. ADD_HL(p, q, F).C <=> AddHigh(p, q).C
  <2>1. AddHigh(p, q).C <=> p + q > 65535
    BY WordsAddByBytes, SMT
  <2>2. QED
    BY <1>1, <1>2, <2>1, SMT
<1>5. ADD_HL(p, q, F).H <=> AddHigh(p, q).H
  <2> DEFINE p0 == p % 256
             p1 == p \div 256
             q0 == q % 256
             q1 == q \div 256
             c  == AddLow(p, q).C
  <2>1. /\ IsByte(p0) /\ IsByte(p1) /\ p = 256 * p1 + p0
        /\ IsByte(q0) /\ IsByte(q1) /\ q = 256 * q1 + q0
    BY WordBytes, SMT
  <2>2. AddLow(p, q) = ADD(p0, q0)
    BY Zenon DEF AddLow
  <2>3. AddHigh(p, q).H <=> (p1 % 16) + (q1 % 16) + Bit(c) >= 16
    BY Zenon DEF AddHigh, ADC, Outcome
  <2> HIDE DEF p0, p1, q0, q1
  <2>4. IsSum(AddLow(p, q), p0 + q0)
    BY <2>1, <2>2, AddIsExact, Zenon
  <2> DEFINE l == AddLow(p, q).r
             i == Bit(c)
  <2>5. IsByte(l) /\ l + 256 * i = p0 + q0
    BY <2>4, Zenon DEF IsSum
  <2>6. i \in {0, 1}
    BY BitIsBinary, Zenon
  <2> HIDE DEF l, i, c
  <2>7. /\ p % 4096 = 256 * (p1 % 16) + p0
        /\ q % 4096 = 256 * (q1 % 16) + q0
    BY <2>1, SMT DEF IsByte
  <2>8. p1 % 16 \in Nat /\ q1 % 16 \in Nat
    BY <2>1, SMT DEF IsByte
  <2>9. halfWraps <=> ((p1 % 16) + (q1 % 16) + i >= 16)
    BY <2>1, <2>5, <2>6, <2>7, <2>8, SMT DEF IsByte, halfWraps
  <2>10. QED
    BY <1>1, <2>3, <2>9, SMT DEF i
<1>6. QED
  BY <1>3, <1>4, <1>5

(* ADD SP and LD HL,SP+n take the immediate byte as signed, yet the lower  *)
(* byte and the flags are those of adding it unsigned.                     *)
THEOREM AddSpAddsByte ==
    ASSUME NEW SP, NEW u, IsWord(SP), IsByte(u)
    PROVE  /\ ADD_SP(SP, u).r % 256 = ADD(SP % 256, u).r
           /\ ADD_SP(SP, u).C = ADD(SP % 256, u).C
           /\ ADD_SP(SP, u).H = ADD(SP % 256, u).H
<1> DEFINE p0 == SP % 256
           p1 == SP \div 256
           n  == Signed(u)
           r  == (SP + n) % 65536
           s  == (p0 + u) % 256
<1>1. IsByte(p0) /\ IsByte(p1) /\ SP = 256 * p1 + p0
  BY WordBytes, SMT
<1>2. n \in Int /\ (n = u \/ n = u - 256)
  BY SMT DEF Signed, IsByte
<1>3. /\ ADD_SP(SP, u).r = r
      /\ ADD_SP(SP, u).C = ((SP + u) % 256 < p0)
      /\ ADD_SP(SP, u).H = ((p0 % 16) + (u % 16) >= 16)
  <2>1. SP % 16 = p0 % 16
    BY <1>1, SMT DEF IsByte
  <2>2. QED
    BY <2>1 DEF ADD_SP
<1>4. /\ ADD(p0, u).r = s
      /\ ADD(p0, u).C = (s < p0)
      /\ ADD(p0, u).H = ((p0 % 16) + (u % 16) >= 16)
  BY Zenon DEF ADD, Outcome
<1> HIDE DEF p0, p1, n
<1>5. (SP + u) % 256 = s
  BY <1>1, SMT DEF IsByte
<1>6. r % 256 = s
  BY <1>1, <1>2, SMT DEF IsByte
<1> HIDE DEF r, s
<1>7. QED
  BY <1>3, <1>4, <1>5, <1>6, Zenon DEF p0

-----------------------------------------------------------------------------
(* Decimal numbers: a digit in each half of a byte.                        *)

IsDecimal(v) == IsByte(v) /\ v % 16 <= 9 /\ v \div 16 <= 9
Dec(v) == 10 * (v \div 16) + (v % 16)

(* A decimal byte is its two digits.                                       *)
LEMMA DecimalDigits ==
    ASSUME NEW v, IsDecimal(v)
    PROVE  /\ v \div 16 \in Nat /\ v \div 16 <= 9 /\ v % 16 \in Nat /\ v % 16 <= 9
           /\ v = 16 * (v \div 16) + (v % 16)
BY ByteDigits, SMT DEF IsDecimal

(* Two digits make a decimal byte.                                         *)
LEMMA DecimalOfDigits ==
    ASSUME NEW T \in Nat, NEW L \in Nat, T <= 9, L <= 9
    PROVE  IsDecimal(16 * T + L) /\ Dec(16 * T + L) = 10 * T + L
<1>1. (16 * T + L) % 16 = L /\ (16 * T + L) \div 16 = T
  BY SMT
<1>2. QED
  BY <1>1, SMT DEF IsDecimal, IsByte, Dec

(* Two digits added to two, t the sum of the higher and l of the lower     *)
(* digits, as a byte r with a carry j and flags F; and what d is to be     *)
(* after the correction.                                                   *)
DigitsAdded(F, r, j, t, l) ==
    /\ t \in Nat /\ t <= 18 /\ l \in Nat /\ l <= 19
    /\ r \in Nat /\ r < 256 /\ j \in {0, 1} /\ r + 256 * j = 16 * t + l
    /\ ~F.N /\ (F.H <=> l >= 16) /\ (F.C <=> j = 1)
SumCorrected(d, t, l) ==
    LET T == IF l > 9 THEN t + 1 ELSE t
        L == IF l > 9 THEN l - 10 ELSE l
    IN  /\ d.r = 16 * (IF T > 9 THEN T - 10 ELSE T) + L
        /\ d.C <=> T > 9

(* The same of two digits subtracted from two.                             *)
DigitsSubtracted(F, r, j, t, l) ==
    /\ t \in Int /\ -9 <= t /\ t <= 9 /\ l \in Int /\ -10 <= l /\ l <= 9
    /\ r \in Nat /\ r < 256 /\ j \in {0, 1} /\ r = 16 * t + l + 256 * j
    /\ F.N /\ (F.H <=> l < 0) /\ (F.C <=> j = 1)
DifferenceCorrected(d, t, l) ==
    LET T == IF l < 0 THEN t - 1 ELSE t
        L == IF l < 0 THEN l + 10 ELSE l
    IN  /\ d.r = 16 * (IF T < 0 THEN T + 10 ELSE T) + L
        /\ d.C <=> T < 0

(* DAA corrects a sum: it carries from digit to digit and out of the byte. *)
LEMMA DaaOfSum ==
    ASSUME NEW F, NEW r, NEW j, NEW t, NEW l, DigitsAdded(F, r, j, t, l)
    PROVE  SumCorrected(DAA(r, F), t, l)
<1>0. /\ t \in Nat /\ t <= 18 /\ l \in Nat /\ l <= 19
      /\ r \in Nat /\ r < 256 /\ j \in {0, 1} /\ r + 256 * j = 16 * t + l
      /\ ~F.N /\ (F.H <=> l >= 16) /\ (F.C <=> j = 1)
  BY SMT DEF DigitsAdded
<1> DEFINE low == IF r % 16 > 9 \/ F.H THEN 6 ELSE 0
           high == IF r + low > 159 \/ F.C THEN 96 ELSE 0
           sum == r + ((low + high) % 256)
           T == IF l > 9 THEN t + 1 ELSE t
           L == IF l > 9 THEN l - 10 ELSE l
           carries == F.C \/ (sum \div 256) % 2 = 1
<1>1. DAA(r, F).r = sum % 256 /\ DAA(r, F).C = carries
  BY <1>0 DEF DAA, Outcome
<1>2. low = IF l > 9 THEN 6 ELSE 0
  <2>1. CASE l >= 16
    BY <1>0, <2>1, SMT
  <2>2. CASE l < 16
    <3>1. r % 16 = l
      BY <1>0, <2>2, SMT
    <3>2. QED
      BY <1>0, <2>2, <3>1, SMT
  <2>3. QED
    BY <1>0, <2>1, <2>2, SMT
<1> HIDE DEF low
<1>3. /\ r + low + 256 * j = 16 * T + L /\ T \in Nat /\ T <= 19 /\ L \in Nat /\ L <= 9
      /\ low \in Nat /\ low <= 6
  BY <1>0, <1>2, SMT
<1> HIDE DEF T, L
<1>4. high = IF T > 9 THEN 96 ELSE 0
  <2>1. CASE j = 0
    BY <1>0, <1>3, <2>1, SMT
  <2>2. CASE j = 1
    BY <1>0, <1>3, <2>2, SMT
  <2>3. QED
    BY <1>0, <2>1, <2>2, SMT
<1> HIDE DEF high
<1>5. sum = r + low + high
  BY <1>0, <1>3, <1>4, SMT
<1> HIDE DEF sum
<1>6. sum % 256 = 16 * (IF T > 9 THEN T - 10 ELSE T) + L
  BY <1>0, <1>3, <1>4, <1>5, SMT
<1>7. carries <=> T > 9
  <2>1. CASE T > 9 /\ j = 0
    <3>1. sum \div 256 = 1
      BY <1>0, <1>3, <1>4, <1>5, <2>1, SMT
    <3>2. QED
      BY <1>0, <2>1, <3>1, SMT
  <2>2. CASE T > 9 /\ j = 1
    BY <1>0, <2>2, SMT
  <2>3. CASE ~(T > 9)
    <3>1. j = 0 /\ sum \div 256 = 0
      BY <1>0, <1>3, <1>4, <1>5, <2>3, SMT
    <3>2. QED
      BY <1>0, <2>3, <3>1, SMT
  <2>4. QED
    BY <1>0, <2>1, <2>2, <2>3, SMT
<1> HIDE DEF carries
<1>8. QED
  BY <1>0, <1>1, <1>6, <1>7, SMT DEF T, L, SumCorrected

(* DAA corrects a difference: the borrows, each taken off sixteen, come    *)
(* off ten.                                                                *)
LEMMA DaaOfDifference ==
    ASSUME NEW F, NEW r, NEW j, NEW t, NEW l, DigitsSubtracted(F, r, j, t, l)
    PROVE  DifferenceCorrected(DAA(r, F), t, l)
<1>0. /\ t \in Int /\ -9 <= t /\ t <= 9 /\ l \in Int /\ -10 <= l /\ l <= 9
      /\ r \in Nat /\ r < 256 /\ j \in {0, 1} /\ r = 16 * t + l + 256 * j
      /\ F.N /\ (F.H <=> l < 0) /\ (F.C <=> j = 1)
  BY SMT DEF DigitsSubtracted
<1> DEFINE low == IF F.H THEN 250 ELSE 0
           high == IF F.C THEN 160 ELSE 0
           sum == r + ((low + high) % 256)
           T == IF l < 0 THEN t - 1 ELSE t
           L == IF l < 0 THEN l + 10 ELSE l
<1>1. DAA(r, F).r = sum % 256 /\ DAA(r, F).C = F.C
  BY <1>0 DEF DAA, Outcome
<1>2. low = IF l < 0 THEN 250 ELSE 0
  BY <1>0, SMT
<1>3. 16 * t + l = 16 * T + L + (IF l < 0 THEN 6 ELSE 0)
      /\ T \in Int /\ -10 <= T /\ T <= 9 /\ L \in Nat /\ L <= 9
  BY <1>0, SMT
<1>4. j = 1 <=> T < 0
  BY <1>0, <1>3, SMT
<1>5. high = IF T < 0 THEN 160 ELSE 0
  BY <1>0, <1>4, SMT
<1> HIDE DEF low, high, T, L
<1>6. (low + high) % 256 = IF l < 0 /\ T < 0 THEN 154 ELSE low + high
  BY <1>0, <1>2, <1>5, SMT
<1>7. sum % 256 = 16 * (IF T < 0 THEN T + 10 ELSE T) + L
  <2>1. CASE l < 0 /\ T < 0
    BY <1>0, <1>3, <1>4, <1>6, <2>1, SMT
  <2>2. CASE l < 0 /\ ~(T < 0)
    BY <1>0, <1>2, <1>3, <1>4, <1>5, <1>6, <2>2, SMT
  <2>3. CASE ~(l < 0) /\ T < 0
    BY <1>0, <1>2, <1>3, <1>4, <1>5, <1>6, <2>3, SMT
  <2>4. CASE ~(l < 0) /\ ~(T < 0)
    BY <1>0, <1>2, <1>3, <1>4, <1>5, <1>6, <2>4, SMT
  <2>5. QED
    BY <1>0, <2>1, <2>2, <2>3, <2>4
<1> HIDE DEF sum
<1>8. DAA(r, F).C <=> T < 0
  BY <1>0, <1>1, <1>4
<1>9. QED
  BY <1>0, <1>1, <1>7, <1>8, SMT DEF T, L, DifferenceCorrected

(* DAA after ADC of two decimal numbers is their decimal sum, whatever     *)
(* was carried in, with the carry to the next two digits.                  *)
THEOREM DaaAfterAdc ==
    ASSUME NEW a, NEW b, NEW c \in BOOLEAN, IsDecimal(a), IsDecimal(b)
    PROVE  LET o == ADC(a, b, c)
               d == DAA(o.r, o)
           IN  /\ IsDecimal(d.r)
               /\ Dec(d.r) + 100 * Bit(d.C) = Dec(a) + Dec(b) + Bit(c)
<1> DEFINE o  == ADC(a, b, c)
           d  == DAA(o.r, o)
           k  == Bit(c)
           j  == Bit(o.C)
           t  == (a \div 16) + (b \div 16)
           l  == (a % 16) + (b % 16) + k
           T  == IF l > 9 THEN t + 1 ELSE t
           L  == IF l > 9 THEN l - 10 ELSE l
           T0 == IF T > 9 THEN T - 10 ELSE T
<1>1. k \in {0, 1} /\ j \in {0, 1} /\ (o.C <=> j = 1)
  BY SMT DEF Bit
<1>2. IsSum(o, a + b + k)
  BY AdcIsExact, SMT DEF IsDecimal
<1>3. IsByte(o.r) /\ o.r + 256 * j = a + b + k
  BY <1>2, Zenon DEF IsSum
<1>4. o.N = FALSE /\ o.H = (l >= 16)
  BY Zenon DEF ADC, Outcome
<1> HIDE DEF o, j, k
<1>5. /\ t \in Nat /\ t <= 18 /\ l \in Nat /\ l <= 19 /\ o.r + 256 * j = 16 * t + l
      /\ Dec(a) + Dec(b) + k = 10 * t + l
  BY <1>1, <1>3, DecimalDigits, SMT DEF IsByte, Dec
<1> HIDE DEF t, l
<1>6. d.r = 16 * T0 + L /\ (d.C <=> T > 9)
  <2>1. DigitsAdded(o, o.r, j, t, l)
    <3>1. ~o.N /\ (o.H <=> l >= 16)
      BY <1>4, <1>5, Zenon
    <3>2. QED
      BY <1>1, <1>3, <1>5, <3>1, Zenon DEF DigitsAdded, IsByte
  <2>2. SumCorrected(DAA(o.r, o), t, l)
    BY <2>1, DaaOfSum, Zenon
  <2>3. QED
    BY <2>2, Zenon DEF SumCorrected
<1>7. /\ T0 \in Nat /\ T0 <= 9 /\ L \in Nat /\ L <= 9
      /\ 10 * T0 + L + (IF T > 9 THEN 100 ELSE 0) = 10 * t + l
  BY <1>5, SMT
<1>8. Bit(d.C) = IF T > 9 THEN 1 ELSE 0
  BY <1>6, SMT DEF Bit
<1> HIDE DEF d, T, L, T0
<1>9. IsDecimal(d.r) /\ Dec(d.r) = 10 * T0 + L
  BY <1>6, <1>7, DecimalOfDigits, SMT
<1>10. Dec(d.r) + 100 * Bit(d.C) = Dec(a) + Dec(b) + k
  BY <1>5, <1>7, <1>8, <1>9, SMT
<1>11. QED
  BY <1>9, <1>10, Zenon DEF d, o, k

(* DAA after SBC is their decimal difference, with the borrow.             *)
THEOREM DaaAfterSbc ==
    ASSUME NEW a, NEW b, NEW c \in BOOLEAN, IsDecimal(a), IsDecimal(b)
    PROVE  LET o == SBC(a, b, c)
               d == DAA(o.r, o)
           IN  /\ IsDecimal(d.r)
               /\ Dec(d.r) = Dec(a) - Dec(b) - Bit(c) + 100 * Bit(d.C)
<1> DEFINE o  == SBC(a, b, c)
           d  == DAA(o.r, o)
           k  == Bit(c)
           j  == Bit(o.C)
           t  == (a \div 16) - (b \div 16)
           l  == (a % 16) - (b % 16) - k
           T  == IF l < 0 THEN t - 1 ELSE t
           L  == IF l < 0 THEN l + 10 ELSE l
           T0 == IF T < 0 THEN T + 10 ELSE T
<1>1. k \in {0, 1} /\ j \in {0, 1} /\ (o.C <=> j = 1)
  BY SMT DEF Bit
<1>2. IsDifference(o, a - b - k)
  BY SbcIsExact, SMT DEF IsDecimal
<1>3. IsByte(o.r) /\ o.r = a - b - k + 256 * j
  BY <1>2, Zenon DEF IsDifference
<1>4. o.N = TRUE /\ o.H = (a % 16 < (b % 16) + k)
  BY Zenon DEF SBC, Outcome
<1> HIDE DEF o, j, k
<1>5. /\ t \in Int /\ -9 <= t /\ t <= 9 /\ l \in Int /\ -10 <= l /\ l <= 9
      /\ o.r = 16 * t + l + 256 * j
      /\ Dec(a) - Dec(b) - k = 10 * t + l
      /\ a % 16 < (b % 16) + k <=> l < 0
  BY <1>1, <1>3, DecimalDigits, SMT DEF IsByte, Dec
<1> HIDE DEF t, l
<1>6. d.r = 16 * T0 + L /\ (d.C <=> T < 0)
  <2>1. DigitsSubtracted(o, o.r, j, t, l)
    <3>1. o.N /\ (o.H <=> l < 0)
      BY <1>4, <1>5, Zenon
    <3>2. QED
      BY <1>1, <1>3, <1>5, <3>1, Zenon DEF DigitsSubtracted, IsByte
  <2>2. DifferenceCorrected(DAA(o.r, o), t, l)
    BY <2>1, DaaOfDifference, Zenon
  <2>3. QED
    BY <2>2, Zenon DEF DifferenceCorrected
<1>7. /\ T0 \in Nat /\ T0 <= 9 /\ L \in Nat /\ L <= 9
      /\ 10 * T0 + L = 10 * t + l + (IF T < 0 THEN 100 ELSE 0)
  BY <1>5, SMT
<1>8. Bit(d.C) = IF T < 0 THEN 1 ELSE 0
  BY <1>6, SMT DEF Bit
<1> HIDE DEF d, T, L, T0
<1>9. IsDecimal(d.r) /\ Dec(d.r) = 10 * T0 + L
  BY <1>6, <1>7, DecimalOfDigits, SMT
<1>10. Dec(d.r) = Dec(a) - Dec(b) - k + 100 * Bit(d.C)
  BY <1>5, <1>7, <1>8, <1>9, SMT
<1>11. QED
  BY <1>9, <1>10, Zenon DEF d, o, k

-----------------------------------------------------------------------------
(* Rotates and shifts.                                                     *)

(* A byte by its top bit and by its bottom bit, and what doubling leaves.  *)
LEMMA ByteEnds ==
    ASSUME NEW v, IsByte(v)
    PROVE  /\ v \div 128 \in {0, 1} /\ v % 2 \in {0, 1}
           /\ v \div 2 \in Nat /\ v \div 2 < 128 /\ v = 2 * (v \div 2) + (v % 2)
           /\ v % 128 \in Nat /\ v % 128 < 128 /\ v = 128 * (v \div 128) + (v % 128)
           /\ (2 * v) % 256 = 2 * (v % 128)
BY SMT DEF IsByte

(* A flag set by testing a bit is that bit.                                *)
LEMMA BitOfTest ==
    ASSUME NEW b \in {0, 1}, NEW c, c = (b = 1)
    PROVE  Bit(c) = b
<1>1. CASE b = 0
  BY <1>1, Zenon DEF Bit
<1>2. CASE b = 1
  BY <1>2, Zenon DEF Bit
<1>3. QED
  BY <1>1, <1>2

(* The half of a number and the bit shifted out of it.                     *)
LEMMA HalfAndBit ==
    ASSUME NEW n \in Int, NEW b \in {0, 1}, NEW p, p = 2 * n + b
    PROVE  p \div 2 = n /\ p % 2 = b
BY SMT

(* SLA on the lower byte, then RL on the higher, doubles a word; the carry *)
(* is bit 15.                                                              *)
THEOREM ShiftsDouble ==
    ASSUME NEW p, IsWord(p)
    PROVE  LET l == SLA(p % 256)
               h == RL(p \div 256, l.C)
           IN  /\ 256 * h.r + l.r = (2 * p) % 65536
               /\ h.C <=> p > 32767
<1> DEFINE p0 == p % 256
           p1 == p \div 256
<1>1. IsByte(p0) /\ IsByte(p1) /\ p = 256 * p1 + p0
  BY WordBytes, SMT
<1> DEFINE l == SLA(p0)
           h == RL(p1, l.C)
           i == p0 \div 128
           j == p1 \div 128
           m == p0 % 128
           n == p1 % 128
<1> HIDE DEF p0, p1
<1>2. /\ i \in {0, 1} /\ m \in Nat /\ m < 128 /\ p0 = 128 * i + m
      /\ j \in {0, 1} /\ n \in Nat /\ n < 128 /\ p1 = 128 * j + n
      /\ (2 * p0) % 256 = 2 * m /\ (2 * p1) % 256 = 2 * n
  BY <1>1, ByteEnds, SMT
<1>3. l.r = (2 * p0) % 256 /\ l.C = (i = 1)
  BY Zenon DEF SLA, Top, Outcome
<1>4. h.r = ((2 * p1) % 256) + Bit(l.C) /\ h.C = (j = 1)
  BY Zenon DEF RL, Top, Outcome
<1> HIDE DEF l, h, i, j, m, n
<1>5. Bit(l.C) = i
  BY <1>2, <1>3, BitOfTest, Zenon
<1>6. l.r = 2 * m /\ h.r = 2 * n + i
  BY <1>2, <1>3, <1>4, <1>5, Zenon
<1> DEFINE w == 256 * h.r + l.r
<1>7. /\ w \in Nat /\ w < 65536 /\ w + 65536 * j = 2 * p
      /\ p \in Nat /\ p = 32768 * j + 256 * n + p0 /\ 256 * n + p0 < 32768 /\ 256 * n + p0 >= 0
  BY <1>1, <1>2, <1>6, SMT DEF IsByte
<1> HIDE DEF w
<1>8. w = (2 * p) % 65536
  <2>1. CASE j = 0
    BY <1>7, <2>1, SMT
  <2>2. CASE j = 1
    BY <1>7, <2>2, SMT
  <2>3. QED
    BY <1>2, <2>1, <2>2
<1>9. j = 1 <=> p > 32767
  BY <1>1, <1>2, <1>7, SMT DEF IsByte
<1>10. h.C <=> p > 32767
  <2>1. h.C <=> j = 1
    BY <1>4, Zenon
  <2>2. QED
    BY <1>9, <2>1, SMT
<1>11. QED
  BY <1>8, <1>10, SMT DEF w, h, l, p0, p1

(* SRL or SRA on the higher byte, then RR on the lower, halves a word,     *)
(* unsigned or signed; the carry is the bit shifted out.                   *)
THEOREM ShiftsHalve ==
    ASSUME NEW p, IsWord(p)
    PROVE  LET u == SRL(p \div 256)
               s == SRA(p \div 256)
               l == RR(p % 256, u.C)
           IN  /\ s.C = u.C
               /\ 256 * u.r + l.r = p \div 2
               /\ 256 * s.r + l.r = (p \div 2) + 32768 * (p \div 32768)
               /\ l.C <=> p % 2 = 1
<1> DEFINE p0 == p % 256
           p1 == p \div 256
<1>1. IsByte(p0) /\ IsByte(p1) /\ p = 256 * p1 + p0
  BY WordBytes, SMT
<1> DEFINE u == SRL(p1)
           s == SRA(p1)
           l == RR(p0, u.C)
           i == p1 % 2
           k == p0 % 2
           j == p1 \div 128
           m == p0 \div 2
           n == p1 \div 2
<1> HIDE DEF p0, p1
<1>2. /\ i \in {0, 1} /\ n \in Nat /\ p1 = 2 * n + i
      /\ k \in {0, 1} /\ m \in Nat /\ p0 = 2 * m + k
      /\ j \in {0, 1} /\ p1 % 128 \in Nat /\ p1 % 128 < 128 /\ p1 = 128 * j + (p1 % 128)
  BY <1>1, ByteEnds, SMT
<1>3. /\ u.r = n /\ u.C = (i = 1)
      /\ s.r = n + 128 * j /\ s.C = (i = 1)
  BY Zenon DEF SRL, SRA, Bottom, Outcome
<1>4. l.r = m + 128 * Bit(u.C) /\ l.C = (k = 1)
  BY Zenon DEF RR, Bottom, Outcome
<1> HIDE DEF u, s, l, i, j, k, m, n
<1>5. Bit(u.C) = i
  BY <1>2, <1>3, BitOfTest, Zenon
<1> DEFINE q == 256 * n + 128 * i + m
<1>6. q \in Int /\ p = 2 * q + k
  BY <1>1, <1>2, SMT
<1> HIDE DEF q
<1>7. p \div 2 = q /\ p % 2 = k
  BY <1>2, <1>6, HalfAndBit, Zenon
<1>8. p \div 32768 = j
  <2> DEFINE d == 256 * (p1 % 128) + p0
  <2>1. d \in Nat /\ d < 32768 /\ p = 32768 * j + d
    BY <1>1, <1>2, SMT DEF IsByte
  <2> HIDE DEF d
  <2>2. QED
    BY <1>2, <2>1, SMT
<1>9. l.r = m + 128 * i
  BY <1>4, <1>5, Zenon
<1>10. 256 * u.r + l.r = p \div 2
  BY <1>2, <1>3, <1>7, <1>9, SMT DEF q
<1>11. 256 * s.r + l.r = (p \div 2) + 32768 * (p \div 32768)
  BY <1>2, <1>3, <1>7, <1>8, <1>9, SMT DEF q
<1>12. s.C = u.C /\ (l.C <=> p % 2 = 1)
  BY <1>3, <1>4, <1>7, Zenon
<1>13. QED
  BY <1>10, <1>11, <1>12, SMT DEF u, s, l, p0, p1

(* A rotate one way undoes one the other way, through the carry or around, *)
(* and SWAP undoes itself.                                                 *)
THEOREM RotatesUndo ==
    ASSUME NEW v, NEW c \in BOOLEAN, IsByte(v)
    PROVE  /\ RRC(RLC(v).r).r = v /\ RLC(RRC(v).r).r = v
           /\ RR(RL(v, c).r, RL(v, c).C).r = v
           /\ RR(RL(v, c).r, RL(v, c).C).C = c
           /\ RL(RR(v, c).r, RR(v, c).C).r = v
           /\ RL(RR(v, c).r, RR(v, c).C).C = c
           /\ SWAP(SWAP(v).r).r = v
<1> DEFINE top  == v \div 128
           low  == v % 2
           rest == v % 128
           half == v \div 2
           k    == Bit(c)
           Left(n, b)  == 2 * n + b
           Right(n, b) == n + 128 * b
<1>1. /\ top \in {0, 1} /\ rest \in Nat /\ rest < 128 /\ v = 128 * top + rest
      /\ low \in {0, 1} /\ half \in Nat /\ half < 128 /\ v = 2 * half + low
      /\ (2 * v) % 256 = 2 * rest
  BY ByteEnds, SMT
<1>2. k \in {0, 1} /\ (k = 1) = c
  BY BitIsBinary, SMT DEF Bit
<1>3. /\ RLC(v).r = Left(rest, top)
      /\ RL(v, c).r = Left(rest, k) /\ RL(v, c).C = (top = 1)
      /\ RRC(v).r = Right(half, low)
      /\ RR(v, c).r = Right(half, k) /\ RR(v, c).C = (low = 1)
  BY <1>1, Zenon DEF RLC, RRC, RL, RR, Top, Bottom, Outcome
<1> HIDE DEF top, low, rest, half, k
<1>4. Bit(RL(v, c).C) = top /\ Bit(RR(v, c).C) = low
  BY <1>1, <1>3, BitOfTest, Zenon
(* Rotated right, a byte Left(rest, b) gives Right(rest, b), and the other *)
(* way round.                                                              *)
<1>5. ASSUME NEW b \in {0, 1}, NEW d
      PROVE  /\ RRC(Left(rest, b)).r = Right(rest, b)
             /\ RR(Left(rest, b), d).r = Right(rest, Bit(d))
             /\ RR(Left(rest, b), d).C = (b = 1)
  <2> DEFINE w == Left(rest, b)
  <2>1. w \div 2 = rest /\ w % 2 = b
    BY <1>1, SMT
  <2> HIDE DEF w
  <2>2. RRC(w).r = Right(rest, b) /\ RR(w, d).r = Right(rest, Bit(d)) /\ RR(w, d).C = (b = 1)
    BY <2>1, Zenon DEF RRC, RR, Bottom, Outcome
  <2>3. QED
    BY <2>2, Zenon DEF w
<1>6. ASSUME NEW b \in {0, 1}, NEW d
      PROVE  /\ RLC(Right(half, b)).r = Left(half, b)
             /\ RL(Right(half, b), d).r = Left(half, Bit(d))
             /\ RL(Right(half, b), d).C = (b = 1)
  <2> DEFINE w == Right(half, b)
  <2>1. w \div 128 = b /\ (2 * w) % 256 = 2 * half
    <3>1. CASE b = 0
      BY <1>1, <3>1, SMT
    <3>2. CASE b = 1
      BY <1>1, <3>2, SMT
    <3>3. QED
      BY <3>1, <3>2
  <2> HIDE DEF w
  <2>2. RLC(w).r = Left(half, b) /\ RL(w, d).r = Left(half, Bit(d)) /\ RL(w, d).C = (b = 1)
    BY <2>1, Zenon DEF RLC, RL, Top, Outcome
  <2>3. QED
    BY <2>2, Zenon DEF w
<1>7. Right(rest, top) = v /\ Left(half, low) = v
  BY <1>1, SMT
<1> HIDE DEF Left, Right
<1>8. RRC(RLC(v).r).r = v
  <2>1. RRC(Left(rest, top)).r = Right(rest, top)
    BY <1>1, <1>5, Zenon
  <2>2. QED
    BY <1>3, <1>7, <2>1, Zenon
<1>9. RLC(RRC(v).r).r = v
  <2>1. RLC(Right(half, low)).r = Left(half, low)
    BY <1>1, <1>6, Zenon
  <2>2. QED
    BY <1>3, <1>7, <2>1, Zenon
<1>10. RR(RL(v, c).r, RL(v, c).C).r = v /\ RR(RL(v, c).r, RL(v, c).C).C = c
  <2> DEFINE o == RL(v, c)
  <2>1. o.r = Left(rest, k) /\ Right(rest, Bit(o.C)) = v
    BY <1>3, <1>4, <1>7, Zenon
  <2> HIDE DEF o
  <2>2. /\ RR(Left(rest, k), o.C).r = Right(rest, Bit(o.C))
        /\ RR(Left(rest, k), o.C).C = (k = 1)
    BY <1>2, <1>5, Zenon
  <2>3. RR(o.r, o.C).r = v /\ RR(o.r, o.C).C = (k = 1)
    BY <2>1, <2>2, Zenon
  <2>4. QED
    BY <1>2, <2>3, Zenon DEF o
<1>11. RL(RR(v, c).r, RR(v, c).C).r = v /\ RL(RR(v, c).r, RR(v, c).C).C = c
  <2> DEFINE o == RR(v, c)
  <2>1. o.r = Right(half, k) /\ Left(half, Bit(o.C)) = v
    BY <1>3, <1>4, <1>7, Zenon
  <2> HIDE DEF o
  <2>2. /\ RL(Right(half, k), o.C).r = Left(half, Bit(o.C))
        /\ RL(Right(half, k), o.C).C = (k = 1)
    BY <1>2, <1>6, Zenon
  <2>3. RL(o.r, o.C).r = v /\ RL(o.r, o.C).C = (k = 1)
    BY <2>1, <2>2, Zenon
  <2>4. QED
    BY <1>2, <2>3, Zenon DEF o
<1>12. SWAP(SWAP(v).r).r = v
  <2> DEFINE p == v \div 16
             q == v % 16
             w == 16 * q + p
  <2>1. SWAP(v).r = w /\ SWAP(w).r = 16 * (w % 16) + (w \div 16)
    BY Zenon DEF SWAP, Outcome
  <2>2. p \in Nat /\ p < 16 /\ q \in Nat /\ v = 16 * p + q
    BY ByteDigits, Zenon
  <2> HIDE DEF p, q
  <2>3. w % 16 = p /\ w \div 16 = q
    BY <2>2, SMT
  <2> HIDE DEF w
  <2>4. QED
    BY <2>1, <2>2, <2>3, Zenon
<1>13. QED
  BY <1>8, <1>9, <1>10, <1>11, <1>12

-----------------------------------------------------------------------------
(* Bits.                                                                   *)

(* The n-th bit of a byte has the weight 2^n.                              *)
LEMMA EachBit ==
    ASSUME NEW v
    PROVE  /\ 0 \in BitsOf(v) <=> (v \div 1) % 2 = 1
           /\ 1 \in BitsOf(v) <=> (v \div 2) % 2 = 1
           /\ 2 \in BitsOf(v) <=> (v \div 4) % 2 = 1
           /\ 3 \in BitsOf(v) <=> (v \div 8) % 2 = 1
           /\ 4 \in BitsOf(v) <=> (v \div 16) % 2 = 1
           /\ 5 \in BitsOf(v) <=> (v \div 32) % 2 = 1
           /\ 6 \in BitsOf(v) <=> (v \div 64) % 2 = 1
           /\ 7 \in BitsOf(v) <=> (v \div 128) % 2 = 1
BY DEF BitsOf, Weight, Weights

(* A byte is the sum of its digits.                                        *)
LEMMA DigitsSum ==
    ASSUME NEW v, IsByte(v)
    PROVE v = ((v \div 1) % 2) + 2 * ((v \div 2) % 2) + 4 * ((v \div 4) % 2)
              + 8 * ((v \div 8) % 2) + 16 * ((v \div 16) % 2) + 32 * ((v \div 32) % 2)
              + 64 * ((v \div 64) % 2) + 128 * ((v \div 128) % 2)
BY SMT DEF IsByte

(* A byte and the set of its bits are the same thing.                      *)
THEOREM BytesAreBits ==
    /\ \A v : IsByte(v) => ByteOf(BitsOf(v)) = v
    /\ \A S : IsByte(ByteOf(S)) /\ BitsOf(ByteOf(S)) = S \cap (0..7)
<1> DEFINE d(n, S) == Bit(n \in S)
<1>1. \A n, S : d(n, S) \in {0, 1} /\ (d(n, S) = 1 <=> n \in S)
  BY DEF Bit
<1>2. \A S : ByteOf(S) = d(0, S) + 2 * d(1, S) + 4 * d(2, S) + 8 * d(3, S) + 16 * d(4, S)
                         + 32 * d(5, S) + 64 * d(6, S) + 128 * d(7, S)
  BY Zenon DEF ByteOf
<1> HIDE DEF d
<1>3. ASSUME NEW v, IsByte(v) PROVE ByteOf(BitsOf(v)) = v
  <2> DEFINE B == BitsOf(v)
  <2>1. /\ d(0, B) = (v \div 1) % 2 /\ d(1, B) = (v \div 2) % 2
        /\ d(2, B) = (v \div 4) % 2 /\ d(3, B) = (v \div 8) % 2
        /\ d(4, B) = (v \div 16) % 2 /\ d(5, B) = (v \div 32) % 2
        /\ d(6, B) = (v \div 64) % 2 /\ d(7, B) = (v \div 128) % 2
    <3>1. \A n \in Int : n % 2 \in {0, 1}
      BY SMT
    <3>2. /\ v \div 1 \in Int /\ v \div 2 \in Int /\ v \div 4 \in Int /\ v \div 8 \in Int
          /\ v \div 16 \in Int /\ v \div 32 \in Int /\ v \div 64 \in Int /\ v \div 128 \in Int
      BY <1>3, SMT DEF IsByte
    <3>3. QED
      BY <1>1, <3>1, <3>2, EachBit
  <2>2. ByteOf(B) = d(0, B) + 2 * d(1, B) + 4 * d(2, B) + 8 * d(3, B) + 16 * d(4, B)
                    + 32 * d(5, B) + 64 * d(6, B) + 128 * d(7, B)
    BY <1>2
  <2>3. QED
    BY <1>3, <2>1, <2>2, DigitsSum, SMT
<1>4. ASSUME NEW S PROVE IsByte(ByteOf(S)) /\ BitsOf(ByteOf(S)) = S \cap (0..7)
  <2> DEFINE v == ByteOf(S)
  <2>1. /\ IsByte(v)
        /\ (v \div 1) % 2 = d(0, S) /\ (v \div 2) % 2 = d(1, S)
        /\ (v \div 4) % 2 = d(2, S) /\ (v \div 8) % 2 = d(3, S)
        /\ (v \div 16) % 2 = d(4, S) /\ (v \div 32) % 2 = d(5, S)
        /\ (v \div 64) % 2 = d(6, S) /\ (v \div 128) % 2 = d(7, S)
    <3>1. v = d(0, S) + 2 * d(1, S) + 4 * d(2, S) + 8 * d(3, S) + 16 * d(4, S)
              + 32 * d(5, S) + 64 * d(6, S) + 128 * d(7, S)
      BY <1>2
    <3>2. PICK a \in {0, 1}, b \in {0, 1}, c \in {0, 1}, e \in {0, 1},
               f \in {0, 1}, g \in {0, 1}, h \in {0, 1}, i \in {0, 1} :
            /\ d(0, S) = a /\ d(1, S) = b /\ d(2, S) = c /\ d(3, S) = e
            /\ d(4, S) = f /\ d(5, S) = g /\ d(6, S) = h /\ d(7, S) = i
      BY <1>1
    <3>3. v = a + 2 * b + 4 * c + 8 * e + 16 * f + 32 * g + 64 * h + 128 * i
      BY <3>1, <3>2
    <3> HIDE DEF v
    <3>4. IsByte(v)
      BY <3>3, SMT DEF IsByte
    <3>5. /\ (v \div 1) % 2 = a /\ (v \div 2) % 2 = b
          /\ (v \div 4) % 2 = c /\ (v \div 8) % 2 = e
      BY <3>3, SMT
    <3>6. /\ (v \div 16) % 2 = f /\ (v \div 32) % 2 = g
          /\ (v \div 64) % 2 = h /\ (v \div 128) % 2 = i
      BY <3>3, SMT
    <3>7. QED
      BY <3>2, <3>4, <3>5, <3>6
  <2> HIDE DEF v
  <2>2. /\ 0 \in BitsOf(v) <=> 0 \in S
        /\ 1 \in BitsOf(v) <=> 1 \in S
        /\ 2 \in BitsOf(v) <=> 2 \in S
        /\ 3 \in BitsOf(v) <=> 3 \in S
        /\ 4 \in BitsOf(v) <=> 4 \in S
        /\ 5 \in BitsOf(v) <=> 5 \in S
        /\ 6 \in BitsOf(v) <=> 6 \in S
        /\ 7 \in BitsOf(v) <=> 7 \in S
    BY <1>1, <2>1, EachBit
  <2>3. BitsOf(v) \subseteq 0..7
    BY DEF BitsOf
  <2>4. \A n \in 0..7 : n \in {0, 1, 2, 3, 4, 5, 6, 7}
    BY SMT
  <2>5. \A n \in 0..7 : n \in BitsOf(v) <=> n \in S
    BY <2>2, <2>4
  <2>6. BitsOf(v) = S \cap (0..7)
    BY <2>3, <2>5
  <2>7. QED
    BY <2>1, <2>6 DEF v
<1>5. QED
  BY <1>3, <1>4

(* Bytes with the same bits are the same.                                  *)
LEMMA SameBits ==
    ASSUME NEW v, NEW w, IsByte(v), IsByte(w), BitsOf(v) = BitsOf(w)
    PROVE  v = w
BY BytesAreBits

(* AND, OR, XOR and CPL work on each bit on its own.                       *)
THEOREM LogicIsBitwise ==
    ASSUME NEW a, NEW b, IsByte(a), IsByte(b), NEW F \in Flags
    PROVE  /\ IsByte(AND(a, b).r) /\ BitsOf(AND(a, b).r) = BitsOf(a) \cap BitsOf(b)
           /\ IsByte(OR(a, b).r)  /\ BitsOf(OR(a, b).r) = BitsOf(a) \cup BitsOf(b)
           /\ IsByte(XOR(a, b).r)
           /\ BitsOf(XOR(a, b).r) = (BitsOf(a) \ BitsOf(b)) \cup (BitsOf(b) \ BitsOf(a))
           /\ IsByte(CPL(a, F).r) /\ BitsOf(CPL(a, F).r) = (0..7) \ BitsOf(a)
<1>1. BitsOf(a) \subseteq 0..7 /\ BitsOf(b) \subseteq 0..7
  BY DEF BitsOf
<1>2. /\ AND(a, b).r = ByteOf(BitsOf(a) \cap BitsOf(b))
      /\ OR(a, b).r = ByteOf(BitsOf(a) \cup BitsOf(b))
      /\ XOR(a, b).r = ByteOf((BitsOf(a) \cup BitsOf(b)) \ (BitsOf(a) \cap BitsOf(b)))
  BY DEF AND, OR, XOR, Outcome
<1>3. CPL(a, F).r = 255 - a
  BY DEF CPL
<1>4. IsByte(255 - a) /\ BitsOf(255 - a) = (0..7) \ BitsOf(a)
  <2> DEFINE S == (0..7) \ BitsOf(a)
             d(n, T) == Bit(n \in T)
  <2>1. \A n \in 0..7 : d(n, S) = 1 - d(n, BitsOf(a)) /\ d(n, BitsOf(a)) \in {0, 1}
    BY DEF Bit
  <2>2. \A T : ByteOf(T) = d(0, T) + 2 * d(1, T) + 4 * d(2, T) + 8 * d(3, T) + 16 * d(4, T)
                           + 32 * d(5, T) + 64 * d(6, T) + 128 * d(7, T)
    BY Zenon DEF ByteOf
  <2> HIDE DEF d
  <2>3. /\ 0 \in 0..7 /\ 1 \in 0..7 /\ 2 \in 0..7 /\ 3 \in 0..7
        /\ 4 \in 0..7 /\ 5 \in 0..7 /\ 6 \in 0..7 /\ 7 \in 0..7
    BY SMT
  <2> HIDE DEF S
  <2>4. ByteOf(S) = 255 - ByteOf(BitsOf(a))
    BY <2>1, <2>2, <2>3, SMT
  <2>5. ByteOf(BitsOf(a)) = a /\ IsByte(ByteOf(S)) /\ BitsOf(ByteOf(S)) = S \cap (0..7)
    BY BytesAreBits
  <2>6. QED
    BY <2>4, <2>5 DEF S
<1>5. QED
  BY <1>1, <1>2, <1>3, <1>4, BytesAreBits

(* XOR with a byte twice restores it, so three of them exchange two bytes. *)
THEOREM XorExchanges ==
    ASSUME NEW a, NEW b, IsByte(a), IsByte(b)
    PROVE  LET m == XOR(a, b).r IN XOR(m, b).r = a /\ XOR(a, m).r = b
<1> DEFINE m == XOR(a, b).r
<1> PICK F \in Flags : TRUE
  BY [Z |-> TRUE, N |-> TRUE, H |-> TRUE, C |-> TRUE] \in Flags DEF Flags
<1>1. IsByte(m) /\ BitsOf(m) = (BitsOf(a) \ BitsOf(b)) \cup (BitsOf(b) \ BitsOf(a))
  BY LogicIsBitwise
<1> HIDE DEF m
<1>2. /\ IsByte(XOR(m, b).r)
      /\ BitsOf(XOR(m, b).r) = (BitsOf(m) \ BitsOf(b)) \cup (BitsOf(b) \ BitsOf(m))
      /\ IsByte(XOR(a, m).r)
      /\ BitsOf(XOR(a, m).r) = (BitsOf(a) \ BitsOf(m)) \cup (BitsOf(m) \ BitsOf(a))
  BY <1>1, LogicIsBitwise
<1>3. BitsOf(XOR(m, b).r) = BitsOf(a) /\ BitsOf(XOR(a, m).r) = BitsOf(b)
  BY <1>1, <1>2
<1>4. XOR(m, b).r = a /\ XOR(a, m).r = b
  BY <1>2, <1>3, SameBits
<1>5. QED
  BY <1>4 DEF m

(* AND is the complement of OR on complements: one mask both ways.         *)
THEOREM MasksBothWays ==
    ASSUME NEW a, NEW b, IsByte(a), IsByte(b), NEW F \in Flags, NEW G \in Flags, NEW H \in Flags
    PROVE  AND(a, b).r = CPL(OR(CPL(a, F).r, CPL(b, G).r).r, H).r
<1> DEFINE na == CPL(a, F).r
           nb == CPL(b, G).r
           o == OR(na, nb).r
<1>1. /\ IsByte(na) /\ BitsOf(na) = (0..7) \ BitsOf(a)
      /\ IsByte(nb) /\ BitsOf(nb) = (0..7) \ BitsOf(b)
  BY LogicIsBitwise
<1>2. IsByte(o) /\ BitsOf(o) = BitsOf(na) \cup BitsOf(nb)
  BY <1>1, LogicIsBitwise
<1>3. IsByte(CPL(o, H).r) /\ BitsOf(CPL(o, H).r) = (0..7) \ BitsOf(o)
  BY <1>2, LogicIsBitwise
<1>4. BitsOf(a) \subseteq 0..7 /\ BitsOf(b) \subseteq 0..7
  BY DEF BitsOf
<1>5. IsByte(AND(a, b).r) /\ BitsOf(AND(a, b).r) = BitsOf(a) \cap BitsOf(b)
  BY LogicIsBitwise
<1> HIDE DEF na, nb, o
<1>6. BitsOf(CPL(o, H).r) = BitsOf(AND(a, b).r)
  BY <1>1, <1>2, <1>3, <1>4, <1>5
<1>7. AND(a, b).r = CPL(o, H).r
  BY <1>3, <1>5, <1>6, SameBits
<1>8. QED
  BY <1>7 DEF o, na, nb

(* SET and RES change the one bit they name and no flag, and BIT tells it  *)
(* by Z and changes nothing but flags.                                     *)
THEOREM BitsAreOneByOne ==
    ASSUME NEW v, NEW n \in 0..7, NEW F \in Flags, IsByte(v)
    PROVE  /\ IsByte(SET(v, n, F).r) /\ BitsOf(SET(v, n, F).r) = BitsOf(v) \cup {n}
           /\ IsByte(RES(v, n, F).r) /\ BitsOf(RES(v, n, F).r) = BitsOf(v) \ {n}
           /\ \A f \in {"Z", "N", "H", "C"} : SET(v, n, F)[f] = F[f] /\ RES(v, n, F)[f] = F[f]
           /\ BIT(v, n, F).r = v /\ BIT(v, n, F).C = F.C
           /\ ~BIT(SET(v, n, F).r, n, F).Z /\ BIT(RES(v, n, F).r, n, F).Z
<1>1. BitsOf(v) \subseteq 0..7
  BY DEF BitsOf
<1>2. SET(v, n, F).r = ByteOf(BitsOf(v) \cup {n}) /\ RES(v, n, F).r = ByteOf(BitsOf(v) \ {n})
  BY DEF SET, RES
<1>3. /\ IsByte(SET(v, n, F).r) /\ BitsOf(SET(v, n, F).r) = BitsOf(v) \cup {n}
      /\ IsByte(RES(v, n, F).r) /\ BitsOf(RES(v, n, F).r) = BitsOf(v) \ {n}
  BY <1>1, <1>2, BytesAreBits
<1>4. \A f \in {"Z", "N", "H", "C"} : SET(v, n, F)[f] = F[f] /\ RES(v, n, F)[f] = F[f]
  BY DEF SET, RES, Flags
<1>5. \A b : BIT(b, n, F).r = b /\ BIT(b, n, F).C = F.C /\ BIT(b, n, F).Z = (n \notin BitsOf(b))
  BY DEF BIT
<1>6. QED
  BY <1>3, <1>4, <1>5

-----------------------------------------------------------------------------
(* The processor's registers and memory.                                   *)

(* The bytes of the register file, all its names and the pairs.            *)
Halfs == {"A", "F", "B", "C", "D", "E", "H", "L"}
Registers == Halfs \cup {"SP", "PC"}
Pairs == {"AF", "BC", "DE", "HL"}

IsRegs(r) == r \in [Registers -> Words] /\ \A n \in Halfs : r[n] \in Bytes

Ram == RamBegin..65535

IsMem(m) ==
    /\ m = [a \in DOMAIN m |-> m[a]]
    /\ DOMAIN m \subseteq Ram
    /\ \A a \in DOMAIN m : m[a] \in Bytes

(* A processor whose registers have their widths and whose memory is RAM.  *)
IsCpu(c) ==
    /\ c = [r |-> c.r, mem |-> c.mem, IME |-> c.IME, ticks |-> c.ticks]
    /\ IsRegs(c.r) /\ IsMem(c.mem) /\ c.IME \in BOOLEAN /\ c.ticks \in Nat

(* What a store and what an assignment to registers leave alone.           *)
SameButMem(c, d) == d.r = c.r /\ d.IME = c.IME /\ d.ticks = c.ticks
SameButRegs(c, d) == d.mem = c.mem /\ d.IME = c.IME /\ d.ticks = c.ticks

(* Membership in an interval by its bounds.                                *)
LEMMA Interval ==
    ASSUME NEW m \in Int, NEW n \in Int, NEW v
    PROVE  v \in m..n <=> v \in Int /\ m <= v /\ v <= n
BY SMT

(* Bytes, words and addresses of RAM by their bounds.                      *)
LEMMA ByteBounds ==
    ASSUME NEW v
    PROVE  /\ v \in Bytes <=> IsByte(v)
           /\ v \in Words <=> IsWord(v)
           /\ v \in Ram <=> IsWord(v) /\ ~(v < RamBegin)
<1> DEFINE b == 255
           w == 65535
           m == RamBegin
<1>1. b \in Int /\ w \in Int /\ m \in Int
  BY DEF RamBegin
<1>2. Bytes = 0..b /\ Words = 0..w
  BY DEF Bytes, Words
<1>3. /\ v \in Int /\ 0 <= v /\ v <= b <=> IsByte(v)
      /\ v \in Int /\ 0 <= v /\ v <= w <=> IsWord(v)
      /\ v \in Int /\ m <= v /\ v <= w <=> IsWord(v) /\ ~(v < m)
  BY SMT DEF IsByte, IsWord, RamBegin
<1>4. Ram = m..w
  BY DEF Ram
<1> HIDE DEF b, w, m
<1>5. /\ v \in 0..b <=> v \in Int /\ 0 <= v /\ v <= b
      /\ v \in 0..w <=> v \in Int /\ 0 <= v /\ v <= w
      /\ v \in m..w <=> v \in Int /\ m <= v /\ v <= w
  BY <1>1, Interval, SMT
<1>6. QED
  BY <1>2, <1>3, <1>4, <1>5, Zenon DEF m

(* A register of a byte holds what one of a word may.                      *)
LEMMA BytesAreWords == Bytes \subseteq Words
<1>1. \A v : IsByte(v) => IsWord(v)
  BY SMT DEF IsByte, IsWord
<1>2. QED
  BY <1>1, ByteBounds

(* What a number is stored as.                                             *)
LEMMA Wraps ==
    ASSUME NEW v \in Int
    PROVE  /\ v % 256 \in Bytes /\ v % 65536 \in Words
           /\ (v % 65536) \div 256 \in Bytes
           /\ v \in Bytes => v % 65536 = v
           /\ v \in Words => v % 65536 = v
<1>1. /\ IsByte(v % 256) /\ IsWord(v % 65536) /\ IsByte((v % 65536) \div 256)
      /\ IsByte(v) => v % 65536 = v
      /\ IsWord(v) => v % 65536 = v
  BY SMT DEF IsByte, IsWord
<1>2. QED
  BY <1>1, ByteBounds

(* A byte is read wherever PC, SP or HL point,                             *)
LEMMA Load8Type ==
    ASSUME NEW c, IsCpu(c), NEW a \in Int
    PROVE  load8(c, a) \in Bytes
<1>1. \A at \in DOMAIN Rom : Rom[at] \in Bytes
  BY RomAssumption
<1>2. \A at \in DOMAIN c.mem : c.mem[at] \in Bytes
  BY DEF IsCpu, IsMem
<1>3. 0 \in Bytes
  BY DEF Bytes
<1>4. QED
  BY <1>1, <1>2, <1>3 DEF load8

(* and a byte written leaves memory and registers as they should be.       *)
LEMMA Store8Type ==
    ASSUME NEW c, IsCpu(c), NEW a \in Int, NEW v \in Bytes
    PROVE  IsCpu(store8(c, a, v)) /\ SameButMem(c, store8(c, a, v))
<1> DEFINE at == a % 65536
           m == Stored(c.mem, at, v)
<1>1. at \in Words
  BY Wraps
<1>2. CASE at < RamBegin
  BY <1>2 DEF store8, SameButMem
<1>3. CASE ~(at < RamBegin)
  <2>1. store8(c, a, v) = [c EXCEPT !.mem = m]
    BY <1>3 DEF store8
  <2>2. at \in Ram
    BY <1>1, <1>3, ByteBounds
  <2> HIDE DEF at
  <2>3. IsMem(m)
    <3>1. DOMAIN m = {at} \cup DOMAIN c.mem /\ m = [b \in DOMAIN m |-> m[b]]
      BY DEF Stored
    <3>2. m[at] = v /\ \A b \in DOMAIN c.mem : m[b] \in {v, c.mem[b]}
      BY DEF Stored
    <3>3. DOMAIN c.mem \subseteq Ram /\ \A b \in DOMAIN c.mem : c.mem[b] \in Bytes
      BY DEF IsCpu, IsMem
    <3> HIDE DEF m
    <3>4. QED
      BY <2>2, <3>1, <3>2, <3>3 DEF IsMem
  <2> HIDE DEF m
  <2>4. store8(c, a, v) = [r |-> c.r, mem |-> m, IME |-> c.IME, ticks |-> c.ticks]
    BY <2>1 DEF IsCpu
  <2>5. QED
    BY <2>3, <2>4 DEF IsCpu, SameButMem
<1>4. QED
  BY <1>2, <1>3

(* What Set makes of the registers.                                        *)
LEMMA SetType ==
    ASSUME NEW c, IsCpu(c), NEW name \in Registers \cup Pairs, NEW v \in Int,
           name \in Halfs => v \in Bytes
    PROVE  IsCpu(Set(c, name, v)) /\ SameButRegs(c, Set(c, name, v))
<1> DEFINE d == Set(c, name, v)
           word == v % 65536
           high == (v % 65536) \div 256
           low  == v % 256
<1>a. IsWord(word) /\ IsByte(high) /\ IsByte(low) /\ (IsByte(v) => IsByte(word))
  BY SMT DEF IsByte, IsWord
<1> HIDE DEF word, high, low
<1>0. word \in Words /\ high \in Bytes /\ low \in Bytes /\ (v \in Bytes => word \in Bytes)
  BY <1>a, ByteBounds
<1>1. CASE name \in Registers
  <2> DEFINE r == [c.r EXCEPT ![name] = word]
  <2>1. name \notin DOMAIN Halves
    BY <1>1 DEF Halves, Registers, Halfs
  <2>2. d = [c EXCEPT !.r = r]
    BY <2>1 DEF Set, Assigned, word
  <2>3. IsRegs(r)
    BY <1>0, <1>1 DEF IsCpu, IsRegs, Registers
  <2> HIDE DEF r, d
  <2>4. d = [r |-> r, mem |-> c.mem, IME |-> c.IME, ticks |-> c.ticks]
    BY <2>2 DEF IsCpu
  <2>5. QED
    BY <2>3, <2>4 DEF IsCpu, SameButRegs, d
<1>2. CASE name \in Pairs
  <2> DEFINE hi == Halves[name][1]
             lo == Halves[name][2]
             r == [c.r EXCEPT ![hi] = high, ![lo] = low]
  <2>1. name \in DOMAIN Halves /\ hi \in Halfs /\ lo \in Halfs
    BY <1>2 DEF Halves, Pairs, Halfs
  <2> HIDE DEF hi, lo
  <2>2. d = [c EXCEPT !.r = r]
    BY <2>1 DEF Set, Assigned, hi, lo, word, high, low
  <2>3. IsRegs(r)
    <3>1. Halfs \subseteq Registers /\ hi \in Registers /\ lo \in Registers
      BY <2>1 DEF Registers
    <3>2. high \in Words /\ low \in Words
      BY <1>0, BytesAreWords
    <3>3. QED
      BY <1>0, <2>1, <3>1, <3>2 DEF IsCpu, IsRegs
  <2> HIDE DEF r, d
  <2>4. d = [r |-> r, mem |-> c.mem, IME |-> c.IME, ticks |-> c.ticks]
    BY <2>2 DEF IsCpu
  <2>5. QED
    BY <2>3, <2>4 DEF IsCpu, SameButRegs, d
<1>3. QED
  BY <1>1, <1>2

(* The names of operands.                                                  *)
LEMMA WordHalves ==
    ASSUME NEW w \in Words
    PROVE  w % 256 \in Bytes /\ w \div 256 \in Bytes /\ w \in Int
<1> DEFINE lo == w % 256
           hi == w \div 256
<1>1. IsWord(w)
  BY ByteBounds
<1>2. IsByte(lo) /\ IsByte(hi) /\ w \in Int
  BY <1>1, SMT DEF IsByte, IsWord
<1> HIDE DEF lo, hi
<1>3. lo \in Bytes /\ hi \in Bytes
  BY <1>2, ByteBounds
<1>4. QED
  BY <1>2, <1>3 DEF lo, hi

(* Two bytes make a word.                                                  *)
LEMMA TwoBytes ==
    ASSUME NEW a \in Bytes, NEW b \in Bytes
    PROVE  256 * a + b \in Words /\ a + 256 * b \in Words /\ a \in Int
<1> DEFINE w == 256 * a + b
           u == a + 256 * b
<1>1. IsByte(a) /\ IsByte(b)
  BY ByteBounds
<1>2. IsWord(w) /\ IsWord(u) /\ a \in Int
  BY <1>1, SMT DEF IsByte, IsWord
<1> HIDE DEF w, u
<1>3. w \in Words /\ u \in Words
  BY <1>2, ByteBounds
<1>4. QED
  BY <1>2, <1>3 DEF w, u

(* So are words read                                                       *)
LEMMA Load16Type ==
    ASSUME NEW c, IsCpu(c), NEW a \in Int
    PROVE  load16(c, a) \in Words
<1>1. a + 1 \in Int
  OBVIOUS
<1>2. load8(c, a) \in Bytes /\ load8(c, a + 1) \in Bytes
  BY <1>1, Load8Type
<1>3. QED
  BY <1>2, TwoBytes DEF load16

(* and written.                                                            *)
LEMMA Store16Type ==
    ASSUME NEW c, IsCpu(c), NEW a \in Int, NEW w \in Words
    PROVE  IsCpu(store16(c, a, w)) /\ SameButMem(c, store16(c, a, w))
<1> DEFINE d == store8(c, a, w % 256)
           e == store8(d, a + 1, w \div 256)
<1>1. a + 1 \in Int /\ w % 256 \in Bytes /\ w \div 256 \in Bytes
  BY WordHalves
<1>2. IsCpu(d) /\ SameButMem(c, d)
  BY <1>1, Store8Type
<1> HIDE DEF d
<1>3. IsCpu(e) /\ SameButMem(d, e)
  BY <1>1, <1>2, Store8Type
<1>4. SameButMem(c, e)
  BY <1>2, <1>3 DEF SameButMem
<1>5. QED
  BY <1>3, <1>4 DEF store16, d

(* A register or a pair holds a word, and a byte if it is one.             *)
LEMMA GetType ==
    ASSUME NEW c, IsCpu(c), NEW name \in Registers \cup Pairs
    PROVE  Get(c, name) \in Words /\ (name \in Halfs => Get(c, name) \in Bytes)
<1>1. IsRegs(c.r)
  BY DEF IsCpu
<1>2. CASE name \in Registers
  <2>1. name \notin DOMAIN Halves
    BY <1>2 DEF Halves, Registers, Halfs
  <2>2. Get(c, name) = c.r[name]
    BY <2>1 DEF Get
  <2>3. QED
    BY <1>1, <1>2, <2>2 DEF IsRegs
<1>3. CASE name \in Pairs
  <2> DEFINE hi == Halves[name][1]
             lo == Halves[name][2]
  <2>1. name \in DOMAIN Halves /\ hi \in Halfs /\ lo \in Halfs /\ name \notin Halfs
    BY <1>3 DEF Halves, Pairs, Halfs
  <2>2. Get(c, name) = 256 * c.r[hi] + c.r[lo]
    BY <2>1 DEF Get
  <2> HIDE DEF hi, lo
  <2>3. c.r[hi] \in Bytes /\ c.r[lo] \in Bytes
    BY <1>1, <2>1 DEF IsRegs
  <2>4. QED
    BY <2>1, <2>2, <2>3, TwoBytes
<1>4. QED
  BY <1>2, <1>3

(* The octal digits of an opcode name registers, pairs and operations.     *)
LEMMA Digits ==
    ASSUME NEW op \in Bytes
    PROVE  /\ X(op) \in 0..3 /\ Y(op) \in 0..7 /\ Z(op) \in 0..7 /\ P(op) \in 0..3
           /\ R(op) \in Registers \cup Pairs /\ R(op) \notin Halfs /\ R2(op) \in Pairs
<1>1. IsByte(op)
  BY ByteBounds
<1>2. X(op) \in 0..3 /\ Y(op) \in 0..7 /\ Z(op) \in 0..7 /\ P(op) \in 0..3
  BY <1>1, SMT DEF IsByte, X, Y, Z, P
<1>3. \A p \in 0..3 : /\ g_regmap_R[p + 1] \in {"BC", "DE", "HL", "SP"}
                     /\ g_regmap_R2[p + 1] \in {"BC", "DE", "HL", "AF"}
  BY SMT DEF g_regmap_R, g_regmap_R2
<1>4. R(op) \in {"BC", "DE", "HL", "SP"} /\ R2(op) \in {"BC", "DE", "HL", "AF"}
  BY <1>2, <1>3 DEF R, R2
<1>5. QED
  BY <1>2, <1>4 DEF Registers, Pairs, Halfs

(* An index names a register but for that of (HL).                         *)
LEMMA Operand ==
    ASSUME NEW d \in 0..7, d # HL_INDIRECT
    PROVE  g_regmap_D[d + 1] \in Halfs
BY SMT DEF g_regmap_D, Halfs, HL_INDIRECT

(* An 8-bit operand is a byte,                                             *)
LEMMA ReadType ==
    ASSUME NEW c, IsCpu(c), NEW d \in 0..7
    PROVE  REG8_READ(c, d) \in Bytes
<1>1. CASE d = HL_INDIRECT
  <2>1. Get(c, "HL") \in Int
    BY GetType, WordHalves DEF Pairs
  <2>2. QED
    BY <1>1, <2>1, Load8Type DEF REG8_READ
<1>2. CASE d # HL_INDIRECT
  BY <1>2, Operand DEF REG8_READ, IsCpu, IsRegs
<1>3. QED
  BY <1>1, <1>2

(* and what is written to one leaves a processor.                          *)
LEMMA WriteType ==
    ASSUME NEW c, IsCpu(c), NEW d \in 0..7, NEW v \in Bytes
    PROVE  IsCpu(REG8_WRITE(c, d, v)) /\ REG8_WRITE(c, d, v).ticks = c.ticks
<1>1. CASE d = HL_INDIRECT
  <2>1. Get(c, "HL") \in Int
    BY GetType, WordHalves DEF Pairs
  <2>2. QED
    BY <1>1, <2>1, Store8Type DEF REG8_WRITE, SameButMem
<1>2. CASE d # HL_INDIRECT
  <2>1. v % 256 \in Bytes /\ v % 256 \in Int
    BY BytesAreWords, WordHalves
  <2>2. REG8_WRITE(c, d, v) = Set(c, g_regmap_D[d + 1], v % 256)
    BY <1>2 DEF REG8_WRITE
  <2>3. g_regmap_D[d + 1] \in Halfs /\ g_regmap_D[d + 1] \in Registers \cup Pairs
    BY <1>2, Operand DEF Registers
  <2>4. QED
    BY <2>1, <2>2, <2>3, SetType DEF SameButRegs
<1>3. QED
  BY <1>1, <1>2

(* The flags an outcome sets fill the upper half of F.                     *)
AreFlags(o) == o.Z \in BOOLEAN /\ o.N \in BOOLEAN /\ o.H \in BOOLEAN /\ o.C \in BOOLEAN

(* FLAGS leaves F a byte.                                                  *)
LEMMA FlagsType ==
    ASSUME NEW c, IsCpu(c), NEW o
    PROVE  IsCpu(FLAGS(c, o)) /\ FLAGS(c, o).ticks = c.ticks
<1> DEFINE F == 128 * Bit(o.Z) + 64 * Bit(o.N) + 32 * Bit(o.H) + 16 * Bit(o.C) + (c.r["F"] % 16)
           r == [c.r EXCEPT !["F"] = F]
           d == FLAGS(c, o)
<1>1. IsRegs(c.r) /\ c.r["F"] \in Bytes
  BY DEF IsCpu, IsRegs, Halfs
<1>2. IsByte(F)
  <2>1. \A b : Bit(b) \in {0, 1}
    BY DEF Bit
  <2>2. c.r["F"] \in Nat
    BY <1>1, ByteBounds DEF IsByte
  <2>3. QED
    BY <2>1, <2>2, SMT DEF IsByte
<1>3. d = [c EXCEPT !.r = r]
  BY DEF FLAGS
<1> HIDE DEF F
<1>4. F \in Bytes /\ F \in Words
  BY <1>2, ByteBounds, BytesAreWords
<1>5. IsRegs(r)
  BY <1>1, <1>4 DEF IsRegs, Registers, Halfs
<1> HIDE DEF r, d
<1>6. d = [r |-> r, mem |-> c.mem, IME |-> c.IME, ticks |-> c.ticks]
  BY <1>3 DEF IsCpu
<1>7. IsCpu(d) /\ d.ticks = c.ticks
  BY <1>5, <1>6 DEF IsCpu
<1>8. QED
  BY <1>7 DEF d

(* A handler that returns a cost has run.                                  *)
Costs == {4, 8, 12, 16, 20, 24}
Ran(c) == IsCpu(c) /\ c.ticks \in Costs

(* The ticks returned are all that Returns changes.                        *)
LEMMA ReturnsType ==
    ASSUME NEW c, IsCpu(c), NEW t \in Costs
    PROVE  Ran(Returns(c, t)) /\ Returns(c, t).r = c.r /\ Returns(c, t).IME = c.IME
           /\ Returns(c, t).mem = c.mem
<1>1. t \in Nat
  BY DEF Costs
<1>2. Returns(c, t) = [r |-> c.r, mem |-> c.mem, IME |-> c.IME, ticks |-> t]
  BY DEF Returns, IsCpu
<1>3. QED
  BY <1>1, <1>2 DEF IsCpu, Ran

(* The stack.                                                              *)
LEMMA PushType ==
    ASSUME NEW c, IsCpu(c), NEW w \in Words
    PROVE  IsCpu(Push(c, w)) /\ Push(c, w).ticks = c.ticks /\ Push(c, w).IME = c.IME
<1> DEFINE d == Set(c, "SP", c.r["SP"] - 2)
<1>1. "SP" \in Registers \cup Pairs /\ "SP" \notin Halfs
  BY DEF Registers, Halfs
<1>2. \A e : IsCpu(e) => e.r["SP"] \in Int
  BY WordHalves DEF IsCpu, IsRegs, Registers
<1>3. IsCpu(d) /\ SameButRegs(c, d)
  <2>1. c.r["SP"] - 2 \in Int
    BY <1>2
  <2>2. QED
    BY <1>1, <2>1, SetType
<1> HIDE DEF d
<1>4. IsCpu(store16(d, d.r["SP"], w)) /\ SameButMem(d, store16(d, d.r["SP"], w))
  BY <1>2, <1>3, Store16Type
<1>5. Push(c, w) = store16(d, d.r["SP"], w)
  BY DEF Push, d
<1>6. QED
  BY <1>3, <1>4, <1>5 DEF SameButMem, SameButRegs

(* Popping leaves memory alone.                                            *)
LEMMA PopType ==
    ASSUME NEW c, IsCpu(c), NEW name \in Registers \cup Pairs, name \notin Halfs
    PROVE  IsCpu(PopTo(c, name)) /\ PopTo(c, name).ticks = c.ticks /\ PopTo(c, name).IME = c.IME
<1> DEFINE d == Set(c, name, load16(c, c.r["SP"]))
<1>1. "SP" \in Registers \cup Pairs /\ "SP" \notin Halfs
  BY DEF Registers, Halfs
<1>2. c.r["SP"] \in Int /\ c.r["SP"] + 2 \in Int
  BY WordHalves DEF IsCpu, IsRegs, Registers
<1>3. load16(c, c.r["SP"]) \in Int
  BY <1>2, Load16Type, WordHalves
<1>4. IsCpu(d) /\ SameButRegs(c, d)
  BY <1>3, SetType
<1>5. PopTo(c, name) = Set(d, "SP", c.r["SP"] + 2)
  BY DEF PopTo
<1> HIDE DEF d
<1>6. IsCpu(Set(d, "SP", c.r["SP"] + 2)) /\ SameButRegs(d, Set(d, "SP", c.r["SP"] + 2))
  BY <1>1, <1>2, <1>4, SetType
<1>7. QED
  BY <1>4, <1>5, <1>6 DEF SameButRegs

(* The arithmetic returns bytes,                                           *)
LEMMA AluBytes ==
    ASSUME NEW a \in Bytes, NEW b \in Bytes, NEW c \in BOOLEAN, NEW F
    PROVE  /\ ADD(a, b).r \in Bytes /\ ADC(a, b, c).r \in Bytes
           /\ SUB(a, b).r \in Bytes /\ SBC(a, b, c).r \in Bytes
           /\ AND(a, b).r \in Bytes /\ OR(a, b).r \in Bytes /\ XOR(a, b).r \in Bytes
           /\ INC(a, F).r \in Bytes /\ DEC(a, F).r \in Bytes /\ CPL(a, F).r \in Bytes
           /\ DAA(a, F).r \in Bytes
<1>1. IsByte(a) /\ IsByte(b) /\ Bit(c) \in {0, 1}
  BY ByteBounds DEF Bit
<1>2. \A v \in Int : v % 256 \in Bytes
  BY Wraps
<1>3. a + b \in Int /\ a + b + Bit(c) \in Int /\ a - b \in Int /\ a - b - Bit(c) \in Int
      /\ a + 1 \in Int /\ a - 1 \in Int
  BY <1>1, SMT DEF IsByte
<1>4. /\ ADD(a, b).r \in Bytes /\ ADC(a, b, c).r \in Bytes
      /\ SUB(a, b).r \in Bytes /\ SBC(a, b, c).r \in Bytes
      /\ INC(a, F).r \in Bytes /\ DEC(a, F).r \in Bytes
  BY <1>2, <1>3 DEF ADD, ADC, SUB, SBC, INC, DEC, Outcome
<1>5. /\ AND(a, b).r \in Bytes /\ OR(a, b).r \in Bytes /\ XOR(a, b).r \in Bytes
  BY BytesAreBits, ByteBounds DEF AND, OR, XOR, Outcome
<1>6. CPL(a, F).r \in Bytes
  <2>1. IsByte(255 - a)
    BY <1>1, SMT DEF IsByte
  <2>2. QED
    BY <2>1, ByteBounds DEF CPL
<1>7. DAA(a, F).r \in Bytes
  <2> DEFINE low  == IF F.N THEN IF F.H THEN 250 ELSE 0
                     ELSE IF a % 16 > 9 \/ F.H THEN 6 ELSE 0
             high == IF F.N THEN IF F.C THEN 160 ELSE 0
                     ELSE IF a + low > 159 \/ F.C THEN 96 ELSE 0
             sum  == a + ((low + high) % 256)
  <2>1. low \in Int /\ high \in Int
    OBVIOUS
  <2>2. DAA(a, F).r = sum % 256
    BY DEF DAA, Outcome
  <2> HIDE DEF low, high
  <2>3. sum \in Int
    BY <1>1, <2>1, SMT DEF IsByte
  <2> HIDE DEF sum
  <2>4. QED
    BY <1>2, <2>2, <2>3
<1>8. QED
  BY <1>4, <1>5, <1>6, <1>7

(* and so do the shifts.                                                   *)
LEMMA ShiftBytes ==
    ASSUME NEW v \in Bytes, NEW c \in BOOLEAN
    PROVE  \A y \in 0..7 : Shifted(v, y, c).r \in Bytes
<1>1. IsByte(v) /\ Bit(c) \in {0, 1}
  BY ByteBounds DEF Bit
<1>2. /\ IsByte(RLC(v).r) /\ IsByte(RRC(v).r) /\ IsByte(RL(v, c).r) /\ IsByte(RR(v, c).r)
      /\ IsByte(SLA(v).r) /\ IsByte(SRA(v).r) /\ IsByte(SWAP(v).r) /\ IsByte(SRL(v).r)
  <2>1. /\ IsByte(((2 * v) % 256) + (v \div 128)) /\ IsByte((v \div 2) + 128 * (v % 2))
        /\ IsByte(((2 * v) % 256) + Bit(c)) /\ IsByte((v \div 2) + 128 * Bit(c))
        /\ IsByte((2 * v) % 256) /\ IsByte((v \div 2) + 128 * (v \div 128))
        /\ IsByte(v \div 2) /\ IsByte(16 * (v % 16) + (v \div 16))
    BY <1>1, SMT DEF IsByte
  <2>2. QED
    BY <2>1 DEF RLC, RRC, RL, RR, SLA, SRA, SWAP, SRL, Outcome
<1>3. ASSUME NEW y \in 0..7 PROVE Shifted(v, y, c) \in {RLC(v), RRC(v), RL(v, c), RR(v, c),
                                                     SLA(v), SRA(v), SWAP(v), SRL(v)}
  BY SMT DEF Shifted
<1>4. QED
  BY <1>2, <1>3, ByteBounds

(* The flags a processor has are truth values.                             *)
LEMMA FlagsAreFlags ==
    ASSUME NEW c
    PROVE  FlagsOf(c) \in Flags /\ GET_C(c) \in BOOLEAN /\ FlagsOf(c).C = GET_C(c)
BY DEF FlagsOf, Flags, GET_C, GET_Z

(* An instruction that writes a byte and its flags.                        *)
LEMMA OutcomeType ==
    ASSUME NEW c, IsCpu(c), NEW d \in 0..7, NEW o, o.r \in Bytes, NEW t \in Costs
    PROVE  Ran(Returns(Write(c, d, o), t))
<1>1. IsCpu(REG8_WRITE(c, d, o.r))
  BY WriteType
<1>2. IsCpu(Write(c, d, o))
  BY <1>1, FlagsType DEF Write
<1>3. QED
  BY <1>2, ReturnsType

(* The ticks of a handler that may use (HL).                               *)
LEMMA CostType ==
    ASSUME NEW d, NEW s \in Costs, NEW t \in Costs
    PROVE  Cost(d, s, t) \in Costs
BY DEF Cost

(* The numbers below are costs.                                            *)
LEMMA CostNumbers ==
    /\ 4 \in Costs /\ 8 \in Costs /\ 12 \in Costs
    /\ 16 \in Costs /\ 20 \in Costs /\ 24 \in Costs
BY DEF Costs

(* The arithmetic instructions.                                            *)
LEMMA ArithmeticTypes ==
    ASSUME NEW c, IsCpu(c), NEW op \in Bytes, NEW d16 \in Words
    PROVE  /\ Ran(INC_D(c, op)) /\ Ran(DEC_D(c, op))
           /\ Ran(ALU_A_N(c, op, d16)) /\ Ran(ALU_A_D(c, op))
           /\ Ran(OnA(c, DAA(c.r.A, FlagsOf(c)))) /\ Ran(OnA(c, CPL(c.r.A, FlagsOf(c))))
           /\ Ran(OnA(c, SCF(c.r.A, FlagsOf(c)))) /\ Ran(OnA(c, CCF(c.r.A, FlagsOf(c))))
           /\ Ran(OnA(c, ROT_A(Shifted(c.r.A, Y(op), GET_C(c)))))
           /\ Ran(PREFIX_CB(c, d16))
<1> DEFINE F == FlagsOf(c)
           A == c.r["A"]
<1>1. Y(op) \in 0..7 /\ Z(op) \in 0..7 /\ 7 \in 0..7
  BY Digits, SMT
<1>2. A \in Bytes /\ F \in Flags /\ F.C \in BOOLEAN /\ GET_C(c) \in BOOLEAN
  BY FlagsAreFlags DEF IsCpu, IsRegs, Halfs
<1>3. d16 % 256 \in Bytes
  BY WordHalves
<1>4. \A d \in 0..7 : REG8_READ(c, d) \in Bytes
  BY ReadType
<1>5. Ran(INC_D(c, op)) /\ Ran(DEC_D(c, op))
  <2>1. REG8_READ(c, Y(op)) \in Bytes
    BY <1>1, <1>4
  <2>2. INC(REG8_READ(c, Y(op)), F).r \in Bytes /\ DEC(REG8_READ(c, Y(op)), F).r \in Bytes
    BY <2>1, AluBytes
  <2>3. Cost(Y(op), 12, 4) \in Costs
    BY CostType, CostNumbers
  <2> HIDE DEF F
  <2>4. QED
    BY <1>1, <2>2, <2>3, OutcomeType DEF INC_D, DEC_D, F
<1>6. ASSUME NEW n \in Bytes PROVE AluOutcome(c, op, n).r \in Bytes
  <2>1. /\ ADD(A, n).r \in Bytes /\ ADC(A, n, GET_C(c)).r \in Bytes
        /\ SUB(A, n).r \in Bytes /\ SBC(A, n, GET_C(c)).r \in Bytes
        /\ AND(A, n).r \in Bytes /\ OR(A, n).r \in Bytes /\ XOR(A, n).r \in Bytes
    BY <1>2, <1>6, AluBytes
  <2>2. [SUB(A, n) EXCEPT !.r = A].r \in Bytes
    BY <1>2 DEF SUB, Outcome
  <2>3. AluOutcome(c, op, n) \in {ADD(A, n), ADC(A, n, GET_C(c)), SUB(A, n), SBC(A, n, GET_C(c)),
                                  AND(A, n), XOR(A, n), OR(A, n), [SUB(A, n) EXCEPT !.r = A]}
    BY <1>1, SMT DEF AluOutcome
  <2>4. QED
    BY <2>1, <2>2, <2>3
<1>7. \A n \in Bytes : Ran(Returns(WriteA(c, AluOutcome(c, op, n)), 4))
  BY <1>1, <1>6, CostNumbers, OutcomeType DEF WriteA
<1>8. \A n \in Words : Ran(ALU_A_N(c, op, n))
  BY <1>7, WordHalves DEF ALU_A_N
<1>9. Ran(ALU_A_D(c, op))
  <2>1. REG8_READ(c, Z(op)) \in Words
    BY <1>1, <1>4, BytesAreWords
  <2>2. Ran(ALU_A_N(c, op, REG8_READ(c, Z(op))))
    BY <1>8, <2>1
  <2>3. Cost(Z(op), 8, 4) \in Costs
    BY CostType, CostNumbers
  <2>4. QED
    BY <2>2, <2>3, ReturnsType DEF ALU_A_D, Ran
<1>10. \A o : o.r \in Bytes => Ran(OnA(c, o))
  BY <1>1, CostNumbers, OutcomeType DEF OnA, WriteA
<1>11. /\ DAA(A, F).r \in Bytes /\ CPL(A, F).r \in Bytes
       /\ SCF(A, F).r \in Bytes /\ CCF(A, F).r \in Bytes
  BY <1>2, AluBytes DEF SCF, CCF
<1>12. ROT_A(Shifted(A, Y(op), GET_C(c))).r \in Bytes
  <2> DEFINE o == Shifted(A, Y(op), GET_C(c))
  <2>2. o \in {RLC(A), RRC(A), RL(A, GET_C(c)), RR(A, GET_C(c)), SLA(A), SRA(A), SWAP(A), SRL(A)}
    BY <1>1, SMT DEF Shifted
  <2>3. o.r \in Bytes
    BY <1>1, <1>2, ShiftBytes
  <2> HIDE DEF o
  <2>4. o = [r |-> o.r, Z |-> o.Z, N |-> o.N, H |-> o.H, C |-> o.C]
    BY <2>2 DEF RLC, RRC, RL, RR, SLA, SRA, SWAP, SRL, Outcome
  <2>5. ROT_A(o).r = o.r
    BY <2>4 DEF ROT_A
  <2>6. QED
    BY <2>3, <2>5 DEF o
<1>13. Ran(PREFIX_CB(c, d16))
  <2> DEFINE p == d16 % 256
             v == REG8_READ(c, Z(p))
             o == CASE X(p) = 0 -> Shifted(v, Y(p), F.C)
                    [] X(p) = 1 -> BIT(v, Y(p), F)
                    [] X(p) = 2 -> RES(v, Y(p), F)
                    [] X(p) = 3 -> SET(v, Y(p), F)
  <2>1. X(p) \in 0..3 /\ Y(p) \in 0..7 /\ Z(p) \in 0..7
    BY <1>3, Digits
  <2>2. v \in Bytes
    BY <1>4, <2>1
  <2> HIDE DEF v
  <2>3. o.r \in Bytes
    <3>1. /\ Shifted(v, Y(p), F.C).r \in Bytes /\ BIT(v, Y(p), F).r \in Bytes
          /\ RES(v, Y(p), F).r \in Bytes /\ SET(v, Y(p), F).r \in Bytes
      <4>1. Shifted(v, Y(p), F.C).r \in Bytes
        BY <1>2, <2>1, <2>2, ShiftBytes
      <4>2. IsByte(v)
        BY <2>2, ByteBounds
      <4>3. \A n : /\ IsByte(RES(v, n, F).r) /\ IsByte(SET(v, n, F).r)
                   /\ BIT(v, n, F).r = v
        BY BytesAreBits DEF RES, SET, BIT
      <4>4. QED
        BY <2>2, <4>1, <4>3, ByteBounds
    <3>2. o \in {Shifted(v, Y(p), F.C), BIT(v, Y(p), F), RES(v, Y(p), F), SET(v, Y(p), F)}
      BY <2>1, SMT
    <3>3. QED
      BY <3>1, <3>2
  <2>4. Cost(Z(p), 16, 8) \in Costs
    BY CostType, CostNumbers
  <2>5. PREFIX_CB(c, d16) = Returns(Write(c, Z(p), o), Cost(Z(p), 16, 8))
    BY DEF PREFIX_CB, v
  <2>6. QED
    BY <2>1, <2>3, <2>4, <2>5, OutcomeType
<1>14. QED
  BY <1>5, <1>8, <1>9, <1>10, <1>11, <1>12, <1>13

(* Words in registers and pairs, and what is added to them.                *)
LEMMA WordOperands ==
    ASSUME NEW c, IsCpu(c)
    PROVE  /\ \A name \in Registers \cup Pairs : Get(c, name) \in Words /\ Get(c, name) \in Int
           /\ c.r.SP \in Words /\ c.r.SP \in Int /\ c.r.PC \in Words /\ c.r.PC \in Int
           /\ c.r.A \in Bytes /\ c.r.C \in Int /\ c.r.F \in Bytes
<1>1. \A name \in Registers \cup Pairs : Get(c, name) \in Words
  BY GetType
<1>2. c.r.SP \in Words /\ c.r.PC \in Words /\ c.r.A \in Bytes /\ c.r.C \in Bytes /\ c.r.F \in Bytes
  BY DEF IsCpu, IsRegs, Registers, Halfs
<1>3. \A w \in Words : w \in Int
  BY WordHalves
<1>4. QED
  BY <1>1, <1>2, <1>3, BytesAreWords

(* The loads.                                                              *)
LEMMA LoadTypes ==
    ASSUME NEW c, IsCpu(c), NEW op \in Bytes, NEW d16 \in Words
    PROVE  /\ Ran(LD_INDIRECT_NN_SP(c, d16)) /\ Ran(Returns(Set(c, R(op), d16), 12))
           /\ Ran(LD_D_D(c, op)) /\ Ran(LD_D_N(c, op, d16))
           /\ Ran(Returns(Set(c, "SP", Get(c, "HL")), 8))
           /\ \A a \in Int, t \in Costs : Ran(LoadA(c, a, t)) /\ Ran(StoreA(c, a, t))
           /\ Ran(LD_HL_STEP_A(c, op)) /\ Ran(LD_A_HL_STEP(c, op))
<1>1. /\ Y(op) \in 0..7 /\ Z(op) \in 0..7
      /\ R(op) \in Registers \cup Pairs /\ R(op) \notin Halfs
      /\ "SP" \in Registers \cup Pairs /\ "SP" \notin Halfs
      /\ "HL" \in Registers \cup Pairs /\ "HL" \notin Halfs
      /\ "A" \in Registers \cup Pairs
  BY Digits DEF Registers, Pairs, Halfs
<1>2. d16 \in Int /\ d16 % 256 \in Bytes
  BY WordHalves
<1>3. Ran(LD_INDIRECT_NN_SP(c, d16))
  BY <1>2, WordOperands, Store16Type, ReturnsType, CostNumbers DEF LD_INDIRECT_NN_SP
<1>4. Ran(Returns(Set(c, R(op), d16), 12))
  BY <1>1, <1>2, SetType, ReturnsType, CostNumbers
<1>5. Ran(LD_D_D(c, op))
  <2>1. REG8_READ(c, Z(op)) \in Bytes
    BY <1>1, ReadType
  <2>2. IsCpu(REG8_WRITE(c, Y(op), REG8_READ(c, Z(op))))
    BY <1>1, <2>1, WriteType
  <2>3. QED
    BY <2>2, ReturnsType, CostNumbers DEF LD_D_D
<1>6. Ran(LD_D_N(c, op, d16))
  BY <1>1, <1>2, WriteType, ReturnsType, CostType, CostNumbers DEF LD_D_N
<1>7. Ran(Returns(Set(c, "SP", Get(c, "HL")), 8))
  BY <1>1, WordOperands, SetType, ReturnsType, CostNumbers
<1>8. ASSUME NEW a \in Int, NEW t \in Costs PROVE Ran(LoadA(c, a, t)) /\ Ran(StoreA(c, a, t))
  <2>1. load8(c, a) \in Bytes /\ load8(c, a) \in Int
    BY Load8Type, BytesAreWords, WordHalves
  <2>2. IsCpu(Set(c, "A", load8(c, a)))
    BY <1>1, <2>1, SetType
  <2>3. IsCpu(store8(c, a, c.r.A))
    BY WordOperands, Store8Type
  <2>4. QED
    BY <2>2, <2>3, ReturnsType DEF LoadA, StoreA
<1>9. ASSUME NEW d, Ran(d) PROVE Ran(Set(d, "HL", Get(c, "HL") + HlStep(op)))
  <2>1. Get(c, "HL") + HlStep(op) \in Int
    BY <1>1, WordOperands DEF HlStep
  <2>2. QED
    BY <1>1, <1>9, <2>1, SetType DEF Ran, SameButRegs
<1>10. Ran(LD_HL_STEP_A(c, op)) /\ Ran(LD_A_HL_STEP(c, op))
  BY <1>1, <1>8, <1>9, WordOperands, CostNumbers DEF LD_HL_STEP_A, LD_A_HL_STEP
<1>11. QED
  BY <1>3, <1>4, <1>5, <1>6, <1>7, <1>8, <1>10

(* The stack and the instructions on words.                                *)
LEMMA WideTypes ==
    ASSUME NEW c, IsCpu(c), NEW op \in Bytes, NEW d16 \in Words
    PROVE  /\ Ran(PUSH_R(c, op)) /\ Ran(POP_R(c, op))
           /\ Ran(INC_R(c, op)) /\ Ran(DEC_R(c, op)) /\ Ran(ADD_HL_R(c, op))
           /\ Ran(ToPair(c, "SP", ADD_SP(c.r.SP, d16 % 256), 16))
           /\ Ran(ToPair(c, "HL", ADD_SP(c.r.SP, d16 % 256), 12))
<1>1. /\ R(op) \in Registers \cup Pairs /\ R(op) \notin Halfs
      /\ R2(op) \in Registers \cup Pairs /\ R2(op) \notin Halfs
      /\ "SP" \in Registers \cup Pairs /\ "SP" \notin Halfs
      /\ "HL" \in Registers \cup Pairs /\ "HL" \notin Halfs
  BY Digits DEF Registers, Pairs, Halfs
<1>2. Ran(PUSH_R(c, op)) /\ Ran(POP_R(c, op))
  BY <1>1, WordOperands, PushType, PopType, ReturnsType, CostNumbers DEF PUSH_R, POP_R
<1>3. Ran(INC_R(c, op)) /\ Ran(DEC_R(c, op))
  <2>1. Get(c, R(op)) + 1 \in Int /\ Get(c, R(op)) - 1 \in Int
    BY <1>1, WordOperands
  <2>2. QED
    BY <1>1, <2>1, SetType, ReturnsType, CostNumbers DEF INC_R, DEC_R
<1>4. ASSUME NEW name \in {"SP", "HL"}, NEW o, o.r \in Int, NEW t \in Costs
      PROVE  Ran(ToPair(c, name, o, t))
  <2>1. IsCpu(Set(c, name, o.r))
    BY <1>1, <1>4, SetType
  <2>2. QED
    BY <2>1, FlagsType, ReturnsType DEF ToPair
<1>5. Ran(ADD_HL_R(c, op))
  <2>1. Get(c, "HL") + Get(c, R(op)) \in Int
    BY <1>1, WordOperands
  <2>2. ADD_HL(Get(c, "HL"), Get(c, R(op)), FlagsOf(c)).r \in Int
    BY <2>1, SMT DEF ADD_HL
  <2>3. QED
    BY <1>4, <2>2, CostNumbers DEF ADD_HL_R
<1>6. ADD_SP(c.r.SP, d16 % 256).r \in Int
  <2>1. d16 % 256 \in Int
    BY WordHalves, BytesAreWords
  <2>2. c.r.SP \in Int
    BY WordOperands
  <2>3. QED
    BY <2>1, <2>2, SMT DEF ADD_SP, Signed
<1>7. QED
  BY <1>2, <1>3, <1>4, <1>5, <1>6, CostNumbers

(* Jumps, calls and returns.                                               *)
LEMMA JumpTypes ==
    ASSUME NEW c, IsCpu(c), NEW op \in Bytes, NEW d16 \in Words
    PROVE  /\ \A a \in Int, t \in Costs : Ran(Jump(c, a, t)) /\ Ran(Call(c, a, t))
           /\ \A t \in Costs : Ran(JumpRelative(c, d16, t)) /\ Ran(Stays(c, t))
           /\ Ran(JR_F_N(c, op, d16)) /\ Ran(JP_F_NN(c, op, d16)) /\ Ran(CALL_F_N(c, op, d16))
           /\ Ran(RET(c, op)) /\ Ran(RET_F(c, op)) /\ Ran(RST(c, op))
           /\ Ran([Stays(c, 4) EXCEPT !.IME = FALSE]) /\ Ran([Stays(c, 4) EXCEPT !.IME = TRUE])
<1>1. "PC" \in Registers \cup Pairs /\ "PC" \notin Halfs
  BY DEF Registers, Halfs
<1>2. d16 \in Int /\ d16 % 256 \in Int
  BY WordHalves, BytesAreWords
<1>3. ASSUME NEW d, IsCpu(d), NEW a \in Int, NEW t \in Costs PROVE Ran(Jump(d, a, t))
  BY <1>1, <1>3, SetType, ReturnsType DEF Jump
<1>4. ASSUME NEW a \in Int, NEW t \in Costs PROVE Ran(Call(c, a, t))
  BY <1>3, WordOperands, PushType DEF Call
<1>5. ASSUME NEW t \in Costs PROVE Ran(JumpRelative(c, d16, t)) /\ Ran(Stays(c, t))
  <2>1. c.r.PC + Signed(d16 % 256) \in Int
    BY <1>2, WordOperands, SMT DEF Signed
  <2>2. QED
    BY <1>3, <2>1, ReturnsType DEF JumpRelative, Stays
<1>6. Ran(JR_F_N(c, op, d16)) /\ Ran(JP_F_NN(c, op, d16)) /\ Ran(CALL_F_N(c, op, d16))
  BY <1>2, <1>3, <1>4, <1>5, CostNumbers DEF JR_F_N, JP_F_NN, CALL_F_N
<1>7. IsCpu(PopTo(c, "PC"))
  BY <1>1, PopType
<1>8. ASSUME NEW d, Ran(d), NEW b \in BOOLEAN PROVE Ran([d EXCEPT !.IME = b])
  <2>1. [d EXCEPT !.IME = b] = [r |-> d.r, mem |-> d.mem, IME |-> b, ticks |-> d.ticks]
    BY <1>8 DEF Ran, IsCpu
  <2>2. QED
    BY <1>8, <2>1 DEF Ran, IsCpu
<1>9. Ran(RET(c, op)) /\ Ran(RET_F(c, op))
  <2>1. Ran(Returns(PopTo(c, "PC"), 16)) /\ Ran(Returns(PopTo(c, "PC"), 20)) /\ Ran(Stays(c, 8))
    BY <1>5, <1>7, ReturnsType, CostNumbers
  <2>2. RET(c, op) = [Returns(PopTo(c, "PC"), 16) EXCEPT
                        !.IME = Returns(PopTo(c, "PC"), 16).IME \/ 4 \in BitsOf(op)]
    BY DEF RET
  <2>3. (Returns(PopTo(c, "PC"), 16).IME \/ 4 \in BitsOf(op)) \in BOOLEAN
    OBVIOUS
  <2>4. Ran(RET(c, op))
    BY <1>8, <2>1, <2>2, <2>3
  <2>5. QED
    BY <2>1, <2>4 DEF RET_F
<1>10. Ran(RST(c, op))
  <2>1. Y(op) \in Int /\ 8 * Y(op) \in Int
    BY Digits
  <2>2. QED
    BY <1>4, <2>1, CostNumbers DEF RST
<1>11. QED
  BY <1>3, <1>4, <1>5, <1>6, <1>8, <1>9, <1>10, CostNumbers

(* The handlers but those of HALT and STOP, which the processor here does   *)
(* not run.                                                                *)
Handlers == {
    "LD_INDIRECT_NN_SP", "LD_R_NN", "LD_D_D", "LD_D_N", "LD_INDIRECT_R_A", "LD_A_INDIRECT_R",
    "INC_R", "DEC_R", "ADD_HL_R", "ADD_SP_N", "LD_HL_SP_N", "LD_SP_HL", "LD_INDIRECT_NN_A",
    "LD_A_INDIRECT_NN", "LDH_N_A", "LDH_A_N", "LD_INDIRECT_C_A", "LD_A_INDIRECT_C",
    "LDI_INDIRECT_HL_A", "LDI_A_INDIRECT_HL", "LDD_INDIRECT_HL_A", "LDD_A_INDIRECT_HL", "INC_D",
    "DEC_D", "ALU_A_D", "ALU_A_N", "DAA", "CPL", "ROT_A", "POP_R", "PUSH_R", "JR_F_N", "JR_N",
    "JP_F_NN", "JP_N", "JP_INDIRECT_HL", "CALL_N", "CALL_F_N", "RET", "RET_F", "RST", "CCF", "SCF",
    "NOP", "DI", "EI", "PREFIX_CB"}

(* Every handler of the table leaves a processor and returns its cost.     *)
LEMMA HandledTypes ==
    ASSUME NEW c, IsCpu(c), NEW op \in Bytes, NEW d16 \in Words, NEW h \in Handlers
    PROVE  Ran(Handled(h, c, op, d16))
<1>1. /\ d16 \in Int /\ \hFF00 + (d16 % 256) \in Int /\ \hFF00 + c.r.C \in Int
      /\ R(op) \in Registers \cup Pairs /\ "HL" \in Registers \cup Pairs
  BY WordHalves, WordOperands, Digits DEF Pairs
<1>2. Get(c, R(op)) \in Int /\ Get(c, "HL") \in Int
  BY <1>1, WordOperands
<1>3. \A a \in Int, t \in Costs : Ran(LoadA(c, a, t)) /\ Ran(StoreA(c, a, t))
                                 /\ Ran(Jump(c, a, t)) /\ Ran(Call(c, a, t))
  BY LoadTypes, JumpTypes
<1>4. CASE h \in {"LD_INDIRECT_R_A", "LD_A_INDIRECT_R", "LD_INDIRECT_NN_A", "LD_A_INDIRECT_NN"}
  BY <1>1, <1>2, <1>3, <1>4, CostNumbers DEF Handled
<1>5. CASE h \in {"LDH_N_A", "LDH_A_N", "LD_INDIRECT_C_A", "LD_A_INDIRECT_C"}
  BY <1>1, <1>3, <1>5, CostNumbers DEF Handled
<1>6. CASE h \in {"LD_INDIRECT_NN_SP", "LD_R_NN", "LD_D_D", "LD_D_N", "LD_SP_HL",
                  "LDI_INDIRECT_HL_A", "LDI_A_INDIRECT_HL", "LDD_INDIRECT_HL_A", "LDD_A_INDIRECT_HL"}
  BY <1>6, LoadTypes DEF Handled
<1>7. CASE h \in {"INC_R", "DEC_R", "ADD_HL_R", "ADD_SP_N", "LD_HL_SP_N", "POP_R", "PUSH_R"}
  BY <1>7, WideTypes DEF Handled
<1>8. CASE h \in {"INC_D", "DEC_D", "ALU_A_D", "ALU_A_N", "DAA", "CPL", "ROT_A", "CCF", "SCF",
                  "PREFIX_CB"}
  BY <1>8, ArithmeticTypes DEF Handled
<1>9. CASE h \in {"JP_N", "JP_INDIRECT_HL", "CALL_N"}
  BY <1>1, <1>2, <1>3, <1>9, CostNumbers DEF Handled
<1>10. CASE h \in {"JR_F_N", "JR_N", "JP_F_NN", "CALL_F_N", "RET", "RET_F", "RST", "NOP", "DI", "EI"}
  BY <1>10, JumpTypes, CostNumbers DEF Handled
<1>11. QED
  BY <1>4, <1>5, <1>6, <1>7, <1>8, <1>9, <1>10 DEF Handlers

(* What the decoder writes to a slot: a handler and the size it moves PC.  *)
Slots == [handler : Handlers \cup {None, "HALT", "STOP"}, size : 0..3]

(* Each definition has a handler and a size,                               *)
LEMMA DefinitionsFit ==
    ASSUME NEW n \in 1..48
    PROVE  [handler |-> OpDefs[n].handler, size |-> OpDefs[n].size] \in Slots
<1>1. OpDefs[n].size \in 0..3
  BY SMT DEF OpDefs, Op
<1>2. OpDefs[n].handler \in Handlers \cup {"STOP"}
  BY SMT DEF OpDefs, Op, Handlers
<1>3. QED
  BY <1>1, <1>2 DEF Slots

(* the table is built of 48 and one override,                              *)
LEMMA EntryCount == Len(BuildOrder) = 49
<1>1. Len(OpDefs) = 48 /\ Len(OpOvrs) = 1
  BY DEF OpDefs, OpOvrs
<1>2. QED
  BY <1>1, SMT DEF BuildOrder, Mark

(* and what fills a slot is as large as a slot may be.                     *)
LEMMA EntriesFit ==
    ASSUME NEW k \in 1..Len(BuildOrder)
    PROVE  [handler |-> BuildOrder[k].op.handler, size |-> BuildOrder[k].op.size] \in Slots
<1>1. Len(OpDefs) = 48 /\ Len(OpOvrs) = 1
  BY DEF OpDefs, OpOvrs
<1>2. [handler |-> OpOvrs[1].handler, size |-> OpOvrs[1].size] \in Slots
  BY DEF OpOvrs, Op, Slots
<1>3. CASE k \in 1..48
  <2>1. BuildOrder[k] = [op |-> OpDefs[k], is_override |-> FALSE]
    BY <1>1, <1>3, SMT DEF BuildOrder, Mark
  <2>2. BuildOrder[k].op = OpDefs[k]
    BY <2>1
  <2>3. QED
    BY <1>3, <2>2, DefinitionsFit
<1>4. CASE k = 49
  <2>1. BuildOrder[k] = [op |-> OpOvrs[1], is_override |-> TRUE]
    BY <1>1, <1>4, SMT DEF BuildOrder, Mark
  <2>2. BuildOrder[k].op = OpOvrs[1]
    BY <2>1
  <2>3. QED
    BY <1>2, <2>2
<1>5. QED
  BY <1>3, <1>4, EntryCount, SMT

(* The processor keeps its types in every step, whatever program it runs.  *)
ProcInv ==
    /\ ops \in [Opcodes -> Slots] /\ entry \in Nat \ {0}
    /\ IsCpu(cpu)

(* Whatever opcode is fetched, the instruction runs and clears half of F.  *)
LEMMA ExecutedType ==
    ASSUME NEW c, IsCpu(c), ops \in [Opcodes -> Slots], Decodes(c)
    PROVE  Ran(Executed(c)) /\ Executed(c).r.F % 16 = 0
<1> DEFINE opcode == load8(c, c.r.PC)
           d16 == load16(c, c.r.PC + 1)
           moved == Set(c, "PC", c.r.PC + ops[opcode].size)
           after == Handled(ops[opcode].handler, moved, opcode, d16)
           F == after.r["F"] - (after.r["F"] % 16)
           r == [after.r EXCEPT !["F"] = F]
<1>1. c.r.PC \in Int /\ c.r.PC + 1 \in Int
  BY WordOperands
<1>2. opcode \in Bytes /\ d16 \in Words
  BY <1>1, Load8Type, Load16Type
<1>3. ops[opcode] \in Slots
  BY <1>2 DEF Opcodes, Bytes
<1>4. ops[opcode].handler \in Handlers /\ ops[opcode].size \in 0..3
  BY <1>3 DEF Decodes, Slots
<1>5. IsCpu(moved)
  <2>1. "PC" \in Registers \cup Pairs /\ "PC" \notin Halfs
    BY DEF Registers, Halfs
  <2>2. c.r.PC + ops[opcode].size \in Int
    BY <1>1, <1>4
  <2>3. QED
    BY <2>1, <2>2, SetType
<1>6. Executed(c) = [after EXCEPT !.r = r]
  BY DEF Executed
<1> HIDE DEF opcode, d16, moved
<1>7. Ran(after)
  BY <1>2, <1>4, <1>5, HandledTypes
<1> HIDE DEF after
<1>8. F \in Bytes /\ F % 16 = 0
  <2>1. IsByte(after.r["F"])
    BY <1>7, WordOperands, ByteBounds DEF Ran
  <2>2. IsByte(F) /\ F % 16 = 0
    BY <2>1, SMT DEF IsByte
  <2>3. QED
    BY <2>2, ByteBounds
<1> HIDE DEF F
<1>9. IsRegs(r) /\ r["F"] = F
  BY <1>7, <1>8, BytesAreWords DEF Ran, IsCpu, IsRegs, Registers, Halfs
<1> HIDE DEF r
<1>10. Executed(c) = [r |-> r, mem |-> after.mem, IME |-> after.IME, ticks |-> after.ticks]
  BY <1>6, <1>7 DEF Ran, IsCpu
<1>11. QED
  BY <1>7, <1>8, <1>9, <1>10 DEF Ran, IsCpu

(* The processor of power-on.                                              *)
LEMMA InitializedType == IsCpu(Initialized)
<1> DEFINE zero == [r |-> [n \in {"A", "F", "B", "C", "D", "E", "H", "L", "SP", "PC"} |-> 0],
                    mem |-> <<>>, IME |-> FALSE, ticks |-> 0]
           AF == Set(zero, "AF", load16(zero, 1))
           F1 == Set(AF, "F", load8(zero, \hB8))
           BC == Set(F1, "BC", load16(zero, \h13))
           DE == Set(BC, "DE", load16(zero, \hD8))
           HL1 == Set(DE, "HL", load16(zero, \h14D))
           SP == Set(HL1, "SP", \hFFFE)
           PC1 == Set(SP, "PC", \h100)
<1>1. IsCpu(zero)
  <2>1. IsRegs(zero.r)
    <3>1. 0 \in Bytes
      BY ByteBounds, SMT DEF IsByte
    <3>2. 0 \in Words
      BY <3>1, BytesAreWords
    <3>3. QED
      BY <3>1, <3>2 DEF IsRegs, Registers, Halfs
  <2>2. IsMem(zero.mem)
    BY DEF IsMem
  <2>3. QED
    BY <2>1, <2>2 DEF IsCpu
<1>2. Initialized = PC1
  BY DEF Initialized
<1> HIDE DEF zero
<1>3. /\ load16(zero, 1) \in Int /\ load8(zero, \hB8) \in Bytes /\ load8(zero, \hB8) \in Int
      /\ load16(zero, \h13) \in Int /\ load16(zero, \hD8) \in Int /\ load16(zero, \h14D) \in Int
  <2>1. ASSUME NEW a \in Int
        PROVE  load16(zero, a) \in Int /\ load8(zero, a) \in Bytes /\ load8(zero, a) \in Int
    BY <1>1, Load8Type, Load16Type, BytesAreWords, WordHalves
  <2>2. QED
    BY <2>1
<1>4. /\ {"AF", "F", "BC", "DE", "HL", "SP", "PC"} \subseteq Registers \cup Pairs
      /\ "AF" \notin Halfs /\ "BC" \notin Halfs /\ "DE" \notin Halfs /\ "HL" \notin Halfs
      /\ "SP" \notin Halfs /\ "PC" \notin Halfs
  BY DEF Registers, Pairs, Halfs
<1>5. IsCpu(AF)
  BY <1>1, <1>3, <1>4, SetType
<1>6. IsCpu(F1)
  BY <1>3, <1>4, <1>5, SetType
<1>7. IsCpu(BC)
  BY <1>3, <1>4, <1>6, SetType
<1>8. IsCpu(DE)
  BY <1>3, <1>4, <1>7, SetType
<1>9. IsCpu(HL1)
  BY <1>3, <1>4, <1>8, SetType
<1>10. IsCpu(SP)
  BY <1>4, <1>9, SetType
<1>11. IsCpu(PC1)
  BY <1>4, <1>10, SetType
<1>12. QED
  BY <1>2, <1>11

(* Every routine has its place.                                            *)
LEMMA RoutinesLie ==
    ASSUME NEW name \in DOMAIN Code
    PROVE  At(name) \in Int
<1>1. Len(Names) = 29
  BY SMT DEF Names
<1>2. name \in {
        "Sum", "CopyByJumps", "WideAdd", "WordAdd", "WideSub", "Smaller", "Negate", "DecimalAdd",
        "DecimalSub", "Double", "Halve", "HalveSigned", "DoubleThere", "TurnAround", "Mirror",
        "AroundLeft", "AroundRight", "Multiply", "XorSwap", "BothWays", "CopyBit", "Thrice",
        "Exchange", "Locals", "OwnStack", "CopyUp", "CopyDown", "CopyAround", "Guarded"}
  BY SMT DEF Code
<1>3. \E k \in 1..29 : Names[k] = name
  BY <1>2, SMT DEF Names
<1> DEFINE n == CHOOSE k \in 1..Len(Names) : Names[k] = name
<1>4. n \in 1..29
  BY <1>1, <1>3
<1>5. At(name) = \h1C0 + \h40 * n
  BY DEF At
<1> HIDE DEF n
<1>6. QED
  BY <1>4, <1>5, SMT

(* What the runs call routines with.                                       *)
LEMMA OperandsAreWords ==
    ASSUME NEW name, NEW a
    PROVE  (a \in Firsts(name) \/ a \in Seconds(name)) => a \in Words
<1>1. WordsOf(Operands) \subseteq Words /\ WordsOf(Decimals) \subseteq Words
  <2>1. ASSUME NEW S, S \subseteq Bytes PROVE WordsOf(S) \subseteq Words
    BY <2>1, TwoBytes DEF WordsOf
  <2>2. Operands \subseteq Bytes /\ Decimals \subseteq Bytes
    BY InputsAssumption
  <2>3. QED
    BY <2>1, <2>2
<1>2. Few \subseteq Words
  BY InputsAssumption
<1>3. \hA53C \in Words
  <2>1. IsWord(\hA53C)
    BY SMT DEF IsWord
  <2>2. QED
    BY <2>1, ByteBounds
<1>4. QED
  BY <1>1, <1>2, <1>3 DEF Firsts, Seconds

(* Registers and IME may change to others of their types.                  *)
LEMMA SwitchType ==
    ASSUME NEW c, IsCpu(c), NEW r, IsRegs(r)
    PROVE  /\ IsCpu([c EXCEPT !.r = r, !.IME = TRUE])
           /\ IsCpu([c EXCEPT !.IME = FALSE]) /\ [c EXCEPT !.IME = FALSE].ticks = c.ticks
<1>1. ASSUME NEW b \in BOOLEAN PROVE IsCpu([c EXCEPT !.r = r, !.IME = b])
  <2> DEFINE d == [c EXCEPT !.r = r]
  <2>1. [c EXCEPT !.r = r, !.IME = b] = [d EXCEPT !.IME = b]
    OBVIOUS
  <2>2. d = [r |-> r, mem |-> c.mem, IME |-> c.IME, ticks |-> c.ticks]
    BY DEF IsCpu
  <2> HIDE DEF d
  <2>3. [d EXCEPT !.IME = b] = [r |-> r, mem |-> c.mem, IME |-> b, ticks |-> c.ticks]
    BY <2>2
  <2>4. QED
    BY <2>1, <2>3 DEF IsCpu
<1>2. ASSUME NEW b \in BOOLEAN PROVE IsCpu([c EXCEPT !.IME = b]) /\ [c EXCEPT !.IME = b].ticks = c.ticks
  <2>1. [c EXCEPT !.IME = b] = [r |-> c.r, mem |-> c.mem, IME |-> b, ticks |-> c.ticks]
    BY DEF IsCpu
  <2>2. QED
    BY <2>1 DEF IsCpu
<1>3. QED
  BY <1>1, <1>2

(* A call of a routine is a call from a processor with other registers.    *)
LEMMA CallType ==
    ASSUME ProcInv, NEW name \in DOMAIN Code, NEW a \in Words, NEW b \in Words,
           NEW carry \in BOOLEAN, CallRoutine(name, a, b, carry)
    PROVE  IsCpu(cpu')
<1> DEFINE one == store16(cpu, Data, a)
           there == store16(one, Data + 2, b)
           regs == [there.r EXCEPT !.A = Low(a), !.F = 16 * Bit(carry), !.B = \hB7,
                                   !.C = \hC9, !.D = High(b), !.E = Low(b),
                                   !.H = High(a), !.L = Low(a), !.PC = ReturnTo]
           c == [there EXCEPT !.r = regs, !.IME = TRUE]
<1>1. Data \in Int /\ Data + 2 \in Int
  BY DEF Data
<1>2. IsCpu(there)
  BY <1>1, Store16Type DEF ProcInv
<1>3. cpu' = Call(c, At(name), 12)
  BY DEF CallRoutine
<1> HIDE DEF there
<1>4. IsRegs(regs)
  <2>1. Low(a) \in Bytes /\ High(a) \in Bytes /\ Low(b) \in Bytes /\ High(b) \in Bytes
    BY WordHalves DEF Low, High
  <2>2. 16 * Bit(carry) \in Bytes /\ \hB7 \in Bytes /\ \hC9 \in Bytes /\ ReturnTo \in Words
    <3>1. Bit(carry) \in {0, 1}
      BY DEF Bit
    <3>2. IsByte(16 * Bit(carry)) /\ IsByte(\hB7) /\ IsByte(\hC9) /\ IsWord(ReturnTo)
      BY <3>1, SMT DEF IsByte, IsWord, ReturnTo
    <3>3. QED
      BY <3>2, ByteBounds
  <2> DEFINE f == 16 * Bit(carry)
             u == \hB7
             v == \hC9
  <2> HIDE DEF f, u, v
  <2>3. f \in Bytes /\ u \in Bytes /\ v \in Bytes
    BY <2>2 DEF f, u, v
  <2>4. regs = [there.r EXCEPT !["A"] = Low(a), !["F"] = f, !["B"] = u, !["C"] = v,
                               !["D"] = High(b), !["E"] = Low(b), !["H"] = High(a),
                               !["L"] = Low(a), !["PC"] = ReturnTo]
    BY DEF f, u, v
  <2>5. IsRegs(there.r)
    BY <1>2 DEF IsCpu
  <2> HIDE DEF regs
  <2>6. QED
    BY <2>1, <2>2, <2>3, <2>4, <2>5, BytesAreWords DEF IsRegs, Registers, Halfs
<1> HIDE DEF regs
<1>5. IsCpu(c)
  BY <1>2, <1>4, SwitchType
<1> HIDE DEF c
<1>6. Ran(Call(c, At(name), 12))
  <2>1. 0 \in Bytes
    BY ByteBounds, SMT DEF IsByte
  <2>2. 0 \in Words /\ At(name) \in Int /\ 12 \in Costs
    BY <2>1, BytesAreWords, RoutinesLie, CostNumbers
  <2>3. QED
    BY <1>5, <2>1, <2>2, JumpTypes
<1>7. QED
  BY <1>3, <1>6 DEF Ran

(* An interrupt is a call, too.                                            *)
LEMMA InterruptType ==
    ASSUME IsCpu(cpu), gb_CPU_interrupt(Vector)
    PROVE  IsCpu(cpu') /\ cpu'.ticks = cpu.ticks
<1> DEFINE p == Push(cpu, cpu.r.PC)
           j == Set(p, "PC", Vector)
           c == Returns(j, cpu.ticks)
<1>1. IsCpu(p)
  BY WordOperands, PushType
<1>2. IsCpu(j)
  BY <1>1, SetType DEF Registers, Halfs, Vector
<1>3. cpu.ticks \in Nat
  BY DEF IsCpu
<1>4. cpu' = [c EXCEPT !.IME = FALSE]
  BY DEF gb_CPU_interrupt, Call, Jump
<1> HIDE DEF j
<1>5. c = [r |-> j.r, mem |-> j.mem, IME |-> j.IME, ticks |-> cpu.ticks]
  BY <1>2 DEF Returns, IsCpu
<1> HIDE DEF c
<1>6. IsCpu(c) /\ c.ticks = cpu.ticks
  BY <1>2, <1>3, <1>5 DEF IsCpu
<1>7. IsRegs(c.r)
  BY <1>6 DEF IsCpu
<1>8. QED
  BY <1>4, <1>6, <1>7, SwitchType

(* It holds at the start                                                   *)
LEMMA ProcInvInit == Init => ProcInv
<1> SUFFICES ASSUME Init PROVE ProcInv
  OBVIOUS
<1>1. ops \in [Opcodes -> Slots] /\ entry \in Nat \ {0}
  BY DEF Init, DecoderInit, Slots
<1>2. QED
  BY <1>1, InitializedType DEF Init, ProcInv

(* and in every step.                                                      *)
LEMMA ProcInvNext == ProcInv /\ [Next]_vars => ProcInv'
<1> SUFFICES ASSUME ProcInv, [Next]_vars PROVE ProcInv'
  OBVIOUS
<1>1. CASE Decode
  <2>1. cpu' = cpu
    BY <1>1 DEF Decode
  <2>2. ops' \in [Opcodes -> Slots] /\ entry' \in Nat \ {0}
    <3> DEFINE e == BuildOrder[entry]
               slots == Matching(ParsePattern(e.op.pattern))
    <3>1. CASE \A o \in slots : CheckHandler(ops[o], e.is_override)
      <4>1. /\ ops' = [o \in Opcodes |->
                         IF o \in slots THEN [handler |-> e.op.handler, size |-> e.op.size]
                         ELSE ops[o]]
            /\ entry' = entry + 1
        BY <1>1, <3>1 DEF Decode, Populate
      <4>2. entry \in 1..Len(BuildOrder)
        <5>1. Len(BuildOrder) \in Nat
          BY EntryCount
        <5>2. QED
          BY <1>1, <5>1 DEF Decode, Populate, Built, ProcInv
      <4>3. [handler |-> e.op.handler, size |-> e.op.size] \in Slots
        BY <4>2, EntriesFit
      <4> HIDE DEF slots, e
      <4>4. QED
        BY <4>1, <4>3 DEF ProcInv
    <3>2. CASE ~ \A o \in slots : CheckHandler(ops[o], e.is_override)
      BY <1>1, <3>2 DEF Decode, Populate, ProcInv
    <3>3. QED
      BY <3>1, <3>2
  <2>3. QED
    BY <2>1, <2>2 DEF ProcInv
<1>2. CASE PowerOn
  BY <1>2, InitializedType DEF PowerOn, ProcInv, decoderVars
<1>3. CASE CallSome
  <2>1. PICK name \in DOMAIN Code : \E a \in Firsts(name), b \in Seconds(name), carry \in BOOLEAN :
            CallRoutine(name, a, b, carry)
    BY <1>3 DEF CallSome
  <2>2. PICK a \in Firsts(name), b \in Seconds(name), carry \in BOOLEAN :
            CallRoutine(name, a, b, carry)
    BY <2>1
  <2>3. a \in Words /\ b \in Words
    BY OperandsAreWords
  <2>4. IsCpu(cpu')
    BY <2>2, <2>3, CallType
  <2>5. QED
    BY <2>2, <2>4 DEF CallRoutine, ProcInv, decoderVars
<1>4. CASE Instruction
  <2>1. IsCpu(cpu')
    BY <1>4, ExecutedType DEF Instruction, gb_CPU_step, ProcInv, Ran
  <2>2. QED
    BY <1>4, <2>1 DEF Instruction, ProcInv, decoderVars
<1>5. CASE Interrupt
  <2>1. IsCpu(cpu')
    BY <1>5, InterruptType DEF Interrupt, ProcInv
  <2>2. QED
    BY <1>5, <2>1 DEF Interrupt, ProcInv, decoderVars
<1>6. CASE UNCHANGED vars
  BY <1>6 DEF vars, ProcInv, decoderVars
<1>7. QED
  BY <1>1, <1>2, <1>3, <1>4, <1>5, <1>6 DEF Next

(* An instruction takes 4 to 24 ticks in steps of 4, the ticks the other   *)
(* devices are told of, and leaves the lower half of F clear (cpu.c:55).   *)
InstructionsEndClean ==
    [][Instruction => cpu'.ticks \in Costs /\ cpu'.r.F % 16 = 0]_vars

(* Registers keep their widths and memory stays in RAM whatever            *)
(* instructions and interrupts follow each other in whatever program.      *)
THEOREM ProcessorTypeCorrect == Spec => []IsCpu(cpu) /\ InstructionsEndClean
<1>1. ProcInv /\ [Next]_vars => [Instruction => cpu'.ticks \in Costs /\ cpu'.r.F % 16 = 0]_vars
  BY ExecutedType DEF Instruction, gb_CPU_step, ProcInv, Ran
<1>2. ProcInv => IsCpu(cpu)
  BY DEF ProcInv
<1>3. QED
  BY <1>1, <1>2, ProcInvInit, ProcInvNext, PTL DEF Spec, InstructionsEndClean

-----------------------------------------------------------------------------
(* The stack.                                                              *)

(* An address or a word as it is stored.                                   *)
Wrapped(v) == v % 65536

(* It is a word, and a word is itself.                                     *)
LEMMA WrappedWord ==
    ASSUME NEW v \in Int
    PROVE  /\ Wrapped(v) \in Words /\ Wrapped(v) \in Int
           /\ v \in Words => Wrapped(v) = v
<1> DEFINE w == v % 65536
<1>1. IsWord(w) /\ w \in Int /\ (IsWord(v) => w = v)
  BY SMT DEF IsWord
<1>2. Wrapped(v) = w
  BY DEF Wrapped
<1> HIDE DEF w
<1>3. QED
  BY <1>1, <1>2, ByteBounds

(* What is stored in RAM is read back, and nothing else changes.           *)
LEMMA StoresAreRead ==
    ASSUME NEW c, IsCpu(c), NEW a \in Int, NEW v \in Bytes, ~(Wrapped(a) < RamBegin)
    PROVE  /\ load8(store8(c, a, v), a) = v
           /\ \A b \in Int : Wrapped(b) # Wrapped(a) => load8(store8(c, a, v), b) = load8(c, b)
<1> DEFINE at == Wrapped(a)
           m == Stored(c.mem, at, v)
           d == store8(c, a, v)
<1>1. d.mem = m
  <2>1. d = [c EXCEPT !.mem = m]
    BY DEF store8, Wrapped
  <2>2. d = [r |-> c.r, mem |-> m, IME |-> c.IME, ticks |-> c.ticks]
    BY <2>1 DEF IsCpu
  <2>3. QED
    BY <2>2
<1>2. /\ DOMAIN m = DOMAIN c.mem \cup {at} /\ m[at] = v
      /\ \A b \in DOMAIN c.mem : b # at => m[b] = c.mem[b]
  BY DEF Stored
<1>3. at \notin DOMAIN Rom
  <2>1. \A p \in DOMAIN Rom : p < RamBegin
    <3>1. RamBegin - 1 \in Int /\ RamBegin \in Int
      BY DEF RamBegin
    <3>2. ASSUME NEW p \in 0..(RamBegin - 1) PROVE p < RamBegin
      BY <3>1, Interval, SMT
    <3>3. QED
      BY <3>2, RomAssumption
  <2>2. QED
    BY <2>1
<1> HIDE DEF m
<1>4. load8(d, a) = v
  BY <1>1, <1>2, <1>3 DEF load8, Wrapped
<1>5. ASSUME NEW b \in Int, Wrapped(b) # at PROVE load8(d, b) = load8(c, b)
  <2> DEFINE w == Wrapped(b)
  <2>1. w # at
    BY <1>5
  <2>2. load8(d, b) = IF w \in DOMAIN Rom THEN Rom[w]
                      ELSE IF w \in DOMAIN m THEN m[w] ELSE 0
    BY <1>1 DEF load8, Wrapped
  <2>3. load8(c, b) = IF w \in DOMAIN Rom THEN Rom[w]
                      ELSE IF w \in DOMAIN c.mem THEN c.mem[w] ELSE 0
    BY DEF load8, Wrapped
  <2> HIDE DEF w, at
  <2>4. QED
    BY <1>2, <2>1, <2>2, <2>3
<1>6. QED
  BY <1>4, <1>5

(* Two bytes of RAM at a, as a stack pointer finds them.                   *)
WordInRam(a) == ~(Wrapped(a) < RamBegin) /\ ~(Wrapped(a + 1) < RamBegin)

(* A word that is stored there is read back, and nothing else changes.     *)
LEMMA WordsAreRead ==
    ASSUME NEW c, IsCpu(c), NEW a \in Int, NEW w \in Words, WordInRam(a)
    PROVE  /\ load16(store16(c, a, w), a) = w
           /\ \A b \in Int : Wrapped(b) \notin {Wrapped(a), Wrapped(a + 1)} =>
                  load8(store16(c, a, w), b) = load8(c, b)
<1> DEFINE lo == w % 256
           hi == w \div 256
           d == store8(c, a, lo)
           e == store8(d, a + 1, hi)
<1>1. lo \in Bytes /\ hi \in Bytes /\ a + 1 \in Int
  BY WordHalves
<1>2. w = lo + 256 * hi
  <2>1. IsWord(w)
    BY ByteBounds
  <2>2. QED
    BY <2>1, SMT DEF IsWord
<1>3. store16(c, a, w) = e
  BY DEF store16
<1>4. Wrapped(a) # Wrapped(a + 1)
  BY SMT DEF Wrapped
<1> HIDE DEF lo, hi
<1>5. /\ IsCpu(d) /\ load8(d, a) = lo
      /\ \A b \in Int : Wrapped(b) # Wrapped(a) => load8(d, b) = load8(c, b)
  BY <1>1, Store8Type, StoresAreRead DEF WordInRam
<1> HIDE DEF d
<1>6. /\ load8(e, a + 1) = hi
      /\ \A b \in Int : Wrapped(b) # Wrapped(a + 1) => load8(e, b) = load8(d, b)
  BY <1>1, <1>5, StoresAreRead DEF WordInRam
<1> HIDE DEF e
<1>7. load8(e, a) = lo
  BY <1>4, <1>5, <1>6
<1>8. load16(e, a) = w
  BY <1>2, <1>6, <1>7 DEF load16
<1>9. \A b \in Int : Wrapped(b) \notin {Wrapped(a), Wrapped(a + 1)} => load8(e, b) = load8(c, b)
  BY <1>5, <1>6
<1>10. QED
  BY <1>3, <1>8, <1>9

(* Assigning a word to a register or a pair, and reading it.               *)
LEMMA AssignedIsRead ==
    ASSUME NEW c, IsCpu(c), NEW name \in Registers \cup Pairs, NEW v \in Words,
           name \in Halfs => v \in Bytes
    PROVE  /\ Get(Set(c, name, v), name) = v
           /\ name \in Registers => Set(c, name, v).r = [c.r EXCEPT ![name] = v]
           /\ \A n \in {"SP", "PC"} : n # name => Set(c, name, v).r[n] = c.r[n]
<1> DEFINE word == Wrapped(v)
           d == Set(c, name, v)
<1>1. word = v
  BY WrappedWord, WordHalves
<1>2. d.r = Assigned(c.r, name, v)
  <2> DEFINE r == Assigned(c.r, name, v)
  <2>1. d = [c EXCEPT !.r = r]
    BY DEF Set
  <2> HIDE DEF r
  <2>2. d = [r |-> r, mem |-> c.mem, IME |-> c.IME, ticks |-> c.ticks]
    BY <2>1 DEF IsCpu
  <2>3. QED
    BY <2>2 DEF r
<1>3. IsRegs(c.r) /\ DOMAIN c.r = Registers
  BY DEF IsCpu, IsRegs
<1> HIDE DEF d
<1>4. CASE name \in Registers
  <2>1. name \notin DOMAIN Halves
    BY <1>4 DEF Halves, Registers, Halfs
  <2>2. Assigned(c.r, name, v) = [c.r EXCEPT ![name] = v]
    BY <1>1, <2>1 DEF Assigned, Wrapped
  <2>3. Get(d, name) = d.r[name]
    BY <2>1 DEF Get
  <2>4. \A n \in {"SP", "PC"} : n \in Registers
    BY DEF Registers
  <2>5. QED
    BY <1>2, <1>3, <1>4, <2>2, <2>3, <2>4 DEF d
<1>5. CASE name \in Pairs
  <2> DEFINE hi == Halves[name][1]
             lo == Halves[name][2]
             h == word \div 256
             l == v % 256
  <2>1. name \in DOMAIN Halves /\ hi \in Halfs /\ lo \in Halfs /\ hi # lo
        /\ name \notin Registers
    BY <1>5 DEF Halves, Pairs, Halfs, Registers
  <2>2. Assigned(c.r, name, v) = [c.r EXCEPT ![hi] = h, ![lo] = l]
    BY <2>1 DEF Assigned, Wrapped
  <2>3. Get(d, name) = 256 * d.r[hi] + d.r[lo]
    BY <2>1 DEF Get
  <2>4. v = 256 * h + l
    <3>1. IsWord(v)
      BY ByteBounds
    <3>2. v = 256 * (v \div 256) + (v % 256)
      BY <3>1, SMT DEF IsWord
    <3>3. QED
      BY <1>1, <3>2
  <2>5. hi \in Registers /\ lo \in Registers /\ \A n \in {"SP", "PC"} : n \in Registers /\ n \notin Halfs
    BY <2>1 DEF Registers, Halfs
  <2> HIDE DEF hi, lo, h, l
  <2>6. d.r[hi] = h /\ d.r[lo] = l /\ \A n \in {"SP", "PC"} : d.r[n] = c.r[n]
    BY <1>2, <1>3, <2>1, <2>2, <2>5
  <2>7. QED
    BY <2>1, <2>3, <2>4, <2>6 DEF d
<1>6. QED
  BY <1>4, <1>5

(* What a push leaves: its word at the new SP, and all else.               *)
LEMMA Pushed ==
    ASSUME NEW c, IsCpu(c), NEW w \in Words, WordInRam(Wrapped(c.r.SP - 2))
    PROVE  LET p == Push(c, w)
               sp == Wrapped(c.r.SP - 2)
           IN  /\ IsCpu(p) /\ p.IME = c.IME /\ p.ticks = c.ticks
               /\ p.r = [c.r EXCEPT !.SP = sp]
               /\ load16(p, sp) = w
               /\ \A b \in Int : Wrapped(b) \notin {sp, Wrapped(sp + 1)} => load8(p, b) = load8(c, b)
<1> DEFINE sp == Wrapped(c.r.SP - 2)
           d == Set(c, "SP", c.r.SP - 2)
           p == store16(d, d.r.SP, w)
<1>1. sp \in Words /\ sp \in Int /\ c.r.SP - 2 \in Int /\ Wrapped(sp) = sp
  <2>1. c.r.SP - 2 \in Int
    BY WordOperands
  <2>2. sp \in Words
    BY <2>1, WrappedWord
  <2> HIDE DEF sp
  <2>3. QED
    BY <2>1, <2>2, WordHalves, WrappedWord
<1>2. /\ "SP" \in Registers \cup Pairs /\ "SP" \notin Halfs /\ "SP" \notin DOMAIN Halves
      /\ "SP" \in Registers
  BY DEF Registers, Halfs, Halves
<1>3. IsCpu(d) /\ SameButRegs(c, d)
  BY <1>1, <1>2, SetType
<1>4. d.r = [c.r EXCEPT !.SP = sp]
  <2> DEFINE r == [c.r EXCEPT !.SP = sp]
  <2>1. Assigned(c.r, "SP", c.r.SP - 2) = r
    BY <1>2 DEF Assigned, Wrapped
  <2>2. d = [c EXCEPT !.r = r]
    BY <2>1 DEF Set
  <2> HIDE DEF r, d
  <2>3. d = [r |-> r, mem |-> c.mem, IME |-> c.IME, ticks |-> c.ticks]
    BY <2>2 DEF IsCpu
  <2>4. QED
    BY <2>3 DEF r
<1>5. d.r.SP = sp
  <2>1. DOMAIN c.r = Registers
    BY DEF IsCpu, IsRegs
  <2> HIDE DEF d, sp
  <2>2. QED
    BY <1>2, <1>4, <2>1
<1>6. Push(c, w) = p
  BY DEF Push
<1> HIDE DEF d, sp
<1>7. IsCpu(p) /\ SameButMem(d, p)
  BY <1>1, <1>3, <1>5, Store16Type
<1>8. WordInRam(sp)
  BY DEF sp
<1>9. /\ load16(p, sp) = w
      /\ \A b \in Int : Wrapped(b) \notin {sp, Wrapped(sp + 1)} => load8(p, b) = load8(d, b)
  BY <1>1, <1>3, <1>5, <1>8, WordsAreRead
<1>10. \A b \in Int : load8(d, b) = load8(c, b)
  BY <1>3 DEF load8, SameButRegs
<1> HIDE DEF p
<1>11. /\ IsCpu(p) /\ p.IME = c.IME /\ p.ticks = c.ticks /\ p.r = [c.r EXCEPT !.SP = sp]
  BY <1>3, <1>4, <1>7 DEF SameButRegs, SameButMem
<1>12. QED
  BY <1>6, <1>9, <1>10, <1>11 DEF sp

(* What a pop leaves: the word at SP in its register, and SP past it.      *)
LEMMA Popped ==
    ASSUME NEW c, IsCpu(c), NEW name \in Pairs \cup {"PC"}
    PROVE  LET q == PopTo(c, name)
           IN  /\ IsCpu(q) /\ q.mem = c.mem /\ q.IME = c.IME
               /\ Get(q, name) = load16(c, c.r.SP)
               /\ q.r.SP = Wrapped(c.r.SP + 2)
               /\ name \in Registers =>
                    q.r = [[c.r EXCEPT ![name] = load16(c, c.r.SP)] EXCEPT !.SP = Wrapped(c.r.SP + 2)]
<1> DEFINE w == load16(c, c.r.SP)
           sp == Wrapped(c.r.SP + 2)
           d == Set(c, name, w)
           q == Set(d, "SP", sp)
<1>1. w \in Words /\ w \in Int /\ sp \in Words /\ sp \in Int /\ c.r.SP + 2 \in Int
  <2>1. c.r.SP \in Int /\ c.r.SP + 2 \in Int
    BY WordOperands
  <2>2. w \in Words /\ sp \in Words
    BY <2>1, Load16Type, WrappedWord
  <2> HIDE DEF w, sp
  <2>3. QED
    BY <2>1, <2>2, WordHalves
<1>2. /\ name \in Registers \cup Pairs /\ name \notin Halfs /\ name # "SP"
      /\ "SP" \in Registers \cup Pairs /\ "SP" \in Registers /\ "SP" \notin Halfs
      /\ "SP" \notin DOMAIN Halves
  BY DEF Registers, Pairs, Halfs, Halves
<1>3. PopTo(c, name) = q
  <2>1. PopTo(c, name) = Set(d, "SP", c.r.SP + 2)
    BY DEF PopTo
  <2>2. Wrapped(sp) = sp
    BY <1>1, WrappedWord
  <2>3. \A r, v : Assigned(r, "SP", v) = [r EXCEPT !.SP = Wrapped(v)]
    BY <1>2 DEF Assigned, Wrapped
  <2> HIDE DEF d
  <2>4. Assigned(d.r, "SP", c.r.SP + 2) = Assigned(d.r, "SP", sp)
    BY <2>2, <2>3
  <2>5. QED
    BY <2>1, <2>4 DEF Set
<1> HIDE DEF w, sp
<1>4. /\ IsCpu(d) /\ SameButRegs(c, d) /\ Get(d, name) = w
      /\ name \in Registers => d.r = [c.r EXCEPT ![name] = w]
  BY <1>1, <1>2, SetType, AssignedIsRead
<1> HIDE DEF d
<1>5. IsCpu(q) /\ SameButRegs(d, q) /\ q.r = [d.r EXCEPT !.SP = sp] /\ q.r.SP = sp
  <2>1. IsCpu(q) /\ SameButRegs(d, q) /\ Get(q, "SP") = sp /\ q.r = [d.r EXCEPT !.SP = sp]
    BY <1>1, <1>2, <1>4, SetType, AssignedIsRead
  <2>2. Get(q, "SP") = q.r.SP
    BY <1>2 DEF Get
  <2>3. QED
    BY <2>1, <2>2
<1> HIDE DEF q
<1>6. Get(q, name) = w
  <2>1. DOMAIN d.r = Registers
    BY <1>4 DEF IsCpu, IsRegs
  <2>2. \A n \in Registers \ {"SP"} : q.r[n] = d.r[n]
    BY <1>5, <2>1
  <2>3. CASE name \in DOMAIN Halves
    <3>1. Halves[name][1] \in Registers \ {"SP"} /\ Halves[name][2] \in Registers \ {"SP"}
      BY <2>3 DEF Halves, Registers, Halfs
    <3>2. QED
      BY <1>4, <2>2, <2>3, <3>1 DEF Get
  <2>4. CASE name \notin DOMAIN Halves
    <3>1. name = "PC" /\ name \in Registers
      BY <2>4 DEF Halves, Pairs, Registers
    <3>2. QED
      BY <1>2, <1>4, <2>2, <2>4, <3>1 DEF Get
  <2>5. QED
    BY <2>3, <2>4
<1>7. QED
  BY <1>3, <1>4, <1>5, <1>6 DEF SameButRegs, w, sp

(* RET and RETI                                                            *)
RETI == \hD9
ReturnCodes == {\hC9, RETI}

(* What a return leaves: the word at SP in PC, and SP past it.             *)
LEMMA LeftByRet ==
    ASSUME NEW e, IsCpu(e), NEW op \in ReturnCodes
    PROVE  LET back == RET(e, op)
               w == load16(e, e.r.SP)
           IN  /\ back.r = [[e.r EXCEPT !["PC"] = w] EXCEPT !.SP = Wrapped(e.r.SP + 2)]
               /\ back.mem = e.mem
               /\ back.IME <=> e.IME \/ op = RETI
<1> DEFINE up == Wrapped(e.r.SP + 2)
           w == load16(e, e.r.SP)
           q == PopTo(e, "PC")
           r == Returns(q, 16)
           back == RET(e, op)
<1>1. "PC" \in Pairs \cup {"PC"} /\ "PC" \in Registers
  BY DEF Registers
<1>2. /\ IsCpu(q) /\ q.mem = e.mem /\ q.IME = e.IME
      /\ q.r = [[e.r EXCEPT !["PC"] = w] EXCEPT !.SP = up]
  BY <1>1, Popped
<1>3. back = [r EXCEPT !.IME = r.IME \/ 4 \in BitsOf(op)]
  BY DEF RET
<1> HIDE DEF q, up, w
<1>4. r.r = q.r /\ r.mem = q.mem /\ r.IME = q.IME /\ IsCpu(r)
  <2>1. 16 \in Costs
    BY CostNumbers
  <2>2. QED
    BY <1>2, <2>1, ReturnsType DEF Ran
<1> HIDE DEF r, back
<1>5. back.r = r.r /\ back.mem = r.mem /\ (back.IME <=> r.IME \/ 4 \in BitsOf(op))
  <2> DEFINE b == r.IME \/ 4 \in BitsOf(op)
  <2>1. back = [r EXCEPT !.IME = b]
    BY <1>3
  <2>2. b \in BOOLEAN
    OBVIOUS
  <2> HIDE DEF b
  <2>3. back = [r |-> r.r, mem |-> r.mem, IME |-> b, ticks |-> r.ticks]
    BY <1>4, <2>1 DEF IsCpu
  <2>4. QED
    BY <2>2, <2>3 DEF b
<1>6. 4 \in BitsOf(op) <=> op = RETI
  BY EachBit, SMT DEF ReturnCodes, RETI
<1>7. QED
  BY <1>2, <1>4, <1>5, <1>6 DEF back, up, w

(* What a call leaves: SP two lower and the return address there.          *)
LEMMA CallLeaves ==
    ASSUME NEW c, IsCpu(c), NEW a \in Int, NEW t, WordInRam(Wrapped(c.r.SP - 2))
    PROVE  LET d == Call(c, a, t)
           IN  d.r.SP = Wrapped(c.r.SP - 2) /\ load16(d, d.r.SP) = c.r.PC
<1> DEFINE sp == Wrapped(c.r.SP - 2)
           w == c.r.PC
           p == Push(c, w)
           j == Set(p, "PC", a)
           d == Call(c, a, t)
<1>1. w \in Words /\ c.r.SP \in Words /\ c.r.SP \in Int
  BY WordOperands
<1>2. IsCpu(p) /\ p.r = [c.r EXCEPT !.SP = sp] /\ load16(p, sp) = w
  BY <1>1, Pushed
<1>3. d = Returns(j, t)
  BY DEF Call, Jump
<1>4. "PC" \in Registers \cup Pairs /\ "PC" \in Registers /\ "PC" \notin Halfs
      /\ "SP" \in Registers /\ "PC" \notin DOMAIN Halves
  BY DEF Registers, Halfs, Halves
<1>6. p.r.SP = sp
  <2>1. DOMAIN c.r = Registers
    BY DEF IsCpu, IsRegs
  <2> HIDE DEF p, sp
  <2>2. QED
    BY <1>2, <1>4, <2>1
<1> HIDE DEF p, sp
<1>7. IsCpu(j) /\ SameButRegs(p, j) /\ j.r.SP = p.r.SP
  <2>1. IsCpu(j) /\ SameButRegs(p, j)
    BY <1>2, <1>4, SetType
  <2>2. DOMAIN p.r = Registers
    BY <1>2 DEF IsCpu, IsRegs
  <2> DEFINE r == [p.r EXCEPT !.PC = Wrapped(a)]
  <2>3. j = [p EXCEPT !.r = r]
    BY <1>4 DEF Set, Assigned, Wrapped
  <2>4. r.SP = p.r.SP
    BY <1>4, <2>2
  <2> HIDE DEF r, j
  <2>5. j = [r |-> r, mem |-> p.mem, IME |-> p.IME, ticks |-> p.ticks]
    BY <1>2, <2>3 DEF IsCpu
  <2>6. QED
    BY <2>1, <2>4, <2>5 DEF j
<1> HIDE DEF j
<1>8. d.r = j.r /\ d.mem = j.mem
  BY <1>3, <1>7 DEF Returns, IsCpu
<1> HIDE DEF d
<1>9. d.r.SP = sp /\ load16(d, sp) = w
  BY <1>2, <1>6, <1>7, <1>8 DEF load16, load8, SameButRegs
<1>10. QED
  BY <1>9 DEF d, sp

(* What a return makes of it, whoever left it.                             *)
LEMMA ReturnFinds ==
    ASSUME NEW c, IsCpu(c), NEW e, IsCpu(e), e.r.SP = Wrapped(c.r.SP - 2),
           load16(e, e.r.SP) = c.r.PC, NEW op \in ReturnCodes
    PROVE  LET back == RET(e, op)
           IN  /\ back.r = [e.r EXCEPT !.PC = c.r.PC, !.SP = c.r.SP]
               /\ back.mem = e.mem
               /\ back.IME <=> e.IME \/ op = RETI
<1> DEFINE sp == Wrapped(c.r.SP - 2)
<1>1. c.r.SP \in Words /\ c.r.SP \in Int
  BY WordOperands
<1>2. sp \in Int /\ Wrapped(sp + 2) = c.r.SP
  <2>1. IsWord(c.r.SP)
    BY <1>1, ByteBounds
  <2>2. QED
    BY <2>1, SMT DEF IsWord, Wrapped
<1> DEFINE back == RET(e, op)
<1>11. /\ back.r = [[e.r EXCEPT !["PC"] = load16(e, e.r.SP)] EXCEPT !.SP = Wrapped(e.r.SP + 2)]
       /\ back.mem = e.mem /\ (back.IME <=> e.IME \/ op = RETI)
  BY LeftByRet
<1>12. load16(e, e.r.SP) = c.r.PC /\ Wrapped(e.r.SP + 2) = c.r.SP
  BY <1>2
<1> HIDE DEF back
<1>13. back.r = [[e.r EXCEPT !["PC"] = c.r.PC] EXCEPT !.SP = c.r.SP]
  BY <1>11, <1>12
<1>14. back.r = [e.r EXCEPT !.PC = c.r.PC, !.SP = c.r.SP]
  BY <1>13
<1>15. QED
  BY <1>11, <1>14 DEF back

(* A routine that was called, by CALL or RST, and that gives SP and the    *)
(* return address back as it got them returns to where it was called, with *)
(* the caller's SP and whatever else it leaves; RETI enables interrupts    *)
(* and RET does not (cpu.c:513, 520).                                      *)
THEOREM CallsReturn ==
    ASSUME NEW c, IsCpu(c), NEW a \in Int, NEW t, WordInRam(Wrapped(c.r.SP - 2)),
           NEW d, d = Call(c, a, t),
           NEW e, IsCpu(e), e.r.SP = d.r.SP, load16(e, e.r.SP) = load16(d, d.r.SP),
           NEW op \in ReturnCodes
    PROVE  LET back == RET(e, op)
           IN  /\ back.r = [e.r EXCEPT !.PC = c.r.PC, !.SP = c.r.SP]
               /\ back.mem = e.mem
               /\ back.IME <=> e.IME \/ op = RETI
<1>1. d.r.SP = Wrapped(c.r.SP - 2) /\ load16(d, d.r.SP) = c.r.PC
  BY CallLeaves
<1>2. e.r.SP = Wrapped(c.r.SP - 2) /\ load16(e, e.r.SP) = c.r.PC
  BY <1>1
<1>3. QED
  BY <1>2, ReturnFinds

(* So does what an interrupt suspended: RETI in a handler that keeps its   *)
(* part finds the place, the SP and the IME of before (cpu.c:59, 505).     *)
THEOREM InterruptsReturn ==
    ASSUME IsCpu(cpu), NEW vector \in Int, gb_CPU_interrupt(vector),
           WordInRam(Wrapped(cpu.r.SP - 2)),
           NEW e, IsCpu(e), e.r.SP = cpu'.r.SP, load16(e, e.r.SP) = load16(cpu', cpu'.r.SP)
    PROVE  LET back == RET(e, RETI)
           IN  /\ back.r = [e.r EXCEPT !.PC = cpu.r.PC, !.SP = cpu.r.SP]
               /\ back.mem = e.mem /\ back.IME
<1> DEFINE c == cpu
           j == Set(Push(c, c.r.PC), "PC", vector)
           d == Call(c, vector, c.ticks)
           back == RET(e, RETI)
<1>1. IsCpu(j)
  BY WordOperands, PushType, SetType DEF Registers, Halfs
<1>2. d = Returns(j, c.ticks)
  BY DEF Call, Jump
<1>3. cpu' = [d EXCEPT !.IME = FALSE]
  BY DEF gb_CPU_interrupt
<1> HIDE DEF j
<1>4. d = [r |-> j.r, mem |-> j.mem, IME |-> j.IME, ticks |-> c.ticks]
  BY <1>1, <1>2 DEF Returns, IsCpu
<1> HIDE DEF d
<1>5. cpu'.r = d.r /\ cpu'.mem = d.mem
  BY <1>3, <1>4
<1>6. /\ load16(cpu', cpu'.r.SP) = load16(d, d.r.SP)
      /\ e.r.SP = d.r.SP /\ load16(e, e.r.SP) = load16(d, d.r.SP)
  BY <1>5 DEF load16, load8
<1>7. d.r.SP = Wrapped(c.r.SP - 2) /\ load16(d, d.r.SP) = c.r.PC
  BY CallLeaves DEF d
<1>8. e.r.SP = Wrapped(c.r.SP - 2) /\ load16(e, e.r.SP) = c.r.PC
  BY <1>6, <1>7
<1>9. RETI \in ReturnCodes
  BY DEF ReturnCodes
<1>10. /\ back.r = [e.r EXCEPT !.PC = c.r.PC, !.SP = c.r.SP]
       /\ back.mem = e.mem /\ (back.IME <=> e.IME \/ RETI = RETI)
  BY <1>8, <1>9, ReturnFinds
<1>11. QED
  BY <1>10

-----------------------------------------------------------------------------
(* The decoder.                                                            *)

(* A pattern says of an opcode what each of its characters says of a bit.  *)
Fits(p, o) == \A b \in 0..7 : p[8 - b] \in {x, IF b \in BitsOf(o) THEN 1 ELSE 0}

(* The same, bit by bit.                                                   *)
LEMMA FitsByBits ==
    ASSUME NEW p, NEW o
    PROVE  Fits(p, o) <=>
              /\ p[1] \in {2, IF 7 \in BitsOf(o) THEN 1 ELSE 0}
              /\ p[2] \in {2, IF 6 \in BitsOf(o) THEN 1 ELSE 0}
              /\ p[3] \in {2, IF 5 \in BitsOf(o) THEN 1 ELSE 0}
              /\ p[4] \in {2, IF 4 \in BitsOf(o) THEN 1 ELSE 0}
              /\ p[5] \in {2, IF 3 \in BitsOf(o) THEN 1 ELSE 0}
              /\ p[6] \in {2, IF 2 \in BitsOf(o) THEN 1 ELSE 0}
              /\ p[7] \in {2, IF 1 \in BitsOf(o) THEN 1 ELSE 0}
              /\ p[8] \in {2, IF 0 \in BitsOf(o) THEN 1 ELSE 0}
<1> DEFINE A(b) == p[8 - b] \in {2, IF b \in BitsOf(o) THEN 1 ELSE 0}
<1>1. Fits(p, o) <=> \A b \in 0..7 : A(b)
  BY DEF Fits, x
<1> HIDE DEF A
<1>2. (\A b \in 0..7 : A(b)) <=> A(7) /\ A(6) /\ A(5) /\ A(4) /\ A(3) /\ A(2) /\ A(1) /\ A(0)
  BY SMT
<1>3. QED
  BY <1>1, <1>2, SMT DEF A

(* Its parsed form matches the opcodes it says, unless it leaves all open. *)
LEMMA MatchesAreFits ==
    ASSUME NEW p, NEW o, p[1] # x, \A b \in 0..7 : p[8 - b] \in {0, 1, x}
    PROVE  SigMatch(ParsePattern(p), o) <=> Fits(p, o)
<1> DEFINE free == {b \in 0..7 : p[8 - b] = x}
           sig == ParsePattern(p)
<1>1. /\ sig.r = (0..7) \ free /\ sig.m = {b \in 0..7 : p[8 - b] = 1}
      /\ sig.n = OneShifted(Cardinality(free))
  BY DEF ParsePattern
<1>2. OneShifted(Cardinality(free)) > 0
  <2>1. IsFiniteSet(0..7) /\ Cardinality(0..7) = 8
    <3>1. PICK a \in Int, b \in Int : a = 0 /\ b = 7
      BY SMT
    <3> DEFINE S == a..b
               C == Cardinality(S)
    <3>2. S = 0..7
      BY <3>1
    <3>3. IsFiniteSet(S) /\ C = IF a > b THEN 0 ELSE b - a + 1
      BY FS_Interval
    <3> HIDE DEF C
    <3>4. C = 8
      BY <3>1, <3>3, SMT
    <3> HIDE DEF S
    <3>5. QED
      BY <3>2, <3>3, <3>4 DEF C
  <2>2. 7 \in 0..7 /\ 7 \notin free
    BY SMT
  <2>3. free \subseteq 0..7 /\ free # 0..7
    BY <2>2
  <2> HIDE DEF free
  <2>4. Cardinality(free) \in 0..7
    <3> DEFINE S == 0..7
               c == Cardinality(free)
    <3>1. S = 0..7
      OBVIOUS
    <3> HIDE DEF S
    <3>2. IsFiniteSet(S) /\ Cardinality(S) = 8 /\ free \subseteq S /\ free # S
      BY <2>1, <2>3, <3>1
    <3>3. IsFiniteSet(free) /\ c <= Cardinality(S) /\ (Cardinality(S) = c => S = free)
      BY <3>2, FS_Subset
    <3>4. c \in Nat
      BY <3>3, FS_CardinalityType
    <3> HIDE DEF c
    <3>5. c <= 8 /\ c # 8
      BY <3>2, <3>3
    <3>6. c \in 0..7
      BY <3>4, <3>5, SMT
    <3>7. QED
      BY <3>6 DEF c
  <2>5. \A c \in 0..7 : OneShifted(c) > 0
    BY SMT DEF OneShifted, Weight, Weights
  <2>6. QED
    BY <2>4, <2>5
<1>3. BitsOf(o) \subseteq 0..7
  BY DEF BitsOf
<1>4. SigMatch(sig, o) <=> BitsOf(o) \cap sig.r = sig.m
  BY <1>1, <1>2 DEF SigMatch
<1> DEFINE A(b) == p[8 - b]
           bits == BitsOf(o)
<1>5. /\ sig.r = {b \in 0..7 : A(b) # x} /\ sig.m = {b \in 0..7 : A(b) = 1}
      /\ \A b \in 0..7 : A(b) \in {0, 1, x}
      /\ Fits(p, o) <=> \A b \in 0..7 : A(b) \in {x, IF b \in bits THEN 1 ELSE 0}
  BY <1>1 DEF Fits
<1>6. x # 0 /\ x # 1 /\ 0 # 1
  BY SMT DEF x
<1> HIDE DEF A, sig, bits
<1>7. bits \cap sig.r = sig.m <=> \A b \in 0..7 : (b \in bits /\ A(b) # x) <=> A(b) = 1
  BY <1>3, <1>5 DEF bits
<1>8. QED
  BY <1>4, <1>5, <1>6, <1>7 DEF sig, bits

(* The definition an opcode belongs to, by its bits; 0 for none.           *)
Meant(o) ==
    LET b(n) == n \in BitsOf(o)
        third(e0, e1, e2, e3, e4, e5, e6, e7) ==
            IF b(2) THEN (IF b(1) THEN (IF b(0) THEN e7 ELSE e6) ELSE (IF b(0) THEN e5 ELSE e4))
                    ELSE (IF b(1) THEN (IF b(0) THEN e3 ELSE e2) ELSE (IF b(0) THEN e1 ELSE e0))
        second(e0, e1, e2, e3, e4, e5, e6, e7) ==
            IF b(5) THEN (IF b(4) THEN (IF b(3) THEN e7 ELSE e6) ELSE (IF b(3) THEN e5 ELSE e4))
                    ELSE (IF b(4) THEN (IF b(3) THEN e3 ELSE e2) ELSE (IF b(3) THEN e1 ELSE e0))
    IN  IF b(7) = b(6)
        THEN IF b(7)
             THEN third(second(40, 40, 40, 40, 15, 10, 16, 11),
                        second(30, 39, 30, 39, 30, 36, 30, 12),
                        second(34, 34, 34, 34, 17, 13, 18, 14),
                        second(35, 48, 0, 0, 0, 0, 45, 46),
                        second(38, 38, 38, 38, 0, 0, 0, 0),
                        second(31, 37, 31, 0, 31, 0, 31, 0), 26, 41)
             ELSE third(second(44, 1, 47, 33, 32, 32, 32, 32),
                        IF b(3) THEN 9 ELSE 2,
                        second(5, 6, 5, 6, 19, 20, 21, 22),
                        IF b(3) THEN 8 ELSE 7, 23, 24, 4,
                        second(29, 29, 29, 29, 27, 28, 43, 42))
        ELSE IF b(7) THEN 25 ELSE 3

(* A definition whose pattern an opcode fits is the one it belongs to,     *)
LEMMA OnlyTheMeant ==
    ASSUME NEW o, NEW k \in 1..48, Fits(OpDefs[k].pattern, o)
    PROVE  Meant(o) = k
BY FitsByBits, SMTT(60) DEF Meant, OpDefs, Op, x

(* and it fits that one.                                                   *)
LEMMA TheMeantFits ==
    ASSUME NEW o, NEW k \in 1..48, Meant(o) = k
    PROVE  Fits(OpDefs[k].pattern, o)
<1> DEFINE p == OpDefs[k].pattern
           Agree(i, n) == p[i] \in {2, IF n \in BitsOf(o) THEN 1 ELSE 0}
<1>1. Agree(1, 7)
  BY SMTT(30) DEF Meant, OpDefs, Op, x
<1>2. Agree(2, 6)
  BY SMTT(30) DEF Meant, OpDefs, Op, x
<1>3. Agree(3, 5)
  BY SMTT(30) DEF Meant, OpDefs, Op, x
<1>4. Agree(4, 4)
  BY SMTT(30) DEF Meant, OpDefs, Op, x
<1>5. Agree(5, 3)
  BY SMTT(30) DEF Meant, OpDefs, Op, x
<1>6. Agree(6, 2)
  BY SMTT(30) DEF Meant, OpDefs, Op, x
<1>7. Agree(7, 1)
  BY SMTT(30) DEF Meant, OpDefs, Op, x
<1>8. Agree(8, 0)
  BY SMTT(30) DEF Meant, OpDefs, Op, x
<1> HIDE DEF p
<1>9. QED
  BY <1>1, <1>2, <1>3, <1>4, <1>5, <1>6, <1>7, <1>8, FitsByBits DEF p

(* There are 48 of them.                                                   *)
LEMMA MeantType ==
    ASSUME NEW o
    PROVE  Meant(o) \in 0..48
BY SMT DEF Meant

(* The opcodes without an instruction.                                     *)
LEMMA NoneMeant ==
    ASSUME NEW o \in Opcodes
    PROVE  Meant(o) = 0 <=> o \in NoOpcode
<1>1. IsByte(o)
  BY SMT DEF Opcodes, IsByte
<1> DEFINE d(n) == IF n \in BitsOf(o) THEN 1 ELSE 0
<1>2. o = d(0) + 2 * d(1) + 4 * d(2) + 8 * d(3) + 16 * d(4) + 32 * d(5) + 64 * d(6) + 128 * d(7)
  <2>1. /\ d(0) = (o \div 1) % 2 /\ d(1) = (o \div 2) % 2 /\ d(2) = (o \div 4) % 2
        /\ d(3) = (o \div 8) % 2 /\ d(4) = (o \div 16) % 2 /\ d(5) = (o \div 32) % 2
        /\ d(6) = (o \div 64) % 2 /\ d(7) = (o \div 128) % 2
    BY <1>1, EachBit, SMT DEF IsByte
  <2>2. QED
    BY <1>1, <2>1, DigitsSum
<1>3. QED
  BY <1>2, SMT DEF Meant, NoOpcode

(* The override, and the definition it overrides.                          *)
LEMMA OverridesFill ==
    ASSUME NEW o, Fits(OpOvrs[1].pattern, o)
    PROVE  Meant(o) = 3
BY FitsByBits, SMTT(30) DEF Meant, OpOvrs, Op, x


(* The patterns have two bits at least to tell opcodes by.                 *)
LEMMA PatternsParse ==
    ASSUME NEW o
    PROVE  /\ \A k \in 1..48 : SigMatch(ParsePattern(OpDefs[k].pattern), o) <=> Fits(OpDefs[k].pattern, o)
           /\ SigMatch(ParsePattern(OpOvrs[1].pattern), o) <=> Fits(OpOvrs[1].pattern, o)
<1>1. ASSUME NEW k \in 1..48
      PROVE  OpDefs[k].pattern[1] # x /\ \A b \in 0..7 : OpDefs[k].pattern[8 - b] \in {0, 1, x}
  BY SMTT(30) DEF OpDefs, Op, x
<1>2. OpOvrs[1].pattern[1] # x /\ \A b \in 0..7 : OpOvrs[1].pattern[8 - b] \in {0, 1, x}
  BY SMTT(30) DEF OpOvrs, Op, x
<1>3. QED
  BY <1>1, <1>2, MatchesAreFits

(* The definitions first, then the override.                               *)
LEMMA EntryOrder ==
    ASSUME NEW n \in 1..49
    PROVE  /\ n # 49 => BuildOrder[n] = [op |-> OpDefs[n], is_override |-> FALSE]
           /\ n = 49 => BuildOrder[n] = [op |-> OpOvrs[1], is_override |-> TRUE]
<1>1. Len(OpDefs) = 48 /\ Len(OpOvrs) = 1
  BY DEF OpDefs, OpOvrs
<1>2. CASE n \in 1..48
  <2>1. BuildOrder[n] = [op |-> OpDefs[n], is_override |-> FALSE]
    BY <1>1, <1>2, SMT DEF BuildOrder, Mark
  <2>2. n # 49
    BY <1>2, SMT
  <2>3. QED
    BY <2>1, <2>2
<1>3. CASE n = 49
  <2>1. BuildOrder[n] = [op |-> OpOvrs[1], is_override |-> TRUE]
    BY <1>1, <1>3, SMT DEF BuildOrder, Mark
  <2>2. QED
    BY <1>3, <2>1
<1>4. n \in 1..48 \/ n = 49
  BY SMT
<1>5. QED
  BY <1>2, <1>3, <1>4

(* What a slot holds when the entries before the n-th are in.              *)
Filled(k) == [handler |-> OpDefs[k].handler, size |-> OpDefs[k].size]
Overridden == [handler |-> OpOvrs[1].handler, size |-> OpOvrs[1].size]
Empty == [handler |-> None, size |-> 0]

Holds(n, o) ==
    IF n = 50 /\ Fits(OpOvrs[1].pattern, o) THEN Overridden
    ELSE IF Meant(o) # 0 /\ Meant(o) < n THEN Filled(Meant(o)) ELSE Empty

(* The table so far, and all of it before the processor runs.              *)
TableInv ==
    /\ ~aborted /\ entry \in 1..50
    /\ ops = [o \in Opcodes |-> Holds(entry, o)]
    /\ routine # "start-up" => entry = 50

(* The empty table                                                         *)
LEMMA TableInit == Init => TableInv
<1> SUFFICES ASSUME Init PROVE TableInv
  OBVIOUS
<1>1. ASSUME NEW o \in Opcodes PROVE Holds(1, o) = Empty
  <2>1. Meant(o) \in 0..48
    BY MeantType
  <2>2. 1 # 50 /\ ~(Meant(o) # 0 /\ Meant(o) < 1)
    BY <2>1, SMT
  <2>3. QED
    BY <2>2 DEF Holds
<1>2. 1 \in 1..50
  BY SMT
<1>3. QED
  BY <1>1, <1>2 DEF Init, DecoderInit, TableInv, Empty

(* grows by an entry that meets what it expects                            *)
LEMMA TableGrows ==
    ASSUME TableInv, Populate
    PROVE  ~aborted' /\ entry' \in 1..50 /\ ops' = [o \in Opcodes |-> Holds(entry', o)]
<1> DEFINE n == entry
           e == BuildOrder[n]
           slots == Matching(ParsePattern(e.op.pattern))
<1>1. n \in 1..49
  <2>1. entry \in 1..50 /\ ~(entry > 49)
    BY EntryCount DEF TableInv, Populate, Built
  <2>2. QED
    BY <2>1, SMT
<1>2. \A o \in Opcodes : ops[o] = Holds(n, o)
  BY DEF TableInv
<1>3. IF \A o \in slots : CheckHandler(ops[o], e.is_override)
      THEN /\ ops' = [o \in Opcodes |->
                        IF o \in slots THEN [handler |-> e.op.handler, size |-> e.op.size] ELSE ops[o]]
           /\ entry' = n + 1 /\ UNCHANGED aborted
      ELSE aborted' = TRUE /\ UNCHANGED <<ops, entry>>
  BY DEF Populate
<1>4. ~aborted
  BY DEF TableInv
<1>5. ASSUME \A o \in slots : o \in Opcodes => CheckHandler(Holds(n, o), e.is_override),
             \A o \in Opcodes :
                Holds(n + 1, o) = IF o \in slots THEN [handler |-> e.op.handler, size |-> e.op.size]
                                  ELSE Holds(n, o)
      PROVE  ~aborted' /\ entry' \in 1..50 /\ ops' = [o \in Opcodes |-> Holds(entry', o)]
  <2>1. \A o \in slots : o \in Opcodes
    BY DEF Matching
  <2>2. n + 1 \in 1..50
    BY <1>1, SMT
  <2> HIDE DEF slots, e, n
  <2>3. \A o \in slots : CheckHandler(ops[o], e.is_override)
    BY <1>2, <1>5, <2>1
  <2>4. QED
    BY <1>2, <1>3, <1>4, <1>5, <2>2, <2>3
<1>6. CASE n # 49
  <2>1. e = [op |-> OpDefs[n], is_override |-> FALSE] /\ n \in 1..48
    <3>1. n \in 1..48
      BY <1>1, <1>6, SMT
    <3>2. QED
      BY <1>1, <1>6, <3>1, EntryOrder
  <2>2. e.op = OpDefs[n] /\ e.is_override = FALSE
    BY <2>1
  <2>3. \A o : o \in slots <=> o \in Opcodes /\ Meant(o) = n
    BY <2>1, <2>2, PatternsParse, OnlyTheMeant, TheMeantFits DEF Matching
  <2>4. ASSUME NEW o, Meant(o) = n PROVE CheckHandler(Holds(n, o), FALSE)
    <3>1. n # 50 /\ ~(Meant(o) < n)
      BY <2>1, <2>4, SMT
    <3>2. Holds(n, o) = Empty
      BY <3>1 DEF Holds
    <3>3. QED
      BY <3>2 DEF Empty, CheckHandler
  <2>5. ASSUME NEW o
        PROVE  Holds(n + 1, o) = IF Meant(o) = n THEN Filled(n) ELSE Holds(n, o)
    <3> DEFINE m == Meant(o)
    <3>1. m \in 0..48
      BY MeantType
    <3> HIDE DEF m
    <3>2. /\ n # 50 /\ n + 1 # 50
          /\ (m # 0 /\ m < n + 1) <=> (m = n \/ (m # 0 /\ m < n))
          /\ m = n => m # 0
      BY <2>1, <3>1, SMT
    <3>3. QED
      BY <3>2 DEF Holds, m
  <2> HIDE DEF slots, e
  <2>6. QED
    BY <1>5, <2>2, <2>3, <2>4, <2>5 DEF Filled
<1>7. CASE n = 49
  <2>1. e = [op |-> OpOvrs[1], is_override |-> TRUE]
    BY <1>1, <1>7, EntryOrder
  <2>2. e.op = OpOvrs[1] /\ e.is_override = TRUE
    BY <2>1
  <2>3. \A o : o \in slots <=> o \in Opcodes /\ Fits(OpOvrs[1].pattern, o)
    BY <2>2, PatternsParse DEF Matching
  <2>4. ASSUME NEW o, Fits(OpOvrs[1].pattern, o) PROVE CheckHandler(Holds(n, o), TRUE)
    <3>1. Meant(o) = 3
      BY <2>4, OverridesFill
    <3>2. n # 50 /\ Meant(o) # 0 /\ Meant(o) < n
      BY <1>7, <3>1, SMT
    <3>3. Holds(n, o) = Filled(3)
      BY <3>1, <3>2 DEF Holds
    <3>4. Filled(3).handler # None /\ Filled(3).size # 0
      BY SMT DEF Filled, OpDefs, Op, None
    <3>5. QED
      BY <3>3, <3>4 DEF CheckHandler
  <2>5. ASSUME NEW o
        PROVE  Holds(n + 1, o) = IF Fits(OpOvrs[1].pattern, o) THEN Overridden ELSE Holds(n, o)
    <3> DEFINE m == Meant(o)
    <3>1. m \in 0..48
      BY MeantType
    <3> HIDE DEF m
    <3>2. n # 50 /\ n + 1 = 50 /\ (m < n + 1 <=> m < n)
      BY <1>7, <3>1, SMT
    <3>3. QED
      BY <3>2 DEF Holds, m
  <2> HIDE DEF slots, e
  <2>6. QED
    BY <1>5, <2>2, <2>3, <2>4, <2>5 DEF Overridden
<1>8. QED
  BY <1>6, <1>7

(* and stays when it is built.                                             *)
LEMMA TableNext == TableInv /\ [Next]_vars => TableInv'
<1> SUFFICES ASSUME TableInv, [Next]_vars PROVE TableInv'
  OBVIOUS
<1>1. CASE Decode
  <2>1. routine # "start-up" => FALSE
    BY <1>1, EntryCount, SMT DEF Decode, Populate, Built, TableInv
  <2>2. QED
    BY <1>1, <2>1, TableGrows DEF Decode, TableInv
<1>2. CASE PowerOn
  <2>1. entry \in 1..50 /\ entry > 49
    BY <1>2, EntryCount DEF PowerOn, Built, TableInv
  <2>2. entry = 50
    BY <2>1, SMT
  <2>3. QED
    BY <1>2, <2>2 DEF PowerOn, TableInv, decoderVars
<1>3. CASE CallSome
  BY <1>3 DEF CallSome, CallRoutine, TableInv, decoderVars
<1>4. CASE Instruction
  BY <1>4 DEF Instruction, TableInv, decoderVars
<1>5. CASE Interrupt
  BY <1>5 DEF Interrupt, TableInv, decoderVars
<1>6. CASE UNCHANGED vars
  BY <1>6 DEF vars, TableInv, decoderVars
<1>7. QED
  BY <1>1, <1>2, <1>3, <1>4, <1>5, <1>6 DEF Next

(* Building the table never aborts, and every opcode gets the one          *)
(* definition whose pattern it fits, or the override, or nothing if it is  *)
(* none of the processor's (dispatch_tables.c:51, 126, 156).               *)
THEOREM DecoderIsExact == Spec => []DecodingIsExact
<1>1. TableInv => DecodingIsExact
  <2> SUFFICES ASSUME TableInv, routine = "main", NEW o \in Opcodes
               PROVE  \/ \E k \in Says(OpOvrs, o) : ops[o].handler = OpOvrs[k].handler
                      \/ /\ Says(OpOvrs, o) = {} /\ o \notin NoOpcode
                         /\ \E k \in Says(OpDefs, o) :
                              Says(OpDefs, o) = {k} /\ ops[o] = [handler |-> OpDefs[k].handler, size |-> OpDefs[k].size]
                      \/ o \in NoOpcode /\ Says(OpDefs, o) = {} /\ ops[o].handler = None
    BY DEF DecodingIsExact, TableInv
  <2>1. entry = 50 /\ ops[o] = Holds(50, o)
    BY DEF TableInv
  <2>2. DOMAIN OpDefs = 1..48 /\ DOMAIN OpOvrs = {1}
    BY SMT DEF OpDefs, OpOvrs
  <2>3. /\ \A k : k \in Says(OpDefs, o) <=> k \in 1..48 /\ Fits(OpDefs[k].pattern, o)
        /\ \A k : k \in Says(OpOvrs, o) <=> k = 1 /\ Fits(OpOvrs[1].pattern, o)
    BY <2>2 DEF Says, Fits
  <2>4. Meant(o) \in 0..48
    BY MeantType
  <2>5. CASE Fits(OpOvrs[1].pattern, o)
    <3>1. ops[o] = Overridden
      BY <2>1, <2>5 DEF Holds
    <3>2. QED
      BY <2>3, <2>5, <3>1 DEF Overridden
  <2>6. CASE ~Fits(OpOvrs[1].pattern, o) /\ Meant(o) # 0
    <3> DEFINE k == Meant(o)
    <3>1. k \in 1..48 /\ k # 0 /\ k < 50
      BY <2>4, <2>6, SMT
    <3>2. ops[o] = Filled(k)
      BY <2>1, <2>6, <3>1 DEF Holds
    <3>3. o \notin NoOpcode
      BY <2>6, NoneMeant
    <3>4. \A i : i \in Says(OpDefs, o) <=> i = k
      BY <2>3, <3>1, OnlyTheMeant, TheMeantFits
    <3>5. Says(OpOvrs, o) = {}
      BY <2>3, <2>6
    <3> HIDE DEF k
    <3>6. Says(OpDefs, o) = {k}
      BY <3>4
    <3>7. QED
      BY <3>2, <3>3, <3>5, <3>6 DEF Filled
  <2>7. CASE ~Fits(OpOvrs[1].pattern, o) /\ Meant(o) = 0
    <3>1. ops[o] = Empty
      BY <2>1, <2>7 DEF Holds
    <3>2. o \in NoOpcode
      BY <2>7, NoneMeant
    <3>3. \A k \in 1..48 : k # 0
      BY SMT
    <3>4. Says(OpDefs, o) = {}
      BY <2>3, <2>7, <3>3, OnlyTheMeant
    <3>5. QED
      BY <3>1, <3>2, <3>4 DEF Empty
  <2>8. QED
    BY <2>5, <2>6, <2>7
<1>2. QED
  BY <1>1, TableInit, TableNext, PTL DEF Spec

=============================================================================
