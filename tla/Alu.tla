---------------------------------- MODULE Alu ----------------------------------
(***************************************************************************)
(* The arithmetic of cpu.c: what the ALU, DAA, rotate, shift and bit       *)
(* instructions make of a byte and the flags.  An outcome is the byte r    *)
(* and the flags Z, N, H, C; bytes wrap at 256 as gb_word_t does.          *)
(***************************************************************************)
EXTENDS Binary

Flags == [Z : BOOLEAN, N : BOOLEAN, H : BOOLEAN, C : BOOLEAN]

Outcome(value, n, h, c) ==
    [r |-> value, Z |-> value = 0, N |-> n, H |-> h, C |-> c]

-----------------------------------------------------------------------------

(* gb_ALU_A_N.  The half carries are those of HC_ADD, HC_ADC, HC_SUB and   *)
(* HC_SBC; the carries compare as the code does, SBC and ADC as integers.  *)
ADD(A, n) ==
    LET r == (A + n) % 256
    IN  Outcome(r, FALSE, (A % 16) + (n % 16) >= 16, r < A)

(* Slip: the carry of ADD, which misses the carry in.                      *)
AdcCarryOfAdd(A, n, c) ==
    LET r == (A + n + Bit(c)) % 256
    IN  Outcome(r, FALSE, (A % 16) + (n % 16) + Bit(c) >= 16, r < A)

ADC(A, n, c) ==
    LET r == (A + n + Bit(c)) % 256
    IN  Outcome(r, FALSE, (A % 16) + (n % 16) + Bit(c) >= 16, A + n + Bit(c) > r)

SUB(A, n) ==
    Outcome((A - n) % 256, TRUE, A % 16 < n % 16, n > A)

(* Slip: the borrow of SUB, which misses the borrow in.                    *)
SbcCarryOfSub(A, n, c) ==
    Outcome((A - n - Bit(c)) % 256, TRUE, A % 16 < (n % 16) + Bit(c), n > A)

SBC(A, n, c) ==
    Outcome((A - n - Bit(c)) % 256, TRUE,
            A % 16 < (n % 16) + Bit(c), n + Bit(c) > A)

AND(A, n) == Outcome(ByteOf(BitsOf(A) \cap BitsOf(n)), FALSE, TRUE, FALSE)
OR(A, n)  == Outcome(ByteOf(BitsOf(A) \cup BitsOf(n)), FALSE, FALSE, FALSE)
XOR(A, n) ==
    Outcome(ByteOf((BitsOf(A) \cup BitsOf(n)) \ (BitsOf(A) \cap BitsOf(n))),
            FALSE, FALSE, FALSE)

(* Slip: the upper digit is judged before the lower one is corrected.      *)
DaaHighFirst(A, F) ==
    LET low  == IF A % 16 > 9 \/ F.H THEN 6 ELSE 0
        high == IF A > 159 \/ F.C THEN 96 ELSE 0
        sum == IF F.N THEN A - (IF F.H THEN 6 ELSE 0) - (IF F.C THEN 96 ELSE 0)
               ELSE A + low + high
    IN  Outcome(sum % 256, F.N, FALSE, F.C \/ sum > 255)

(* gb_DAA on an accumulator A with flags F.                                *)
DAA(A, F) ==
    LET low  == IF F.N THEN IF F.H THEN 250 ELSE 0
                ELSE IF A % 16 > 9 \/ F.H THEN 6 ELSE 0
        high == IF F.N THEN IF F.C THEN 160 ELSE 0
                ELSE IF A + low > 159 \/ F.C THEN 96 ELSE 0
        addend == (low + high) % 256
        sum == A + addend
        carry == IF F.N THEN F.C ELSE F.C \/ (sum \div 256) % 2 = 1
    IN  Outcome(sum % 256, F.N, FALSE, carry)

(* Slip: INC sets the carry as ADD does.                                   *)
IncCarries(v, F) == Outcome((v + 1) % 256, FALSE, v % 16 = 15, v = 255)

(* gb_INC_D and gb_DEC_D keep the carry.                                   *)
INC(v, F) == Outcome((v + 1) % 256, FALSE, v % 16 = 15, F.C)
DEC(v, F) == Outcome((v - 1) % 256, TRUE, v % 16 < 1, F.C)

(* gb_CPL keeps Z and C; gb_SCF and gb_CCF keep Z and the byte.            *)
CPL(v, F) == [r |-> 255 - v, Z |-> F.Z, N |-> TRUE, H |-> TRUE, C |-> F.C]
SCF(v, F) == [r |-> v, Z |-> F.Z, N |-> FALSE, H |-> FALSE, C |-> TRUE]
CCF(v, F) == [r |-> v, Z |-> F.Z, N |-> FALSE, H |-> FALSE, C |-> ~F.C]

(* gb_ADD_HL_R keeps Z.                                                    *)
ADD_HL(HL, v, F) ==
    LET sum == (HL + v) % 65536
    IN  [r |-> sum, Z |-> F.Z, N |-> FALSE,
         H |-> (HL % 4096) + (v % 4096) >= 4096, C |-> sum < HL]

(* gb_ADD_SP_N and gb_LD_HL_SP_N: u is the immediate byte, taken as signed *)
(* for the sum and as unsigned for the flags.                              *)
ADD_SP(SP, u) ==
    LET n == Signed(u)
    IN  [r |-> (SP + n) % 65536, Z |-> FALSE, N |-> FALSE,
         H |-> (SP % 16) + (u % 16) >= 16, C |-> (SP + u) % 256 < SP % 256]

-----------------------------------------------------------------------------

(* The rotates and shifts of gb_PREFIX_CB; bit 7 or bit 0 goes to C.       *)
Top(v) == v \div 128 = 1
Bottom(v) == v % 2 = 1

RLC(v)    == Outcome(((2 * v) % 256) + (v \div 128), FALSE, FALSE, Top(v))
RRC(v)    == Outcome((v \div 2) + 128 * (v % 2), FALSE, FALSE, Bottom(v))
RL(v, c)  == Outcome(((2 * v) % 256) + Bit(c), FALSE, FALSE, Top(v))
(* Slip: bit 7 comes from the byte instead of the carry.                   *)
RrOfItself(v, c) == Outcome((v \div 2) + 128 * (v % 2), FALSE, FALSE, v % 2 = 1)

RR(v, c)  == Outcome((v \div 2) + 128 * Bit(c), FALSE, FALSE, Bottom(v))
SLA(v)    == Outcome((2 * v) % 256, FALSE, FALSE, Top(v))
SRA(v)    == Outcome((v \div 2) + 128 * (v \div 128), FALSE, FALSE, Bottom(v))
SRL(v)    == Outcome(v \div 2, FALSE, FALSE, Bottom(v))
SWAP(v)   == Outcome(16 * (v % 16) + (v \div 16), FALSE, FALSE, FALSE)

(* The accumulator's own rotates (gb_ROT_A) clear Z.                       *)
ROT_A(o) == [o EXCEPT !.Z = FALSE]

(* Slip: SET sets Z as BIT does.                                           *)
SetTests(v, n, F) ==
    [r |-> ByteOf(BitsOf(v) \cup {n}), Z |-> n \notin BitsOf(v), N |-> F.N, H |-> F.H, C |-> F.C]

(* BIT only sets Z, RES and SET keep every flag.                           *)
BIT(v, n, F) == [r |-> v, Z |-> n \notin BitsOf(v), N |-> FALSE, H |-> TRUE, C |-> F.C]
RES(v, n, F) ==
    [r |-> ByteOf(BitsOf(v) \ {n}), Z |-> F.Z, N |-> F.N, H |-> F.H, C |-> F.C]
SET(v, n, F) ==
    [r |-> ByteOf(BitsOf(v) \cup {n}), Z |-> F.Z, N |-> F.N, H |-> F.H, C |-> F.C]

=============================================================================
