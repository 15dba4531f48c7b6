-------------------------------- MODULE Binary --------------------------------
(***************************************************************************)
(* Bytes and their bits.  A byte is a number; the set of its one bits is   *)
(* what masks and patterns work on.                                        *)
(***************************************************************************)
EXTENDS Integers, FiniteSets

Bytes == 0..255
Words == 0..65535

Bit(b) == IF b THEN 1 ELSE 0

(* 2^n for the n-th bit                                                    *)
Weights == <<1, 2, 4, 8, 16, 32, 64, 128>>
Weight(n) == Weights[n + 1]

(* 1 << n, in a byte                                                       *)
OneShifted(n) == IF n < 8 THEN Weight(n) ELSE 0

BitsOf(v) == {n \in 0..7 : (v \div Weight(n)) % 2 = 1}

ByteOf(S) ==
    LET d(n) == Bit(n \in S)
    IN  d(0) + 2 * d(1) + 4 * d(2) + 8 * d(3) + 16 * d(4) + 32 * d(5) + 64 * d(6) + 128 * d(7)

(* A byte read as a signed number: (int8_t)                                *)
Signed(v) == IF v >= 128 THEN v - 256 ELSE v

=============================================================================
