---------------------------------- MODULE Cpu ----------------------------------
(***************************************************************************)
(* The processor of cpu.c: registers, loads, stack, arithmetic and jumps.  *)
(* A handler is an operator from a state c of the processor to the next    *)
(* one: its registers, the memory behind them, IME and the ticks returned. *)
(*                                                                         *)
(* The memory is the part of RAM a program has touched, 0 elsewhere, above *)
(* a ROM that ignores stores; bank switches and the ports that do more     *)
(* than store are in Memory.  HALT, STOP and what EI requests are in       *)
(* InterruptControl.                                                       *)
(***************************************************************************)
EXTENDS Alu, Decoder

CONSTANT Rom            \* the cartridge: bytes at some addresses below RamBegin

RamBegin == \h8000

ASSUME RomAssumption == Rom \in [DOMAIN Rom -> Bytes] /\ DOMAIN Rom \subseteq 0..(RamBegin - 1)

VARIABLE cpu            \* [r, mem, IME, ticks]

-----------------------------------------------------------------------------

load8(c, a) ==
    LET at == a % 65536
    IN  IF at \in DOMAIN Rom THEN Rom[at]
        ELSE IF at \in DOMAIN c.mem THEN c.mem[at] ELSE 0

(* A memory that holds v at an address, and else what it held.             *)
Stored(mem, at, v) == [b \in DOMAIN mem \cup {at} |-> IF b = at THEN v ELSE mem[b]]

store8(c, a, v) ==
    LET at == a % 65536
    IN  IF at < RamBegin THEN c ELSE [c EXCEPT !.mem = Stored(@, at, v)]

load16(c, a) == load8(c, a) + 256 * load8(c, a + 1)

store16(c, a, v) == store8(store8(c, a, v % 256), a + 1, v \div 256)

(* The octal digits of an opcode.                                          *)
X(op) == op \div 64
Y(op) == (op \div 8) % 8
Z(op) == op % 8
P(op) == (op \div 16) % 4
Q(op) == (op \div 8) % 2

(* The register maps of cpu_dsl.h; index 6 is the byte HL points at.       *)
HL_INDIRECT == 6
g_regmap_D  == <<"B", "C", "D", "E", "H", "L", "(HL)", "A">>
g_regmap_R  == <<"BC", "DE", "HL", "SP">>
(* Slip: PUSH and POP take the map of the 16-bit loads.                    *)
RegmapOfLoads == <<"BC", "DE", "HL", "SP">>
(* Slip: HL comes before DE.                                               *)
RegmapHlFirst == <<"BC", "HL", "DE", "AF">>

g_regmap_R2 == <<"BC", "DE", "HL", "AF">>

(* A register pair is two of the bytes.                                    *)
Halves == [BC |-> <<"B", "C">>, DE |-> <<"D", "E">>, HL |-> <<"H", "L">>, AF |-> <<"A", "F">>]

Get(c, name) ==
    IF name \in DOMAIN Halves
    THEN 256 * c.r[Halves[name][1]] + c.r[Halves[name][2]] ELSE c.r[name]

(* Registers after an assignment to one of them or to a pair.              *)
Assigned(r, name, v) ==
    IF name \in DOMAIN Halves
    THEN [r EXCEPT ![Halves[name][1]] = (v % 65536) \div 256, ![Halves[name][2]] = v % 256]
    ELSE [r EXCEPT ![name] = v % 65536]

Set(c, name, v) == [c EXCEPT !.r = Assigned(@, name, v)]

R(op)  == g_regmap_R[P(op) + 1]
R2(op) == g_regmap_R2[P(op) + 1]

REG8_READ(c, d) ==
    IF d = HL_INDIRECT THEN load8(c, Get(c, "HL")) ELSE c.r[g_regmap_D[d + 1]]

REG8_WRITE(c, d, v) ==
    IF d = HL_INDIRECT THEN store8(c, Get(c, "HL"), v)
    ELSE Set(c, g_regmap_D[d + 1], v % 256)

GET_Z(c) == 7 \in BitsOf(c.r.F)
GET_C(c) == 4 \in BitsOf(c.r.F)

FlagsOf(c) ==
    [Z |-> GET_Z(c), N |-> 6 \in BitsOf(c.r.F), H |-> 5 \in BitsOf(c.r.F), C |-> GET_C(c)]

(* flags_setter leaves the lower bits of F alone.                          *)
FLAGS(c, o) ==
    [c EXCEPT !.r.F = 128 * Bit(o.Z) + 64 * Bit(o.N) + 32 * Bit(o.H) + 16 * Bit(o.C) + (@ % 16)]

(* An arithmetic instruction writes its outcome to register d.             *)
Write(c, d, o) == FLAGS(REG8_WRITE(c, d, o.r), o)
WriteA(c, o) == Write(c, 7, o)

(* What a handler returns; dear is what it returns when it uses (HL).      *)
Returns(c, ticks) == [c EXCEPT !.ticks = ticks]
Cost(d, dear, cheap) == IF d = HL_INDIRECT THEN dear ELSE cheap

-----------------------------------------------------------------------------

(* 8-bit loads                                                             *)
LD_D_D(c, op) ==
    Returns(REG8_WRITE(c, Y(op), REG8_READ(c, Z(op))),
            IF HL_INDIRECT \in {Y(op), Z(op)} THEN 12 ELSE 4)

LD_D_N(c, op, d16) == Returns(REG8_WRITE(c, Y(op), d16 % 256), Cost(Y(op), 12, 8))

LoadA(c, a, ticks)  == Returns(Set(c, "A", load8(c, a)), ticks)
StoreA(c, a, ticks) == Returns(store8(c, a, c.r.A), ticks)

(* gb_LDI_A_INDIRECT_HL and gb_LDD_A_INDIRECT_HL, and the two that store:  *)
(* HL moves up (LDI) or down (LDD) once the byte is through.               *)
HlStep(op) == IF P(op) = 2 THEN 1 ELSE -1

(* Slip: HL moves before the byte is read.                                 *)
LdMovesFirst(c, op) ==
    LET at == Get(c, "HL") + HlStep(op) IN LoadA(Set(c, "HL", at), at, 8)

LD_A_HL_STEP(c, op) == Set(LoadA(c, Get(c, "HL"), 8), "HL", Get(c, "HL") + HlStep(op))
LD_HL_STEP_A(c, op) == Set(StoreA(c, Get(c, "HL"), 8), "HL", Get(c, "HL") + HlStep(op))

(* 16-bit loads and the stack                                              *)
Push(c, v) ==
    LET down == Set(c, "SP", c.r.SP - 2) IN store16(down, down.r.SP, v)

PopTo(c, name) ==
    Set(Set(c, name, load16(c, c.r.SP)), "SP", c.r.SP + 2)

PUSH_R(c, op) == Returns(Push(c, Get(c, R2(op))), 16)
POP_R(c, op)  == Returns(PopTo(c, R2(op)), 12)

LD_INDIRECT_NN_SP(c, d16) == Returns(store16(c, d16, c.r.SP), 20)

-----------------------------------------------------------------------------

(* 8-bit arithmetic                                                        *)
INC_D(c, op) ==
    Returns(Write(c, Y(op), INC(REG8_READ(c, Y(op)), FlagsOf(c))), Cost(Y(op), 12, 4))
DEC_D(c, op) ==
    Returns(Write(c, Y(op), DEC(REG8_READ(c, Y(op)), FlagsOf(c))), Cost(Y(op), 12, 4))

AluOutcome(c, op, n) ==
    LET A == c.r.A
    IN  CASE Y(op) = 0 -> ADD(A, n)  [] Y(op) = 1 -> ADC(A, n, GET_C(c))
          [] Y(op) = 2 -> SUB(A, n)  [] Y(op) = 3 -> SBC(A, n, GET_C(c))
          [] Y(op) = 4 -> AND(A, n)  [] Y(op) = 5 -> XOR(A, n)
          [] Y(op) = 6 -> OR(A, n)   [] Y(op) = 7 -> [SUB(A, n) EXCEPT !.r = A]   \* CP

ALU_A_N(c, op, n) == Returns(WriteA(c, AluOutcome(c, op, n % 256)), 4)
ALU_A_D(c, op) == Returns(ALU_A_N(c, op, REG8_READ(c, Z(op))), Cost(Z(op), 8, 4))

(* The rotates and shifts by their second octal digit; gb_ROT_A knows the  *)
(* first four.                                                             *)
Shifted(v, y, carry) ==
    CASE y = 0 -> RLC(v)  [] y = 1 -> RRC(v)  [] y = 2 -> RL(v, carry)  [] y = 3 -> RR(v, carry)
      [] y = 4 -> SLA(v)  [] y = 5 -> SRA(v)  [] y = 6 -> SWAP(v)       [] y = 7 -> SRL(v)

OnA(c, o) == Returns(WriteA(c, o), 4)

(* gb_PREFIX_CB: the second byte is the opcode.  BIT, too, writes back.    *)
PREFIX_CB(c, d16) ==
    LET op == d16 % 256
        v == REG8_READ(c, Z(op))
        F == FlagsOf(c)
        o == CASE X(op) = 0 -> Shifted(v, Y(op), F.C)
               [] X(op) = 1 -> BIT(v, Y(op), F)
               [] X(op) = 2 -> RES(v, Y(op), F)
               [] X(op) = 3 -> SET(v, Y(op), F)
    IN  Returns(Write(c, Z(op), o), Cost(Z(op), 16, 8))

(* 16-bit arithmetic                                                       *)
INC_R(c, op) == Returns(Set(c, R(op), Get(c, R(op)) + 1), 8)
DEC_R(c, op) == Returns(Set(c, R(op), Get(c, R(op)) - 1), 8)

ToPair(c, name, o, ticks) == Returns(FLAGS(Set(c, name, o.r), o), ticks)

ADD_HL_R(c, op) ==
    ToPair(c, "HL", ADD_HL(Get(c, "HL"), Get(c, R(op)), FlagsOf(c)), 8)

-----------------------------------------------------------------------------

(* Jumps, calls and returns; PC has already moved to the next instruction. *)
Jump(c, a, ticks) == Returns(Set(c, "PC", a), ticks)
Stays(c, ticks) == Returns(c, ticks)

gb_jmpcondition_check(c, op) ==
    CASE Y(op) % 4 = 0 -> ~GET_Z(c)  [] Y(op) % 4 = 1 -> GET_Z(c)
      [] Y(op) % 4 = 2 -> ~GET_C(c)  [] Y(op) % 4 = 3 -> GET_C(c)

(* Slip: the offset is unsigned.                                           *)
JumpUnsigned(c, d16, ticks) == Jump(c, c.r.PC + (d16 % 256), ticks)

(* Slip: the offset counts from the jump itself.                           *)
JumpFromItself(c, d16, ticks) == Jump(c, c.r.PC - 2 + Signed(d16 % 256), ticks)

JumpRelative(c, d16, ticks) == Jump(c, c.r.PC + Signed(d16 % 256), ticks)

JR_F_N(c, op, d16) ==
    IF gb_jmpcondition_check(c, op) THEN JumpRelative(c, d16, 16) ELSE Stays(c, 12)

JP_F_NN(c, op, d16) ==
    IF gb_jmpcondition_check(c, op) THEN Jump(c, d16, 16) ELSE Stays(c, 12)

Call(c, a, ticks) == Jump(Push(c, c.r.PC), a, ticks)

CALL_F_N(c, op, d16) ==
    IF gb_jmpcondition_check(c, op) THEN Call(c, d16, 24) ELSE Stays(c, 12)

(* RETI, told by bit 4, also enables interrupts.                           *)
RET(c, op) ==
    [Returns(PopTo(c, "PC"), 16) EXCEPT !.IME = @ \/ 4 \in BitsOf(op)]

RET_F(c, op) ==
    IF gb_jmpcondition_check(c, op) THEN Returns(PopTo(c, "PC"), 20) ELSE Stays(c, 8)

RST(c, op) == Call(c, 8 * Y(op), 16)

-----------------------------------------------------------------------------

(* The call through the slot's handler.                                    *)
Handled(h, c, op, d16) ==
    CASE h = "LD_INDIRECT_NN_SP" -> LD_INDIRECT_NN_SP(c, d16)
      [] h = "LD_R_NN"           -> Returns(Set(c, R(op), d16), 12)
      [] h = "LD_D_D"            -> LD_D_D(c, op)
      [] h = "LD_D_N"            -> LD_D_N(c, op, d16)
      [] h = "LD_INDIRECT_R_A"   -> StoreA(c, Get(c, R(op)), 8)
      [] h = "LD_A_INDIRECT_R"   -> LoadA(c, Get(c, R(op)), 8)
      [] h = "INC_R"             -> INC_R(c, op)
      [] h = "DEC_R"             -> DEC_R(c, op)
      [] h = "ADD_HL_R"          -> ADD_HL_R(c, op)
      [] h = "ADD_SP_N"          -> ToPair(c, "SP", ADD_SP(c.r.SP, d16 % 256), 16)
      [] h = "LD_HL_SP_N"        -> ToPair(c, "HL", ADD_SP(c.r.SP, d16 % 256), 12)
      [] h = "LD_SP_HL"          -> Returns(Set(c, "SP", Get(c, "HL")), 8)
      [] h = "LD_INDIRECT_NN_A"  -> StoreA(c, d16, 16)
      [] h = "LD_A_INDIRECT_NN"  -> LoadA(c, d16, 16)
      [] h = "LDH_N_A"           -> StoreA(c, \hFF00 + (d16 % 256), 12)
      [] h = "LDH_A_N"           -> LoadA(c, \hFF00 + (d16 % 256), 12)
      [] h = "LD_INDIRECT_C_A"   -> StoreA(c, \hFF00 + c.r.C, 8)
      [] h = "LD_A_INDIRECT_C"   -> LoadA(c, \hFF00 + c.r.C, 8)
      [] h \in {"LDI_INDIRECT_HL_A", "LDD_INDIRECT_HL_A"} -> LD_HL_STEP_A(c, op)
      [] h \in {"LDI_A_INDIRECT_HL", "LDD_A_INDIRECT_HL"} -> LD_A_HL_STEP(c, op)
      [] h = "INC_D"             -> INC_D(c, op)
      [] h = "DEC_D"             -> DEC_D(c, op)
      [] h = "ALU_A_D"           -> ALU_A_D(c, op)
      [] h = "ALU_A_N"           -> ALU_A_N(c, op, d16)
      [] h = "DAA"               -> OnA(c, DAA(c.r.A, FlagsOf(c)))
      [] h = "CPL"               -> OnA(c, CPL(c.r.A, FlagsOf(c)))
      [] h = "ROT_A"             -> OnA(c, ROT_A(Shifted(c.r.A, Y(op), GET_C(c))))
      [] h = "POP_R"             -> POP_R(c, op)
      [] h = "PUSH_R"            -> PUSH_R(c, op)
      [] h = "JR_F_N"            -> JR_F_N(c, op, d16)
      [] h = "JR_N"              -> JumpRelative(c, d16, 12)
      [] h = "JP_F_NN"           -> JP_F_NN(c, op, d16)
      [] h = "JP_N"              -> Jump(c, d16, 16)
      [] h = "JP_INDIRECT_HL"    -> Jump(c, Get(c, "HL"), 4)
      [] h = "CALL_N"            -> Call(c, d16, 12)
      [] h = "CALL_F_N"          -> CALL_F_N(c, op, d16)
      [] h = "RET"               -> RET(c, op)
      [] h = "RET_F"             -> RET_F(c, op)
      [] h = "RST"               -> RST(c, op)
      [] h = "CCF"               -> OnA(c, CCF(c.r.A, FlagsOf(c)))
      [] h = "SCF"               -> OnA(c, SCF(c.r.A, FlagsOf(c)))
      [] h = "NOP"               -> Stays(c, 4)
      [] h = "DI"                -> [Stays(c, 4) EXCEPT !.IME = FALSE]
      [] h = "EI"                -> [Stays(c, 4) EXCEPT !.IME = TRUE]
      [] h = "PREFIX_CB"         -> PREFIX_CB(c, d16)

(* gb_CPU_step: both bytes of an operand are fetched before PC moves, and  *)
(* the lower bits of F are cleared after the handler.                      *)
Executed(c) ==
    LET opcode == load8(c, c.r.PC)
        d16 == load16(c, c.r.PC + 1)
        moved == Set(c, "PC", c.r.PC + ops[opcode].size)
        after == Handled(ops[opcode].handler, moved, opcode, d16)
    IN  [after EXCEPT !.r.F = @ - (@ % 16)]

(* The assertion that the opcode has a handler holds.                      *)
Decodes(c) == ops[load8(c, c.r.PC)].handler \notin {None, "HALT", "STOP"}

gb_CPU_step == Decodes(cpu) /\ cpu' = Executed(cpu)

(* gb_CPU_interrupt, called with IME, which gb_INTERRUPT_execute clears.   *)
gb_CPU_interrupt(vector) ==
    /\ cpu.IME
    /\ cpu' = [Call(cpu, vector, cpu.ticks) EXCEPT !.IME = FALSE]

(* gb_CPU_initialize on the only model the program sets, DMG: but for SP   *)
(* and PC the registers are loaded from memory.                            *)
Initialized ==
    LET zero == [r |-> [n \in {"A", "F", "B", "C", "D", "E", "H", "L", "SP", "PC"} |-> 0],
                 mem |-> <<>>, IME |-> FALSE, ticks |-> 0]
        AF == Set(zero, "AF", load16(zero, 1))
        F == Set(AF, "F", load8(zero, \hB8))
        BC == Set(F, "BC", load16(zero, \h13))
        DE == Set(BC, "DE", load16(zero, \hD8))
        HL == Set(DE, "HL", load16(zero, \h14D))
    IN  Set(Set(HL, "SP", \hFFFE), "PC", \h100)

=============================================================================
