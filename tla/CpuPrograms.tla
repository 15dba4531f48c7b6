------------------------------ MODULE CpuPrograms ------------------------------
(***************************************************************************)
(* The processor from power-on: the decoder's table is built, registers    *)
(* are initialised, and a program calls one of its routines, which an      *)
(* interrupt may suspend after any instruction.  The routines are the      *)
(* idioms programs are made of: arithmetic on two bytes, decimal numbers,  *)
(* loops, recursion, locals on the stack, block copies.  What one          *)
(* instruction gets wrong shows up in what the routine computes.           *)
(***************************************************************************)
EXTENDS Cpu, SequencesExt

CONSTANTS
    Operands,       \* bytes: the arithmetic routines get words made of two
    Decimals,       \* bytes of two decimal digits each
    Few,            \* words: what the other routines get
    Corners,        \* words with which a routine may be interrupted
    MaxInterrupts   \* bound: the interrupts while a routine runs

ASSUME InputsAssumption ==
    /\ Operands \subseteq Bytes /\ Few \subseteq Words /\ MaxInterrupts \in Nat
    /\ \A d \in Decimals : d \in Bytes /\ d % 16 <= 9 /\ d \div 16 <= 9

VARIABLES
    routine,        \* what runs: "start-up", "main" or a routine
    x0, y0, carry0, \* the operands the routine was called with
    interrupts,     \* the interrupts still to come
    suspended       \* history: the processor an interrupt suspended, if any

vars == <<decoderVars, cpu, routine, x0, y0, carry0, interrupts, suspended>>

-----------------------------------------------------------------------------

(* The program, instruction by instruction.                                *)
MainAt    == \h150      \* the call of a routine
ReturnTo  == \h153      \* and the instruction after it
Vector    == \h40       \* of the interrupt
Data      == \hC000     \* the operands in memory
Target    == \hC008     \* where they are copied to
Counter   == \hC010     \* the interrupts the handler has counted

Code == [
    (* The sum of A and all below it: AND 7, RET Z, PUSH AF, DEC A,        *)
    (* CALL NZ to itself at 0200h, POP BC, ADD A,B                         *)
    Sum         |-> <<<<\hE6, 7>>, <<\hC8>>, <<\hF5>>, <<\h3D>>, <<\hC4, 0, 2>>, <<\hC1>>, <<\h80>>, <<\hC9>>>>,
    (* 4 bytes by LD A,(DE) and LDI (HL),A, back by JP NZ to 0248h         *)
    CopyByJumps |-> <<<<\h11, 0, \hC0>>, <<\h21, 8, \hC0>>, <<\h0E, 4>>,
                      <<\h1A>>, <<\h22>>, <<\h1C>>, <<\h0D>>, <<\hC2, \h48, 2>>, <<\hC9>>>>,
    (* ADD A,E and ADC A,D on HL; ADD HL,DE; SUB E and SBC D               *)
    WideAdd     |-> <<<<\h7D>>, <<\h83>>, <<\h6F>>, <<\h7C>>, <<\h8A>>, <<\h67>>, <<\hC9>>>>,
    WordAdd     |-> <<<<\h19>>, <<\hC9>>>>,
    WideSub     |-> <<<<\h7D>>, <<\h93>>, <<\h6F>>, <<\h7C>>, <<\h9A>>, <<\h67>>, <<\hC9>>>>,
    (* CP E, RET C; else E                                                 *)
    Smaller     |-> <<<<\h7D>>, <<\hBB>>, <<\hD8>>, <<\h7B>>, <<\hC9>>>>,
    (* CPL on both bytes, INC HL                                           *)
    Negate      |-> <<<<\h7D>>, <<\h2F>>, <<\h6F>>, <<\h7C>>, <<\h2F>>, <<\h67>>, <<\h23>>, <<\hC9>>>>,
    (* DAA after each of the two additions or subtractions                 *)
    DecimalAdd  |-> <<<<\h7D>>, <<\h83>>, <<\h27>>, <<\h6F>>, <<\h7C>>, <<\h8A>>, <<\h27>>, <<\h67>>, <<\hC9>>>>,
    DecimalSub  |-> <<<<\h7D>>, <<\h93>>, <<\h27>>, <<\h6F>>, <<\h7C>>, <<\h9A>>, <<\h27>>, <<\h67>>, <<\hC9>>>>,
    (* SLA L, RL H; SRL H, RR L; SRA H, RR L; SLA (HL), RL (HL)            *)
    Double      |-> <<<<\hCB, \h25>>, <<\hCB, \h14>>, <<\hC9>>>>,
    Halve       |-> <<<<\hCB, \h3C>>, <<\hCB, \h1D>>, <<\hC9>>>>,
    HalveSigned |-> <<<<\hCB, \h2C>>, <<\hCB, \h1D>>, <<\hC9>>>>,
    DoubleThere |-> <<<<\h21, 0, \hC0>>, <<\hCB, \h26>>, <<\h23>>, <<\hCB, \h16>>, <<\hC9>>>>,
    (* RLC L, SWAP L, RRC L, SWAP L, RLCA, RRCA                            *)
    TurnAround  |-> <<<<\hCB, 5>>, <<\hCB, \h35>>, <<\hCB, \h0D>>, <<\hCB, \h35>>, <<7>>, <<\h0F>>, <<\hC9>>>>,
    (* eight times RR L, RLA                                               *)
    Mirror      |-> <<<<6, 8>>, <<\hCB, \h1D>>, <<\h17>>, <<5>>, <<\h20, \hFA>>, <<\hC9>>>>,
    (* nine times RLA with DEC B, then CCF; nine times RRA with INC C      *)
    AroundLeft  |-> <<<<6, 9>>, <<\h17>>, <<5>>, <<\h20, \hFC>>, <<\h3F>>, <<\hC9>>>>,
    AroundRight |-> <<<<\h0E, \hF7>>, <<\h1F>>, <<\h0C>>, <<\h20, \hFC>>, <<\hC9>>>>,
    (* eight times ADD HL,HL and, if RLCA gives a carry, ADD HL,DE         *)
    Multiply    |-> <<<<\h21, 0, 0>>, <<6, 8>>, <<\h29>>, <<7>>, <<\h30, 1>>, <<\h19>>, <<5>>,
                      <<\h20, \hF8>>, <<\hC9>>>>,
    (* XOR E, XOR L, XOR E exchange L and E                                *)
    XorSwap     |-> <<<<\h7D>>, <<\hAB>>, <<\h5F>>, <<\hAD>>, <<\h6F>>, <<\hAB>>, <<\h5F>>, <<\hC9>>>>,
    (* CP of L AND E with the CPL of (CPL L OR CPL E)                      *)
    BothWays    |-> <<<<\h7D>>, <<\h2F>>, <<\h67>>, <<\h7B>>, <<\h2F>>, <<\hB4>>, <<\h2F>>, <<\h67>>,
                      <<\h7D>>, <<\hA3>>, <<\hBC>>, <<\hC9>>>>,
    (* BIT 7,L, SET 0,L, RES 0,L if it was clear; SCF, CCF                 *)
    CopyBit     |-> <<<<\hCB, \h7D>>, <<\hCB, \hC5>>, <<\h20, 2>>, <<\hCB, \h85>>, <<\h37>>, <<\h3F>>, <<\hC9>>>>,
    (* RST 28h three times                                                 *)
    Thrice      |-> <<<<\hEF>>, <<\hEF>>, <<\hEF>>, <<\hC9>>>>,
    (* PUSH HL, PUSH DE, POP HL, POP DE                                    *)
    Exchange    |-> <<<<\hE5>>, <<\hD5>>, <<\hE1>>, <<\hD1>>, <<\hC9>>>>,
    (* DE pushed, ADD SP,-4, read to BC by LD HL,SP+4, ADD SP,4            *)
    Locals      |-> <<<<\hD5>>, <<\hE8, \hFC>>, <<\hF8, 4>>, <<\h2A>>, <<\h4F>>, <<\h46>>,
                      <<\hE8, 4>>, <<\hD1>>, <<\hC9>>>>,
    (* SP saved by LD (NN),SP, a stack of its own, LD SP,HL restores       *)
    OwnStack    |-> <<<<8, 8, \hC0>>, <<\h31, \h40, \hC0>>, <<\hE5>>, <<\hCD, \h28, 0>>, <<\hC1>>, <<\h5F>>,
                      <<\h21, 8, \hC0>>, <<\h2A>>, <<\h66>>, <<\h6F>>, <<\hF9>>, <<\hC9>>>>,
    (* 4 bytes upwards by LDI A,(HL); downwards by LDD A,(HL)              *)
    CopyUp      |-> <<<<\h21, 0, \hC0>>, <<\h11, 8, \hC0>>, <<\h0E, 4>>, <<\h2A>>, <<\h12>>,
                      <<\h13>>, <<\h0D>>, <<\h20, \hFA>>, <<\hC9>>>>,
    CopyDown    |-> <<<<\h21, 3, \hC0>>, <<\h11, \h0B, \hC0>>, <<1, 4, 0>>, <<\h3A>>, <<\h12>>,
                      <<\h1B>>, <<\h0B>>, <<\h78>>, <<\hB1>>, <<\h20, \hF8>>, <<\hC9>>>>,
    (* 4 bytes by way of FF80h and FF81h, (BC), LDD (HL),A and LD (HL),E   *)
    CopyAround  |-> <<<<\hFA, 0, \hC0>>, <<\hE0, \h80>>, <<\hFA, 1, \hC0>>, <<\h0E, \h81>>, <<\hE2>>,
                      <<\h0D>>, <<\hF2>>, <<\hEA, 8, \hC0>>, <<\hF0, \h81>>, <<1, 9, \hC0>>, <<2>>, <<\h0A>>,
                      <<\h7A>>, <<\h21, \h0B, \hC0>>, <<\h32>>, <<\h73>>, <<\hC9>>>>,
    (* DI, JR over a RET, NOP, EI, POP HL, JP (HL)                         *)
    Guarded     |-> <<<<\hF3>>, <<\h18, 1>>, <<\hC9>>, <<0>>, <<\hFB>>, <<\hE1>>, <<\hE9>>>>
    ]

(* Where each lies; the first two contain their own address.               *)
Names == <<
    "Sum", "CopyByJumps", "WideAdd", "WordAdd", "WideSub", "Smaller", "Negate", "DecimalAdd", "DecimalSub",
    "Double", "Halve", "HalveSigned", "DoubleThere", "TurnAround", "Mirror", "AroundLeft", "AroundRight",
    "Multiply", "XorSwap", "BothWays", "CopyBit", "Thrice", "Exchange", "Locals", "OwnStack", "CopyUp",
    "CopyDown", "CopyAround", "Guarded">>
At(name) == \h1C0 + \h40 * (CHOOSE k \in 1..Len(Names) : Names[k] = name)

Pieces ==
    {[at |-> At(name), code |-> Code[name]] : name \in DOMAIN Code}
    \cup {[at |-> \h28, code |-> <<<<\h3C>>, <<\hC9>>>>],           \* RST 28h: INC A
          [at |-> Vector, code |-> <<<<\hC3, \h80, 1>>>>],
          [at |-> \h100, code |-> <<<<\hC3, \h50, 1>>>>],           \* to MainAt
          \* the handler: it uses what it has saved, counts, RETI
          [at |-> \h180, code |-> <<<<\hF5>>, <<\hE5>>, <<\h21, \h10, \hC0>>, <<\h34>>, <<\h97>>,
                                    <<\h37>>, <<\hE1>>, <<\hF1>>, <<\hD9>>>>]}

ProgramRom ==
    FoldSet(LAMBDA p, rom :
                LET bytes == FlattenSeq(p.code)
                IN  [a \in p.at..(p.at + Len(bytes) - 1) |-> bytes[a - p.at + 1]] @@ rom,
            <<>>, Pieces)

InstructionStarts ==
    {MainAt, ReturnTo} \cup
    UNION {{p.at + Len(FlattenSeq(SubSeq(p.code, 1, k - 1))) : k \in DOMAIN p.code} : p \in Pieces}

-----------------------------------------------------------------------------

PC == cpu.r.PC
HL == Get(cpu, "HL")
Low(w)  == w % 256
High(w) == w \div 256
WordsOf(S) == {256 * h + l : h \in S, l \in S}

OfTwoBytes == {"WideAdd", "WordAdd", "WideSub", "Smaller"}
OfDecimals == {"DecimalAdd", "DecimalSub"}
OfOneWord  == {"Sum", "Negate", "Double", "Halve", "HalveSigned", "DoubleThere", "TurnAround", "Mirror",
               "AroundLeft", "AroundRight", "CopyBit", "Thrice", "OwnStack", "Guarded"}

Firsts(name) == IF name \in OfTwoBytes THEN WordsOf(Operands)
                ELSE IF name \in OfDecimals THEN WordsOf(Decimals) ELSE Few
Seconds(name) == IF name \in OfOneWord THEN {\hA53C} ELSE Firsts(name)

Init ==
    /\ DecoderInit
    /\ cpu = Initialized
    /\ routine = "start-up" /\ x0 = 0 /\ y0 = 0 /\ carry0 = FALSE
    /\ interrupts = 0 /\ suspended = <<>>

(* gb_build_decoder_table, entry by entry                                  *)
Decode ==
    /\ Populate
    /\ UNCHANGED <<cpu, routine, x0, y0, carry0, interrupts, suspended>>

PowerOn ==
    /\ routine = "start-up" /\ Built
    /\ cpu' = Initialized /\ routine' = "main"
    /\ UNCHANGED <<decoderVars, x0, y0, carry0, interrupts, suspended>>

(* The program calls a routine with operands in registers and in memory.   *)
CallRoutine(name, a, b, carry) ==
    LET there == store16(store16(cpu, Data, a), Data + 2, b)
        regs == [there.r EXCEPT !.A = Low(a), !.F = 16 * Bit(carry), !.B = \hB7, !.C = \hC9,
                                !.D = High(b), !.E = Low(b), !.H = High(a), !.L = Low(a),
                                !.PC = ReturnTo]
    IN  /\ cpu' = Call([there EXCEPT !.r = regs, !.IME = TRUE], At(name), 12)
        /\ routine' = name /\ x0' = a /\ y0' = b /\ carry0' = carry
        /\ interrupts' = IF {a, b} \subseteq Corners \cup {\hA53C} THEN MaxInterrupts ELSE 0
        /\ UNCHANGED <<decoderVars, suspended>>

AtRETI == load8(cpu, PC) = \hD9

(* One instruction, at start-up or in the routine.                         *)
Instruction ==
    /\ routine # "start-up" /\ PC \notin {MainAt, ReturnTo}
    /\ gb_CPU_step
    /\ suspended' = IF AtRETI THEN <<>> ELSE suspended
    /\ UNCHANGED <<decoderVars, routine, x0, y0, carry0, interrupts>>

(* An interrupt between two instructions.                                  *)
Interrupt ==
    /\ PC # ReturnTo /\ interrupts > 0
    /\ gb_CPU_interrupt(Vector)
    /\ interrupts' = interrupts - 1 /\ suspended' = <<cpu>>
    /\ UNCHANGED <<decoderVars, routine, x0, y0, carry0>>

CallSome ==
    /\ routine = "main" /\ PC = MainAt
    /\ \E name \in DOMAIN Code : \E a \in Firsts(name), b \in Seconds(name), carry \in BOOLEAN :
            CallRoutine(name, a, b, carry)

Next == Decode \/ PowerOn \/ CallSome \/ Instruction \/ Interrupt

(* gb_machine_step runs one instruction after the other.                   *)
Spec == Init /\ [][Next]_vars /\ WF_vars(Instruction)

-----------------------------------------------------------------------------

Returned(names) == routine \in names /\ PC = ReturnTo

Decimal(w) == 1000 * (w \div 4096) + 100 * ((w \div 256) % 16) + 10 * ((w \div 16) % 16) + (w % 16)

Mirrored(v) == ByteOf({7 - b : b \in BitsOf(v)})

(* Building the table never aborts, and it gives every opcode the handler  *)
(* and the size of the one definition whose pattern it matches, of the     *)
(* override if there is one, and nothing to the eleven opcodes that        *)
(* opcodes.txt leaves out (dispatch_tables.c:51, opcodes.inc:15).          *)
Says(entries, o) ==
    {k \in DOMAIN entries : \A b \in 0..7 :
        entries[k].pattern[8 - b] \in {x, IF b \in BitsOf(o) THEN 1 ELSE 0}}

NoOpcode == {\hD3, \hDB, \hDD, \hE3, \hE4, \hEB, \hEC, \hED, \hF4, \hFC, \hFD}

DecodingIsExact ==
    /\ ~aborted
    /\ routine = "main" /\ PC = MainAt =>
        \A o \in Opcodes :
            \/ \E k \in Says(OpOvrs, o) : ops[o].handler = OpOvrs[k].handler
            \/ /\ Says(OpOvrs, o) = {} /\ o \notin NoOpcode
               /\ \E k \in Says(OpDefs, o) :
                    Says(OpDefs, o) = {k} /\ ops[o] = [handler |-> OpDefs[k].handler, size |-> OpDefs[k].size]
            \/ o \in NoOpcode /\ Says(OpDefs, o) = {} /\ ops[o].handler = None

(* Words added byte by byte, in one instruction, negated by complement or  *)
(* multiplied by shifting are the sum, the product or the negative, with   *)
(* the carry out of bit 15 (cpu.c:223, 227, 294, 417).                     *)
AdditionIsWide ==
    /\ Returned({"WideAdd", "WordAdd"}) =>
        HL = (x0 + y0) % 65536 /\ (GET_C(cpu) <=> x0 + y0 > 65535)
    /\ Returned({"Negate"}) => HL = (65536 - x0) % 65536
    /\ Returned({"Multiply"}) => HL = (Low(x0) * y0) % 65536
    /\ Returned({"Sum"}) => cpu.r.A = ((x0 % 8) * ((x0 % 8) + 1)) \div 2

(* Words subtracted byte by byte are the difference with the borrow, and a *)
(* comparison orders bytes as numbers (cpu.c:224-226).                     *)
SubtractionIsWide ==
    /\ Returned({"WideSub"}) => HL = (x0 - y0) % 65536 /\ (GET_C(cpu) <=> y0 > x0)
    /\ Returned({"Smaller"}) => cpu.r.A = IF Low(x0) < Low(y0) THEN Low(x0) ELSE Low(y0)

(* Four-digit numbers added or subtracted with a DAA after each byte are   *)
(* the decimal sum or difference with its carry (cpu.c:241).               *)
DecimalsAddAndSubtract ==
    /\ Returned({"DecimalAdd"}) =>
        /\ Decimal(HL) = (Decimal(x0) + Decimal(y0)) % 10000
        /\ GET_C(cpu) <=> Decimal(x0) + Decimal(y0) > 9999
    /\ Returned({"DecimalSub"}) =>
        /\ Decimal(HL) = (Decimal(x0) - Decimal(y0)) % 10000
        /\ GET_C(cpu) <=> Decimal(y0) > Decimal(x0)

(* A word shifted by two byte shifts is doubled or halved, in registers or *)
(* in memory; the bit shifted out is the carry; turning a byte one way and *)
(* the other gives it back (cpu.c:330-401).                                *)
ShiftsAreWide ==
    /\ Returned({"Double"}) => HL = (2 * x0) % 65536 /\ (GET_C(cpu) <=> x0 > 32767)
    /\ Returned({"DoubleThere"}) => load16(cpu, Data) = (2 * x0) % 65536
    /\ Returned({"Halve"}) => HL = x0 \div 2 /\ (GET_C(cpu) <=> x0 % 2 = 1)
    /\ Returned({"HalveSigned"}) => HL = (x0 \div 2) + 32768 * (x0 \div 32768)
    /\ Returned({"TurnAround"}) => {cpu.r.L, cpu.r.A} = {Low(x0)}

(* A carry survives the counting of a loop: nine rotations bring a byte    *)
(* and the carry around, and a byte shifted out bit by bit arrives         *)
(* mirrored (cpu.c:189-210, 305).                                          *)
CarrySurvivesCounting ==
    /\ Returned({"AroundLeft"}) => cpu.r.A = Low(x0) /\ (GET_C(cpu) <=> ~carry0)
    /\ Returned({"AroundRight"}) => cpu.r.A = Low(x0) /\ (GET_C(cpu) <=> carry0)
    /\ Returned({"Mirror"}) => cpu.r.A = Mirrored(Low(x0))

(* Bytes exchanged by XOR, one mask computed both ways and a bit copied by *)
(* testing it after SET has run (cpu.c:220-222, 385-397).                  *)
BitsCombine ==
    /\ Returned({"XorSwap"}) => cpu.r.E = Low(x0) /\ cpu.r.L = Low(y0)
    /\ Returned({"BothWays"}) => GET_Z(cpu) /\ BitsOf(cpu.r.A) = BitsOf(Low(x0)) \cap BitsOf(Low(y0))
    /\ Returned({"CopyBit"}) =>
        cpu.r.L = Low(x0) - (x0 % 2) + (Low(x0) \div 128) /\ ~GET_C(cpu)

(* Whatever a routine pushes, calls, or reads through SP comes back as it  *)
(* was, and SP with it (cpu.c:160-184, 427-453, 505-547).                  *)
StackKeepsValues ==
    /\ Returned(DOMAIN Code) => cpu.r.SP = \hFFFE /\ cpu.IME
    /\ Returned({"Exchange"}) => HL = y0 /\ Get(cpu, "DE") = x0
    /\ Returned({"Locals"}) => Get(cpu, "BC") = y0 /\ Get(cpu, "DE") = y0
    /\ Returned({"OwnStack"}) => Get(cpu, "BC") = x0 /\ cpu.r.E = (Low(x0) + 1) % 256
    /\ Returned({"Thrice"}) => cpu.r.A = (Low(x0) + 3) % 256

(* A copy loop copies every byte once, to its place, and no other, however *)
(* it addresses them (cpu.c:85-154).                                       *)
CopyIsComplete ==
    Returned({"CopyUp", "CopyDown", "CopyByJumps", "CopyAround"}) =>
        /\ load16(cpu, Target) = x0 /\ load16(cpu, Target + 2) = y0
        /\ \A a \in {Target - 1, Target + 4} : load8(cpu, a) = 0

(* An interrupt between any two instructions leaves no trace but what its  *)
(* handler counts: after RETI the registers, IME and every byte above the  *)
(* stack are those of the interrupted program (cpu.c:59, 520).             *)
InterruptsAreTransparent ==
    [][Instruction /\ AtRETI =>
        LET was == suspended[1]
            below == (was.r.SP - 6)..(was.r.SP - 1)
        IN  /\ cpu'.r = was.r /\ cpu'.IME = was.IME
            /\ \A a \in DOMAIN cpu'.mem \ (below \cup {Counter}) : load8(cpu', a) = load8(was, a)
            /\ load8(cpu', Counter) = load8(was, Counter) + 1]_vars

(* The processor never takes an operand for an opcode: PC is always at the *)
(* start of an instruction of the program (cpu.c:53, opcodes.inc:22-85).   *)
InstructionsStayAligned ==
    routine \notin {"start-up", "main"} => PC \in InstructionStarts

(* A routine that was called returns, interrupted or not.                  *)
RoutinesEnd == (routine \notin {"start-up", "main"}) ~> (PC = ReturnTo)

=============================================================================
