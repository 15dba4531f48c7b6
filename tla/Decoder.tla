-------------------------------- MODULE Decoder --------------------------------
(***************************************************************************)
(* The instruction decoder (dispatch_tables.c): at start-up every entry of *)
(* opcodes.inc fills the slots of the opcodes its pattern matches, first   *)
(* the definitions and then the overrides.  A definition that meets a      *)
(* filled slot, or an override that meets an empty one, aborts.            *)
(***************************************************************************)
EXTENDS Binary, Sequences, TLC

Opcodes == 0..255

None == "none"          \* a slot without a handler: NULL

x == 2                  \* in a pattern, the '-' that matches either bit

Op(pattern, size, handler) == [pattern |-> pattern, size |-> size, handler |-> handler]

(* opcodes.inc: the patterns from bit 7 to bit 0, in octal groups.         *)
OpDefs == <<
    Op(<<0,0, 0,0,1, 0,0,0>>, 3, "LD_INDIRECT_NN_SP"),
    Op(<<0,0, x,x,0, 0,0,1>>, 3, "LD_R_NN"),
    Op(<<0,1, x,x,x, x,x,x>>, 1, "LD_D_D"),
    Op(<<0,0, x,x,x, 1,1,0>>, 2, "LD_D_N"),
    Op(<<0,0, 0,x,0, 0,1,0>>, 1, "LD_INDIRECT_R_A"),
    Op(<<0,0, 0,x,1, 0,1,0>>, 1, "LD_A_INDIRECT_R"),
    Op(<<0,0, x,x,0, 0,1,1>>, 1, "INC_R"),
    Op(<<0,0, x,x,1, 0,1,1>>, 1, "DEC_R"),
    Op(<<0,0, x,x,1, 0,0,1>>, 1, "ADD_HL_R"),
    Op(<<1,1, 1,0,1, 0,0,0>>, 2, "ADD_SP_N"),
    Op(<<1,1, 1,1,1, 0,0,0>>, 2, "LD_HL_SP_N"),
    Op(<<1,1, 1,1,1, 0,0,1>>, 1, "LD_SP_HL"),
    Op(<<1,1, 1,0,1, 0,1,0>>, 3, "LD_INDIRECT_NN_A"),
    Op(<<1,1, 1,1,1, 0,1,0>>, 3, "LD_A_INDIRECT_NN"),
    Op(<<1,1, 1,0,0, 0,0,0>>, 2, "LDH_N_A"),
    Op(<<1,1, 1,1,0, 0,0,0>>, 2, "LDH_A_N"),
    Op(<<1,1, 1,0,0, 0,1,0>>, 1, "LD_INDIRECT_C_A"),
    Op(<<1,1, 1,1,0, 0,1,0>>, 1, "LD_A_INDIRECT_C"),
    Op(<<0,0, 1,0,0, 0,1,0>>, 1, "LDI_INDIRECT_HL_A"),
    Op(<<0,0, 1,0,1, 0,1,0>>, 1, "LDI_A_INDIRECT_HL"),
    Op(<<0,0, 1,1,0, 0,1,0>>, 1, "LDD_INDIRECT_HL_A"),
    Op(<<0,0, 1,1,1, 0,1,0>>, 1, "LDD_A_INDIRECT_HL"),
    Op(<<0,0, x,x,x, 1,0,0>>, 1, "INC_D"),
    Op(<<0,0, x,x,x, 1,0,1>>, 1, "DEC_D"),
    Op(<<1,0, x,x,x, x,x,x>>, 1, "ALU_A_D"),
    Op(<<1,1, x,x,x, 1,1,0>>, 2, "ALU_A_N"),
    Op(<<0,0, 1,0,0, 1,1,1>>, 1, "DAA"),
    Op(<<0,0, 1,0,1, 1,1,1>>, 1, "CPL"),
    Op(<<0,0, 0,x,x, 1,1,1>>, 1, "ROT_A"),
    Op(<<1,1, x,x,0, 0,0,1>>, 1, "POP_R"),
    Op(<<1,1, x,x,0, 1,0,1>>, 1, "PUSH_R"),
    Op(<<0,0, 1,x,x, 0,0,0>>, 2, "JR_F_N"),
    Op(<<0,0, 0,1,1, 0,0,0>>, 2, "JR_N"),
    Op(<<1,1, 0,x,x, 0,1,0>>, 3, "JP_F_NN"),
    Op(<<1,1, 0,0,0, 0,1,1>>, 3, "JP_N"),
    Op(<<1,1, 1,0,1, 0,0,1>>, 1, "JP_INDIRECT_HL"),
    Op(<<1,1, 0,0,1, 1,0,1>>, 3, "CALL_N"),
    Op(<<1,1, 0,x,x, 1,0,0>>, 3, "CALL_F_N"),
    Op(<<1,1, 0,x,1, 0,0,1>>, 1, "RET"),
    Op(<<1,1, 0,x,x, 0,0,0>>, 1, "RET_F"),
    Op(<<1,1, x,x,x, 1,1,1>>, 1, "RST"),
    Op(<<0,0, 1,1,1, 1,1,1>>, 1, "CCF"),
    Op(<<0,0, 1,1,0, 1,1,1>>, 1, "SCF"),
    Op(<<0,0, 0,0,0, 0,0,0>>, 1, "NOP"),
    Op(<<1,1, 1,1,0, 0,1,1>>, 1, "DI"),
    Op(<<1,1, 1,1,1, 0,1,1>>, 1, "EI"),
    Op(<<0,0, 0,1,0, 0,0,0>>, 0, "STOP"),
    Op(<<1,1, 0,0,1, 0,1,1>>, 2, "PREFIX_CB") >>

OpOvrs == << Op(<<0,1, 1,1,0, 1,1,0>>, 0, "HALT") >>

Mark(entries, override) ==
    [n \in 1..Len(entries) |-> [op |-> entries[n], is_override |-> override]]

(* Slip: the overrides are processed where the definitions should be.      *)
OverridesFirst == Mark(OpOvrs, TRUE) \o Mark(OpDefs, FALSE)

(* gb_build_decoder_table includes opcodes.inc twice.                      *)
BuildOrder == Mark(OpDefs, FALSE) \o Mark(OpOvrs, TRUE)

VARIABLES
    ops,        \* g_GB.ops: the handler and the size in bytes of each opcode
    entry,      \* the next entry of BuildOrder
    aborted     \* the program called abort()

decoderVars == <<ops, entry, aborted>>

DecoderInit ==
    /\ ops = [o \in Opcodes |-> [handler |-> None, size |-> 0]]
    /\ entry = 1 /\ aborted = FALSE

Built == entry > Len(BuildOrder)

-----------------------------------------------------------------------------

(* gb_parse_opcode_pattern: the relevant bits, those of them that are 1,   *)
(* and the number of opcodes that match, a gb_word_t.                      *)
ParsePattern(p) ==
    LET free == {b \in 0..7 : p[8 - b] = x}
    IN  [r |-> (0..7) \ free, m |-> {b \in 0..7 : p[8 - b] = 1},
         n |-> OneShifted(Cardinality(free))]

(* OP_SIGMATCH                                                             *)
SigMatch(sig, o) == sig.n > 0 /\ BitsOf(o) \cap sig.r = sig.m

(* gb_check_handler                                                        *)
CheckHandler(slot, is_override) ==
    IF is_override THEN slot.handler # None /\ slot.size # 0
    ELSE slot.handler = None /\ slot.size = 0

(* The slots gb_populate_opcode_slots fills: it stops after the sig.n-th   *)
(* match, which is the last.                                               *)
Matching(sig) == {o \in Opcodes : SigMatch(sig, o)}

Populate ==
    /\ ~aborted /\ ~Built
    /\ LET e == BuildOrder[entry]
           slots == Matching(ParsePattern(e.op.pattern))
       IN  IF \A o \in slots : CheckHandler(ops[o], e.is_override)
           THEN /\ ops' = [o \in Opcodes |->
                        IF o \in slots THEN [handler |-> e.op.handler, size |-> e.op.size] ELSE ops[o]]
                /\ entry' = entry + 1 /\ UNCHANGED aborted
           ELSE aborted' = TRUE /\ UNCHANGED <<ops, entry>>

=============================================================================
