---------------------------- MODULE Disassembler ----------------------------
(***************************************************************************)
(* The disassembler of src/disasm/riscv-disas.c, driven by the loop over a *)
(* program of src/disasm/t2.c: fetch, then the five phases of disasm_inst  *)
(* in their order.  The text is the opcode and a token for every operand;  *)
(* its length is computed from the decoded instruction.                    *)
(***************************************************************************)
EXTENDS RvOpcodes, RvNames, SequencesExt

CONSTANT Inputs     \* [isa : isas, words : sequence of [inst, size]]

VARIABLES isa,      \* the caller's isa
          words,    \* the program as it was assembled, each word with its size
          offset,   \* t2.c: offset
          inst_len, \* t2.c: inst_len
          stage,    \* phase reached for the instruction at offset
          dec,      \* disasm_inst: dec
          plain,    \* history: dec before lifting
          text      \* what was last written to buf
vars == <<isa, words, offset, inst_len, stage, dec, plain, text>>

x0 == {}
ra == {0}
sp == {1}
Operands == {"rd", "rs1", "rs2", "rs3", "imm", "rm", "pred", "succ", "aq", "rl"}
ZeroDec  == [f \in Operands \cup {"inst", "op", "codec"} |->
               IF f \in {"op", "codec"} THEN "illegal" ELSE {}]
NoText   == [op |-> "illegal", shown |-> << >>]

(***************************************************************************)
(* Fetch.                                                                  *)
(***************************************************************************)
WordBytes(w)  == [k \in 1..w.size |-> Shr(w.inst, 8 * (k - 1)) \cap 0..7]
data          == FlattenSeq([k \in DOMAIN words |-> WordBytes(words[k])])
ByteAt(at, k) == Shl(data[at + k + 1], 8 * k)

(* mutant: the encodings above 32 bits are not recognised *)
ShortLengths(i) == IF ~ {0, 1} \subseteq i THEN 2 ELSE IF ~ {2, 3, 4} \subseteq i THEN 4 ELSE 0

inst_length(i) == IF ~ {0, 1} \subseteq i         THEN 2
                  ELSE IF ~ {2, 3, 4} \subseteq i THEN 4
                  ELSE IF 5 \notin i              THEN 6
                  ELSE IF 6 \notin i              THEN 8 ELSE 0

(* mutant: off by one in the test for the third parcel *)
LateParcel(len, n) == len > n
HasParcel(len, n)  == len >= n

inst_fetch(at) ==
    LET first == ByteAt(at, 1) \cup ByteAt(at, 0)
        len   == inst_length(first)
        Parcel(n) == IF HasParcel(len, n) THEN ByteAt(at, n - 1) \cup ByteAt(at, n - 2) ELSE {}
    IN  [len |-> len, inst |-> first \cup Parcel(8) \cup Parcel(6) \cup Parcel(4)]

(* Programs of whole instructions of at most 64 bits, the limit noted at   *)
(* inst_length; the low bits of each word announce its length.             *)
Word == [inst : rv_inst, size : {2, 4, 6, 8}]
Announces(w) == /\ w.size > 2 <=> {0, 1} \subseteq w.inst
                /\ w.size > 4 <=> 0..4 \subseteq w.inst
                /\ w.size > 6 <=> 0..5 \subseteq w.inst
                /\ ~ 0..6 \subseteq w.inst
                /\ w.inst \subseteq 0..(8 * w.size - 1)

ASSUME InputsAssumption ==
    \A in \in Inputs : /\ in.isa \in isas /\ in.words \in Seq(Word)
                       /\ \A k \in DOMAIN in.words : Announces(in.words[k])

(***************************************************************************)
(* decode_inst_operands, by operand instead of by codec: which extractor   *)
(* fills the field for which codecs.  A field no extractor fills is zero.  *)
(***************************************************************************)
Wide(i) == i \cup {3}                                   \* 3 bit register + 8

base_rd == {"u", "uj", "i", "i_sh5", "i_sh6", "i_sh7", "i_csr", "r", "r_m", "r4_m", "r_a", "r_l"}
base_rs2 == {"s", "sb", "r", "r_m", "r4_m", "r_a"}

rd_of(c, i) ==
    CASE c \in base_rd                                -> operand_rd(i)
      [] c \in {"cb_imm", "cb_sh6", "cs"}             -> Wide(operand_crs1rdq(i))
      [] c \in {"ci", "ci_sh6", "cr"}                 -> operand_crs1rd(i)
      [] c = "ci_16sp"                                -> sp
      [] c \in {"ci_lwsp", "ci_ldsp", "ci_lqsp", "ci_li", "ci_lui", "cr_mv"}
                                                      -> operand_crd(i)
      [] c \in {"ciw_4spn", "cl_lw", "cl_ld", "cl_lq"} -> Wide(operand_crdq(i))
      [] c \in {"cj_jal", "cr_jalr"}                  -> ra
      [] OTHER                                        -> x0

rs1_of(c, i) ==
    CASE c \in (base_rd \ {"u", "uj"}) \cup {"s", "sb"} -> operand_rs1(i)
      [] c \in {"cb_imm", "cb_sh6", "cs"}             -> Wide(operand_crs1rdq(i))
      [] c \in {"cb", "cl_lw", "cl_ld", "cl_lq", "cs_sw", "cs_sd", "cs_sq"}
                                                      -> Wide(operand_crs1q(i))
      [] c \in {"ci", "ci_sh6", "cr"}                 -> operand_crs1rd(i)
      [] c \in {"ci_16sp", "ci_lwsp", "ci_ldsp", "ci_lqsp", "ciw_4spn",
                "css_swsp", "css_sdsp", "css_sqsp"}   -> sp
      [] c = "cr_mv"                                  -> operand_crs2(i)
      [] c \in {"cr_jr", "cr_jalr"}                   -> operand_crs1(i)
      [] OTHER                                        -> x0

rs2_of(c, i) ==
    CASE c \in base_rs2                               -> operand_rs2(i)
      [] c \in {"cr", "css_swsp", "css_sdsp", "css_sqsp"} -> operand_crs2(i)
      [] c \in {"cs", "cs_sw", "cs_sd", "cs_sq"}      -> Wide(operand_crs2q(i))
      [] OTHER                                        -> x0

(* Immediates of the 16 bit codecs; of all others.                         *)
cimm_of(c, i) ==
    CASE c \in {"cb_imm", "ci", "ci_li"}       -> operand_cimmi(i)
      [] c \in {"cb_sh6", "ci_sh6"}            -> operand_cimmsh6(i)
      [] c = "cb"      -> operand_cimmb(i)     [] c = "ci_lui"  -> operand_cimmui(i)
      [] c = "ci_16sp" -> operand_cimm16sp(i)  [] c = "ciw_4spn" -> operand_cimm4spn(i)
      [] c = "ci_lwsp" -> operand_cimmlwsp(i)  [] c = "ci_ldsp" -> operand_cimmldsp(i)
      [] c = "ci_lqsp" -> operand_cimmlqsp(i)  [] c \in {"cj", "cj_jal"} -> operand_cimmj(i)
      [] c \in {"cl_lw", "cs_sw"}              -> operand_cimmw(i)
      [] c \in {"cl_ld", "cs_sd"}              -> operand_cimmd(i)
      [] c \in {"cl_lq", "cs_sq"}              -> operand_cimmq(i)
      [] c = "css_swsp" -> operand_cimmswsp(i) [] c = "css_sdsp" -> operand_cimmsdsp(i)
      [] c = "css_sqsp" -> operand_cimmsqsp(i) [] OTHER          -> {}

imm_of(c, i) ==
    CASE c = "u"       -> operand_imm20(i)     [] c = "uj"      -> operand_jimm20(i)
      [] c = "i"       -> operand_imm12(i)     [] c = "i_sh5"   -> operand_shamt5(i)
      [] c = "i_sh6"   -> operand_shamt6(i)    [] c = "i_sh7"   -> operand_shamt7(i)
      [] c = "i_csr"   -> operand_csr12(i)     [] c = "s"       -> operand_simm12(i)
      [] c = "sb"      -> operand_sbimm12(i)   [] OTHER         -> cimm_of(c, i)

decode_inst_operands(c, i) ==
    [rd  |-> rd_of(c, i), rs1 |-> rs1_of(c, i), rs2 |-> rs2_of(c, i), imm |-> imm_of(c, i),
     rs3 |-> IF c = "r4_m" THEN operand_rs3(i) ELSE {},
     rm  |-> IF c \in {"r_m", "r4_m"} THEN operand_rm(i) ELSE {},
     aq  |-> IF c \in {"r_a", "r_l"} THEN operand_aq(i) ELSE {},
     rl  |-> IF c \in {"r_a", "r_l"} THEN operand_rl(i) ELSE {},
     pred |-> IF c = "r_f" THEN operand_pred(i) ELSE {},
     succ |-> IF c = "r_f" THEN operand_succ(i) ELSE {}]

(***************************************************************************)
(* Decompression: the base opcode of a compressed one, the instruction     *)
(* sets whose table column is empty, the opcodes with rvcd_imm_nz.         *)
(***************************************************************************)
Expands == {
  <<{"c.addi4spn", "c.nop", "c.addi", "c.li", "c.addi16sp", "c.mv"}, "addi">>,
  <<{"c.lw", "c.lwsp"}, "lw">>,    <<{"c.sw", "c.swsp"}, "sw">>,
  <<{"c.ld", "c.ldsp"}, "ld">>,    <<{"c.sd", "c.sdsp"}, "sd">>,
  <<{"c.lq", "c.lqsp"}, "lq">>,    <<{"c.sq", "c.sqsp"}, "sq">>,
  <<{"c.flw", "c.flwsp"}, "flw">>, <<{"c.fsw", "c.fswsp"}, "fsw">>,
  <<{"c.fld", "c.fldsp"}, "fld">>, <<{"c.fsd", "c.fsdsp"}, "fsd">>,
  <<{"c.jal", "c.j"}, "jal">>,     <<{"c.jr", "c.jalr"}, "jalr">>,
  <<{"c.beqz"}, "beq">>,  <<{"c.bnez"}, "bne">>,  <<{"c.lui"}, "lui">>,  <<{"c.andi"}, "andi">>,
  <<{"c.srli"}, "srli">>, <<{"c.srai"}, "srai">>, <<{"c.slli"}, "slli">>, <<{"c.add"}, "add">>,
  <<{"c.sub"}, "sub">>,   <<{"c.xor"}, "xor">>,   <<{"c.or"}, "or">>,    <<{"c.and"}, "and">>,
  <<{"c.subw"}, "sub" \o "w">>, <<{"c.addw"}, "add" \o "w">>,
  <<{"c.addiw"}, "addiw">>, <<{"c.ebreak"}, "ebreak">>}
Expansion == [op \in UNION {row[1] : row \in Expands} |->
                 (CHOOSE row \in Expands : op \in row[1])[2]]

NotIn ==
    [rv32  |-> {"c.ld", "c.sd", "c.addiw", "c.ldsp", "c.sdsp", "c.lq", "c.sq", "c.lqsp", "c.sqsp"},
     rv64  |-> {"c.flw", "c.fsw", "c.jal", "c.flwsp", "c.fswsp", "c.lq", "c.sq", "c.lqsp", "c.sqsp"},
     rv128 |-> {"c.fld", "c.fsd", "c.flw", "c.fsw", "c.jal", "c.flwsp", "c.fswsp"}]

rvcd_imm_nz == {"c.addi4spn", "c.addi16sp", "c.lui", "c.srli", "c.srai", "c.andi", "c.slli"}

decode_inst_decompress(d) ==
    IF d.op \notin DOMAIN Expansion \ NotIn[isa] THEN d
    ELSE IF d.op \in rvcd_imm_nz /\ d.imm = {} THEN [d EXCEPT !.op = "illegal"]
    ELSE [d EXCEPT !.op = Expansion[d.op], !.codec = codec(Expansion[d.op])]

(***************************************************************************)
(* Lifting: for each opcode its pseudo instructions in the order they are  *)
(* tried, each with the constraints it needs.                              *)
(***************************************************************************)
(* mutant: rvc_imm_eq_zero is not tested *)
ImmIgnored(d) == TRUE
ImmEqZero(d)  == d.imm = {}

check_constraint(d, c) ==
    CASE c = "rd_eq_ra"   -> d.rd = ra       [] c = "rd_eq_x0"   -> d.rd = x0
      [] c = "rs1_eq_x0"  -> d.rs1 = x0      [] c = "rs2_eq_x0"  -> d.rs2 = x0
      [] c = "rs2_eq_rs1" -> d.rs2 = d.rs1   [] c = "rs1_eq_ra"  -> d.rs1 = ra
      [] c = "imm_eq_zero" -> ImmEqZero(d)   [] c = "imm_eq_n1"  -> d.imm = 0..31
      [] c = "imm_eq_p1"  -> d.imm = {0}     [] c = "csr_001"    -> d.imm = {0}
      [] c = "csr_002"    -> d.imm = {1}     [] c = "csr_003"    -> d.imm = {0, 1}
      [] c = "csr_c00"    -> d.imm = {10, 11}    [] c = "csr_c01" -> d.imm = {0, 10, 11}
      [] c = "csr_c02"    -> d.imm = {1, 10, 11} [] c = "csr_c80" -> d.imm = {7, 10, 11}
      [] c = "csr_c81"    -> d.imm = {0, 7, 10, 11}
      [] c = "csr_c82"    -> d.imm = {1, 7, 10, 11}

Counter(op, csr) == <<op, {"rs1_eq_x0", csr}>>
SignInjection == {<<"fsgnj", "fmv">>, <<"fsgnjn", "fneg">>, <<"fsgnjx", "fabs">>}
FpAlias == {<<names[1] \o x, names[2] \o x>> : names \in SignInjection, x \in FpSuffix}

Lifts(op, forms) == <<op, forms>>
Liftings == {
    Lifts("jal",  <<<<"j", {"rd_eq_x0"}>>, <<"jal", {"rd_eq_ra"}>>>>),
    Lifts("jalr", <<<<"ret", {"rd_eq_x0", "rs1_eq_ra"}>>, <<"jr", {"rd_eq_x0", "imm_eq_zero"}>>,
                    <<"jalr", {"rd_eq_ra", "imm_eq_zero"}>>>>),
    Lifts("beq",  <<<<"beqz", {"rs2_eq_x0"}>>>>), Lifts("bne", <<<<"bnez", {"rs2_eq_x0"}>>>>),
    Lifts("blt",  <<<<"bltz", {"rs2_eq_x0"}>>, <<"bgtz", {"rs1_eq_x0"}>>, <<"bgt", {}>>>>),
    Lifts("bge",  <<<<"blez", {"rs1_eq_x0"}>>, <<"bgez", {"rs2_eq_x0"}>>, <<"ble", {}>>>>),
    Lifts("bltu", <<<<"bgtu", {}>>>>),            Lifts("bgeu", <<<<"bleu", {}>>>>),
    Lifts("addi", <<<<"nop", {"rd_eq_x0", "rs1_eq_x0", "imm_eq_zero"}>>,
                    <<"mv", {"imm_eq_zero"}>>>>),
    Lifts("sltiu", <<<<"seqz", {"imm_eq_p1"}>>>>), Lifts("xori", <<<<"not", {"imm_eq_n1"}>>>>),
    Lifts("sub",  <<<<"neg", {"rs1_eq_x0"}>>>>),
    Lifts("sub" \o "w", <<<<"negw", {"rs1_eq_x0"}>>>>),
    Lifts("slt",  <<<<"sltz", {"rs2_eq_x0"}>>, <<"sgtz", {"rs1_eq_x0"}>>>>),
    Lifts("sltu", <<<<"snez", {"rs1_eq_x0"}>>>>), Lifts("addiw", <<<<"sext.w", {"imm_eq_zero"}>>>>),
    Lifts("csrrw", <<<<"fscsr", {"csr_003"}>>, <<"fsrm", {"csr_002"}>>,
                     <<"fsflags", {"csr_001"}>>>>),
    Lifts("csrrs", <<Counter("rdcycle", "csr_c00"), Counter("rdtime", "csr_c01"),
                     Counter("rdinstret", "csr_c02"), Counter("rdcycleh", "csr_c80"),
                     Counter("rdtimeh", "csr_c81"), Counter("rdinstreth", "csr_c82"),
                     Counter("frcsr", "csr_003"), Counter("frrm", "csr_002"),
                     Counter("frflags", "csr_001")>>),
    Lifts("csrrwi", <<<<"fsrmi", {"csr_002"}>>, <<"fsflagsi", {"csr_001"}>>>>)}
    \cup {Lifts(pair[1], <<<<pair[2], {"rs2_eq_rs1"}>>>>) : pair \in FpAlias}
rvcp == Table(Liftings)

decode_inst_lift_pseudo(d) ==
    LET table == IF d.op \in DOMAIN rvcp THEN rvcp[d.op] ELSE << >>
        holds == {k \in DOMAIN table : \A c \in table[k][2] : check_constraint(d, c)}
    IN  IF holds = {} THEN d
        ELSE LET op == table[Min(holds)][1] IN [d EXCEPT !.op = op, !.codec = codec(op)]

(***************************************************************************)
(* decode_inst_format: the field of dec each letter of a format shows, the *)
(* token it is shown as, and how many characters that takes.               *)
(***************************************************************************)
FieldOf(letter) == CASE letter = "frd"  -> "rd"  [] letter = "(rs1)" -> "rs1"
                     [] letter \in {"frs1", "zimm"} -> "rs1"
                     [] letter = "frs2" -> "rs2" [] letter = "frs3" -> "rs3"
                     [] letter \in {"csr", "offset"} -> "imm" [] OTHER -> letter
Fields(op) == [k \in DOMAIN format(op) |-> FieldOf(format(op)[k])]

HexDigit == <<"0", "1", "2", "3", "4", "5", "6", "7", "8", "9", "a", "b", "c", "d", "e", "f">>
CsrText(n) == IF n \in DOMAIN csr_name THEN csr_name[n]
              ELSE "0x" \o HexDigit[n \div 256 + 1] \o HexDigit[((n \div 16) % 16) + 1]
                        \o HexDigit[(n % 16) + 1]
(* No name is another's, or the number of a register that has none.        *)
ASSUME CsrTextsApart == Cardinality({CsrText(n) : n \in 0..4095}) = 4096

Shown(letter, w) ==
    CASE letter \in {"rd", "rs1", "rs2", "(rs1)"}        -> rv_ireg_name_sym[Number(w)]
      [] letter \in {"frd", "frs1", "frs2", "frs3"}      -> rv_freg_name_sym[Number(w)]
      [] letter = "csr"                                  -> CsrText(Number(w \cap 0..11))
      [] letter = "rm"                                   -> RoundingName(w)
      [] letter \in {"pred", "succ"}                     -> FenceLetters(w)
      [] letter \in {"imm", "offset", "zimm", "aq", "rl"} -> w

BufLen == 80                                  \* the smallest buffer: print_inst of t1.c
pc     == 65656 + offset                      \* dissassemble(0x10078, ...) of t2.c

(* %d of a 32 bit word, a sign and its digits; %x of a word of any width,  *)
(* and of the 64 bit address pc + imm.                                     *)
Signed32(w)   == Number(w) - (IF 31 \in w THEN 2^30 ELSE 0) - (IF 31 \in w THEN 2^30 ELSE 0)
DecimalWidth(n) == IF n >= 0 THEN 1 + Cardinality({k \in 1..9 : n >= 10^k})
                   ELSE 2 + Cardinality({k \in 1..9 : n <= -(10^k)})
HexWidth(w)   == IF w = {} THEN 1 ELSE Max(w) \div 4 + 1
TargetWidth(imm) == LET target == pc + Signed32(imm)
                    IN  IF target < 0 THEN 16 ELSE 1 + Cardinality({k \in 1..7 : target >= 16^k})

(* mutant: the gap before the address two tabs wide, not one space *)
PaddedTarget(imm) == <<DecimalWidth(Signed32(imm)), 64, 4 + TargetWidth(imm)>>
WithTarget(imm)   == <<DecimalWidth(Signed32(imm)), 1, 4 + TargetWidth(imm)>>

(* The longest names.                                                      *)
ASSUME NamesShort == /\ \A op \in rv_op : Len(op) \in 0..10
                     /\ \A n \in 0..31 : /\ Len(rv_ireg_name_sym[n]) \in 0..4
                                         /\ Len(rv_freg_name_sym[n]) \in 0..4
                     /\ \A w \in SUBSET (0..2) : Len(RoundingName(w)) \in 0..4
                     /\ \A name \in {CsrText(n) : n \in 0..4095} : Len(name) \in 0..14

(* What each letter appends, as widths.                                    *)
Appends(letter, w) ==
    CASE letter = "(rs1)"           -> <<1, Len(Shown(letter, w)), 1>>
      [] letter \in {"pred", "succ"} -> [k \in 1..Cardinality(FenceLetters(w)) |-> 1]
      [] letter \in {"imm", "zimm"} -> <<DecimalWidth(Signed32(w))>>
      [] letter = "offset"          -> WithTarget(w)
      [] letter \in {"aq", "rl"}    -> IF w = {} THEN << >> ELSE <<3>>
      [] OTHER                      -> <<Len(Shown(letter, w))>>

(* A comma precedes every operand but the first and a base after its       *)
(* offset; the suffixes .aq and .rl come before the space after the name.  *)
Comma(letters, k) == /\ k > 1
                     /\ letters[k - 1] # "rl"
                     /\ <<letters[k - 1], letters[k]>> # <<"imm", "(rs1)">>
Pieces(d) ==
    LET letters == format(d.op)
        flags   == {k \in DOMAIN letters : letters[k] \in {"aq", "rl"}}
        Piece(k) == Appends(letters[k], d[FieldOf(letters[k])])
    IN  <<Len(d.op)>>
        \o FlattenSeq([k \in 1..Cardinality(flags) |-> Piece(k)])
        \o <<1>>
        \o FlattenSeq([k \in 1..(Len(letters) - Cardinality(flags)) |->
               LET at == k + Cardinality(flags)
               IN  (IF Comma(letters, at) THEN <<1>> ELSE << >>) \o Piece(at)])

(* append to a text of length l: strncat adds at most n - l characters.    *)
append(l, w, n) == IF n - l - 1 > 0 THEN l + Min({w, n - l}) ELSE l
(* snprintf of the word, zero padded to the instruction's length.          *)
Prefix(d) == Min({BufLen - 1, Max({2 * (IF inst_length(d.inst) = 0 THEN 8 ELSE inst_length(d.inst)),
                                   HexWidth(d.inst)}) + 1})
TextLength(d) == FoldLeft(LAMBDA l, w : append(l, w, BufLen), Prefix(d), Pieces(d))

decode_inst_format(d) ==
    [op |-> d.op,
     shown |-> [k \in DOMAIN format(d.op) |-> Shown(format(d.op)[k], d[Fields(d.op)[k]])]]

(***************************************************************************)
(* The machine.                                                            *)
(***************************************************************************)
Init == /\ \E in \in Inputs : isa = in.isa /\ words = in.words
        /\ offset = 0 /\ inst_len = 0 /\ stage = "loop"
        /\ dec = ZeroDec /\ plain = ZeroDec /\ text = NoText

InstFetch ==
    /\ stage = "loop" /\ offset < Len(data)
    /\ LET fetched == inst_fetch(offset) IN
         /\ inst_len' = fetched.len
         /\ dec' = [ZeroDec EXCEPT !.inst = fetched.inst]
    /\ stage' = "fetched"
    /\ UNCHANGED <<isa, words, offset, plain, text>>

DecodeOpcode ==
    /\ stage = "fetched" /\ stage' = "opcode"
    /\ dec' = [dec EXCEPT !.op = decode_inst_opcode(dec.inst, isa)]
    /\ UNCHANGED <<isa, words, offset, inst_len, plain, text>>

DecodeOperands ==
    /\ stage = "opcode" /\ stage' = "operands"
    /\ LET c == codec(dec.op) IN
         dec' = [f \in DOMAIN dec |-> IF f \in Operands THEN decode_inst_operands(c, dec.inst)[f]
                                      ELSE IF f = "codec" THEN c ELSE dec[f]]
    /\ UNCHANGED <<isa, words, offset, inst_len, plain, text>>

Decompress ==
    /\ stage = "operands" /\ stage' = "plain"
    /\ dec' = decode_inst_decompress(dec)
    /\ plain' = dec'
    /\ UNCHANGED <<isa, words, offset, inst_len, text>>

LiftPseudo ==
    /\ stage = "plain" /\ stage' = "lifted"
    /\ dec' = decode_inst_lift_pseudo(dec)
    /\ UNCHANGED <<isa, words, offset, inst_len, plain, text>>

Format ==
    /\ stage = "lifted" /\ stage' = "printed"
    /\ text' = decode_inst_format(dec)
    /\ UNCHANGED <<isa, words, offset, inst_len, dec, plain>>

Advance ==
    /\ stage = "printed" /\ stage' = "loop"
    /\ offset' = offset + inst_len
    /\ UNCHANGED <<isa, words, inst_len, dec, plain, text>>

Return ==
    /\ stage = "loop" /\ offset >= Len(data) /\ stage' = "done"
    /\ UNCHANGED <<isa, words, offset, inst_len, dec, plain, text>>

Next == \/ InstFetch \/ DecodeOpcode \/ DecodeOperands \/ Decompress
        \/ LiftPseudo \/ Format \/ Advance \/ Return

(* A sequential program: it runs as long as it can.                        *)
Spec == Init /\ [][Next]_vars /\ WF_vars(Next)

(***************************************************************************)
(* Properties.                                                             *)
(***************************************************************************)
(* Operands are 32 bit words, registers 5 bit ones, and the opcode and     *)
(* codec are rows of the table (no operand keeps bits of the 64 bit        *)
(* shifts of its extractor).                                               *)
TypeOK ==
    /\ isa \in isas /\ offset \in 0..Len(data) /\ inst_len \in {0, 2, 4, 6, 8}
    /\ stage \in {"loop", "fetched", "opcode", "operands", "plain", "lifted", "printed", "done"}
    /\ dec.inst \in SUBSET (0..63) /\ dec.op \in rv_op /\ dec.codec \in rv_codec
    /\ \A f \in {"rd", "rs1", "rs2", "rs3"} : dec[f] \subseteq 0..4
    /\ dec.imm \subseteq 0..31
    /\ text.op \in rv_op

Start(k) == FoldLeft(+, 0, [j \in 1..(k - 1) |-> words[j].size])

(* The loop of t2.c sees the words of the program, each at its own offset  *)
(* and with its own length, whatever lengths are mixed.                    *)
FetchesWords ==
    stage = "fetched" =>
        \E k \in DOMAIN words : /\ offset = Start(k)
                                /\ dec.inst = words[k].inst
                                /\ inst_len = words[k].size

(* The loop ends: every fetched length moves the offset.                   *)
Terminates == <>(stage = "done")

(* Opcode selection and the three decompression columns agree: after       *)
(* decompression no compressed opcode is left on any isa.                  *)
NoCompressedLeft == stage = "plain" => dec.op \notin Compressed

Decoded(i) == LET op == decode_inst_opcode(i, isa)
              IN  <<op, decode_inst_operands(codec(op), i)>>
Flip(i, b) == IF b \in i THEN i \ {b} ELSE i \cup {b}

(* Every bit matters: no other word of the same length that differs in one *)
(* bit decodes to the same opcode and operands, so no bit of a scattered   *)
(* immediate is dropped or merged with another.  The fences ignore their   *)
(* reserved fields.                                                        *)
EveryBitCounts ==
    stage = "operands" /\ dec.op \notin {"illegal", "fence", "fence.i"} =>
        LET i == dec.inst
        IN  \A b \in 2..(8 * inst_len - 1) :
                inst_length(Flip(i, b)) = inst_len => Decoded(Flip(i, b)) # Decoded(i)

Unsigned == [ciw_4spn |-> 2..9, cl_lw |-> 2..6, cs_sw |-> 2..6, cl_ld |-> 3..7, cs_sd |-> 3..7,
             cl_lq |-> 4..8, cs_sq |-> 4..8, ci_lwsp |-> 2..7, ci_ldsp |-> 3..8, ci_lqsp |-> 4..9,
             css_swsp |-> 2..7, css_sdsp |-> 3..8, css_sqsp |-> 4..9, cb_sh6 |-> 0..5,
             ci_sh6 |-> 0..5, i_sh5 |-> 0..4, i_sh6 |-> 0..5, i_sh7 |-> 0..6, i_csr |-> 0..11]
Signed   == [cj |-> <<1, 11>>, cj_jal |-> <<1, 11>>, cb |-> <<1, 8>>, ci |-> <<0, 5>>,
             ci_li |-> <<0, 5>>, cb_imm |-> <<0, 5>>, ci_16sp |-> <<4, 9>>, ci_lui |-> <<12, 17>>,
             i |-> <<0, 11>>, s |-> <<0, 11>>, sb |-> <<1, 12>>, uj |-> <<1, 20>>, u |-> <<12, 31>>]

(* Immediates are scaled and bounded as their codec requires: an unsigned  *)
(* one lies within lo..hi, a signed one has no bit below lo and repeats    *)
(* its sign bit upwards.                                                   *)
ImmediatesScaled ==
    stage = "operands" =>
        /\ dec.codec \in DOMAIN Unsigned => dec.imm \subseteq Unsigned[dec.codec]
        /\ dec.codec \in DOMAIN Signed =>
              LET lo == Signed[dec.codec][1]  sign == Signed[dec.codec][2] IN
              /\ dec.imm \subseteq lo..31
              /\ dec.imm \cap sign..31 \in {{}, sign..31}

(* The encoders of t1.c give back the bits of the word the operands were  *)
(* extracted from, apart from the fields they do not encode.               *)
Reencodes ==
    stage = "operands" =>
        /\ dec.codec = "sb" => encode_sbimm12(dec.imm) = dec.inst \cap (7..11 \cup 25..31)
        /\ dec.codec = "uj" => encode_r_jimm20(dec.rd, dec.imm) = dec.inst \cap 7..31
        /\ dec.codec = "i"  => encode_rr_simm12(dec.rd, dec.rs1, dec.imm)
                                  = dec.inst \cap (7..11 \cup 15..31)

(***************************************************************************)
(* What a pseudo instruction stands for, after the RISC-V assembly         *)
(* manual: the base instruction, the operands in the order they are        *)
(* written, and the values of the others.                                  *)
(***************************************************************************)
Alias(base, args, implied) == [base |-> base, args |-> args, implied |-> implied]
Counted(csr) == Alias("csrrs", <<"rd">>, [rs1 |-> x0, imm |-> csr])

ManualRows == {
    <<"j",    Alias("jal", <<"imm">>, [rd |-> x0])>>,
    <<"ret",  Alias("jalr", << >>, [rd |-> x0, rs1 |-> ra, imm |-> {}])>>,
    <<"jr",   Alias("jalr", <<"rs1">>, [rd |-> x0, imm |-> {}])>>,
    <<"nop",  Alias("addi", << >>, [rd |-> x0, rs1 |-> x0, imm |-> {}])>>,
    <<"mv",   Alias("addi", <<"rd", "rs1">>, [imm |-> {}])>>,
    <<"not",  Alias("xori", <<"rd", "rs1">>, [imm |-> 0..31])>>,
    <<"seqz", Alias("sltiu", <<"rd", "rs1">>, [imm |-> {0}])>>,
    <<"sext.w", Alias("addiw", <<"rd", "rs1">>, [imm |-> {}])>>,
    <<"neg",  Alias("sub", <<"rd", "rs2">>, [rs1 |-> x0])>>,
    <<"negw", Alias("sub" \o "w", <<"rd", "rs2">>, [rs1 |-> x0])>>,
    <<"snez", Alias("sltu", <<"rd", "rs2">>, [rs1 |-> x0])>>,
    <<"sltz", Alias("slt", <<"rd", "rs1">>, [rs2 |-> x0])>>,
    <<"sgtz", Alias("slt", <<"rd", "rs2">>, [rs1 |-> x0])>>,
    <<"beqz", Alias("beq", <<"rs1", "imm">>, [rs2 |-> x0])>>,
    <<"bnez", Alias("bne", <<"rs1", "imm">>, [rs2 |-> x0])>>,
    <<"bltz", Alias("blt", <<"rs1", "imm">>, [rs2 |-> x0])>>,
    <<"bgez", Alias("bge", <<"rs1", "imm">>, [rs2 |-> x0])>>,
    <<"bgtz", Alias("blt", <<"rs2", "imm">>, [rs1 |-> x0])>>,
    <<"blez", Alias("bge", <<"rs2", "imm">>, [rs1 |-> x0])>>,
    <<"bgt",  Alias("blt", <<"rs2", "rs1", "imm">>, << >>)>>,
    <<"ble",  Alias("bge", <<"rs2", "rs1", "imm">>, << >>)>>,
    <<"bgtu", Alias("bltu", <<"rs2", "rs1", "imm">>, << >>)>>,
    <<"bleu", Alias("bgeu", <<"rs2", "rs1", "imm">>, << >>)>>,
    <<"rdcycle", Counted({10, 11})>>,      <<"rdcycleh", Counted({7, 10, 11})>>,
    <<"rdtime", Counted({0, 10, 11})>>,    <<"rdtimeh", Counted({0, 7, 10, 11})>>,
    <<"rdinstret", Counted({1, 10, 11})>>, <<"rdinstreth", Counted({1, 7, 10, 11})>>,
    <<"frcsr", Counted({0, 1})>>, <<"frrm", Counted({1})>>, <<"frflags", Counted({0})>>,
    <<"fscsr", Alias("csrrw", <<"rd", "rs1">>, [imm |-> {0, 1}])>>,
    <<"fsrm",  Alias("csrrw", <<"rd", "rs1">>, [imm |-> {1}])>>,
    <<"fsflags", Alias("csrrw", <<"rd", "rs1">>, [imm |-> {0}])>>,
    <<"fsrmi", Alias("csrrwi", <<"rd", "rs1">>, [imm |-> {1}])>>,
    <<"fsflagsi", Alias("csrrwi", <<"rd", "rs1">>, [imm |-> {0}])>>}
    \cup {<<pair[2], Alias(pair[1], <<"rd", "rs1">>, << >>)>> : pair \in FpAlias}
Manual == Table(ManualRows)
ASSUME OneMeaning == \A r1, r2 \in ManualRows : r1[1] = r2[1] => r1 = r2

(* The operand values a token of the text may stand for.  The reserved     *)
(* rounding modes are all shown as "inv".                                  *)
Values(letter, w) ==
    CASE letter \in {"pred", "succ"}                 -> SUBSET (0..3)
      [] letter = "rm"                               -> SUBSET (0..2)
      [] letter = "csr" -> {w} \cup {{b \in 0..11 : (n \div 2^b) % 2 = 1} : n \in DOMAIN csr_name}
      [] letter \in {"imm", "offset", "aq", "rl"}    -> {w}
      [] OTHER                                       -> SUBSET (0..4)
Readings(letter, token, w) == {v \in Values(letter, w) : Shown(letter, v) = token}

(* No two registers, control registers, rounding modes or fence sets are   *)
(* shown alike: whatever is printed, each operand is the only value its    *)
(* token stands for.                                                       *)
ShownReadsBack ==
    stage = "printed" =>
        \A k \in DOMAIN format(dec.op) :
            LET letter == format(dec.op)[k]  w == dec[FieldOf(letter)]
            IN  ~ (letter = "rm" /\ text.shown[k] = "inv") =>
                    Readings(letter, text.shown[k], w) = {w}

(* The text of every instruction fits the smallest buffer it is given:     *)
(* nothing is cut off, and a byte is left for the terminator.              *)
TextFits ==
    stage = "printed" =>
        /\ TextLength(dec) < BufLen
        /\ TextLength(dec) = FoldLeft(+, Prefix(dec), Pieces(dec))

(* The value of the operand a letter of the base instruction shows, read   *)
(* back from the text, where its token is taken for a name of the register *)
(* file that letter stands for.  Both sources of a lifted sign injection   *)
(* are its one source.                                                     *)
ReadBack(letter) ==
    LET alias == Manual[text.op]
        f     == FieldOf(letter)
        given == IF f = "rs2" /\ alias.base \in Names({"fsgnj", "fsgnjn", "fsgnjx"}, FpSuffix)
                 THEN "rs1" ELSE f
        at    == {k \in DOMAIN alias.args : alias.args[k] = given}
    IN  IF at = {} THEN {alias.implied[f]}
        ELSE Readings(letter, text.shown[Min(at)], plain[f])

KeepsOperands(letters) ==
    /\ plain.op = Manual[text.op].base
    /\ Len(text.shown) = Len(Manual[text.op].args)
    /\ \A k \in DOMAIN letters : ReadBack(letters[k]) = {plain[FieldOf(letters[k])]}

(* A lifted instruction can be assembled back: the text determines every   *)
(* operand its base form would have shown, and the register file it is in. *)
LiftKeepsOperands ==
    stage = "printed" /\ text.op \in DOMAIN Manual => KeepsOperands(format(plain.op))

(* The same, but for the two losses the table has.  An uncompressed jalr   *)
(* shown as ret loses its offset.  The floating point moves name integer   *)
(* registers for their operands: the numbers can be read back, as those of *)
(* integer registers (a letter rd, rs1, rs2 has the name of its field),    *)
(* and the register file cannot.                                           *)
FpMoves == {pair[2] : pair \in FpAlias}
OthersKeepOperands ==
    stage = "printed" /\ text.op \in DOMAIN Manual /\ (text.op = "ret" => inst_len = 2) =>
        KeepsOperands(IF text.op \in FpMoves THEN Fields(plain.op) ELSE format(plain.op))
=============================================================================
