----------------------------- MODULE RvOpcodes -----------------------------
(***************************************************************************)
(* Opcode decoding and the opcode table of src/disasm/riscv-disas.c.  An   *)
(* opcode is its mnemonic; the two FP sources of width "s", "d", "q" and   *)
(* the atomic ones of width "w", "d", "q" are built from a stem and a      *)
(* suffix, as the C names are.                                             *)
(***************************************************************************)
EXTENDS RvBits, Sequences, TLC

isas == {"rv32", "rv64", "rv128"}

(* A table listed by its rows, each a key and a value.                     *)
Table(rows) == [key \in {row[1] : row \in rows} |->
                   (CHOOSE row \in rows : row[1] = key)[2]]

(* A switch on n whose cases 0, 1, ... are listed; a gap is "illegal".     *)
Switch(cases, n) == IF n + 1 \in DOMAIN cases THEN cases[n + 1] ELSE "illegal"
(* A switch with scattered cases.                                          *)
Case(cases, n)   == IF n \in DOMAIN cases THEN cases[n] ELSE "illegal"
When(cond, op)   == IF cond THEN op ELSE "illegal"

f3(i)  == Bits(i, 12, 3)
f7(i)  == Bits(i, 25, 7)
rs2(i) == Bits(i, 20, 5)

(***************************************************************************)
(* The 16 bit quadrants of decode_inst_opcode.                             *)
(***************************************************************************)
Quadrant0(i, isa) == Switch(<<"c.addi4spn",
    IF isa = "rv128" THEN "c.lq" ELSE "c.fld", "c.lw",
    IF isa = "rv32" THEN "c.flw" ELSE "c.ld", "illegal",
    IF isa = "rv128" THEN "c.sq" ELSE "c.fsd", "c.sw",
    IF isa = "rv32" THEN "c.fsw" ELSE "c.sd">>, Bits(i, 13, 3))

(* mutant: c.jal decoded on rv64 and rv128 *)
JalEverywhere(i, isa) == "c.jal"

JalOrAddiw(i, isa) == IF isa = "rv32" THEN "c.jal" ELSE "c.addiw"

CompressedAlu(i) ==
    LET kind == Bits(i, 10, 2) IN
    IF kind < 3 THEN Switch(<<"c.srli", "c.srai", "c.andi">>, kind)
    ELSE Switch(<<"c.sub", "c.xor", "c.or", "c.and", "c.subw", "c.addw">>,
                4 * Bits(i, 12, 1) + Bits(i, 5, 2))

Quadrant1(i, isa) == Switch(<<
    IF Bits(i, 2, 11) = 0 THEN "c.nop" ELSE "c.addi",
    JalOrAddiw(i, isa), "c.li",
    IF Bits(i, 7, 5) = 2 THEN "c.addi16sp" ELSE "c.lui",
    CompressedAlu(i), "c.j", "c.beqz", "c.bnez">>, Bits(i, 13, 3))

JumpOrMove(i) ==
    IF Bits(i, 12, 1) = 0
    THEN IF Bits(i, 2, 5) = 0 THEN "c.jr" ELSE "c.mv"
    ELSE IF Bits(i, 2, 5) # 0 THEN "c.add"
         ELSE IF Bits(i, 7, 5) = 0 THEN "c.ebreak" ELSE "c.jalr"

Quadrant2(i, isa) == Switch(<<"c.slli",
    IF isa = "rv128" THEN "c.lqsp" ELSE "c.fldsp", "c.lwsp",
    IF isa = "rv32" THEN "c.flwsp" ELSE "c.ldsp", JumpOrMove(i),
    IF isa = "rv128" THEN "c.sqsp" ELSE "c.fsdsp", "c.swsp",
    IF isa = "rv32" THEN "c.fswsp" ELSE "c.sdsp">>, Bits(i, 13, 3))

(***************************************************************************)
(* The 32 bit opcodes.                                                     *)
(***************************************************************************)
Load(i)    == Switch(<<"lb", "lh", "lw", "ld", "lbu", "lhu", "lwu", "ldu">>, f3(i))
LoadFp(i)  == Switch(<<"illegal", "illegal", "flw", "fld", "flq">>, f3(i))
Fence(i)   == Switch(<<"fence", "fence.i", "lq">>, f3(i))
Store(i)   == Switch(<<"sb", "sh", "sw", "sd", "sq">>, f3(i))
StoreFp(i) == Switch(<<"illegal", "illegal", "fsw", "fsd", "fsq">>, f3(i))

OpImm(i) == Switch(<<"addi", When(Bits(i, 27, 5) = 0, "slli"), "slti", "sltiu", "xori",
    Case(Table({<<0, "srli">>, <<8, "srai">>}), Bits(i, 27, 5)), "ori", "andi">>, f3(i))

OpImmW(i) == Case(Table({<<0, "addiw">>, <<1, When(f7(i) = 0, "slliw")>>,
    <<5, Case(Table({<<0, "srliw">>, <<32, "sraiw">>}), f7(i))>>}), f3(i))

OpImmD(i) == Case(Table({<<0, "addid">>, <<1, When(Bits(i, 26, 6) = 0, "sllid")>>,
    <<5, Case(Table({<<0, "srlid">>, <<16, "sraid">>}), Bits(i, 26, 6))>>}), f3(i))

AmoStem == Table({<<0, "amoadd">>, <<1, "amoswap">>, <<2, "lr">>, <<3, "sc">>, <<4, "amoxor">>,
                  <<8, "amoor">>, <<12, "amoand">>, <<16, "amomin">>, <<20, "amomax">>,
                  <<24, "amominu">>, <<28, "amomaxu">>})
AmoWidth == Table({<<2, ".w">>, <<3, ".d">>, <<4, ".q">>})
Amo(i) == LET stem == Bits(i, 27, 5) IN
          When(/\ stem \in DOMAIN AmoStem /\ f3(i) \in DOMAIN AmoWidth
               /\ stem = 2 => rs2(i) = 0,
               Case(AmoStem, stem) \o Case(AmoWidth, f3(i)))

RegAlu == Table({<<0, "add">>, <<1, "sll">>, <<2, "slt">>, <<3, "sltu">>, <<4, "xor">>,
                 <<5, "srl">>, <<6, "or">>, <<7, "and">>, <<8, "mul">>, <<9, "mulh">>,
                 <<10, "mulhsu">>, <<11, "mulhu">>, <<12, "div">>, <<13, "divu">>,
                 <<14, "rem">>, <<15, "remu">>, <<256, "sub">>, <<261, "sra">>})
NarrowAlu == {0, 1, 5, 8, 12, 13, 14, 15, 256, 261}
Op(i)         == Case(RegAlu, 8 * f7(i) + f3(i))
OpNarrow(i, suffix) == LET n == 8 * f7(i) + f3(i) IN
                       When(n \in NarrowAlu, Case(RegAlu, n) \o suffix)

FpWidth == Table({<<0, ".s">>, <<1, ".d">>, <<3, ".q">>})
FpName(stem, i) == When(/\ stem # "illegal" /\ Bits(i, 25, 2) \in DOMAIN FpWidth,
                        stem \o Case(FpWidth, Bits(i, 25, 2)))
(* fcvt between two widths: a width is not converted to itself.            *)
FcvtWidth(i) == When(/\ Bits(i, 25, 2) \in DOMAIN FpWidth /\ rs2(i) \in DOMAIN FpWidth
                     /\ rs2(i) # Bits(i, 25, 2),
                     "fcvt" \o Case(FpWidth, Bits(i, 25, 2)) \o Case(FpWidth, rs2(i)))
IntType == <<".w", ".wu", ".l", ".lu">>
FpToInt(i) == When(/\ Bits(i, 25, 2) \in DOMAIN FpWidth /\ rs2(i) \in 0..3,
                   "fcvt" \o Switch(IntType, rs2(i)) \o Case(FpWidth, Bits(i, 25, 2)))
IntToFp(i) == When(/\ Bits(i, 25, 2) \in DOMAIN FpWidth /\ rs2(i) \in 0..3,
                   "fcvt" \o Case(FpWidth, Bits(i, 25, 2)) \o Switch(IntType, rs2(i)))

FpStem(i) == Case(Table({<<0, "fadd">>, <<1, "fsub">>, <<2, "fmul">>, <<3, "fdiv">>,
    <<4, Switch(<<"fsgnj", "fsgnjn", "fsgnjx">>, f3(i))>>,
    <<5, Switch(<<"fmin", "fmax">>, f3(i))>>,
    <<11, When(rs2(i) = 0, "fsqrt")>>,
    <<20, Switch(<<"fle", "flt", "feq">>, f3(i))>>}), Bits(i, 27, 5))

(* Moves of the bit pattern, to and from an integer register.              *)
FpToBits(i) == FpName(When(rs2(i) = 0, Switch(<<"fmv.x", "fclass">>, f3(i))), i)
BitsToFp(i) == LET move == FpName(When(rs2(i) = 0 /\ f3(i) = 0, "fmv"), i) IN
               When(move # "illegal", move \o ".x")

OpFp(i) == CASE Bits(i, 27, 5) = 8  -> FcvtWidth(i)
             [] Bits(i, 27, 5) = 24 -> FpToInt(i)
             [] Bits(i, 27, 5) = 26 -> IntToFp(i)
             [] Bits(i, 27, 5) = 28 -> FpToBits(i)
             [] Bits(i, 27, 5) = 30 -> BitsToFp(i)
             [] OTHER               -> FpName(FpStem(i), i)

(* mutant: the unsigned branches swapped *)
SwappedBranch(i) == Switch(<<"beq", "bne", "illegal", "illegal",
                             "blt", "bge", "bgeu", "bltu">>, f3(i))
Branch(i) == Switch(<<"beq", "bne", "illegal", "illegal", "blt", "bge", "bltu", "bgeu">>, f3(i))

rs12(i) == Bits(i, 15, 10)                          \* rs2:rs1
Privileged(i) ==
    Case(Table({
      <<0, Case(Table({<<0, "ecall">>, <<32, "ebreak">>, <<64, "uret">>}), rs12(i))>>,
      <<256, Case(Table({<<2, When(Bits(i, 15, 5) = 0, "sret")>>, <<4, "sfence.vm">>,
                         <<5, When(Bits(i, 15, 5) = 0, "wfi")>>}), rs2(i))>>,
      <<288, "sfence.vma">>, <<512, When(rs12(i) = 64, "hret")>>,
      <<768, When(rs12(i) = 64, "mret")>>, <<1952, When(rs12(i) = 576, "dret")>>}),
      32 * f7(i) + Bits(i, 7, 5))
System(i) == Switch(<<Privileged(i), "csrrw", "csrrs", "csrrc", "illegal",
                      "csrrwi", "csrrsi", "csrrci">>, f3(i))

(* Major opcode, bits 6 to 2.                                              *)
Quadrant3(i) ==
    LET major == Bits(i, 2, 5) IN
    CASE major = 0  -> Load(i)            [] major = 1  -> LoadFp(i)
      [] major = 3  -> Fence(i)           [] major = 4  -> OpImm(i)
      [] major = 5  -> "auipc"            [] major = 6  -> OpImmW(i)
      [] major = 8  -> Store(i)           [] major = 9  -> StoreFp(i)
      [] major = 11 -> Amo(i)             [] major = 12 -> Op(i)
      [] major = 13 -> "lui"              [] major = 14 -> OpNarrow(i, "w")
      [] major = 16 -> FpName("fmadd", i)  [] major = 17 -> FpName("fmsub", i)
      [] major = 18 -> FpName("fnmsub", i) [] major = 19 -> FpName("fnmadd", i)
      [] major = 20 -> OpFp(i)            [] major = 22 -> OpImmD(i)
      [] major = 24 -> Branch(i)          [] major = 25 -> When(f3(i) = 0, "jalr")
      [] major = 27 -> "jal"              [] major = 28 -> System(i)
      [] major = 30 -> OpNarrow(i, "d")   [] OTHER      -> "illegal"

decode_inst_opcode(i, isa) ==
    CASE Bits(i, 0, 2) = 0 -> Quadrant0(i, isa)
      [] Bits(i, 0, 2) = 1 -> Quadrant1(i, isa)
      [] Bits(i, 0, 2) = 2 -> Quadrant2(i, isa)
      [] OTHER             -> Quadrant3(i)

(***************************************************************************)
(* opcode_data: the rows of one codec and one format are one row here.     *)
(* A format is the sequence of operands it shows; "f" marks a name from    *)
(* the FP register file, "(rs1)" a base address in brackets, "offset" an   *)
(* immediate followed by the address it leads to.                          *)
(***************************************************************************)
Names(stems, suffixes) == {a \o b : a \in stems, b \in suffixes}
FpSuffix == {".s", ".d", ".q"}

rd_rs1_imm == <<"rd", "rs1", "imm">>
rd_rs1_rs2 == <<"rd", "rs1", "rs2">>
rd_mem     == <<"rd", "imm", "(rs1)">>                 \* rd,imm(rs1)
frd_mem    == <<"frd", "imm", "(rs1)">>
rs2_mem    == <<"rs2", "imm", "(rs1)">>
frs2_mem   == <<"frs2", "imm", "(rs1)">>
fp3        == <<"frd", "frs1", "frs2">>

IntegerRows == {
  <<"u", <<"rd", "imm">>, {"lui"}>>, <<"u", <<"rd", "offset">>, {"auipc"}>>,
  <<"uj", <<"rd", "offset">>, {"jal"}>>, <<"i", rd_rs1_imm, {"jalr"}>>,
  <<"sb", <<"rs1", "rs2", "offset">>, {"beq", "bne", "blt", "bge", "bltu", "bgeu"}>>,
  <<"i", rd_mem, {"lb", "lh", "lw", "lbu", "lhu", "lwu", "ld", "ldu", "lq"}>>,
  <<"s", rs2_mem, {"sb", "sh", "sw", "sd", "sq"}>>,
  <<"i", rd_rs1_imm, {"addi", "slti", "sltiu", "xori", "ori", "andi", "addiw", "addid"}>>,
  <<"i_sh7", rd_rs1_imm, {"slli", "srli", "srai"}>>,
  <<"i_sh5", rd_rs1_imm, {"slliw", "srliw", "sraiw"}>>,
  <<"i_sh6", rd_rs1_imm, {"sllid", "srlid", "sraid"}>>,
  <<"r", rd_rs1_rs2, {RegAlu[n] : n \in DOMAIN RegAlu}
                     \cup Names({RegAlu[n] : n \in NarrowAlu}, {"w", "d"})>>,
  <<"r_f", <<"pred", "succ">>, {"fence"}>>, <<"none", << >>, {"fence.i"}>>}

SystemRows == {
  <<"r_l", <<"aq", "rl", "rd", "(rs1)">>, Names({"lr"}, {".w", ".d", ".q"})>>,
  <<"r_a", <<"aq", "rl", "rd", "rs2", "(rs1)">>,
    Names({AmoStem[n] : n \in DOMAIN AmoStem \ {2}}, {".w", ".d", ".q"})>>,
  <<"none", << >>, {"ecall", "ebreak", "uret", "sret", "hret", "mret", "dret", "wfi"}>>,
  <<"r", <<"rs1">>, {"sfence.vm"}>>, <<"r", <<"rs1", "rs2">>, {"sfence.vma"}>>,
  <<"i_csr", <<"rd", "csr", "rs1">>, {"csrrw", "csrrs", "csrrc"}>>,
  <<"i_csr", <<"rd", "csr", "zimm">>, {"csrrwi", "csrrsi", "csrrci"}>>}

FloatRows == {
  <<"i", frd_mem, {"flw", "fld", "flq"}>>, <<"s", frs2_mem, {"fsw", "fsd", "fsq"}>>,
  <<"r4_m", <<"rm", "frd", "frs1", "frs2", "frs3">>,
    Names({"fmadd", "fmsub", "fnmsub", "fnmadd"}, FpSuffix)>>,
  <<"r_m", <<"rm", "frd", "frs1", "frs2">>, Names({"fadd", "fsub", "fmul", "fdiv"}, FpSuffix)>>,
  <<"r", fp3, Names({"fsgnj", "fsgnjn", "fsgnjx", "fmin", "fmax"}, FpSuffix)>>,
  <<"r_m", <<"rm", "frd", "frs1">>, Names({"fsqrt"}, FpSuffix)
     \cup {"fcvt" \o s[1] \o s[2] : s \in {p \in FpSuffix \X FpSuffix : p[1] # p[2]}}>>,
  <<"r", <<"rd", "frs1", "frs2">>, Names({"fle", "flt", "feq"}, FpSuffix)>>,
  <<"r_m", <<"rm", "rd", "frs1">>,
    Names(Names({"fcvt"}, {".w", ".wu", ".l", ".lu"}), FpSuffix)>>,
  <<"r_m", <<"rm", "frd", "rs1">>,
    Names(Names({"fcvt"}, FpSuffix), {".w", ".wu", ".l", ".lu"})>>,
  <<"r", <<"rd", "frs1">>, Names({"fmv.x", "fclass"}, FpSuffix)>>,
  <<"r", <<"frd", "rs1">>, Names(Names({"fmv"}, FpSuffix), {".x"})>>}

CompressedRows == {
  <<"ciw_4spn", rd_rs1_imm, {"c.addi4spn"}>>,
  <<"cl_ld", frd_mem, {"c.fld"}>>, <<"cl_ld", rd_mem, {"c.ld"}>>,
  <<"cl_lw", rd_mem, {"c.lw"}>>, <<"cl_lw", frd_mem, {"c.flw"}>>,
  <<"cl_lq", rd_mem, {"c.lq"}>>, <<"cs_sq", rs2_mem, {"c.sq"}>>,
  <<"cs_sd", frs2_mem, {"c.fsd"}>>, <<"cs_sd", rs2_mem, {"c.sd"}>>,
  <<"cs_sw", rs2_mem, {"c.sw"}>>, <<"cs_sw", frs2_mem, {"c.fsw"}>>,
  <<"ci_none", << >>, {"c.nop", "c.ebreak"}>>,
  <<"ci", rd_rs1_imm, {"c.addi", "c.addiw"}>>, <<"cj_jal", <<"rd", "offset">>, {"c.jal"}>>,
  <<"ci_li", rd_rs1_imm, {"c.li"}>>, <<"ci_16sp", rd_rs1_imm, {"c.addi16sp"}>>,
  <<"ci_lui", <<"rd", "imm">>, {"c.lui"}>>, <<"cb_sh6", rd_rs1_imm, {"c.srli", "c.srai"}>>,
  <<"cb_imm", rd_rs1_imm, {"c.andi"}>>,
  <<"cs", rd_rs1_rs2, {"c.sub", "c.xor", "c.or", "c.and", "c.subw", "c.addw"}>>,
  <<"cj", <<"rd", "offset">>, {"c.j"}>>, <<"cb", <<"rs1", "rs2", "offset">>, {"c.beqz", "c.bnez"}>>,
  <<"ci_sh6", rd_rs1_imm, {"c.slli"}>>,
  <<"ci_ldsp", frd_mem, {"c.fldsp"}>>, <<"ci_ldsp", rd_mem, {"c.ldsp"}>>,
  <<"ci_lwsp", rd_mem, {"c.lwsp"}>>, <<"ci_lwsp", frd_mem, {"c.flwsp"}>>,
  <<"ci_lqsp", rd_mem, {"c.lqsp"}>>, <<"css_sqsp", rs2_mem, {"c.sqsp"}>>,
  <<"cr_jr", rd_rs1_imm, {"c.jr"}>>, <<"cr_mv", rd_rs1_rs2, {"c.mv"}>>,
  <<"cr_jalr", rd_rs1_imm, {"c.jalr"}>>, <<"cr", rd_rs1_rs2, {"c.add"}>>,
  <<"css_sdsp", frs2_mem, {"c.fsdsp"}>>, <<"css_sdsp", rs2_mem, {"c.sdsp"}>>,
  <<"css_swsp", rs2_mem, {"c.swsp"}>>, <<"css_swsp", frs2_mem, {"c.fswsp"}>>}

PseudoRows == {
  <<"i", << >>, {"nop", "ret"}>>, <<"i", <<"rd", "rs1">>, {"mv", "not", "sext.w", "seqz"}>>,
  <<"r", <<"rd", "rs2">>, {"neg", "negw", "snez", "sgtz"}>>, <<"r", <<"rd", "rs1">>, {"sltz"}>>,
  <<"r", <<"rd", "rs1">>, Names({"fmv", "fabs", "fneg"}, FpSuffix)>>,
  <<"sb", <<"rs1", "offset">>, {"beqz", "bnez", "bgez", "bltz"}>>,
  <<"sb", <<"rs2", "offset">>, {"blez", "bgtz"}>>,
  <<"sb", <<"rs2", "rs1", "offset">>, {"ble", "bleu", "bgt", "bgtu"}>>,
  <<"uj", <<"offset">>, {"j"}>>, <<"i", <<"rs1">>, {"jr"}>>,
  <<"i_csr", <<"rd">>, {"rdcycle", "rdtime", "rdinstret", "rdcycleh", "rdtimeh",
                        "rdinstreth", "frcsr", "frrm", "frflags"}>>,
  <<"i_csr", <<"rd", "rs1">>, {"fscsr", "fsrm", "fsflags"}>>,
  <<"i_csr", <<"rd", "zimm">>, {"fsrmi", "fsflagsi"}>>}

Rows == IntegerRows \cup SystemRows \cup FloatRows \cup CompressedRows \cup PseudoRows
        \cup {<<"illegal", << >>, {"illegal"}>>}

(* The enum of opcodes, group by group as the table lists them.            *)
Mnemonics(rows) == UNION {row[3] : row \in rows}
IntegerOps == Mnemonics(IntegerRows)
SystemOps  == Mnemonics(SystemRows)
FloatOps   == Mnemonics(FloatRows)
Compressed == Mnemonics(CompressedRows)
PseudoOps  == Mnemonics(PseudoRows)

rv_op      == IntegerOps \cup SystemOps \cup FloatOps \cup Compressed \cup PseudoOps
              \cup {"illegal"}

(* A decompressed instruction is known by its name.                        *)
BaseOps    == IntegerOps \cup SystemOps \cup FloatOps \cup {"illegal"}
(* The table is an array over the enum: an opcode has one row, and only    *)
(* one of the three kinds.                                                 *)
ASSUME RowsApart == \A r1, r2 \in Rows : r1[3] \cap r2[3] # {} => r1 = r2
ASSUME MnemonicsApart == BaseOps \cap (Compressed \cup PseudoOps) = {}

(* The names put together from a stem and a suffix, and those that are not *)
(* (stems among them): a name has one stem and one suffix, or none.        *)
IntSuffix  == {".w", ".wu", ".l", ".lu"}
FloatStems == {"fmadd", "fmsub", "fnmsub", "fnmadd", "fadd", "fsub", "fmul", "fdiv", "fsgnj",
               "fsgnjn", "fsgnjx", "fmin", "fmax", "fsqrt", "fle", "flt", "feq", "fmv.x",
               "fclass", "fmv", "fcvt"}
Parts ==
    ({RegAlu[n] : n \in NarrowAlu} \X {"w", "d"})
    \cup ({AmoStem[n] : n \in DOMAIN AmoStem} \X {".w", ".d", ".q"})
    \cup (FloatStems \X FpSuffix) \cup ({"fcvt"} \X IntSuffix)
    \cup (Names({"fcvt"}, FpSuffix) \X (FpSuffix \cup IntSuffix))
    \cup (Names({"fcvt"}, IntSuffix) \X FpSuffix) \cup (Names({"fmv"}, FpSuffix) \X {".x"})
Whole ==
    Mnemonics({row \in IntegerRows \cup SystemRows \cup FloatRows :
                  row[1] \notin {"r", "r_l", "r_a", "r_m", "r4_m"}})
    \cup {"sfence.vm", "sfence.vma"} \cup {RegAlu[n] : n \in DOMAIN RegAlu}
    \cup {AmoStem[n] : n \in DOMAIN AmoStem} \cup FloatStems
ASSUME NamesApart ==
    \A p \in Parts : /\ p[1] \o p[2] \notin Whole
                     /\ \A q \in Parts : p[1] \o p[2] = q[1] \o q[2] => p = q

Row        == [op \in rv_op |-> CHOOSE row \in Rows : op \in row[3]]
codec(op)  == Row[op][1]
format(op) == Row[op][2]
rv_codec   == {row[1] : row \in Rows}
=============================================================================
