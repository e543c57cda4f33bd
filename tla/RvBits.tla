------------------------------- MODULE RvBits -------------------------------
(***************************************************************************)
(* Operand extraction of the RISC-V disassembler                           *)
(* (src/disasm/riscv-disas.c) and the encoders of its test                 *)
(* (src/disasm/t1.c).  A machine word is the set of the positions of its   *)
(* one bits: OR is union, AND is intersection, and a shift is exact at     *)
(* every width.  A register number is a word too: x0 is {}, ra is {0},     *)
(* sp is {1}.                                                              *)
(***************************************************************************)
EXTENDS Integers, FiniteSetsExt

rv_inst == SUBSET (0..63)                     \* uint64_t

(* C's operators on uint64_t and int64_t.                                  *)
Shl(w, n) == {b + n : b \in w \cap 0..(63 - n)}
Shr(w, n) == {b - n : b \in w \cap n..63}
Sar(w, n) == Shr(w, n) \cup (IF 63 \in w THEN (63 - n)..63 ELSE {})

(* (inst << l) >> r, unsigned and signed; conversion to 32 bits.           *)
Field(inst, l, r)  == Shr(Shl(inst, l), r)
SField(inst, l, r) == Sar(Shl(inst, l), r)
Int32(w)           == w \cap 0..31

(* (inst >> at) & (2^width - 1), as a number.                              *)
Bits(inst, at, width) ==
    MapThenSumSet(LAMBDA b : 2^(b - at), inst \cap at..(at + width - 1))

(***************************************************************************)
(* Operand extractors.                                                     *)
(***************************************************************************)
operand_rd(inst)      == Field(inst, 52, 59)
operand_rs1(inst)     == Field(inst, 44, 59)
operand_rs2(inst)     == Field(inst, 39, 59)
operand_rs3(inst)     == Field(inst, 32, 59)
operand_aq(inst)      == Field(inst, 37, 63)
operand_rl(inst)      == Field(inst, 38, 63)
operand_pred(inst)    == Field(inst, 36, 60)
operand_succ(inst)    == Field(inst, 40, 60)
operand_rm(inst)      == Field(inst, 49, 61)
operand_shamt5(inst)  == Field(inst, 39, 59)
operand_shamt6(inst)  == Field(inst, 38, 58)
operand_shamt7(inst)  == Field(inst, 37, 57)
operand_crdq(inst)    == Field(inst, 59, 61)
operand_crs1q(inst)   == Field(inst, 54, 61)
operand_crs1rdq(inst) == Field(inst, 54, 61)
operand_crs2q(inst)   == Field(inst, 59, 61)
operand_crd(inst)     == Field(inst, 52, 59)
operand_crs1(inst)    == Field(inst, 52, 59)
operand_crs1rd(inst)  == Field(inst, 52, 59)
operand_crs2(inst)    == Field(inst, 57, 59)
operand_cimmsh5(inst) == Field(inst, 57, 59)
operand_csr12(inst)   == Field(inst, 32, 52)

(* mutant: returned as int64_t *)
LongImm(inst)         == SField(inst, 32, 52)
operand_imm12(inst)   == Int32(SField(inst, 32, 52))
operand_imm20(inst)   == Int32(Shl(SField(inst, 32, 44), 12))

operand_jimm20(inst) ==
    Int32(Shl(SField(inst, 32, 63), 20) \cup Shl(Field(inst, 33, 54), 1)
          \cup Shl(Field(inst, 43, 63), 11) \cup Shl(Field(inst, 44, 56), 12))

operand_simm12(inst) ==
    Int32(Shl(SField(inst, 32, 57), 5) \cup Field(inst, 52, 59))

(* mutant: imm[10:5] lands one bit too low *)
LowBranch(inst) ==
    Int32(Shl(SField(inst, 32, 63), 12) \cup Shl(Field(inst, 33, 58), 4)
          \cup Shl(Field(inst, 52, 60), 1) \cup Shl(Field(inst, 56, 63), 11))

operand_sbimm12(inst) ==
    Int32(Shl(SField(inst, 32, 63), 12) \cup Shl(Field(inst, 33, 58), 5)
          \cup Shl(Field(inst, 52, 60), 1) \cup Shl(Field(inst, 56, 63), 11))

operand_cimmsh6(inst) == Shl(Field(inst, 51, 63), 5) \cup Field(inst, 57, 59)

operand_cimmi(inst) ==
    Int32(Shl(SField(inst, 51, 63), 5) \cup Field(inst, 57, 59))

operand_cimmui(inst) ==
    Int32(Shl(SField(inst, 51, 63), 17) \cup Shl(Field(inst, 57, 59), 12))

operand_cimmlwsp(inst) ==
    Shl(Field(inst, 51, 63), 5) \cup Shl(Field(inst, 57, 61), 2)
    \cup Shl(Field(inst, 60, 62), 6)

operand_cimmldsp(inst) ==
    Shl(Field(inst, 51, 63), 5) \cup Shl(Field(inst, 57, 62), 3)
    \cup Shl(Field(inst, 59, 61), 6)

operand_cimmlqsp(inst) ==
    Shl(Field(inst, 51, 63), 5) \cup Shl(Field(inst, 57, 63), 4)
    \cup Shl(Field(inst, 58, 60), 6)

operand_cimm16sp(inst) ==
    Int32(Shl(SField(inst, 51, 63), 9) \cup Shl(Field(inst, 57, 63), 4)
          \cup Shl(Field(inst, 58, 63), 6) \cup Shl(Field(inst, 59, 62), 7)
          \cup Shl(Field(inst, 61, 63), 5))

operand_cimmj(inst) ==
    Int32(Shl(SField(inst, 51, 63), 11) \cup Shl(Field(inst, 52, 63), 4)
          \cup Shl(Field(inst, 53, 62), 8) \cup Shl(Field(inst, 55, 63), 10)
          \cup Shl(Field(inst, 56, 63), 6) \cup Shl(Field(inst, 57, 63), 7)
          \cup Shl(Field(inst, 58, 61), 1) \cup Shl(Field(inst, 61, 63), 5))

operand_cimmb(inst) ==
    Int32(Shl(SField(inst, 51, 63), 8) \cup Shl(Field(inst, 52, 62), 3)
          \cup Shl(Field(inst, 57, 62), 6) \cup Shl(Field(inst, 59, 62), 1)
          \cup Shl(Field(inst, 61, 63), 5))

operand_cimmswsp(inst) ==
    Shl(Field(inst, 51, 60), 2) \cup Shl(Field(inst, 55, 62), 6)

operand_cimmsdsp(inst) ==
    Shl(Field(inst, 51, 61), 3) \cup Shl(Field(inst, 54, 61), 6)

operand_cimmsqsp(inst) ==
    Shl(Field(inst, 51, 62), 4) \cup Shl(Field(inst, 53, 60), 6)

operand_cimm4spn(inst) ==
    Shl(Field(inst, 51, 62), 4) \cup Shl(Field(inst, 53, 60), 6)
    \cup Shl(Field(inst, 57, 63), 2) \cup Shl(Field(inst, 58, 63), 3)

(* mutant: two scattered pieces of the c.lw offset overlap *)
OverlapW(inst) ==
    Shl(Field(inst, 51, 61), 3) \cup Shl(Field(inst, 57, 63), 3)
    \cup Shl(Field(inst, 58, 63), 6)

(* mutant: the c.lw offset is not scaled *)
UnscaledW(inst) ==
    Shl(Field(inst, 51, 61), 2) \cup Shl(Field(inst, 57, 63), 1)
    \cup Shl(Field(inst, 58, 63), 5)

operand_cimmw(inst) ==
    Shl(Field(inst, 51, 61), 3) \cup Shl(Field(inst, 57, 63), 2)
    \cup Shl(Field(inst, 58, 63), 6)

operand_cimmd(inst) ==
    Shl(Field(inst, 51, 61), 3) \cup Shl(Field(inst, 57, 62), 6)

operand_cimmq(inst) ==
    Shl(Field(inst, 51, 62), 4) \cup Shl(Field(inst, 53, 63), 8)
    \cup Shl(Field(inst, 57, 62), 6)

(***************************************************************************)
(* The encoders of t1.c work on uint32_t.                                  *)
(***************************************************************************)
Shl32(w, n)      == {b + n : b \in w \cap 0..(31 - n)}
Field32(w, l, r) == Shr(Shl32(w, l), r)
Low5(w)          == w \cap 0..4

encode_sbimm12(imm) ==
    Shl32(Field32(imm, 19, 31), 31) \cup Shl32(Field32(imm, 21, 26), 25)
    \cup Shl32(Field32(imm, 27, 28), 8) \cup Shl32(Field32(imm, 20, 31), 7)

encode_r_jimm20(rd, imm) ==
    Shl32(Low5(rd), 7)
    \cup Shl32(Field32(imm, 11, 31), 31) \cup Shl32(Field32(imm, 21, 22), 21)
    \cup Shl32(Field32(imm, 20, 31), 20) \cup Shl32(Field32(imm, 12, 24), 12)

encode_rr_simm12(rd, rs1, imm) ==
    Shl32(Low5(rd), 7) \cup Shl32(Low5(rs1), 15) \cup Shl32(imm \cap 0..11, 20)
=============================================================================
