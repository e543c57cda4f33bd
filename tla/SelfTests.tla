----------------------------- MODULE SelfTests -----------------------------
(***************************************************************************)
(* The instructions src/disasm/t1.c assembles and the bytes src/disasm/t2.c*)
(* lists, as programs for the disassembler, with what the mnemonics of the *)
(* one and the comments of the other say they are.                         *)
(***************************************************************************)
EXTENDS Disassembler

\* A C integer as a 32 bit word.
Word32(n) == {b \in 0..30 : (n \div 2^b) % 2 = 1} \cup (IF n < 0 THEN {31} ELSE {})

\* t1.c: the opcodes its assembler starts from.
OPC ==
   [add |-> \h33, addi |-> \h13, addiw |-> \h1b, addw |-> \h3b, and |-> \h7033,
    andi |-> \h7013, auipc |-> \h17, beq |-> \h63, bge |-> \h5063,
    bgeu |-> \h7063, blt |-> \h4063, bltu |-> \h6063, bne |-> \h1063,
    div |-> \h2004033, divu |-> \h2005033, divuw |-> \h200503b,
    divw |-> \h200403b, jal |-> \h6f, jalr |-> \h67, lb |-> \h3, lbu |-> \h4003,
    ld |-> \h3003, lh |-> \h1003, lhu |-> \h5003, lui |-> \h37, lw |-> \h2003,
    lwu |-> \h6003, mul |-> \h2000033, mulh |-> \h2001033, mulhsu |-> \h2002033,
    mulhu |-> \h2003033, mulw |-> \h200003b, or |-> \h6033, ori |-> \h6013,
    rem |-> \h2006033, remu |-> \h2007033, remuw |-> \h200703b,
    remw |-> \h200603b, sb |-> \h23, sd |-> \h3023, sh |-> \h1023, sll |-> \h1033,
    slli |-> \h1013, slliw |-> \h101b, sllw |-> \h103b, slt |-> \h2033,
    slti |-> \h2013, sltiu |-> \h3013, sltu |-> \h3033, sra |-> \h40005033,
    srai |-> \h40005013, sraiw |-> \h4000501b, sraw |-> \h4000503b,
    srl |-> \h5033, srli |-> \h5013, srliw |-> \h501b, srlw |-> \h503b,
    sub |-> \h40000033, subw |-> \h4000003b, sw |-> \h2023, xor |-> \h4033,
    xori |-> \h4013]

\* t1.c: main.  Each test is an instruction with the operands assembled in.
Test(op, fields, operands) == [op |-> op, inst |-> Word32(OPC[op]) \cup fields, operands |-> operands]
BranchTest(n) == Test("beq", encode_sbimm12(Word32(n)),
                      [rs1 |-> x0, rs2 |-> x0, imm |-> Word32(n)])
JumpTest(rd, n) == Test("jal", encode_r_jimm20(rd, Word32(n)), [rd |-> rd, imm |-> Word32(n)])
main == {BranchTest(n) : n \in {-454, -232, 232, 454}}
        \cup {Test("addi", encode_rr_simm12({3}, {0, 3}, {}), [rd |-> {3}, rs1 |-> {0, 3}, imm |-> {}]),
              JumpTest(x0, -4), JumpTest(ra, -12)}
\* Every opcode with all operands zero.
Plain == {Test(op, {}, [rd |-> x0, rs1 |-> x0]) : op \in DOMAIN OPC}

\* t2.c: t1.  The instruction each entry's comment announces; the
\* bytes of entries 2, 3 and 6 are other instructions than their comments say.
inst_arr == <<
    [inst |-> Word32(0),          size |-> 2], [inst |-> Word32(\h100),      size |-> 2],
    [inst |-> Word32(\hd00),      size |-> 2], [inst |-> Word32(\h401),      size |-> 2],
    [inst |-> Word32(\h404),      size |-> 2], [inst |-> Word32(\h4005),     size |-> 2],
    [inst |-> Word32(-247454349), size |-> 4], [inst |-> Word32(\h597),      size |-> 4],
    [inst |-> Word32(\h204002b7), size |-> 4], [inst |-> Word32(\h13),       size |-> 4]>>
Announced ==
    1 :> [op |-> "illegal", shown |-> << >>]
    @@ 4 :> [op |-> "mv",    shown |-> <<"s0", "s0">>]
    @@ 5 :> [op |-> "addi",  shown |-> <<"s1", "sp", Word32(512)>>]
    @@ 7 :> [op |-> "csrrs", shown |-> <<"a0", "mhartid", "zero">>]
    @@ 8 :> [op |-> "auipc", shown |-> <<"a1", {}>>]
    @@ 9 :> [op |-> "lui",   shown |-> <<"t0", Word32(541065216)>>]
    @@ 10 :> [op |-> "nop",  shown |-> << >>]

SelfTestInputs ==
    {[isa |-> "rv64", words |-> <<[inst |-> t.inst, size |-> 4]>>] : t \in main \cup Plain}
    \cup {[isa |-> "rv64", words |-> inst_arr],
          [isa |-> "rv32", words |-> <<[inst |-> Word32(\h54878793), size |-> 4]>>]}

\* What the test programs assembled is what is decoded, before lifting: the
\* opcode by its mnemonic, the operands by value; and the listed bytes print as
\* their comments say.
DecodesAssembled ==
    stage = "printed" /\ isa = "rv64" =>
        /\ \A t \in main \cup Plain :
              words = <<[inst |-> t.inst, size |-> 4]>> =>
                  /\ plain.op = t.op
                  /\ \A f \in DOMAIN t.operands : plain[f] = t.operands[f]
        /\ \A k \in DOMAIN Announced :
              words = inst_arr /\ offset = Start(k) =>
                  /\ text.op = Announced[k].op
                  /\ text.shown = Announced[k].shown
=============================================================================
