--------------------------- MODULE MCDisassembler ---------------------------
(* Words that meet every case of decode_inst_opcode, on every isa, with    *)
(* operands at the values the tables test (x0, ra, sp, -1, 0, 1, CSRs).    *)
EXTENDS SelfTests

Put(n, at)  == {b + at : b \in {k \in 0..11 : (n \div 2^k) % 2 = 1}}
Half(i)     == [inst |-> i, size |-> 2]
Full(i)     == [inst |-> i, size |-> 4]

Halves == {Half(Put(q, 0) \cup Put(low, 2) \cup Put(mid, 7) \cup Put(top, 12)) :
             q \in 0..2, low \in {0, 1, 2, 12, 21, 31}, mid \in {0, 1, 2, 9, 17, 25, 31}, top \in 0..15}

Base(major) == {0, 1} \cup Put(major, 2)
Words(majors, rds, functs, rs1s, uppers) ==
    {Full(Base(m) \cup Put(rd, 7) \cup Put(f, 12) \cup Put(rs1, 15) \cup Put(hi, 20)) :
        m \in majors, rd \in rds, f \in functs, rs1 \in rs1s, hi \in uppers}
Fused == {Full(w.inst \cup Put(rs3, 27)) :
            w \in Words(16..19, {9}, {0, 7}, {9}, {8, 40, 104}), rs3 \in {0, 21}}

Immediates == Words({0, 1, 3, 4, 5, 6, 8, 9, 13, 22, 24, 25, 27}, {0, 1}, 0..7, {0, 1},
                    {0, 1, 32, 1024, 1365, 4095})
Registers  == Words({12, 14, 30}, {9}, 0..7, {0, 9},
                    {32 * f + r : f \in {0, 1, 32}, r \in {0, 9}})
Atomics    == Words({11}, {9}, 2..4, {9}, {128 * f + 32 * q + r :
                    f \in {0, 1, 2, 3, 4, 8, 12, 16, 20, 24, 28}, q \in 0..3, r \in {0, 5}})
Floats     == Words({20}, {9}, {0, 1, 2, 7}, {1, 9}, {128 * f + 32 * w + r :
                    f \in {0, 1, 2, 3, 4, 5, 8, 11, 20, 24, 26, 28, 30}, w \in {0, 1, 3}, r \in {0, 1, 2, 3, 9}})
Systems    == Words({28}, {0, 9}, 0..7, {0, 9}, {0, 1, 2, 3, 258, 260, 261, 288, 514, 770, 1970,
                    3072, 3073, 3074, 3200, 3201, 3202})

\* Every control register that has a name, and two that have none.
NamedCsrs  == {Full(Base(28) \cup Put(9, 7) \cup Put(1, 12) \cup Put(9, 15) \cup Put(n, 20)) :
                 n \in DOMAIN csr_name \cup {1024, 4095}}

Long   == {[inst |-> 0..4 \cup {7, 20, 33, 47}, size |-> 6], [inst |-> 0..4 \cup {16, 31}, size |-> 6],
           [inst |-> 0..5 \cup {8, 30, 41, 50, 63}, size |-> 8]}
Short  == {Half({0, 14}), Half({}), Full({0, 1, 4, 7, 31})}
Mixed  == UNION {[1..n -> Long \cup Short] : n \in 0..3}

MCInputs == {[isa |-> x, words |-> <<w>>] : x \in isas, w \in Halves}
            \cup {[isa |-> "rv32", words |-> <<w>>] :
                    w \in Immediates \cup Registers \cup Atomics \cup Fused \cup Floats \cup Systems}
            \cup {[isa |-> "rv64", words |-> p] : p \in Mixed}
            \cup {[isa |-> "rv32", words |-> <<w>>] : w \in NamedCsrs}
            \cup SelfTestInputs

(* The jalr words alone.                                                   *)
JalrInputs == {[isa |-> "rv32", words |-> <<w>>] :
                 w \in Words({25}, {0, 1, 2}, {0}, {0, 1, 2, 3}, {0, 1, 4, 8, 4095})}
=============================================================================
