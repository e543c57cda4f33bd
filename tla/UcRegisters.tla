---------------------------- MODULE UcRegisters ----------------------------
(***************************************************************************)
(* The register numbers of src/include/unicorn/riscv.h and the order in    *)
(* which hook_code() of src/src/riscv_emu.c reads the registers: it asks   *)
(* for them by their ABI names, one call per element of xreg[1..31].       *)
(***************************************************************************)
EXTENDS Naturals

\* UC_RISCV_REG_X0 .. UC_RISCV_REG_X31 follow UC_RISCV_REG_INVALID.
UC_RISCV_REG_INVALID == 0
X(n) == UC_RISCV_REG_INVALID + 1 + n

\* The aliases UC_RISCV_REG_ZERO .. UC_RISCV_REG_T6.
Alias ==
    [ZERO |-> X(0), RA |-> X(1), SP |-> X(2), GP |-> X(3), TP |-> X(4),
     T0 |-> X(5), T1 |-> X(6), T2 |-> X(7), S0 |-> X(8), FP |-> X(8), S1 |-> X(9),
     A0 |-> X(10), A1 |-> X(11), A2 |-> X(12), A3 |-> X(13), A4 |-> X(14),
     A5 |-> X(15), A6 |-> X(16), A7 |-> X(17),
     S2 |-> X(18), S3 |-> X(19), S4 |-> X(20), S5 |-> X(21), S6 |-> X(22),
     S7 |-> X(23), S8 |-> X(24), S9 |-> X(25), S10 |-> X(26), S11 |-> X(27),
     T3 |-> X(28), T4 |-> X(29), T5 |-> X(30), T6 |-> X(31)]

\* HookOrder[i] is the register hook_code reads into xreg[i].
HookOrder ==
    <<Alias.RA, Alias.SP, Alias.GP, Alias.TP, Alias.T0, Alias.T1, Alias.T2, Alias.S0,
      Alias.S1, Alias.A0, Alias.A1, Alias.A2, Alias.A3, Alias.A4, Alias.A5, Alias.A6,
      Alias.A7, Alias.S2, Alias.S3, Alias.S4, Alias.S5, Alias.S6, Alias.S7, Alias.S8,
      Alias.S9, Alias.S10, Alias.S11, Alias.T3, Alias.T4, Alias.T5, Alias.T6>>

\* uc_reg_read of a general purpose register, x being the register file.
uc_reg_read(x, id) == x[id - X(0)]

=============================================================================
