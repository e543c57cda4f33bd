------------------------------ MODULE RvNames ------------------------------
(***************************************************************************)
(* The names src/disasm/riscv-disas.c shows for registers, control and     *)
(* status registers, rounding modes and fence sets, and the numbers its    *)
(* header gives them.                                                      *)
(***************************************************************************)
EXTENDS RvBits, Sequences, TLC

\* The number a word below 2^31 stands for.
Number(w) == Bits(w, 0, 31)

\* A switch whose cases return the names in turn from the first on; None is
\* no case.
None == "no name"
From(first, names) ==
    [n \in {m \in first..(first + Len(names) - 1) : names[m - first + 1] # None} |->
        names[n - first + 1]]
\* A name with a number counted up from `low' to `high'.
Numbered(first, stem, low, high, suffix) ==
    [n \in first..(first + high - low) |-> stem \o ToString(low + n - first) \o suffix]

-----------------------------------------------------------------------------
\* The registers: the enum rv_ireg and the two tables of names.
rv_ireg ==
    [zero |-> 0, ra |-> 1, sp |-> 2, gp |-> 3, tp |-> 4, t0 |-> 5, t1 |-> 6, t2 |-> 7,
     s0 |-> 8, s1 |-> 9, a0 |-> 10, a1 |-> 11, a2 |-> 12, a3 |-> 13, a4 |-> 14, a5 |-> 15,
     a6 |-> 16, a7 |-> 17, s2 |-> 18, s3 |-> 19, s4 |-> 20, s5 |-> 21, s6 |-> 22, s7 |-> 23,
     s8 |-> 24, s9 |-> 25, s10 |-> 26, s11 |-> 27, t3 |-> 28, t4 |-> 29, t5 |-> 30, t6 |-> 31]

rv_ireg_name_sym == From(0, <<
    "zero", "ra", "sp",  "gp",  "tp", "t0", "t1", "t2", "s0", "s1", "a0",
    "a1",   "a2", "a3",  "a4",  "a5", "a6", "a7", "s2", "s3", "s4", "s5",
    "s6",   "s7", "s8",  "s9",  "s10", "s11", "t3", "t4", "t5", "t6">>)

rv_freg_name_sym == From(0, <<
    "ft0", "ft1", "ft2", "ft3", "ft4", "ft5", "ft6", "ft7", "fs0", "fs1", "fa0",
    "fa1", "fa2", "fa3", "fa4", "fa5", "fa6", "fa7", "fs2", "fs3", "fs4", "fs5",
    "fs6", "fs7", "fs8", "fs9", "fs10", "fs11", "ft8", "ft9", "ft10", "ft11">>)

\* Rounding modes; 5 and 6 are reserved.
rv_rm == From(0, <<"rne", "rtz", "rdn", "rup", "rmm", None, None, "dyn">>)
RoundingName(w) == IF Number(w) \in DOMAIN rv_rm THEN rv_rm[Number(w)] ELSE "inv"

\* The sets of a fence: one letter for every bit, the highest first.
rv_fence == [i |-> 3, o |-> 2, r |-> 1, w |-> 0]

\* mutant: the bits counted from one
ShiftedFence(w) == {letter \in DOMAIN rv_fence : rv_fence[letter] + 1 \in w}

FenceLetters(w) == {letter \in DOMAIN rv_fence : rv_fence[letter] \in w}

-----------------------------------------------------------------------------
(***************************************************************************)
(* csr_name.  Each privilege level names its trap registers alike.         *)
(***************************************************************************)
TrapNames == <<"scratch", "epc", "cause", "tval", "ip", "nxti", "intstatus", None,
               "scratchcsw", "scratchcswl">>
Traps(first, level, count) ==
    [n \in {m \in first..(first + count - 1) : TrapNames[m - first + 1] # None} |->
        level \o TrapNames[n - first + 1]]

UserCsrs ==
    From(0, <<"ustatus", "fflags", "frm", "fcsr", "uie", "utvec", None, "utvt",
              "vstart", "vxsat", "vxrm", None, None, None, None, "vcsr">>)
    @@ Traps(64, "u", 10)

SupervisorCsrs ==
    From(256, <<"sstatus", None, "sedeleg", "sideleg", "sie", "stvec", "scounteren", "stvt">>)
    @@ Traps(320, "s", 10) @@ From(384, <<"satp">>)
    @@ From(512, <<"vsstatus", None, None, None, "vsie", "vstvec">>)
    @@ Traps(576, "vs", 5) @@ From(640, <<"vsatp">>)

MachineCsrs ==
    From(768, <<"mstatus", "misa", "medeleg", "mideleg", "mie", "mtvec", "mcounteren", "mtvt">>)
    @@ From(784, <<"mstatush">>) @@ From(800, <<"mcountinhibit">>)
    @@ Numbered(803, "mhpmevent", 3, 31, "")
    @@ Traps(832, "m", 10) @@ From(842, <<"mtinst", "mtval2">>)
    @@ Numbered(928, "pmpcfg", 0, 3, "") @@ Numbered(944, "pmpaddr", 0, 15, "")

HypervisorCsrs ==
    From(1536, <<"hstatus", None, "hedeleg", "hideleg", "hie", "htimedelta", "hcounteren",
                 "hgeie">>)
    @@ From(1557, <<"htimedeltah">>) @@ From(1603, <<"htval", "hip", "hvip">>)
    @@ From(1610, <<"htinst">>) @@ From(1664, <<"hgatp">>) @@ From(3602, <<"hgeip">>)

DebugCsrs ==
    From(1952, <<"tselect", "tdata1", "tdata2", "tdata3", "tinfo", "tcontrol", None, None,
                 "mcontext", "mnoise", "scontext">>)
    @@ From(1968, <<"dcsr", "dpc", "dscratch0", "dscratch1">>)

MachineCounters ==
    From(2816, <<"mcycle", None, "minstret">>) @@ Numbered(2819, "mhpmcounter", 3, 31, "")
    @@ From(2944, <<"mcycleh", None, "minstreth">>) @@ Numbered(2947, "mhpmcounter", 3, 31, "h")

UserCounters ==
    From(3072, <<"cycle", "time", "instret">>) @@ Numbered(3075, "hpmcounter", 3, 31, "")
    @@ From(3104, <<"vl", "vtype", "vlenb">>)
    @@ From(3200, <<"cycleh", "timeh", "instreth">>) @@ Numbered(3203, "hpmcounter", 3, 31, "h")

MachineInformation ==
    From(3857, <<"mvendorid", "marchid", "mimpid", "mhartid", "mentropy">>)

csr_name == UserCsrs @@ SupervisorCsrs @@ MachineCsrs @@ HypervisorCsrs @@ DebugCsrs
            @@ MachineCounters @@ UserCounters @@ MachineInformation

=============================================================================
