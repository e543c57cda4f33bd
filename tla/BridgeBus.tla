----------------------------- MODULE BridgeBus -----------------------------
(***************************************************************************)
(* Bridge implements BusTransactions: what the testbench reads off the     *)
(* ports of riscv_process at the falling edge is what the instructions of  *)
(* the cycle did.                                                          *)
(***************************************************************************)
EXTENDS Bridge

\* The access the ports of a core show to a testbench: a strobe that is low
\* says which kind it is, abus and dbus say the rest.
Shown(p) ==
    IF p.wrn = "0" THEN [kind |-> "write", addr |-> p.abus, data |-> p.dbus]
    ELSE IF p.rdn = "0" THEN [kind |-> "read", addr |-> p.abus, data |-> p.dbus]
    ELSE None

BusPhase ==
    IF stage = "quit" THEN "stopped"
    ELSE IF clk = "1" THEN "execute"
    ELSE IF Monitor \in ready THEN "sample" ELSE "idle"

Bus == INSTANCE BusTransactions WITH
           phase   <- BusPhase,
           waiting <- IF clk = "1" THEN ready ELSE {},
           bus     <- bus,
           seen    <- [c \in Cores |-> IF Sampling /\ clk = "0" THEN Shown(port[c]) ELSE None]

\* Each cycle of the simulator is one cycle of BusTransactions: every instance
\* takes exactly one turn, at the falling edge its ports decode to exactly the
\* access of that turn, in reset to none, and a cycle that has begun ends,
\* through whatever deltas, hooks and shared globals riscv_process goes.
BusSpec == Bus!Spec

=============================================================================
