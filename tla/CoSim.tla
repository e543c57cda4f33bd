------------------------------- MODULE CoSim -------------------------------
(***************************************************************************)
(* The whole testbench src/rtl/tb.vhd around one core: the Bridge under    *)
(* the clock and reset that tb.vhd drives, and the debug port monitor      *)
(* reading the ports of the core.  Time is counted in half periods of the  *)
(* clock, 10 ns each: the clock rises at 10, 30, ... ns; sreset is driven  *)
(* to '1' in the second delta of time 0 and to '0' in the delta that       *)
(* follows the falling edge at 100 ns.                                     *)
(*                                                                         *)
(* The actions are those of Bridge and PortMonitor; what is added is when  *)
(* the reset changes, what the monitor reads, and the restart of the       *)
(* simulation, after which the library may still hold the values its       *)
(* globals had.  Definitions marked "mutant" are slips the code could      *)
(* have made.                                                              *)
(***************************************************************************)
EXTENDS Bridge, Sequences

CONSTANTS
    Dut,            \* the only instance of the entity
    DEBUGPORT,      \* X"00100000"
    ResetHalves,    \* half periods the reset lasts: 100 ns are 10
    MaxRestarts,    \* bound: restarts of the simulation
    Graphic, Control, CR, LF, NUL, Dot, Prefix, MAXCHAR_C, MaxSent  \* of PortMonitor

ASSUME DutAssumption   == Cores = {Dut}
ASSUME ResetAssumption == ResetHalves \in Nat \ {0} /\ ResetWindow = {"0"}
ASSUME BoundAssumption == MaxSent \in Nat /\ MaxRestarts \in Nat

VARIABLES
    halves,         \* half periods of the clock since time 0, up to ResetHalves
    i_v, L, output, \* the variables of the monitor, and the transcript
    sent,           \* history: bytes the program has stored to DEBUGPORT
    restarts        \* restarts so far

monitor   == <<i_v, L, output>>
coSimVars == <<vars, halves, monitor, sent, restarts>>

\* A store to the debug port: only the low byte of the word counts.
WholeWord(w) == w  \* mutant
LowByte(w) == w % 256
ToPort(acc) == acc # None /\ acc.kind = "write" /\ acc.addr = DEBUGPORT

\* What the monitor has sampled of `sent'.
Sampled == IF ToPort(bus[Dut]) THEN SubSeq(sent, 1, Len(sent) - 1) ELSE sent

Display == INSTANCE PortMonitor WITH sreset <- sreset # "0", sent <- Sampled

\* What PortMonitor assumes of its constants.
ASSUME DisplayAssumption == Display!LineAssumption /\ Display!ByteAssumption

CoSimTypeOK ==
    /\ TypeOK
    /\ halves \in 0..ResetHalves
    /\ restarts \in 0..MaxRestarts
    /\ Display!TypeOK

CoSimInit ==
    /\ Init
    /\ halves = 0 /\ restarts = 0
    /\ i_v = Display!IntegerLeft /\ L = <<>> /\ output = <<>>
    /\ sent = <<>>

-----------------------------------------------------------------------------
\* Bridge leaves the program to do as it likes; MaxSent bounds what it sends.
Program ==
    /\ \/ HookCode \/ HookMemRead
       \/ HookMemWrite /\ (abus' = DEBUGPORT => Len(sent) < MaxSent)
    /\ UNCHANGED <<halves, monitor, sent, restarts>>

\* The instruction retires with the access it ended with.
Retire ==
    /\ EmuReturn
    /\ sent' = IF ToPort(access) THEN Append(sent, LowByte(access.data)) ELSE sent
    /\ UNCHANGED <<halves, monitor, restarts>>

\* The falling edge as the monitor sees it, on the ports of the core.
AnyWrite(p)  == p.wrn = "0"  \* mutant: the address is not compared
PortWrite(p) == p.wrn = "0" /\ p.abus = DEBUGPORT

Watch ==
    /\ Observe
    /\ IF sreset = "1"
       THEN i_v' = 0 /\ UNCHANGED <<L, output>>
       ELSE IF PortWrite(port[Dut])
       THEN LET b == LowByte(port[Dut].dbus)
            IN  Display!Open(b) \/ Display!Flush(b) \/ Display!Extend(b)
       ELSE UNCHANGED monitor
    /\ UNCHANGED <<halves, sent, restarts>>

\* The reset process of tb.vhd: sreset changes in the next delta.
NeverAsserted == halves = ResetHalves /\ sreset # "0"  \* mutant
ResetDue      == \/ halves = 0 /\ sreset = U
                 \/ halves = ResetHalves /\ sreset = "1"

ResetStep ==
    /\ ResetDue /\ ResetChange
    /\ sreset' = IF halves < ResetHalves THEN "1" ELSE "0"
    /\ UNCHANGED <<halves, monitor, sent, restarts>>

\* The clock, and the deltas in which the reset does not change.
Clock ==
    /\ ~ResetDue /\ Tick
    /\ halves' = IF halves < ResetHalves THEN halves + 1 ELSE halves
    /\ UNCHANGED <<monitor, sent, restarts>>

Delta ==
    /\ \/ Process(Dut)
       \/ ~ResetDue /\ Settle
    /\ UNCHANGED <<halves, monitor, sent, restarts>>

\* The run ends: mti_Quit, or vsim.
End == (EmuError \/ StopRun \/ Done) /\ UNCHANGED <<halves, monitor, sent, restarts>>

\* The simulator elaborates the design again; every core gets a new engine and
\* new drivers.  The globals of riscv_emu.c start afresh when the library is
\* loaded anew, and keep their values when vsim keeps it loaded.
Restart ==
    /\ stage = "kernel" /\ ready = {}
    /\ restarts < MaxRestarts /\ restarts' = restarts + 1
    /\ clk' = "0" /\ clkEvent' = FALSE /\ sreset' = U
    /\ port' = [c \in Cores |-> Undriven] /\ drv' = [c \in Cores |-> Undriven]
    /\ ready' = Cores
    /\ \/ UNCHANGED globals
       \/ /\ pc' = START_ADDRESS /\ xreg' = [r \in Regs |-> 0]
          /\ dbus' = 0 /\ abus' = 0 /\ wrn' = TRUE /\ rdn' = TRUE
    /\ uc' = [c \in Cores |-> [pc |-> 0, x |-> [r \in Regs |-> 0]]]
    /\ before' = [c \in Cores |-> [r \in Regs |-> 0]]
    /\ bus' = [c \in Cores |-> None]
    /\ steps' = [c \in Cores |-> 0]
    /\ npc' = [c \in Cores |-> START_ADDRESS]
    /\ halves' = 0
    /\ i_v' = Display!IntegerLeft /\ L' = <<>> /\ output' = <<>> /\ sent' = <<>>
    /\ UNCHANGED <<stage, cur, access>>

Going == Program \/ Retire \/ Watch \/ ResetStep \/ Clock \/ Delta

CoSimNext == Going \/ End \/ Restart

CoSimSpec == CoSimInit /\ [][CoSimNext]_coSimVars /\ WF_coSimVars(Going)

-----------------------------------------------------------------------------
\* Properties

\* No instruction runs before the reset has come and gone (riscv_process takes
\* an undriven sreset for one that is not asserted), and the first one runs
\* from START_ADDRESS, whatever pc was left over from before a restart.
CleanStart ==
    stage = "fetch" => /\ halves = ResetHalves /\ sreset = "0"
                       /\ uc[Dut].pc = npc[Dut]

\* The transcript is the one of PortMonitor fed with exactly the bytes the
\* instructions stored to DEBUGPORT, each sampled once, in program order and
\* not before the line counter was reset: nothing else that passes over the
\* shared buses (opcodes, loads, other stores, repeated strobes) shows.
MonitorSpec == Display!Spec

\* A terminator stored while a line is open gets that line written, unless
\* the simulation ends or restarts first.
LineWritten ==
    \A n \in 0..MaxSent :
        (/\ ToPort(bus[Dut]) /\ LowByte(bus[Dut].data) \in {CR, NUL}
         /\ i_v # 0 /\ Len(output) = n)
            ~> (Len(output) = n + 1 \/ stage = "quit" \/ halves = 0)

=============================================================================
