------------------------------- MODULE Bridge -------------------------------
(***************************************************************************)
(* The co-simulation bridge: riscv_process() of src/src/fli_riscv.c, the   *)
(* hooks of src/src/riscv_emu.c it runs through uc_emu_start(), and the    *)
(* delta cycles of the VHDL simulator that calls it.                       *)
(*                                                                         *)
(* Each element of Cores is one instance of the VHDL entity `riscv`: it    *)
(* has its own Unicorn engine and its own drivers (inst_rec_struct), but   *)
(* pc, xreg, dbus, abus, wrn and rdn are globals of the DLL, shared by all *)
(* instances.  Monitor is the testbench process that samples the write     *)
(* strobe on the falling clock edge.                                       *)
(*                                                                         *)
(* A simulator delta: signals are updated, every process sensitive to a    *)
(* changed signal becomes `ready`, the ready processes run one at a time   *)
(* in any order, and what they schedule (drv) reaches the ports (port)     *)
(* only when all of them have run.                                         *)
(*                                                                         *)
(* Definitions marked "mutant" are not part of the specification: each is  *)
(* a slip the code could have made, which some property must detect.       *)
(***************************************************************************)
EXTENDS UcRegisters

CONSTANTS
    Cores,          \* instances of the entity riscv
    Regs,           \* numbers of the registers x1..x31 that are looked at
    Words,          \* data values: register contents, loads, stores, opcodes
    Addrs,          \* addresses: program counter and data addresses
    START_ADDRESS,  \* reset value of the program counter
    ResetWindow,    \* clock levels during which the testbench may change sreset
    Monitor,        \* the debug port process of the testbench
    None,           \* no memory access, no core
    U               \* STD_LOGIC_U: a signal nothing has driven yet

\* The two halves of a memory access as hook_mem sees it.
Access == [kind : {"read", "write"}, addr : Addrs, data : Words]

ASSUME AddressAssumption == 0 \in Addrs /\ START_ADDRESS \in Addrs
ASSUME WordAssumption    == 0 \in Words
ASSUME RegAssumption     == Regs \subseteq 1..31
ASSUME WindowAssumption  == ResetWindow \subseteq {"0", "1"}
ASSUME NameAssumption    == /\ U \notin {"0", "1"}
                            /\ Monitor \notin Cores
                            /\ None \notin Access

VARIABLES
    \* the simulator
    clk,        \* level of the clock
    clkEvent,   \* clk'event: the clock changed in the current delta
    sreset,     \* level of the reset
    port,       \* port[c]: the values on the output ports of core c
    drv,        \* drv[c]: what the drivers of core c hold, or will in the next delta
    ready,      \* processes still to run in the current delta
    \* the globals of riscv_emu.c
    pc, xreg, dbus, abus, wrn, rdn,
    \* the engines
    uc,         \* uc[c]: program counter and registers inside the Unicorn engine
    stage,      \* where control is: in the simulator or inside uc_emu_start
    cur,        \* the core whose process is inside uc_emu_start
    access,     \* last memory access of the instruction being executed
    \* history
    bus,        \* bus[c]: access of the last instruction, until it is sampled
    steps,      \* steps[c]: instructions started in the current clock cycle (at most 2 counted)
    npc,        \* npc[c]: where core c has to continue
    before      \* before[c]: registers of core c when its last instruction started

signals == <<clk, clkEvent, sreset, port, drv, ready>>
globals == <<pc, xreg, dbus, abus, wrn, rdn>>
engine  == <<uc, stage, cur, access>>
history == <<bus, steps, npc, before>>
vars    == <<signals, globals, engine, history>>

StdLogic == {"0", "1", U}
RegFile  == [Regs -> Words]
PortType == [rdn : StdLogic, wrn : StdLogic,
             dbus : Words \cup {U}, abus : Addrs \cup {U}, pc : Addrs \cup {U},
             x : [Regs -> Words \cup {U}]]

Undriven == [rdn |-> U, wrn |-> U, dbus |-> U, abus |-> U, pc |-> U,
             x |-> [r \in Regs |-> U]]

TypeOK ==
    /\ clk \in {"0", "1"}
    /\ clkEvent \in BOOLEAN
    /\ sreset \in StdLogic
    /\ port \in [Cores -> PortType]
    /\ drv \in [Cores -> PortType]
    /\ ready \in SUBSET (Cores \cup {Monitor})
    /\ pc \in Addrs
    /\ xreg \in RegFile
    /\ dbus \in Words
    /\ abus \in Addrs
    /\ wrn \in BOOLEAN
    /\ rdn \in BOOLEAN
    /\ uc \in [Cores -> [pc : Addrs, x : RegFile]]
    /\ stage \in {"kernel", "fetch", "exec", "quit"}
    /\ cur \in Cores \cup {None}
    /\ stage \in {"fetch", "exec"} => cur \in Cores
    /\ access \in Access \cup {None}
    /\ bus \in [Cores -> Access \cup {None}]
    /\ steps \in [Cores -> 0..2]
    /\ npc \in [Cores -> Addrs]
    /\ before \in [Cores -> RegFile]

-----------------------------------------------------------------------------
\* Elaboration is over and the simulator runs every process once at time 0:
\* the clock starts at '0', the reset is still undriven.
Init ==
    /\ clk = "0" /\ clkEvent = FALSE /\ sreset = U
    /\ port = [c \in Cores |-> Undriven]
    /\ drv = [c \in Cores |-> Undriven]
    /\ ready = Cores
    /\ pc = START_ADDRESS
    /\ xreg = [r \in Regs |-> 0]
    /\ dbus = 0 /\ abus = 0
    /\ wrn = TRUE /\ rdn = TRUE
    /\ uc = [c \in Cores |-> [pc |-> 0, x |-> [r \in Regs |-> 0]]]
    /\ stage = "kernel" /\ cur = None /\ access = None
    /\ bus = [c \in Cores |-> None]
    /\ steps = [c \in Cores |-> 0]
    /\ npc = [c \in Cores |-> START_ADDRESS]
    /\ before = [c \in Cores |-> [r \in Regs |-> 0]]

-----------------------------------------------------------------------------
\* riscv_process acts on the level of the clock, having been woken by an event.
AnyLevel == TRUE  \* mutant
Clocked  == clk = "1"

\* The tail of riscv_process, taken on every call: schedule the buses and the
\* register ports from the globals, p being the program counter by then, and
\* negate the strobe globals for the next call.
DriveStalePc(d, p) == [d EXCEPT !.dbus = dbus, !.abus = abus, !.pc = pc, !.x = xreg]  \* mutant
DriveBuses(d, p)   == [d EXCEPT !.dbus = dbus, !.abus = abus, !.pc = p, !.x = xreg]

KeepStrobes   == UNCHANGED <<wrn, rdn>>  \* mutant
NegateStrobes == wrn' = TRUE /\ rdn' = TRUE

Return(c) == ready' = ready \ {c}

\* riscv_process called with clk low: a falling edge, a reset event, or time 0.
ProcIdle(c) ==
    /\ stage = "kernel" /\ c \in ready
    /\ ~Clocked
    /\ drv' = [drv EXCEPT ![c] = DriveBuses(@, pc)]
    /\ NegateStrobes
    /\ Return(c)
    /\ UNCHANGED <<clk, clkEvent, sreset, port, pc, xreg, dbus, abus, engine, history>>

\* riscv_process with clk and sreset high: only the global program counter and
\* the strobe globals are reset; the rdn and wrn drivers are not scheduled.
ProcReset(c) ==
    /\ stage = "kernel" /\ c \in ready
    /\ Clocked /\ sreset = "1"
    /\ pc' = START_ADDRESS
    /\ drv' = [drv EXCEPT ![c] = DriveBuses(@, START_ADDRESS)]
    /\ NegateStrobes
    /\ Return(c)
    /\ npc' = [npc EXCEPT ![c] = START_ADDRESS]
    /\ UNCHANGED <<clk, clkEvent, sreset, port, xreg, dbus, abus, engine, bus, steps, before>>

\* riscv_process with clk high and sreset not '1' (so also 'U'): it calls
\* uc_emu_start, which loads the global pc into the engine of this instance.
ProcEnter(c) ==
    /\ stage = "kernel" /\ c \in ready
    /\ Clocked /\ sreset # "1"
    /\ stage' = "fetch" /\ cur' = c
    /\ uc' = [uc EXCEPT ![c].pc = pc]
    /\ steps' = [steps EXCEPT ![c] = IF @ < 2 THEN @ + 1 ELSE @]
    /\ before' = [before EXCEPT ![c] = uc[c].x]
    /\ UNCHANGED <<signals, globals, access, bus, npc>>

\* hook_code, called before the instruction executes: copies the engine's
\* registers and program counter to the globals and reads the opcode into
\* dbus (a read that fails, at the end of memory, leaves dbus as it was).
StaleRegs(c) == xreg  \* mutant
ReadRegs(c)  == [r \in Regs |-> uc_reg_read(uc[c].x, HookOrder[r])]

HookCode ==
    /\ stage = "fetch"
    /\ xreg' = ReadRegs(cur)
    /\ pc' = uc[cur].pc
    /\ dbus' \in Words
    /\ stage' = "exec"
    /\ UNCHANGED <<signals, abus, wrn, rdn, uc, cur, access, history>>

\* hook_mem: a read asserts rdn and negates wrn, a write the other way round.
AssertOnly(kind) == IF kind = "read" THEN rdn' = FALSE /\ UNCHANGED wrn  \* mutant
                                     ELSE wrn' = FALSE /\ UNCHANGED rdn
SetStrobes(kind) == rdn' = (kind # "read") /\ wrn' = (kind # "write")

\* hook_mem with UC_MEM_READ (v is what uc_mem_read finds at the address) or
\* UC_MEM_WRITE.  An instruction makes at most one access, except that an
\* atomic memory operation reads and then writes the same address.
HookMem(kind) ==
    /\ stage = "exec"
    /\ \E a \in Addrs, v \in Words :
          /\ \/ access = None
             \/ /\ access # None /\ access.kind = "read" /\ access.addr = a
                /\ kind = "write"
          /\ dbus' = v /\ abus' = a
          /\ access' = [kind |-> kind, addr |-> a, data |-> v]
    /\ SetStrobes(kind)
    /\ UNCHANGED <<signals, pc, xreg, uc, stage, cur, history>>

HookMemRead  == HookMem("read")
HookMemWrite == HookMem("write")

\* riscv_process reads the program counter of the engine back, p, and turns
\* the strobe globals into std_logic.
PcKept(p)       == pc      \* mutant: no read back
PcUntil(p)      == pc + 4  \* mutant: the `until' address given to uc_emu_start
ReadPc(p)       == p
Strobe(negated) == IF negated THEN "1" ELSE "0"

\* The instruction retires with any register file and any next address, and
\* uc_emu_start returns UC_ERR_OK; riscv_process schedules strobes and buses.
EmuReturn ==
    /\ stage = "exec"
    /\ \E p \in Addrs, x \in RegFile :
          /\ uc' = [uc EXCEPT ![cur] = [pc |-> p, x |-> x]]
          /\ pc' = ReadPc(p)
          /\ drv' = [drv EXCEPT ![cur] =
               [DriveBuses(@, ReadPc(p)) EXCEPT !.rdn = Strobe(rdn), !.wrn = Strobe(wrn)]]
          /\ npc' = [npc EXCEPT ![cur] = p]
    /\ NegateStrobes
    /\ Return(cur)
    /\ bus' = [bus EXCEPT ![cur] = access]
    /\ stage' = "kernel" /\ cur' = None /\ access' = None
    /\ UNCHANGED <<clk, clkEvent, sreset, port, xreg, dbus, abus, steps, before>>

\* uc_emu_start returns an error, before the first hook (the fetch fails) or
\* after any of them: mti_Quit ends the simulation and does not return.
EmuError ==
    /\ stage \in {"fetch", "exec"}
    /\ stage' = "quit"
    /\ UNCHANGED <<signals, globals, uc, cur, access, history>>

-----------------------------------------------------------------------------
\* The monitor process of tb.vhd runs in the delta of a falling edge; whatever
\* access the bus carried is over for it then.
Observe ==
    /\ stage = "kernel" /\ Monitor \in ready
    /\ Return(Monitor)
    /\ bus' = [c \in Cores |-> None]
    /\ UNCHANGED <<clk, clkEvent, sreset, port, drv, globals, engine, steps, npc, before>>

\* All processes have run: the next delta updates the ports.  No process is
\* sensitive to them.
Settle ==
    /\ stage = "kernel" /\ ready = {}
    /\ port # drv
    /\ port' = drv
    /\ clkEvent' = FALSE
    /\ UNCHANGED <<clk, sreset, drv, ready, globals, engine, history>>

\* The processes a clock edge wakes: every core is sensitive to clk, the
\* monitor acts on the falling edge only.
CoresOnly == Cores  \* mutant
Woken     == IF clk = "1" THEN Cores \cup {Monitor} ELSE Cores

\* Time advances to the next clock edge.
Tick ==
    /\ stage = "kernel" /\ ready = {}
    /\ port = drv
    /\ clk' = IF clk = "0" THEN "1" ELSE "0"
    /\ clkEvent' = TRUE
    /\ ready' = Woken
    /\ steps' = IF clk = "0" THEN [c \in Cores |-> 0] ELSE steps
    /\ UNCHANGED <<sreset, port, drv, globals, engine, bus, npc, before>>

\* The testbench changes sreset, in a delta of its own; the cores are
\* sensitive to it.
ResetChange ==
    /\ stage = "kernel" /\ ready = {}
    /\ clk \in ResetWindow
    /\ sreset' \in {"0", "1"} \ {sreset}
    /\ port' = drv
    /\ clkEvent' = FALSE
    /\ ready' = Cores
    /\ UNCHANGED <<clk, drv, globals, engine, history>>

\* The run length given to vsim is reached, or the user quits.
StopRun ==
    /\ stage = "kernel" /\ ready = {}
    /\ stage' = "quit"
    /\ UNCHANGED <<signals, globals, uc, cur, access, history>>

Done == stage = "quit" /\ UNCHANGED vars

-----------------------------------------------------------------------------
Process(c) == ProcIdle(c) \/ ProcReset(c) \/ ProcEnter(c)
Emulator   == HookCode \/ HookMemRead \/ HookMemWrite \/ EmuReturn \/ EmuError
Simulator  == (\E c \in Cores : Process(c)) \/ Emulator \/ Observe \/ Settle \/ Tick

Next == Simulator \/ ResetChange \/ StopRun \/ Done

\* The simulator keeps executing while the run lasts; nothing obliges the
\* testbench to change the reset or the user to stop.
Spec == Init /\ [][Next]_vars /\ WF_vars(Simulator)

-----------------------------------------------------------------------------
\* Properties

\* A falling edge at which the monitor looks at the bus and is not in reset.
Sampling == stage = "kernel" /\ Monitor \in ready /\ sreset # "1"

\* p, the values on the ports of a core, describes the access acc: wrn is low
\* iff it is a write, rdn iff it is a read, abus and dbus are its address and data.
ShowsAccess(p, acc) ==
    /\ p.wrn = "0" <=> acc # None /\ acc.kind = "write"
    /\ p.rdn = "0" <=> acc # None /\ acc.kind = "read"
    /\ acc # None => p.abus = acc.addr /\ p.dbus = acc.data

\* At the falling edge each core's ports describe exactly the access its last
\* instruction ended with, whatever the other instances did to the shared
\* globals of riscv_emu.c in the same cycle.
SampleShowsAccess == Sampling => \A c \in Cores : ShowsAccess(port[c], bus[c])

\* At the falling edge the register ports hold the registers as they were
\* before the last instruction (hook_code precedes it), the pc port the
\* address after it (riscv_process reads it back).
SampleShowsRegisters ==
    Sampling => \A c \in Cores : port[c].x = before[c] /\ port[c].pc = npc[c]

\* Each instance executes exactly one instruction per clock cycle out of reset.
OneStepPerCycle ==
    /\ \A c \in Cores : steps[c] <= 1
    /\ Sampling => \A c \in Cores : steps[c] = 1

\* uc_emu_start is entered only in the delta of a rising edge.
EdgeSynchronous == stage = "fetch" => clk = "1" /\ clkEvent

\* An instance resumes at the address its previous instruction left it at, or
\* at START_ADDRESS after a reset.
PcContinuity == stage = "fetch" => uc[cur].pc = npc[cur]

\* Once driven, the outputs change only while the clock is high.
PortsRegistered ==
    [][\A c \in Cores : port'[c] # port[c] /\ port[c].pc # U => clk = "1"]_vars

\* What the comment at src/src/fli_riscv.c:155 says of the reset branch, the
\* strobes are negated: when a reset edge has settled no strobe is low.
ResetNegatesStrobes ==
    (/\ stage = "kernel" /\ ready = {} /\ port = drv
     /\ clk = "1" /\ clkEvent /\ sreset = "1")
        => \A c \in Cores : port[c].rdn # "0" /\ port[c].wrn # "0"

\* What src/README.md:55 says of the register ports, they are updated after
\* the instruction: at the falling edge they hold the engine's registers.
SampleShowsResult ==
    Sampling => \A c \in Cores : port[c].x = uc[c].x

-----------------------------------------------------------------------------
\* The inductive invariant behind the three properties above, for a testbench
\* that changes the reset while the clock is low.

InEmulator == stage \in {"fetch", "exec"}

\* Between two calls of riscv_process the strobe globals are negated; inside
\* uc_emu_start they follow the last access.
GlobalsFollowAccess ==
    /\ wrn <=> ~(access # None /\ access.kind = "write")
    /\ rdn <=> ~(access # None /\ access.kind = "read")
    /\ access # None => stage = "exec" /\ abus = access.addr /\ dbus = access.data
    /\ stage = "exec" => xreg = before[cur]

\* uc_emu_start runs in the delta of a rising edge, on behalf of a process
\* that has not left it yet.
EmulatorOnEdge ==
    InEmulator => /\ clk = "1" /\ sreset # "1"
                  /\ cur \in ready
                  /\ steps[cur] = 1
                  /\ stage = "fetch" => uc[cur].x = before[cur]

\* While the clock is high a core that is still to run has put nothing on the
\* bus, and the drivers of one that has run out of reset show its instruction.
HighPhase ==
    clk = "1" =>
        /\ Monitor \notin ready
        /\ ready # {} => clkEvent
        /\ \A c \in Cores :
              IF c \in ready
              THEN bus[c] = None /\ (steps[c] = 0 \/ (InEmulator /\ cur = c))
              ELSE sreset # "1" => /\ ShowsAccess(drv[c], bus[c])
                                   /\ drv[c].x = before[c] /\ drv[c].pc = npc[c]
                                   /\ steps[c] = 1

\* While the clock is low the ports show the last instruction until the
\* monitor has run.
LowPhase ==
    clk = "0" /\ Monitor \in ready /\ sreset # "1" =>
        \A c \in Cores : /\ ShowsAccess(port[c], bus[c])
                         /\ port[c].x = before[c] /\ port[c].pc = npc[c]
                         /\ steps[c] = 1

\* Nothing is left on the bus once the monitor has run.
Drained == clk = "0" /\ Monitor \notin ready => \A c \in Cores : bus[c] = None

StepCount == \A c \in Cores : steps[c] <= 1

IndInv ==
    /\ StepCount
    /\ stage # "quit" => /\ GlobalsFollowAccess
                         /\ EmulatorOnEdge
                         /\ HighPhase
                         /\ LowPhase
                         /\ Drained

=============================================================================
