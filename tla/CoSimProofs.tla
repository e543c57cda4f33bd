---------------------------- MODULE CoSimProofs ----------------------------
(***************************************************************************)
(* The testbench around the core, for any length of the reset, any program *)
(* and any data: execution starts clean after every restart, and what the  *)
(* monitor process of tb.vhd does with the ports of the core is what       *)
(* PortMonitor does with the bytes the program stores.                     *)
(***************************************************************************)
EXTENDS CoSim, BridgeProofs, SequenceTheorems

\* The alphabet of the monitor covers what the program can store.
StoresBytes == \A w \in Words : LowByte(w) \in Display!Byte

-----------------------------------------------------------------------------
\* The inductive invariant, in four parts.

\* Where the reset is, by the time; nothing happens on the bus before its end.
Schedule ==
    /\ halves \in 0..ResetHalves
    /\ halves = 0 => clk = "0"
    /\ halves = 1 => clk = "1"
    /\ sreset = U => halves = 0 /\ Monitor \notin ready
    /\ sreset = "0" => halves = ResetHalves /\ halves # 1
    /\ sreset # "0" => bus[Dut] = None
    /\ InEmulator => sreset = "0"

\* The first rising edge resets the pc; from then on it is where the core has
\* to go on.
PcAfterReset ==
    /\ stage = "kernel" => \/ pc = npc[Dut]
                           \/ halves = 0
                           \/ halves = 1 /\ Dut \in ready
    /\ stage = "fetch" => uc[Dut].pc = npc[Dut]

\* The first falling edge resets the line counter.
MonitorReset ==
    sreset = "1" => \/ halves < 2
                    \/ halves = 2 /\ Monitor \in ready
                    \/ i_v = 0

\* A store on the bus is the last byte sent.
Sends ==
    /\ sent \in Seq(Display!Byte) /\ Len(sent) <= MaxSent
    /\ ToPort(bus[Dut]) => sent # <<>> /\ sent[Len(sent)] = LowByte(bus[Dut].data)
    /\ ToPort(access) => Len(sent) < MaxSent

Base == TypeOK /\ IndInv
Rest == Schedule /\ PcAfterReset /\ MonitorReset /\ Sends
IInv == Base /\ Rest

\* A step leaves the testbench's own variables alone, or all but the time.
Quiet == UNCHANGED <<halves, i_v, L, output, sent>>
Still == UNCHANGED <<i_v, L, output, sent>>

-----------------------------------------------------------------------------
\* Every step but a restart is one of Bridge.
LEMMA BridgeStep == CoSimNext => [Next]_vars \/ Restart
<1> SUFFICES ASSUME CoSimNext PROVE [Next]_vars \/ Restart
    OBVIOUS
<1>1. CASE Program
    BY <1>1 DEF Program, Next, Simulator, Emulator
<1>2. CASE Retire
    BY <1>2 DEF Retire, Next, Simulator, Emulator
<1>3. CASE Watch
    BY <1>3 DEF Watch, Next, Simulator
<1>4. CASE ResetStep
    BY <1>4 DEF ResetStep, Next
<1>5. CASE Clock
    BY <1>5 DEF Clock, Next, Simulator
<1>6. CASE Delta
    BY <1>6, DutAssumption DEF Delta, Next, Simulator
<1>7. CASE End
    BY <1>7 DEF End, Next, Simulator, Emulator
<1> QED
    BY <1>1, <1>2, <1>3, <1>4, <1>5, <1>6, <1>7 DEF CoSimNext, Going

\* A restart leaves the bridge in a state its invariant allows.
LEMMA RestartBase == ASSUME Base, Restart PROVE Base'
<1>1. stage = "kernel" /\ stage' = "kernel" /\ access' = access /\ cur' = cur
    BY DEF Restart
<1>2. access = None /\ wrn /\ rdn
    BY <1>1 DEF Base, IndInv, GlobalsFollowAccess
<1>3. Undriven \in PortType
    BY DEF Undriven, PortType, StdLogic
<1>4. wrn' /\ rdn' /\ pc' \in Addrs /\ xreg' \in RegFile /\ dbus' \in Words /\ abus' \in Addrs
      /\ wrn' \in BOOLEAN /\ rdn' \in BOOLEAN
    BY <1>2, AddressAssumption, WordAssumption DEF Restart, globals, Base, TypeOK, RegFile
<1>5. TypeOK'
  <2>1. /\ clk' = "0" /\ clkEvent' = FALSE /\ sreset' = U /\ ready' = Cores
        /\ port' = [c \in Cores |-> Undriven] /\ drv' = [c \in Cores |-> Undriven]
        /\ bus' = [c \in Cores |-> None] /\ steps' = [c \in Cores |-> 0]
        /\ npc' = [c \in Cores |-> START_ADDRESS]
        /\ before' = [c \in Cores |-> [r \in Regs |-> 0]]
        /\ uc' = [c \in Cores |-> [pc |-> 0, x |-> [r \in Regs |-> 0]]]
    BY DEF Restart
  <2>2. [r \in Regs |-> 0] \in RegFile
    BY WordAssumption DEF RegFile
  <2>3. /\ uc' \in [Cores -> [pc : Addrs, x : RegFile]]
        /\ before' \in [Cores -> RegFile]
    BY <2>1, <2>2, AddressAssumption
  <2>4. /\ port' \in [Cores -> PortType] /\ drv' \in [Cores -> PortType]
    BY <1>3, <2>1
  <2>5. /\ bus' \in [Cores -> Access \cup {None}] /\ steps' \in [Cores -> 0..2]
        /\ npc' \in [Cores -> Addrs]
    BY <2>1, AddressAssumption
  <2>6. stage' \in {"kernel", "fetch", "exec", "quit"} /\ cur' \in Cores \cup {None}
        /\ access' \in Access \cup {None} /\ stage' \notin {"fetch", "exec"}
    BY <1>1 DEF Base, TypeOK
  <2>7. clk' \in {"0", "1"} /\ clkEvent' \in BOOLEAN /\ sreset' \in StdLogic
        /\ ready' \in SUBSET (Cores \cup {Monitor})
    BY <2>1 DEF StdLogic
  <2> QED
    BY <1>4, <2>3, <2>4, <2>5, <2>6, <2>7 DEF TypeOK
<1>6. IndInv'
    BY <1>1, <1>2, <1>4, NameAssumption
    DEF Restart, IndInv, StepCount, GlobalsFollowAccess, EmulatorOnEdge, InEmulator,
        HighPhase, LowPhase, Drained
<1> QED
    BY <1>5, <1>6 DEF Base

\* Bridge's own invariant survives every step of the testbench.
LEMMA BaseStep == Base /\ [CoSimNext]_coSimVars => Base'
<1> SUFFICES ASSUME Base, [CoSimNext]_coSimVars PROVE Base'
    OBVIOUS
<1>1. SyncReset
    BY ResetAssumption DEF SyncReset
<1>2. CASE [Next]_vars
    BY <1>1, <1>2, TypeStep, IndStep DEF Base
<1>3. CASE Restart
    BY <1>3, RestartBase
<1>4. CASE UNCHANGED coSimVars
    BY <1>2, <1>4 DEF coSimVars
<1> QED
    BY <1>2, <1>3, <1>4, BridgeStep

\* The invariant holds at time 0.
LEMMA InitIInv == CoSimInit => IInv
<1> SUFFICES ASSUME CoSimInit PROVE IInv
    OBVIOUS
<1>1. Base
    BY TypeInit, IndInit DEF CoSimInit, Base
<1>2. sent \in Seq(Display!Byte) /\ Len(sent) <= MaxSent
    BY BoundAssumption DEF CoSimInit
<1> QED
    BY <1>1, <1>2, NameAssumption, DutAssumption, ResetAssumption
    DEF CoSimInit, Init, IInv, Rest, Schedule, PcAfterReset, MonitorReset, Sends, ToPort,
        InEmulator

-----------------------------------------------------------------------------
\* Inside the emulator: the bus is not touched, and a store to the port has room.
LEMMA ProgramStep == ASSUME IInv, Program PROVE Rest'
<1>1. /\ stage \in {"fetch", "exec"} /\ stage' = "exec" /\ Quiet
      /\ UNCHANGED <<clk, sreset, ready, bus>>
    BY DEF Program, monitor, HookCode, HookMemRead, HookMemWrite, HookMem, signals, history,
       Quiet
<1>2. Schedule'
    BY <1>1 DEF IInv, Rest, Schedule, InEmulator, Quiet
<1>3. PcAfterReset' /\ MonitorReset'
    BY <1>1 DEF IInv, Rest, PcAfterReset, MonitorReset, Quiet
<1>4. ToPort(access') => Len(sent) < MaxSent
  <2>1. CASE HookCode
    BY <2>1 DEF HookCode, IInv, Rest, Sends
  <2>2. CASE HookMemRead
    BY <2>2 DEF HookMemRead, HookMem, ToPort
  <2>3. CASE HookMemWrite /\ (abus' = DEBUGPORT => Len(sent) < MaxSent)
    BY <2>3 DEF HookMemWrite, HookMem, ToPort
  <2> QED
    BY <2>1, <2>2, <2>3 DEF Program
<1>5. Sends'
    BY <1>1, <1>4 DEF IInv, Rest, Sends, Quiet, ToPort
<1> QED
    BY <1>2, <1>3, <1>5 DEF Rest

\* An instruction retires: its store, if it was one, is the last byte sent.
LEMMA RetireStep == ASSUME StoresBytes, IInv, Retire PROVE Rest'
<1>1. /\ stage = "exec" /\ stage' = "kernel" /\ access' = None
      /\ UNCHANGED <<clk, sreset, halves, i_v>> /\ ready' \subseteq ready
      /\ bus' = [bus EXCEPT ![cur] = access]
    BY DEF Retire, monitor, EmuReturn, Return
<1>2. cur = Dut /\ sreset = "0" /\ bus' = [bus EXCEPT ![Dut] = access]
    BY <1>1, DutAssumption DEF IInv, Base, TypeOK, Rest, Schedule, InEmulator
<1>3. Schedule'
    BY <1>1, <1>2, NameAssumption DEF IInv, Rest, Schedule, InEmulator
<1>4. pc' = npc'[Dut]
    BY <1>2, DutAssumption DEF Retire, EmuReturn, ReadPc, IInv, Base, TypeOK
<1>5. PcAfterReset' /\ MonitorReset'
    BY <1>1, <1>2, <1>4, NameAssumption DEF PcAfterReset, MonitorReset
<1>6. bus'[Dut] = access
    BY <1>2, DutAssumption DEF IInv, Base, TypeOK
<1>7. sent \in Seq(Display!Byte) /\ Len(sent) <= MaxSent /\ Len(sent) \in Nat
    BY DEF IInv, Rest, Sends
<1>8. CASE ToPort(access)
  <2>1. sent' = Append(sent, LowByte(access.data)) /\ Len(sent) < MaxSent
    BY <1>8 DEF Retire, IInv, Rest, Sends
  <2>2. LowByte(access.data) \in Display!Byte
    BY <1>8 DEF ToPort, StoresBytes, IInv, Base, TypeOK, Access
  <2>3. /\ sent' \in Seq(Display!Byte) /\ Len(sent') = Len(sent) + 1
        /\ sent'[Len(sent) + 1] = LowByte(access.data) /\ sent' # <<>>
    BY <1>7, <2>1, <2>2
  <2>4. ~ToPort(access')
    BY <1>1 DEF ToPort
  <2>5. Len(sent') <= MaxSent
    BY <1>7, <2>1, <2>3, BoundAssumption
  <2> QED
    BY <1>3, <1>5, <1>6, <2>3, <2>4, <2>5 DEF Rest, Sends, ToPort
<1>9. CASE ~ToPort(access)
  <2>1. sent' = sent
    BY <1>9 DEF Retire
  <2>2. ~ToPort(access') /\ ~ToPort(bus'[Dut])
    BY <1>1, <1>6, <1>9 DEF ToPort
  <2> QED
    BY <1>3, <1>5, <1>7, <2>1, <2>2 DEF Rest, Sends, ToPort
<1> QED
    BY <1>8, <1>9

\* The monitor has run: the bus is empty, and in reset the counter is 0.
LEMMA WatchStep == ASSUME IInv, Watch PROVE Rest'
<1>1. /\ stage = "kernel" /\ stage' = "kernel" /\ Monitor \in ready
      /\ UNCHANGED <<clk, sreset, halves, sent, pc, npc, access>> /\ ready' = ready \ {Monitor}
      /\ bus'[Dut] = None
      /\ sreset = "1" => i_v' = 0
    BY DutAssumption DEF Watch, Observe, Return, globals, engine
<1>2. Schedule'
    BY <1>1 DEF IInv, Rest, Schedule, InEmulator
<1>3. PcAfterReset' /\ MonitorReset'
    BY <1>1, DutAssumption, NameAssumption DEF IInv, Rest, PcAfterReset, MonitorReset
<1>4. Sends'
    BY <1>1 DEF IInv, Rest, Sends, ToPort
<1> QED
    BY <1>2, <1>3, <1>4 DEF Rest

\* The reset changes: asserted at time 0, released after ResetHalves.
LEMMA ResetStepStep == ASSUME IInv, ResetStep PROVE Rest'
<1>1. /\ stage = "kernel" /\ stage' = "kernel" /\ ready = {} /\ ready' = Cores
      /\ clk = "0" /\ Quiet /\ UNCHANGED <<clk, bus, pc, npc, access>>
      /\ sreset' = IF halves < ResetHalves THEN "1" ELSE "0"
    BY ResetAssumption DEF ResetStep, ResetChange, monitor, globals, engine, history, Quiet
<1>2. \/ halves = 0 /\ sreset = U
      \/ halves = ResetHalves /\ sreset = "1" /\ halves # 1
    BY <1>1 DEF ResetStep, ResetDue, IInv, Rest, Schedule
<1>3. bus[Dut] = None
    BY <1>2, NameAssumption DEF IInv, Rest, Schedule
<1>4. Schedule'
    BY <1>1, <1>2, <1>3, NameAssumption, ResetAssumption
    DEF IInv, Rest, Schedule, InEmulator, Quiet
<1>5. PcAfterReset' /\ MonitorReset'
    BY <1>1, <1>2, ResetAssumption DEF IInv, Rest, PcAfterReset, MonitorReset, Quiet
<1>6. Sends'
    BY <1>1 DEF IInv, Rest, Sends, ToPort, Quiet
<1> QED
    BY <1>4, <1>5, <1>6 DEF Rest

\* The clock changes: at the first edge everything is still to run.
LEMMA ClockStep == ASSUME IInv, Clock PROVE Rest'
<1>1. /\ stage = "kernel" /\ stage' = "kernel" /\ ready = {} /\ clk \in {"0", "1"}
      /\ clk' = (IF clk = "0" THEN "1" ELSE "0") /\ ready' = Woken
      /\ UNCHANGED <<sreset, bus, pc, npc, access, i_v, sent>>
      /\ halves' = (IF halves < ResetHalves THEN halves + 1 ELSE halves)
    BY DEF Clock, Tick, monitor, globals, engine, IInv, Base, TypeOK
<1>2. /\ halves \in 0..ResetHalves /\ ~ResetDue
      /\ sreset # U /\ (sreset = "1" => halves < ResetHalves)
    BY ResetAssumption DEF Clock, ResetDue, IInv, Rest, Schedule
<1>3. sreset = "0" \/ sreset = "1"
    BY <1>2 DEF IInv, Base, TypeOK, StdLogic
<1>4. Schedule'
  <2>1. halves' \in 0..ResetHalves /\ halves' # 0
    BY <1>1, <1>2, ResetAssumption
  <2>2. halves' = 1 => clk' = "1"
    BY <1>1, <1>2, <1>3, ResetAssumption DEF IInv, Rest, Schedule
  <2>3. sreset' = "0" => halves' = ResetHalves /\ halves' # 1
    BY <1>1, <1>2 DEF IInv, Rest, Schedule
  <2> QED
    BY <1>1, <1>2, <1>3, <2>1, <2>2, <2>3 DEF IInv, Rest, Schedule, InEmulator
<1>5. PcAfterReset'
    BY <1>1, <1>2, DutAssumption, ResetAssumption
    DEF IInv, Rest, Schedule, PcAfterReset, Woken
<1>6. MonitorReset'
    BY <1>1, <1>2, ResetAssumption DEF IInv, Rest, Schedule, MonitorReset, Woken
<1>7. Sends'
    BY <1>1 DEF IInv, Rest, Sends, ToPort
<1> QED
    BY <1>4, <1>5, <1>6, <1>7 DEF Rest

\* A delta: the core runs, or the ports are updated.
LEMMA DeltaStep == ASSUME IInv, Delta PROVE Rest'
<1>1. /\ stage = "kernel" /\ Quiet /\ UNCHANGED <<clk, sreset, bus, access>>
    BY DEF Delta, monitor, Process, ProcIdle, ProcReset, ProcEnter, Settle, Quiet, signals,
       engine, history
<1>2. Sends'
    BY <1>1 DEF IInv, Rest, Sends, ToPort, Quiet
<1>3. CASE ProcIdle(Dut)
  <2>1. /\ stage' = "kernel" /\ clk = "0" /\ ready' = ready \ {Dut}
        /\ UNCHANGED <<pc, npc>>
    BY <1>3 DEF ProcIdle, Clocked, Return, engine, history, IInv, Base, TypeOK
  <2>2. Schedule'
    BY <1>1, <2>1 DEF IInv, Rest, Schedule, InEmulator, Quiet
  <2>3. PcAfterReset'
    BY <1>1, <2>1 DEF IInv, Rest, Schedule, PcAfterReset, Quiet
  <2>4. MonitorReset'
    BY <1>1, <2>1, DutAssumption, NameAssumption DEF IInv, Rest, MonitorReset, Quiet
  <2> QED
    BY <1>2, <2>2, <2>3, <2>4 DEF Rest
<1>4. CASE ProcReset(Dut)
  <2>1. /\ stage' = "kernel" /\ ready' = ready \ {Dut} /\ pc' = npc'[Dut]
    BY <1>1, <1>4, DutAssumption DEF ProcReset, Return, engine, IInv, Base, TypeOK
  <2>2. Schedule'
    BY <1>1, <2>1 DEF IInv, Rest, Schedule, InEmulator, Quiet
  <2>3. PcAfterReset' /\ MonitorReset'
    BY <1>1, <2>1, DutAssumption, NameAssumption
    DEF IInv, Rest, PcAfterReset, MonitorReset, Quiet
  <2> QED
    BY <1>2, <2>2, <2>3 DEF Rest
<1>5. CASE ProcEnter(Dut)
  <2>1. /\ stage' = "fetch" /\ clk = "1" /\ sreset # "1" /\ ready' = ready
        /\ uc' = [uc EXCEPT ![Dut].pc = pc] /\ npc' = npc
    BY <1>5 DEF ProcEnter, Clocked, signals
  <2>2. sreset = "0" /\ halves # 0 /\ halves # 1
    BY <2>1, ResetAssumption DEF IInv, Rest, Schedule, Base, TypeOK, StdLogic
  <2>3. Schedule'
    BY <1>1, <2>1, <2>2, NameAssumption DEF IInv, Rest, Schedule, Quiet
  <2>4. pc = npc[Dut]
    BY <1>1, <2>2 DEF IInv, Rest, PcAfterReset
  <2>5. PcAfterReset' /\ MonitorReset'
    BY <1>1, <2>1, <2>2, <2>4, DutAssumption
    DEF PcAfterReset, MonitorReset, IInv, Base, TypeOK
  <2> QED
    BY <1>2, <2>3, <2>5 DEF Rest
<1>6. CASE Settle
  <2>1. stage' = "kernel" /\ UNCHANGED <<ready, pc, npc>>
    BY <1>6 DEF Settle, globals, engine, history
  <2>2. Schedule' /\ PcAfterReset' /\ MonitorReset'
    BY <1>1, <2>1
    DEF IInv, Rest, Schedule, PcAfterReset, MonitorReset, InEmulator, Quiet
  <2> QED
    BY <1>2, <2>2 DEF Rest
<1> QED
    BY <1>3, <1>4, <1>5, <1>6 DEF Delta, Process

\* The simulation ends: nothing the invariant speaks of changes.
LEMMA EndStep == ASSUME IInv, End PROVE Rest'
<1>1. /\ Quiet /\ UNCHANGED <<clk, sreset, ready, bus, access>>
      /\ stage' = "quit"
    BY DEF End, EmuError, StopRun, Done, vars, monitor, Quiet, signals, engine, history
<1> QED
    BY <1>1 DEF IInv, Rest, Schedule, PcAfterReset, MonitorReset, Sends, ToPort, InEmulator,
       Quiet

\* A restart leaves the globals as they are, and time starts again.
LEMMA RestartStep == ASSUME IInv, Restart PROVE Rest'
<1>1. /\ stage = "kernel" /\ stage' = "kernel" /\ clk' = "0" /\ sreset' = U
      /\ ready' = Cores /\ halves' = 0 /\ sent' = <<>> /\ bus'[Dut] = None
      /\ access' = access
    BY DutAssumption DEF Restart
<1>2. access = None
    BY <1>1 DEF IInv, Base, IndInv, GlobalsFollowAccess
<1>3. <<>> \in Seq(Display!Byte) /\ Len(<<>>) = 0
    OBVIOUS
<1> QED
    BY <1>1, <1>2, <1>3, NameAssumption, ResetAssumption, BoundAssumption
    DEF Rest, Schedule, PcAfterReset, MonitorReset, Sends, ToPort, InEmulator

\* Every step keeps the invariant.
LEMMA StepIInv == ASSUME StoresBytes PROVE IInv /\ [CoSimNext]_coSimVars => IInv'
<1> SUFFICES ASSUME IInv, [CoSimNext]_coSimVars PROVE IInv'
    OBVIOUS
<1>1. Base'
    BY BaseStep DEF IInv
<1>2. CASE CoSimNext
    BY <1>1, <1>2, ProgramStep, RetireStep, WatchStep, ResetStepStep, ClockStep, DeltaStep,
       EndStep, RestartStep
    DEF CoSimNext, Going, IInv
<1>3. CASE UNCHANGED coSimVars
    BY <1>1, <1>3 DEF coSimVars, vars, signals, globals, engine, history, monitor, IInv, Rest,
       Schedule, PcAfterReset, MonitorReset, Sends, ToPort, InEmulator
<1> QED
    BY <1>2, <1>3

\* No instruction runs before the reset has come and gone, and the first one
\* after every restart runs from START_ADDRESS.
THEOREM StartsClean == ASSUME StoresBytes PROVE CoSimSpec => []CleanStart
<1>1. IInv => CleanStart
    BY DEF IInv, Rest, Schedule, PcAfterReset, InEmulator, CleanStart
<1>2. IInv /\ [CoSimNext]_coSimVars => IInv'
    BY StepIInv
<1> QED
    BY <1>1, <1>2, InitIInv, PTL DEF CoSimSpec

-----------------------------------------------------------------------------
\* An element appended and taken away again.
LEMMA FrontOfAppend ==
    ASSUME NEW S, NEW s \in Seq(S), NEW e \in S
    PROVE  SubSeq(Append(s, e), 1, Len(Append(s, e)) - 1) = s
<1> DEFINE t == Append(s, e)
           f == SubSeq(t, 1, Len(s))
<1>1. /\ t \in Seq(S) /\ Len(t) = Len(s) + 1 /\ Len(s) \in Nat
      /\ \A k \in 1..Len(s) : t[k] = s[k] /\ t[k] \in S
    OBVIOUS
<1> HIDE DEF t
<1>2. /\ f \in Seq(S) /\ Len(f) = (IF 1 <= Len(s) THEN Len(s) - 1 + 1 ELSE 0)
      /\ \A k \in 1..(Len(s) - 1 + 1) : f[k] = t[1 + k - 1]
    BY <1>1, SubSeqProperties
<1> HIDE DEF f
<1>3. Len(f) = Len(s) /\ \A k \in 1..Len(s) : f[k] = s[k]
    BY <1>1, <1>2
<1>4. f = s
    BY <1>1, <1>2, <1>3, SeqEqual
<1>5. Len(t) - 1 = Len(s)
    BY <1>1
<1> QED
    BY <1>4, <1>5 DEF f, t

\* The length SubSeq gives to a sequence without its last element.
LEMMA FrontLength ==
    \A n \in Nat \ {0} : (IF 1 <= n - 1 THEN (n - 1) - 1 + 1 ELSE 0) = n - 1
OBVIOUS

\* Taken away and put back, the last element gives the sequence again.
LEMMA FrontAndLast ==
    ASSUME NEW S, NEW s \in Seq(S), s # <<>>
    PROVE  /\ SubSeq(s, 1, Len(s) - 1) \in Seq(S)
           /\ Len(SubSeq(s, 1, Len(s) - 1)) = Len(s) - 1
           /\ Append(SubSeq(s, 1, Len(s) - 1), s[Len(s)]) = s
<1> DEFINE f == SubSeq(s, 1, Len(s) - 1)
           t == Append(f, s[Len(s)])
<1>1. Len(s) \in Nat \ {0} /\ \A k \in 1..Len(s) : s[k] \in S
    BY EmptySeq, ElementOfSeq
<1>2. /\ f \in Seq(S) /\ Len(f) = (IF 1 <= Len(s) - 1 THEN (Len(s) - 1) - 1 + 1 ELSE 0)
      /\ \A k \in 1..((Len(s) - 1) - 1 + 1) : f[k] = s[1 + k - 1]
  <2>1. Len(s) - 1 \in Int /\ \A k \in 1..(Len(s) - 1) : s[k] \in S
    BY <1>1
  <2> QED
    BY <2>1, SubSeqProperties
<1> HIDE DEF f, t
<1>3. Len(f) = Len(s) - 1 /\ \A k \in 1..(Len(s) - 1) : f[k] = s[k]
  <2>1. (Len(s) - 1) - 1 + 1 = Len(s) - 1 /\ \A k \in 1..(Len(s) - 1) : 1 + k - 1 = k
    BY <1>1
  <2>2. ASSUME NEW k \in 1..(Len(s) - 1) PROVE f[k] = s[k]
    <3>1. k \in 1..((Len(s) - 1) - 1 + 1) /\ 1 + k - 1 = k
      BY <2>1
    <3>2. f[k] = s[1 + k - 1]
      BY <1>2, <3>1
    <3> QED
      BY <3>1, <3>2
  <2>3. Len(f) = Len(s) - 1
    BY <1>1, <1>2, FrontLength
  <2> QED
    BY <2>2, <2>3
<1>4. s[Len(s)] \in S
    BY <1>1
<1>5. /\ t \in Seq(S) /\ Len(t) = Len(f) + 1 /\ t[Len(f) + 1] = s[Len(s)]
      /\ \A k \in 1..Len(f) : t[k] = f[k]
    BY <1>2, <1>4 DEF t
<1>6. Len(t) = Len(s) /\ \A k \in 1..Len(t) : t[k] = s[k]
    BY <1>1, <1>3, <1>5
<1>7. t = s
    BY <1>5, <1>6, SeqEqual
<1> QED
    BY <1>2, <1>3, <1>7 DEF t, f

-----------------------------------------------------------------------------
\* A step that leaves the bus, the monitor and the release of the reset alone.
LEMMA Unseen ==
    ASSUME Still, bus' = bus, (sreset' # "0") <=> (sreset # "0")
    PROVE  UNCHANGED Display!vars
<1>1. Sampled' = Sampled
    BY DEF Still, Sampled
<1>2. (sreset # "0")' = (sreset # "0")
    OBVIOUS
<1> QED
    BY <1>1, <1>2 DEF Still, Display!vars

\* At a falling edge out of reset the ports carry a write to DEBUGPORT exactly
\* if the last instruction made one, with its data.
LEMMA PortsTell ==
    ASSUME IInv, stage = "kernel", Monitor \in ready, sreset = "0"
    PROVE  /\ PortWrite(port[Dut]) <=> ToPort(bus[Dut])
           /\ ToPort(bus[Dut]) => port[Dut].dbus = bus[Dut].data
<1>1. LowPhase /\ HighPhase /\ clk \in {"0", "1"}
    BY DEF IInv, Base, IndInv, TypeOK
<1>2. clk = "0"
    BY <1>1 DEF HighPhase
<1>3. ShowsAccess(port[Dut], bus[Dut])
    BY <1>1, <1>2, DutAssumption DEF LowPhase
<1> QED
    BY <1>3 DEF ShowsAccess, PortWrite, ToPort

\* The falling edge is a step of the monitor.
LEMMA WatchSim == ASSUME StoresBytes, IInv, Watch PROVE [Display!Next]_(Display!vars)
<1>1. /\ stage = "kernel" /\ Monitor \in ready /\ bus'[Dut] = None
      /\ sreset' = sreset /\ sent' = sent
    BY DutAssumption DEF Watch, Observe
<1>2. sreset \in {"0", "1"}
    BY <1>1 DEF IInv, Base, TypeOK, StdLogic, Rest, Schedule
<1>3. Sampled' = sent
    BY <1>1 DEF Sampled, ToPort
<1>4. CASE sreset = "1"
  <2>1. Sampled = sent
    BY <1>4, NameAssumption DEF IInv, Rest, Schedule, Sampled, ToPort
  <2>2. i_v' = 0 /\ L' = L /\ output' = output
    BY <1>4 DEF Watch
  <2>3. Display!InReset
    BY <1>1, <1>3, <1>4, <2>1, <2>2 DEF Display!InReset
  <2> QED
    BY <2>3 DEF Display!Next
<1>5. CASE sreset = "0" /\ ToPort(bus[Dut])
  <2> DEFINE b == LowByte(bus[Dut].data)
  <2>1. PortWrite(port[Dut]) /\ port[Dut].dbus = bus[Dut].data
    BY <1>1, <1>5, PortsTell
  <2>2. Display!Open(b) \/ Display!Flush(b) \/ Display!Extend(b)
    BY <1>5, <2>1 DEF Watch
  <2>3. b \in Display!Byte
    BY <1>5, DutAssumption DEF StoresBytes, ToPort, IInv, Base, TypeOK, Access
  <2>4. /\ sent \in Seq(Display!Byte) /\ sent # <<>> /\ sent[Len(sent)] = b
        /\ Len(sent) <= MaxSent /\ Len(sent) \in Nat
    BY <1>5 DEF IInv, Rest, Sends
  <2> HIDE DEF b
  <2>5. Sampled = SubSeq(sent, 1, Len(sent) - 1)
    BY <1>5 DEF Sampled
  <2>6. Len(Sampled) = Len(sent) - 1 /\ Append(Sampled, b) = sent
    BY <2>4, <2>5, FrontAndLast
  <2>7. Len(Sampled) < MaxSent /\ Sampled' = Append(Sampled, b)
    BY <1>3, <2>4, <2>6, BoundAssumption
  <2>8. Display!Sample(b)
    BY <1>1, <1>5, <2>2, <2>7 DEF Display!Sample
  <2> QED
    BY <2>3, <2>8 DEF Display!Next
<1>6. CASE sreset = "0" /\ ~ToPort(bus[Dut])
  <2>1. UNCHANGED <<i_v, L, output>>
    BY <1>1, <1>6, PortsTell DEF Watch, monitor
  <2>2. Sampled' = Sampled
    BY <1>3, <1>6 DEF Sampled
  <2> QED
    BY <1>1, <2>1, <2>2 DEF Display!vars
<1> QED
    BY <1>2, <1>4, <1>5, <1>6

\* The end of an instruction is not seen before the falling edge.
LEMMA RetireSim == ASSUME StoresBytes, IInv, Retire PROVE UNCHANGED Display!vars
<1>1. /\ stage = "exec" /\ UNCHANGED <<sreset, i_v, L, output>>
      /\ bus' = [bus EXCEPT ![cur] = access]
    BY DEF Retire, EmuReturn, monitor
<1>2. cur = Dut /\ cur \in ready /\ clk = "1"
    BY <1>1, DutAssumption DEF IInv, Base, TypeOK, IndInv, EmulatorOnEdge, InEmulator
<1>3. bus[Dut] = None
    BY <1>1, <1>2, DutAssumption DEF IInv, Base, IndInv, HighPhase
<1>4. bus'[Dut] = access
    BY <1>1, <1>2, DutAssumption DEF IInv, Base, TypeOK
<1>5. Sampled = sent
    BY <1>3 DEF Sampled, ToPort
<1>6. Sampled' = sent
  <2>1. CASE ToPort(access)
    <3>1. LowByte(access.data) \in Display!Byte
      BY <2>1 DEF ToPort, StoresBytes, IInv, Base, TypeOK, Access
    <3>2. sent' = Append(sent, LowByte(access.data)) /\ sent \in Seq(Display!Byte)
      BY <2>1 DEF Retire, IInv, Rest, Sends
    <3>3. ToPort(bus'[Dut])
      BY <1>4, <2>1
    <3>4. Sampled' = SubSeq(sent', 1, Len(sent') - 1)
      BY <3>3 DEF Sampled, ToPort
    <3> QED
      BY <3>1, <3>2, <3>4, FrontOfAppend
  <2>2. CASE ~ToPort(access)
    BY <1>4, <2>2 DEF Retire, Sampled, ToPort
  <2> QED
    BY <2>1, <2>2
<1> QED
    BY <1>1, <1>5, <1>6 DEF Display!vars

\* Asserting the reset is not seen, releasing it is a step of the monitor.
LEMMA ResetSim == ASSUME IInv, ResetStep PROVE [Display!Next]_(Display!vars)
<1>1. /\ Still /\ bus' = bus /\ ready = {} /\ clk = "0" /\ Sampled' = Sampled
      /\ sreset' = IF halves < ResetHalves THEN "1" ELSE "0"
    BY ResetAssumption DEF ResetStep, ResetChange, monitor, history, Still, Sampled
<1>2. CASE halves = 0 /\ sreset = U
  <2>1. sreset' = "1"
    BY <1>1, <1>2, ResetAssumption
  <2> QED
    BY <1>1, <1>2, <2>1, NameAssumption, Unseen
<1>3. CASE halves = ResetHalves /\ sreset = "1"
  <2>1. sreset' = "0"
    BY <1>1, <1>3, ResetAssumption
  <2>2. halves # 1 /\ halves \in Nat \ {0}
    BY <1>1, <1>3, ResetAssumption DEF IInv, Rest, Schedule
  <2>3. i_v = 0
    BY <1>1, <1>3, <2>2 DEF IInv, Rest, MonitorReset
  <2>4. Display!Release
    BY <1>1, <1>3, <2>1, <2>3 DEF Display!Release, Still
  <2> QED
    BY <2>4 DEF Display!Next
<1> QED
    BY <1>2, <1>3 DEF ResetStep, ResetDue

\* A restart of the simulation is one of the monitor.
LEMMA RestartSim == ASSUME Restart PROVE Display!Restart
<1>1. sreset' = U /\ bus'[Dut] = None /\ sent' = <<>>
    BY DutAssumption DEF Restart
<1>2. Sampled' = <<>>
    BY <1>1 DEF Sampled, ToPort
<1>3. (sreset # "0")' = TRUE
    BY <1>1, NameAssumption
<1> QED
    BY <1>2, <1>3 DEF Restart, Display!Restart

\* Every step of the testbench is one of the monitor, or is not seen by it.
LEMMA DisplayStep ==
    ASSUME StoresBytes
    PROVE  IInv /\ [CoSimNext]_coSimVars => [Display!Next]_(Display!vars)
<1> SUFFICES ASSUME IInv, [CoSimNext]_coSimVars PROVE [Display!Next]_(Display!vars)
    OBVIOUS
<1>1. CASE Program \/ Clock \/ Delta \/ End \/ UNCHANGED coSimVars
  <2>1. Still /\ bus' = bus /\ sreset' = sreset
    <3>1. CASE Program
      BY <3>1 DEF Program, HookCode, HookMemRead, HookMemWrite, HookMem, signals, history,
         monitor, Still
    <3>2. CASE Clock
      BY <3>2 DEF Clock, Tick, monitor, Still
    <3>3. CASE Delta
      BY <3>3 DEF Delta, Process, ProcIdle, ProcReset, ProcEnter, Settle, signals, history,
         monitor, Still
    <3>4. CASE End
      BY <3>4 DEF End, EmuError, StopRun, Done, vars, signals, history, monitor, Still
    <3>5. CASE UNCHANGED coSimVars
      BY <3>5 DEF coSimVars, vars, signals, history, monitor, Still
    <3> QED
      BY <1>1, <3>1, <3>2, <3>3, <3>4, <3>5
  <2> QED
    BY <2>1, Unseen
<1>2. CASE Retire
    BY <1>2, RetireSim
<1>3. CASE Watch
    BY <1>3, WatchSim
<1>4. CASE ResetStep
    BY <1>4, ResetSim
<1>5. CASE Restart
    BY <1>5, RestartSim DEF Display!Next
<1> QED
    BY <1>1, <1>2, <1>3, <1>4, <1>5 DEF CoSimNext, Going

\* For every program and every length of the reset the transcript is that of
\* the monitor fed with exactly the bytes the instructions store to DEBUGPORT.
THEOREM ImplementsMonitor == ASSUME StoresBytes PROVE CoSimSpec => MonitorSpec
<1>1. CoSimInit => Display!Init
  <2> SUFFICES ASSUME CoSimInit PROVE Display!Init
    OBVIOUS
  <2>1. bus[Dut] = None /\ sent = <<>> /\ sreset = U
    BY DutAssumption DEF CoSimInit, Init
  <2>2. Sampled = <<>> /\ (sreset # "0") = TRUE
    BY <2>1, NameAssumption DEF Sampled, ToPort
  <2> QED
    BY <2>2 DEF CoSimInit, Display!Init
<1>2. IInv /\ [CoSimNext]_coSimVars => IInv'
    BY StepIInv
<1>3. IInv /\ [CoSimNext]_coSimVars => [Display!Next]_(Display!vars)
    BY DisplayStep
<1> QED
    BY <1>1, <1>2, <1>3, InitIInv, PTL DEF CoSimSpec, MonitorSpec, Display!Spec

-----------------------------------------------------------------------------
\* What is proved of the monitor alone holds in the testbench.
Monitors == INSTANCE PortMonitorProofs WITH sreset <- sreset # "0", sent <- Sampled

LEMMA SameMonitor ==
    /\ Display!Init <=> Monitors!Init
    /\ [Display!Next]_(Display!vars) <=> [Monitors!Next]_(Monitors!vars)
<1>1. Display!Init <=> Monitors!Init
    BY DEF Display!Init, Monitors!Init, Display!IntegerLeft, Monitors!IntegerLeft
<1>2. ASSUME NEW b PROVE Display!Sample(b) <=> Monitors!Sample(b)
    BY DEF Display!Sample, Display!Open, Display!Flush, Display!Extend, Display!LineEnd,
       Display!Text, Display!std_to_char,
       Monitors!Sample, Monitors!Open, Monitors!Flush, Monitors!Extend, Monitors!LineEnd,
       Monitors!Text, Monitors!std_to_char
<1>3. Display!vars = Monitors!vars /\ Display!vars' = Monitors!vars'
    BY DEF Display!vars, Monitors!vars
<1>4. Display!Byte = Monitors!Byte
    BY DEF Display!Byte, Monitors!Byte
<1>5. /\ Display!InReset <=> Monitors!InReset
      /\ Display!Release <=> Monitors!Release
      /\ Display!Restart <=> Monitors!Restart
      /\ Display!Done <=> Monitors!Done
    BY <1>3 DEF Display!InReset, Display!Release, Display!Restart, Display!Done,
       Monitors!InReset, Monitors!Release, Monitors!Restart, Monitors!Done,
       Display!IntegerLeft, Monitors!IntegerLeft
<1>6. Display!Next <=> Monitors!Next
    BY <1>2, <1>4, <1>5 DEF Display!Next, Monitors!Next
<1> QED
    BY <1>1, <1>3, <1>6

LEMMA MonitorApplies == ASSUME StoresBytes PROVE CoSimSpec => Monitors!Spec
<1>1. CoSimSpec => MonitorSpec
    BY ImplementsMonitor
<1>2. Display!Init <=> Monitors!Init
    BY SameMonitor
<1>3. [Display!Next]_(Display!vars) <=> [Monitors!Next]_(Monitors!vars)
    BY SameMonitor
<1> QED
    BY <1>1, <1>2, <1>3, PTL DEF MonitorSpec, Display!Spec, Monitors!Spec

LEMMA MonitorAssumptions ==
    Monitors!LineAssumption /\ Monitors!SentAssumption /\ Monitors!ByteAssumption
BY DisplayAssumption, BoundAssumption
DEF Display!LineAssumption, Display!ByteAssumption, Monitors!LineAssumption,
    Monitors!SentAssumption, Monitors!ByteAssumption

\* The types of the testbench: those of the bridge, the time and the monitor.
THEOREM CoSimTypes == ASSUME StoresBytes PROVE CoSimSpec => []CoSimTypeOK
<1> DEFINE Count == restarts \in 0..MaxRestarts
<1>1. Monitors!Spec => []Monitors!TypeOK
    BY MonitorAssumptions, Monitors!MonitorType
<1>2. CoSimSpec => Monitors!Spec
    BY MonitorApplies
<1>3. Monitors!TypeOK => Display!TypeOK
    BY DEF Monitors!TypeOK, Display!TypeOK, Monitors!IntegerLeft, Display!IntegerLeft,
       Monitors!Character, Display!Character, Monitors!Byte, Display!Byte
<1>4. CoSimInit => Count
    BY BoundAssumption DEF CoSimInit
<1>5. Count /\ [CoSimNext]_coSimVars => Count'
    BY BoundAssumption DEF CoSimNext, Going, Program, Retire, Watch, ResetStep, Clock, Delta,
       End, Restart, coSimVars
<1>6. IInv /\ Count /\ Display!TypeOK => CoSimTypeOK
    BY DEF IInv, Base, Rest, Schedule, CoSimTypeOK
<1>7. IInv /\ [CoSimNext]_coSimVars => IInv'
    BY StepIInv
<1> QED
    BY <1>1, <1>2, <1>3, <1>4, <1>5, <1>6, <1>7, InitIInv, PTL DEF CoSimSpec

\* From the program to the transcript: what the instructions store to the port
\* is on display in order, at most one character short for every line written,
\* and complete as long as the program ends its lines in time.
THEOREM TranscriptOrdered ==
    ASSUME StoresBytes
    PROVE  CoSimSpec => [](Display!OrderedText /\ Display!ShortLinesIntact)
<1>1. Monitors!Spec => []Monitors!OrderedText
    BY MonitorAssumptions, Monitors!MonitorOrder
<1>2. Monitors!Spec => []Monitors!ShortLinesIntact
    BY MonitorAssumptions, Monitors!MonitorIntact
<1>3. CoSimSpec => Monitors!Spec
    BY MonitorApplies
<1>4. Monitors!Displayed = Display!Displayed /\ Monitors!Stored = Display!Stored
  <2>1. Monitors!Displayed = Display!Displayed
    BY Zenon DEF Monitors!Displayed, Display!Displayed, Monitors!Body, Display!Body,
       Monitors!FlattenSeq, Display!FlattenSeq
  <2>2. Monitors!Stored = Display!Stored
    BY Zenon DEF Monitors!Stored, Display!Stored, Monitors!std_to_char, Display!std_to_char,
       Monitors!FlattenSeq, Display!FlattenSeq
  <2> QED
    BY <2>1, <2>2
<1>5. Monitors!OrderedText => Display!OrderedText
  <2>1. ASSUME NEW s, NEW t 
        PROVE  Monitors!IsSubsequence(s, t) <=> Display!IsSubsequence(s, t)
    BY Zenon DEF Monitors!IsSubsequence, Display!IsSubsequence, Monitors!FoldLeft,
       Display!FoldLeft, Monitors!MapThenFoldSet, Display!MapThenFoldSet, Monitors!Max,
       Display!Max
  <2> QED
    BY <1>4, <2>1 DEF Monitors!OrderedText, Display!OrderedText
<1>6. Monitors!ShortLinesIntact => Display!ShortLinesIntact
    BY <1>4 DEF Monitors!ShortLinesIntact, Display!ShortLinesIntact
<1> QED
    BY <1>1, <1>2, <1>3, <1>5, <1>6, PTL

=============================================================================
