---------------------------- MODULE BridgeProofs ----------------------------
(***************************************************************************)
(* Theorems about Bridge, for any number of instances of the entity, any   *)
(* registers, data values and addresses, and that it implements the safety *)
(* part of BusTransactions.                                                *)
(***************************************************************************)
EXTENDS BridgeBus, TLAPS

-----------------------------------------------------------------------------
\* hook_code asks for the registers in the order of their numbers: xreg[r] is
\* read from register r, for each of the 31.
LEMMA HookOrderIsNumeric == \A r \in 1..31 : HookOrder[r] - X(0) = r
<1> SUFFICES ASSUME NEW r \in 1..31 PROVE HookOrder[r] = r + 1
    BY DEF X, UC_RISCV_REG_INVALID
<1>1. CASE r \in 1..10
    BY <1>1 DEF HookOrder, Alias, X, UC_RISCV_REG_INVALID
<1>2. CASE r \in 11..20
    BY <1>2 DEF HookOrder, Alias, X, UC_RISCV_REG_INVALID
<1>3. CASE r \in 21..31
    BY <1>3 DEF HookOrder, Alias, X, UC_RISCV_REG_INVALID
<1> QED
    BY <1>1, <1>2, <1>3

\* The copy hook_code takes of the registers is the register file of the engine.
LEMMA ReadRegsIsRegFile == ASSUME TypeOK, NEW c \in Cores PROVE ReadRegs(c) = uc[c].x
<1>1. \A r \in Regs : uc_reg_read(uc[c].x, HookOrder[r]) = uc[c].x[r]
    BY HookOrderIsNumeric, RegAssumption DEF uc_reg_read
<1>2. uc[c].x \in [Regs -> Words]
    BY DEF TypeOK, RegFile
<1> QED
    BY <1>1, <1>2 DEF ReadRegs

\* The tail of riscv_process drives well-typed values.
LEMMA DriveBusesType ==
    ASSUME TypeOK, NEW d \in PortType, NEW p \in Addrs
    PROVE  DriveBuses(d, p) \in PortType
BY DEF TypeOK, PortType, DriveBuses, RegFile

\* Every variable keeps its type in every step of the bridge.
LEMMA TypeStep == TypeOK /\ [Next]_vars => TypeOK'
<1> SUFFICES ASSUME TypeOK, [Next]_vars PROVE TypeOK'
    OBVIOUS
<1> USE AddressAssumption, WordAssumption
<1>1. ASSUME NEW c \in Cores, ProcIdle(c) PROVE TypeOK'
  <2>1. DriveBuses(drv[c], pc) \in PortType
    BY DriveBusesType DEF TypeOK
  <2>2. drv' \in [Cores -> PortType]
    BY <1>1, <2>1 DEF TypeOK, ProcIdle
  <2> QED
    BY <1>1, <2>2 DEF TypeOK, ProcIdle, NegateStrobes, Return, engine, history
<1>2. ASSUME NEW c \in Cores, ProcReset(c) PROVE TypeOK'
  <2>1. DriveBuses(drv[c], START_ADDRESS) \in PortType
    BY DriveBusesType DEF TypeOK
  <2>2. drv' \in [Cores -> PortType]
    BY <1>2, <2>1 DEF TypeOK, ProcReset
  <2> QED
    BY <1>2, <2>2 DEF TypeOK, ProcReset, NegateStrobes, Return, engine
<1>3. ASSUME NEW c \in Cores, ProcEnter(c) PROVE TypeOK'
  <2>1. uc' \in [Cores -> [pc : Addrs, x : RegFile]]
    BY <1>3 DEF TypeOK, ProcEnter
  <2>2. steps' \in [Cores -> 0..2] /\ before' \in [Cores -> RegFile]
    BY <1>3 DEF TypeOK, ProcEnter
  <2> QED
    BY <1>3, <2>1, <2>2 DEF TypeOK, ProcEnter, signals, globals
<1>4. CASE HookCode
    BY <1>4, ReadRegsIsRegFile DEF TypeOK, HookCode, signals, history
<1>5. CASE HookMemRead
  <2> PICK a \in Addrs, v \in Words :
        dbus' = v /\ abus' = a /\ access' = [kind |-> "read", addr |-> a, data |-> v]
    BY <1>5 DEF HookMemRead, HookMem, SetStrobes
  <2>1. access' \in Access
    BY DEF Access
  <2> QED
    BY <1>5, <2>1 DEF TypeOK, HookMemRead, HookMem, SetStrobes, signals, history
<1>6. CASE HookMemWrite
  <2> PICK a \in Addrs, v \in Words :
        dbus' = v /\ abus' = a /\ access' = [kind |-> "write", addr |-> a, data |-> v]
    BY <1>6 DEF HookMemWrite, HookMem, SetStrobes
  <2>1. access' \in Access
    BY DEF Access
  <2> QED
    BY <1>6, <2>1 DEF TypeOK, HookMemWrite, HookMem, SetStrobes, signals, history
<1>7. CASE EmuReturn
  <2> PICK p \in Addrs, x \in RegFile :
        /\ uc' = [uc EXCEPT ![cur] = [pc |-> p, x |-> x]]
        /\ pc' = p
        /\ drv' = [drv EXCEPT ![cur] =
              [DriveBuses(@, p) EXCEPT !.rdn = Strobe(rdn), !.wrn = Strobe(wrn)]]
        /\ npc' = [npc EXCEPT ![cur] = p]
    BY <1>7 DEF EmuReturn, ReadPc
  <2>1. cur \in Cores
    BY <1>7 DEF TypeOK, EmuReturn
  <2>2. DriveBuses(drv[cur], p) \in PortType
    BY <2>1, DriveBusesType DEF TypeOK
  <2>3. Strobe(rdn) \in StdLogic /\ Strobe(wrn) \in StdLogic
    BY DEF Strobe, StdLogic
  <2>4. [DriveBuses(drv[cur], p) EXCEPT !.rdn = Strobe(rdn), !.wrn = Strobe(wrn)] \in PortType
    BY <2>2, <2>3 DEF PortType
  <2>5. drv' \in [Cores -> PortType]
    BY <2>1, <2>4 DEF TypeOK
  <2>6. uc' \in [Cores -> [pc : Addrs, x : RegFile]] /\ npc' \in [Cores -> Addrs]
    BY <2>1 DEF TypeOK
  <2> QED
    BY <1>7, <2>1, <2>5, <2>6 DEF TypeOK, EmuReturn, NegateStrobes, Return
<1>8. CASE EmuError
    BY <1>8 DEF TypeOK, EmuError, signals, globals, history
<1>9. CASE Observe
    BY <1>9 DEF TypeOK, Observe, Return, globals, engine
<1>10. CASE Settle
    BY <1>10 DEF TypeOK, Settle, globals, engine, history
<1>11. CASE Tick
    BY <1>11 DEF TypeOK, Tick, Woken, globals, engine
<1>12. CASE ResetChange
    BY <1>12 DEF TypeOK, ResetChange, StdLogic, globals, engine, history
<1>13. CASE StopRun
    BY <1>13 DEF TypeOK, StopRun, signals, globals, history
<1>14. CASE UNCHANGED vars
    BY <1>14 DEF TypeOK, vars, signals, globals, engine, history
<1> QED
    BY <1>1, <1>2, <1>3, <1>4, <1>5, <1>6, <1>7, <1>8, <1>9, <1>10, <1>11, <1>12,
       <1>13, <1>14
    DEF Next, Simulator, Process, Emulator, Done

\* The power-up state of the bridge is well typed.
LEMMA TypeInit == Init => TypeOK
<1> SUFFICES ASSUME Init PROVE TypeOK
    OBVIOUS
<1> USE AddressAssumption, WordAssumption
<1>1. Undriven \in PortType
    BY DEF Undriven, PortType, StdLogic
<1>2. [r \in Regs |-> 0] \in RegFile
    BY DEF RegFile
<1>3. port \in [Cores -> PortType] /\ drv \in [Cores -> PortType]
    BY <1>1 DEF Init
<1>4. uc \in [Cores -> [pc : Addrs, x : RegFile]]
    BY <1>2 DEF Init
<1>5. /\ bus \in [Cores -> Access \cup {None}]
      /\ steps \in [Cores -> 0..2]
      /\ npc \in [Cores -> Addrs]
      /\ before \in [Cores -> RegFile]
    BY <1>2 DEF Init
<1> QED
    BY <1>2, <1>3, <1>4, <1>5 DEF Init, TypeOK, StdLogic

\* TypeOK is an invariant: in particular the process inside uc_emu_start is
\* always one of the entity's instances.
THEOREM TypeCorrect == Spec => []TypeOK
BY TypeInit, TypeStep, PTL DEF Spec

-----------------------------------------------------------------------------
\* What the buses hold after riscv_process has driven them.
LEMMA DriveBusesFields ==
    ASSUME NEW d \in PortType, NEW p \in Addrs
    PROVE  LET e == DriveBuses(d, p)
           IN  /\ e.rdn = d.rdn /\ e.wrn = d.wrn
               /\ e.dbus = dbus /\ e.abus = abus /\ e.pc = p /\ e.x = xreg
BY DEF DriveBuses, PortType

\* The inductive invariant holds at time 0.
LEMMA IndInit == Init => IndInv
BY NameAssumption
DEF Init, IndInv, StepCount, GlobalsFollowAccess, EmulatorOnEdge, HighPhase, LowPhase,
    Drained, InEmulator

\* One lemma per action: the action keeps the inductive invariant.  With the
\* clock low, riscv_process only re-drives the buses, which nobody samples
\* before the next rising edge.
LEMMA IndIdle ==
    ASSUME TypeOK, IndInv, NEW c \in Cores, ProcIdle(c)
    PROVE  IndInv'
<1>1. clk = "0" /\ stage = "kernel"
    BY DEF TypeOK, ProcIdle, Clocked
<1>2. Monitor \in ready' <=> Monitor \in ready
    BY NameAssumption DEF ProcIdle, Return
<1>3. GlobalsFollowAccess'
    BY <1>1 DEF IndInv, GlobalsFollowAccess, ProcIdle, NegateStrobes, engine, history
<1>4. StepCount' /\ Drained' /\ LowPhase'
    BY <1>1, <1>2 DEF IndInv, StepCount, Drained, LowPhase, ShowsAccess, ProcIdle, history
<1>5. EmulatorOnEdge' /\ HighPhase'
    BY <1>1 DEF EmulatorOnEdge, InEmulator, HighPhase, ProcIdle, engine
<1> QED
    BY <1>3, <1>4, <1>5 DEF IndInv

\* The reset branch leaves the strobe drivers alone, but then nobody samples.
LEMMA IndReset ==
    ASSUME TypeOK, IndInv, NEW c \in Cores, ProcReset(c)
    PROVE  IndInv'
<1>1. clk = "1" /\ clk' = "1" /\ sreset = "1" /\ sreset' = "1" /\ stage = "kernel"
        /\ stage' = "kernel"
    BY DEF ProcReset, Clocked, engine
<1>2. HighPhase
    BY <1>1 DEF IndInv
<1>3. GlobalsFollowAccess'
    BY <1>1 DEF IndInv, GlobalsFollowAccess, ProcReset, NegateStrobes, engine
<1>4. StepCount' /\ Drained' /\ LowPhase'
    BY <1>1 DEF IndInv, StepCount, Drained, LowPhase, ProcReset
<1>5. EmulatorOnEdge'
    BY <1>1 DEF EmulatorOnEdge, InEmulator
<1>6. HighPhase'
    BY <1>1, <1>2 DEF HighPhase, InEmulator, ProcReset, Return, engine
<1> QED
    BY <1>3, <1>4, <1>5, <1>6 DEF IndInv

\* Entering uc_emu_start counts the step and remembers the registers.
LEMMA IndEnter ==
    ASSUME TypeOK, IndInv, NEW c \in Cores, ProcEnter(c)
    PROVE  IndInv'
<1>1. /\ clk = "1" /\ clk' = "1" /\ sreset # "1" /\ sreset' = sreset
      /\ stage = "kernel" /\ stage' = "fetch" /\ cur' = c
      /\ ready' = ready /\ c \in ready /\ clkEvent' = clkEvent /\ drv' = drv
      /\ bus' = bus /\ npc' = npc /\ access' = access
      /\ wrn' = wrn /\ rdn' = rdn
    BY DEF ProcEnter, Clocked, signals, globals
<1>2. HighPhase /\ GlobalsFollowAccess /\ StepCount
    BY <1>1 DEF IndInv
<1>3. steps[c] = 0 /\ bus[c] = None
    BY <1>1, <1>2 DEF HighPhase, InEmulator
<1>4. steps' = [steps EXCEPT ![c] = 1]
    BY <1>3 DEF ProcEnter, TypeOK
<1>5. before' = [before EXCEPT ![c] = uc[c].x] /\ uc' = [uc EXCEPT ![c].pc = pc]
    BY DEF ProcEnter
<1>6. GlobalsFollowAccess'
    BY <1>1, <1>2 DEF GlobalsFollowAccess
<1>7. StepCount'
    BY <1>2, <1>4 DEF StepCount, TypeOK
<1>8. EmulatorOnEdge'
    BY <1>1, <1>4, <1>5 DEF EmulatorOnEdge, InEmulator, TypeOK
<1>9. HighPhase'
  <2>1. Monitor \notin ready' /\ (ready' # {} => clkEvent')
    BY <1>1, <1>2 DEF HighPhase
  <2>2. ASSUME NEW d \in Cores, d \in ready'
        PROVE  bus'[d] = None /\ (steps'[d] = 0 \/ (InEmulator' /\ cur' = d))
    BY <1>1, <1>2, <1>4, <2>2 DEF HighPhase, InEmulator, TypeOK
  <2>3. ASSUME NEW d \in Cores, d \notin ready', sreset' # "1"
        PROVE  /\ ShowsAccess(drv'[d], bus'[d])
               /\ drv'[d].x = before'[d] /\ drv'[d].pc = npc'[d]
               /\ steps'[d] = 1
    BY <1>1, <1>2, <1>4, <1>5, <2>3 DEF HighPhase, TypeOK
  <2> QED
    BY <2>1, <2>2, <2>3 DEF HighPhase, ShowsAccess
<1>10. LowPhase' /\ Drained'
    BY <1>1 DEF LowPhase, Drained
<1> QED
    BY <1>6, <1>7, <1>8, <1>9, <1>10 DEF IndInv

\* hook_code makes the register globals those of the running core.
LEMMA IndHookCode == ASSUME TypeOK, IndInv, HookCode PROVE IndInv'
<1>1. /\ stage = "fetch" /\ stage' = "exec" /\ cur' = cur /\ cur \in Cores
      /\ access' = access /\ wrn' = wrn /\ rdn' = rdn /\ xreg' = uc[cur].x
      /\ UNCHANGED <<clk, clkEvent, sreset, port, drv, ready, bus, steps, npc, before>>
    BY ReadRegsIsRegFile DEF HookCode, TypeOK, signals, history
<1>2. GlobalsFollowAccess /\ EmulatorOnEdge /\ HighPhase /\ StepCount
    BY <1>1 DEF IndInv
<1>3. GlobalsFollowAccess'
    BY <1>1, <1>2 DEF GlobalsFollowAccess, EmulatorOnEdge, InEmulator
<1>4. EmulatorOnEdge' /\ StepCount'
    BY <1>1, <1>2 DEF EmulatorOnEdge, InEmulator, StepCount
<1>5. HighPhase'
    BY <1>1, <1>2 DEF HighPhase, InEmulator, ShowsAccess
<1>6. LowPhase' /\ Drained'
    BY <1>1, <1>2 DEF LowPhase, Drained, EmulatorOnEdge, InEmulator
<1> QED
    BY <1>3, <1>4, <1>5, <1>6 DEF IndInv

\* hook_mem makes the strobe and bus globals those of the access.
LEMMA IndHookMem == ASSUME TypeOK, IndInv, HookMemRead \/ HookMemWrite PROVE IndInv'
<1>1. /\ stage = "exec" /\ stage' = "exec" /\ cur' = cur /\ xreg' = xreg /\ uc' = uc
      /\ UNCHANGED <<clk, clkEvent, sreset, port, drv, ready, bus, steps, npc, before>>
    BY DEF HookMemRead, HookMemWrite, HookMem, signals, history
<1>2. GlobalsFollowAccess /\ EmulatorOnEdge /\ HighPhase /\ StepCount
    BY <1>1 DEF IndInv
<1>3. GlobalsFollowAccess'
  <2>1. CASE HookMemRead
    <3> PICK a \in Addrs, v \in Words :
          dbus' = v /\ abus' = a /\ access' = [kind |-> "read", addr |-> a, data |-> v]
      BY <2>1 DEF HookMemRead, HookMem
    <3>1. access' # None
      BY NameAssumption DEF Access
    <3>2. rdn' = FALSE /\ wrn' = TRUE
      BY <2>1 DEF HookMemRead, HookMem, SetStrobes
    <3> QED
      BY <1>1, <1>2, <3>1, <3>2 DEF GlobalsFollowAccess
  <2>2. CASE HookMemWrite
    <3> PICK a \in Addrs, v \in Words :
          dbus' = v /\ abus' = a /\ access' = [kind |-> "write", addr |-> a, data |-> v]
      BY <2>2 DEF HookMemWrite, HookMem
    <3>1. access' # None
      BY NameAssumption DEF Access
    <3>2. rdn' = TRUE /\ wrn' = FALSE
      BY <2>2 DEF HookMemWrite, HookMem, SetStrobes
    <3> QED
      BY <1>1, <1>2, <3>1, <3>2 DEF GlobalsFollowAccess
  <2> QED
    BY <2>1, <2>2
<1>4. EmulatorOnEdge' /\ StepCount'
    BY <1>1, <1>2 DEF EmulatorOnEdge, InEmulator, StepCount
<1>5. HighPhase'
    BY <1>1, <1>2 DEF HighPhase, InEmulator, ShowsAccess
<1>6. LowPhase' /\ Drained'
    BY <1>1, <1>2 DEF LowPhase, Drained, EmulatorOnEdge, InEmulator
<1> QED
    BY <1>3, <1>4, <1>5, <1>6 DEF IndInv

\* The return from uc_emu_start turns the globals into what the drivers of
\* this core show until its next call.
LEMMA IndReturn == ASSUME TypeOK, IndInv, EmuReturn PROVE IndInv'
<1> PICK p \in Addrs, x \in RegFile :
        /\ uc' = [uc EXCEPT ![cur] = [pc |-> p, x |-> x]]
        /\ pc' = p
        /\ drv' = [drv EXCEPT ![cur] =
              [DriveBuses(@, p) EXCEPT !.rdn = Strobe(rdn), !.wrn = Strobe(wrn)]]
        /\ npc' = [npc EXCEPT ![cur] = p]
    BY DEF EmuReturn, ReadPc
<1>1. /\ stage = "exec" /\ stage' = "kernel" /\ cur \in Cores
      /\ access' = None /\ wrn' = TRUE /\ rdn' = TRUE
      /\ ready' = ready \ {cur} /\ bus' = [bus EXCEPT ![cur] = access]
      /\ UNCHANGED <<clk, clkEvent, sreset, port, steps, before>>
    BY DEF EmuReturn, TypeOK, NegateStrobes, Return
<1>2. GlobalsFollowAccess /\ EmulatorOnEdge /\ HighPhase /\ StepCount
    BY <1>1 DEF IndInv
<1>3. clk = "1" /\ clk' = "1" /\ sreset' # "1" /\ Monitor \notin ready /\ steps[cur] = 1
    BY <1>1, <1>2 DEF EmulatorOnEdge, InEmulator, HighPhase
<1>4. GlobalsFollowAccess' /\ EmulatorOnEdge' /\ StepCount' /\ LowPhase' /\ Drained'
    BY <1>1, <1>2, <1>3 DEF GlobalsFollowAccess, EmulatorOnEdge, InEmulator, StepCount,
       LowPhase, Drained
<1>5. /\ ShowsAccess(drv'[cur], bus'[cur])
      /\ drv'[cur].x = before'[cur] /\ drv'[cur].pc = npc'[cur]
  <2> DEFINE e == DriveBuses(drv[cur], p)
  <2>1. /\ e \in PortType
        /\ e.dbus = dbus /\ e.abus = abus /\ e.pc = p /\ e.x = xreg
    BY <1>1, DriveBusesFields, DriveBusesType DEF TypeOK
  <2>2. drv'[cur] = [e EXCEPT !.rdn = Strobe(rdn), !.wrn = Strobe(wrn)]
    BY <1>1 DEF TypeOK
  <2>3. /\ drv'[cur].dbus = dbus /\ drv'[cur].abus = abus
        /\ drv'[cur].pc = p /\ drv'[cur].x = xreg
        /\ drv'[cur].rdn = Strobe(rdn) /\ drv'[cur].wrn = Strobe(wrn)
    BY <2>1, <2>2 DEF PortType
  <2>4. bus'[cur] = access /\ npc'[cur] = p /\ xreg = before[cur]
    BY <1>1, <1>2 DEF TypeOK, GlobalsFollowAccess
  <2>5. ShowsAccess(drv'[cur], access)
    BY <1>2, <2>3 DEF ShowsAccess, Strobe, GlobalsFollowAccess
  <2> QED
    BY <1>1, <2>3, <2>4, <2>5
<1>6. HighPhase'
  <2>1. Monitor \notin ready' /\ (ready' # {} => clkEvent')
    BY <1>1, <1>2, <1>3 DEF HighPhase
  <2>2. ASSUME NEW d \in Cores, d \in ready'
        PROVE  bus'[d] = None /\ steps'[d] = 0
    BY <1>1, <1>2, <1>3, <2>2 DEF HighPhase, TypeOK
  <2>3. ASSUME NEW d \in Cores, d \notin ready'
        PROVE  /\ ShowsAccess(drv'[d], bus'[d])
               /\ drv'[d].x = before'[d] /\ drv'[d].pc = npc'[d]
               /\ steps'[d] = 1
    <3>1. CASE d = cur
      BY <1>1, <1>3, <1>5, <3>1
    <3>2. CASE d # cur
      <4>1. d \notin ready
        BY <1>1, <2>3, <3>2
      <4>2. drv'[d] = drv[d] /\ bus'[d] = bus[d] /\ npc'[d] = npc[d] /\ before' = before
              /\ steps' = steps
        BY <1>1, <3>2 DEF TypeOK
      <4> QED
        BY <1>1, <1>2, <1>3, <4>1, <4>2 DEF HighPhase
    <3> QED
      BY <3>1, <3>2
  <2> QED
    BY <2>1, <2>2, <2>3 DEF HighPhase, ShowsAccess
<1> QED
    BY <1>4, <1>6 DEF IndInv

\* The monitor's run empties the bus of what it sampled.
LEMMA IndObserve == ASSUME TypeOK, IndInv, Observe PROVE IndInv'
<1>1. /\ stage = "kernel" /\ stage' = "kernel" /\ Monitor \in ready
      /\ ready' = ready \ {Monitor} /\ bus' = [c \in Cores |-> None]
      /\ UNCHANGED <<clk, sreset, access, wrn, rdn, steps>>
    BY DEF Observe, Return, globals, engine
<1>2. clk = "0" /\ GlobalsFollowAccess /\ StepCount
    BY <1>1 DEF IndInv, HighPhase, TypeOK
<1> QED
    BY <1>1, <1>2 DEF IndInv, StepCount, GlobalsFollowAccess, EmulatorOnEdge, InEmulator,
       HighPhase, LowPhase, Drained

\* A delta that only updates the ports.
LEMMA IndSettle == ASSUME TypeOK, IndInv, Settle PROVE IndInv'
<1>1. /\ stage = "kernel" /\ stage' = "kernel" /\ ready = {} /\ ready' = {}
      /\ UNCHANGED <<clk, sreset, drv, access, wrn, rdn, bus, steps, npc, before>>
    BY DEF Settle, globals, engine, history
<1>2. GlobalsFollowAccess /\ StepCount /\ HighPhase /\ Drained
    BY <1>1 DEF IndInv
<1> QED
    BY <1>1, <1>2 DEF IndInv, StepCount, GlobalsFollowAccess, EmulatorOnEdge, InEmulator,
       HighPhase, LowPhase, Drained, ShowsAccess

\* A rising edge finds the bus empty; at a falling edge the ports hold what
\* the drivers held while the clock was high.
LEMMA IndTick == ASSUME TypeOK, IndInv, Tick PROVE IndInv'
<1>1. /\ stage = "kernel" /\ stage' = "kernel" /\ ready = {} /\ port = drv
      /\ clkEvent' = TRUE
      /\ UNCHANGED <<sreset, port, drv, access, wrn, rdn, bus, npc, before>>
    BY DEF Tick, globals, engine
<1>2. GlobalsFollowAccess /\ StepCount /\ HighPhase /\ Drained
    BY <1>1 DEF IndInv
<1>3. GlobalsFollowAccess' /\ EmulatorOnEdge'
    BY <1>1, <1>2 DEF GlobalsFollowAccess, EmulatorOnEdge, InEmulator
<1>4. CASE clk = "0"
  <2>1. clk' = "1" /\ ready' = Cores /\ steps' = [c \in Cores |-> 0]
    BY <1>4 DEF Tick, Woken
  <2> QED
    BY <1>1, <1>2, <1>3, <1>4, <2>1, NameAssumption
    DEF IndInv, StepCount, HighPhase, LowPhase, Drained
<1>5. CASE clk = "1"
  <2>1. clk' = "0" /\ ready' = Cores \cup {Monitor} /\ steps' = steps
    BY <1>5 DEF Tick, Woken
  <2> QED
    BY <1>1, <1>2, <1>3, <1>5, <2>1
    DEF IndInv, StepCount, HighPhase, LowPhase, Drained, ShowsAccess
<1> QED
    BY <1>4, <1>5 DEF TypeOK

\* A reset change with the clock low wakes the cores, never the monitor.
LEMMA IndResetChange ==
    ASSUME ResetWindow \subseteq {"0"}, TypeOK, IndInv, ResetChange
    PROVE  IndInv'
<1>1. /\ stage = "kernel" /\ stage' = "kernel" /\ ready = {} /\ ready' = Cores
      /\ clk = "0" /\ clk' = "0"
      /\ UNCHANGED <<access, wrn, rdn, bus, steps>>
    BY DEF ResetChange, globals, engine, history
<1>2. GlobalsFollowAccess /\ StepCount /\ Drained
    BY <1>1 DEF IndInv
<1> QED
    BY <1>1, <1>2, NameAssumption DEF IndInv, StepCount, GlobalsFollowAccess, EmulatorOnEdge,
       InEmulator, HighPhase, LowPhase, Drained

\* A testbench that changes the reset only while the clock is low.
SyncReset == ResetWindow \subseteq {"0"}

\* Every step keeps the inductive invariant.
LEMMA IndStep ==
    ASSUME SyncReset
    PROVE  TypeOK /\ IndInv /\ [Next]_vars => IndInv'
<1> SUFFICES ASSUME TypeOK, IndInv, [Next]_vars PROVE IndInv'
    OBVIOUS
<1>1. CASE \E c \in Cores : Process(c)
    BY <1>1, IndIdle, IndReset, IndEnter DEF Process
<1>2. CASE HookCode \/ HookMemRead \/ HookMemWrite \/ EmuReturn
    BY <1>2, IndHookCode, IndHookMem, IndReturn
<1>3. CASE EmuError \/ StopRun
    BY <1>3 DEF EmuError, StopRun, IndInv, StepCount, history
<1>4. CASE Observe \/ Settle \/ Tick \/ ResetChange
    BY <1>4, IndObserve, IndSettle, IndTick, IndResetChange DEF SyncReset
<1>5. CASE UNCHANGED vars
    BY <1>5 DEF vars, signals, globals, engine, history, IndInv, StepCount,
       GlobalsFollowAccess, EmulatorOnEdge, InEmulator, HighPhase, LowPhase, Drained,
       ShowsAccess
<1> QED
    BY <1>1, <1>2, <1>3, <1>4, <1>5 DEF Next, Simulator, Emulator, Done

\* The inductive invariant holds in every reachable state.
THEOREM Inductive == ASSUME SyncReset PROVE Spec => []IndInv
<1>1. Init => IndInv
    BY IndInit
<1>2. TypeOK /\ IndInv /\ [Next]_vars => IndInv'
    BY IndStep
<1> QED
    BY <1>1, <1>2, TypeCorrect, PTL DEF Spec

\* What the monitor samples on a falling edge is the access each instance's
\* last instruction made, for any number of instances sharing the globals.
THEOREM SampledAccess == ASSUME SyncReset PROVE Spec => []SampleShowsAccess
<1>1. TypeOK /\ IndInv => SampleShowsAccess
    BY DEF TypeOK, IndInv, SampleShowsAccess, Sampling, LowPhase, HighPhase
<1> QED
    BY <1>1, Inductive, TypeCorrect, PTL

\* The register ports lag the last instruction, the pc port does not.
THEOREM SampledRegisters == ASSUME SyncReset PROVE Spec => []SampleShowsRegisters
<1>1. TypeOK /\ IndInv => SampleShowsRegisters
    BY DEF TypeOK, IndInv, SampleShowsRegisters, Sampling, LowPhase, HighPhase
<1> QED
    BY <1>1, Inductive, TypeCorrect, PTL

\* Every instance executes exactly one instruction per clock cycle.
THEOREM OneStep == ASSUME SyncReset PROVE Spec => []OneStepPerCycle
<1>1. TypeOK /\ IndInv => OneStepPerCycle
    BY DEF TypeOK, IndInv, OneStepPerCycle, Sampling, StepCount, LowPhase, HighPhase
<1> QED
    BY <1>1, Inductive, TypeCorrect, PTL

\* uc_emu_start runs only in the delta of a rising edge.
THEOREM EdgeOnly == ASSUME SyncReset PROVE Spec => []EdgeSynchronous
<1>1. TypeOK /\ IndInv => EdgeSynchronous
    BY DEF TypeOK, IndInv, EdgeSynchronous, EmulatorOnEdge, InEmulator, HighPhase
<1> QED
    BY <1>1, Inductive, TypeCorrect, PTL

-----------------------------------------------------------------------------
\* With one instance the global pc is always where that instance has to go on.
PcInv == \A c \in Cores : /\ stage = "kernel" => pc = npc[c]
                          /\ stage = "fetch" => uc[cur].pc = npc[cur]

\* A single instance resumes where its last instruction left it, whenever the
\* testbench changes the reset.
THEOREM SinglePc ==
    ASSUME \A c, d \in Cores : c = d
    PROVE  Spec => []PcContinuity
<1>1. Init => PcInv
    BY DEF Init, PcInv
<1>2. TypeOK /\ PcInv /\ [Next]_vars => PcInv'
  <2> SUFFICES ASSUME TypeOK, PcInv, [Next]_vars PROVE PcInv'
    OBVIOUS
  <2>1. ASSUME NEW c \in Cores, ProcIdle(c) PROVE PcInv'
    BY <2>1 DEF PcInv, ProcIdle, engine, history
  <2>2. ASSUME NEW c \in Cores, ProcReset(c) PROVE PcInv'
    BY <2>2 DEF PcInv, ProcReset, engine, TypeOK
  <2>3. ASSUME NEW c \in Cores, ProcEnter(c) PROVE PcInv'
    BY <2>3 DEF PcInv, ProcEnter, TypeOK
  <2>4. CASE HookCode \/ HookMemRead \/ HookMemWrite \/ EmuError
    BY <2>4 DEF PcInv, HookCode, HookMemRead, HookMemWrite, HookMem, EmuError
  <2>5. CASE EmuReturn
    BY <2>5 DEF PcInv, EmuReturn, ReadPc, TypeOK
  <2>6. CASE Observe \/ Settle \/ Tick \/ ResetChange \/ StopRun \/ UNCHANGED vars
    BY <2>6 DEF PcInv, Observe, Settle, Tick, ResetChange, StopRun, vars, globals, engine,
       history
  <2> QED
    BY <2>1, <2>2, <2>3, <2>4, <2>5, <2>6 DEF Next, Simulator, Process, Emulator, Done
<1>3. TypeOK /\ PcInv => PcContinuity
    BY DEF TypeOK, PcInv, PcContinuity
<1> QED
    BY <1>1, <1>2, <1>3, TypeCorrect, PTL DEF Spec

-----------------------------------------------------------------------------
\* With one instance what the buses carry is what the globals hold: d, the
\* drivers of that instance, would not change if riscv_process drove them again.
AsGlobals(d) == d.dbus = dbus /\ d.abus = abus /\ d.pc = pc /\ d.x = xreg

\* Between two calls the drivers are as the globals, from the time the instance
\* has run in the high phase until the clock rises again, and while the clock
\* is low the ports are as the drivers.
PortInv ==
    /\ InEmulator => clk = "1"
    /\ stage = "kernel" =>
          \A c \in Cores :
             IF clk = "0" THEN /\ drv[c].pc # U => AsGlobals(drv[c])
                               /\ port[c].pc # U => port[c] = drv[c]
                          ELSE c \notin ready => AsGlobals(drv[c])

\* Driving the globals makes the drivers as the globals, and changes nothing
\* when they were already.
LEMMA Redriven ==
    ASSUME NEW d \in PortType, TypeOK
    PROVE  /\ AsGlobals(DriveBuses(d, pc))
           /\ AsGlobals(d) => DriveBuses(d, pc) = d
<1> DEFINE e == DriveBuses(d, pc)
<1>1. e \in PortType
    BY DriveBusesType DEF TypeOK
<1>2. /\ e.rdn = d.rdn /\ e.wrn = d.wrn
      /\ e.dbus = dbus /\ e.abus = abus /\ e.pc = pc /\ e.x = xreg
  <2>1. pc \in Addrs
    BY DEF TypeOK
  <2> QED
    BY <2>1, DriveBusesFields
<1> HIDE DEF e
<1>3. AsGlobals(d) => e = d
    BY <1>1, <1>2 DEF AsGlobals, PortType
<1> QED
    BY <1>2, <1>3 DEF AsGlobals, e

\* The fields of the drivers of an instance that riscv_process leaves.
LEMMA ReturnAsGlobals ==
    ASSUME NEW d \in PortType, NEW p, pc' = p, UNCHANGED <<dbus, abus, xreg>>
    PROVE  LET e == DriveBuses(d, p)
           IN  e.dbus = dbus' /\ e.abus = abus' /\ e.pc = pc' /\ e.x = xreg'
BY DEF DriveBuses, PortType

\* Every step of a single instance keeps its ports and drivers as the globals.
LEMMA PortStep ==
    ASSUME \A c, d \in Cores : c = d, TypeOK, PortInv, [Next]_vars
    PROVE  PortInv'
<1>1. ASSUME NEW c \in Cores, ProcIdle(c) PROVE PortInv'
  <2>1. /\ stage = "kernel" /\ stage' = "kernel" /\ clk = "0" /\ clk' = "0"
        /\ UNCHANGED <<pc, dbus, abus, xreg, port>>
        /\ drv' = [drv EXCEPT ![c] = DriveBuses(drv[c], pc)]
    BY <1>1 DEF ProcIdle, Clocked, engine, TypeOK
  <2>2. drv'[c] = DriveBuses(drv[c], pc) /\ drv[c] \in PortType
    BY <2>1 DEF TypeOK
  <2>3. AsGlobals(drv'[c]) /\ (AsGlobals(drv[c]) => drv'[c] = drv[c])
    BY <2>2, Redriven
  <2>4. port'[c].pc # U => port'[c] = drv'[c]
    BY <2>1, <2>3 DEF PortInv
  <2>5. AsGlobals(drv[c])' <=> AsGlobals(drv'[c])
    BY <2>1 DEF AsGlobals
  <2> QED
    BY <2>1, <2>3, <2>4, <2>5 DEF PortInv, InEmulator
<1>2. ASSUME NEW c \in Cores, ProcReset(c) PROVE PortInv'
  <2>1. /\ stage' = "kernel" /\ clk' = "1" /\ pc' = START_ADDRESS
        /\ UNCHANGED <<dbus, abus, xreg>>
        /\ drv' = [drv EXCEPT ![c] = DriveBuses(drv[c], START_ADDRESS)]
    BY <1>2 DEF ProcReset, Clocked, engine
  <2>2. drv'[c] = DriveBuses(drv[c], START_ADDRESS) /\ drv[c] \in PortType
    BY <2>1 DEF TypeOK
  <2>3. AsGlobals(drv[c])'
    BY <2>1, <2>2, ReturnAsGlobals DEF AsGlobals
  <2> QED
    BY <2>1, <2>3 DEF PortInv, InEmulator
<1>3. ASSUME NEW c \in Cores, ProcEnter(c) PROVE PortInv'
  <2>1. stage' = "fetch" /\ clk' = "1"
    BY <1>3 DEF ProcEnter, Clocked, signals
  <2> QED
    BY <2>1 DEF PortInv, InEmulator
<1>4. CASE HookCode \/ HookMemRead \/ HookMemWrite \/ EmuError \/ StopRun
  <2>1. stage' \in {"exec", "quit"} /\ clk' = clk /\ (stage' = "exec" => InEmulator)
    BY <1>4 DEF HookCode, HookMemRead, HookMemWrite, HookMem, EmuError, StopRun, signals,
       InEmulator
  <2> QED
    BY <2>1 DEF PortInv, InEmulator
<1>5. CASE EmuReturn
  <2>1. PICK p \in Addrs, x \in RegFile :
           /\ pc' = p
           /\ drv' = [drv EXCEPT ![cur] = [DriveBuses(drv[cur], p)
                         EXCEPT !.rdn = Strobe(rdn), !.wrn = Strobe(wrn)]]
    BY <1>5 DEF EmuReturn, ReadPc
  <2>2. /\ stage = "exec" /\ stage' = "kernel" /\ clk' = clk /\ clk = "1"
        /\ UNCHANGED <<dbus, abus, xreg>> /\ cur \in Cores
    BY <1>5 DEF EmuReturn, PortInv, InEmulator, TypeOK
  <2>3. /\ drv'[cur] = [DriveBuses(drv[cur], p)
              EXCEPT !.rdn = Strobe(rdn), !.wrn = Strobe(wrn)]
        /\ drv[cur] \in PortType
    BY <2>1, <2>2 DEF TypeOK
  <2>4. /\ drv'[cur].dbus = dbus' /\ drv'[cur].abus = abus' /\ drv'[cur].pc = pc'
        /\ drv'[cur].x = xreg'
    <3> DEFINE e == DriveBuses(drv[cur], p)
    <3>1. e \in PortType
      BY <2>3, DriveBusesType
    <3>2. e.dbus = dbus /\ e.abus = abus /\ e.pc = p /\ e.x = xreg
      BY <2>3, DriveBusesFields
    <3>3. drv'[cur] = [e EXCEPT !.rdn = Strobe(rdn), !.wrn = Strobe(wrn)]
      BY <2>3
    <3> HIDE DEF e
    <3> QED
      BY <2>1, <2>2, <3>1, <3>2, <3>3 DEF PortType
  <2>5. \A c \in Cores : AsGlobals(drv[c])'
    BY <2>2, <2>4 DEF AsGlobals
  <2> QED
    BY <2>2, <2>5 DEF PortInv, InEmulator
<1>6. CASE Observe
  <2>1. /\ stage = "kernel" /\ UNCHANGED <<stage, clk, port, drv, pc, dbus, abus, xreg>>
        /\ ready' = ready \ {Monitor}
    BY <1>6 DEF Observe, Return, globals, engine
  <2> QED
    BY <2>1, NameAssumption DEF PortInv, InEmulator, AsGlobals
<1>7. CASE Settle \/ ResetChange
  <2>1. /\ stage = "kernel" /\ UNCHANGED <<stage, clk, drv, pc, dbus, abus, xreg>>
        /\ port' = drv /\ ready = {}
    BY <1>7 DEF Settle, ResetChange, globals, engine
  <2> QED
    BY <2>1 DEF PortInv, InEmulator, AsGlobals
<1>8. CASE Tick
  <2>1. /\ stage = "kernel" /\ UNCHANGED <<stage, port, drv, pc, dbus, abus, xreg>>
        /\ port = drv /\ ready = {} /\ Cores \subseteq ready' /\ clk' \in {"0", "1"}
        /\ clk' = "0" => clk = "1"
    BY <1>8 DEF Tick, Woken, globals, engine, TypeOK
  <2> QED
    BY <2>1 DEF PortInv, InEmulator, AsGlobals
<1>9. CASE UNCHANGED vars
    BY <1>9 DEF vars, signals, globals, engine, PortInv, InEmulator, AsGlobals
<1> QED
    BY <1>1, <1>2, <1>3, <1>4, <1>5, <1>6, <1>7, <1>8, <1>9
    DEF Next, Simulator, Process, Emulator, Done

\* The outputs of a single instance are registered: once driven, they change
\* only while the clock is high, whenever the testbench changes the reset.
THEOREM RegisteredOutputs ==
    ASSUME \A c, d \in Cores : c = d
    PROVE  Spec => PortsRegistered
<1>1. Init => PortInv
    BY DEF Init, PortInv, InEmulator, Undriven
<1>2. TypeOK /\ PortInv /\ [Next]_vars => PortInv'
    BY PortStep
<1>3. TypeOK /\ PortInv /\ [Next]_vars =>
         [\A c \in Cores : port'[c] # port[c] /\ port[c].pc # U => clk = "1"]_vars
  <2> SUFFICES ASSUME TypeOK, PortInv, [Next]_vars,
                      NEW c \in Cores, port'[c] # port[c], port[c].pc # U
               PROVE  clk = "1"
    OBVIOUS
  <2>1. Settle \/ ResetChange
    BY DEF Next, Simulator, Process, Emulator, Done, ProcIdle, ProcReset, ProcEnter, HookCode,
       HookMemRead, HookMemWrite, HookMem, EmuReturn, EmuError, Observe, Tick, StopRun, vars,
       signals
  <2>2. stage = "kernel" /\ port' = drv
    BY <2>1 DEF Settle, ResetChange
  <2> QED
    BY <2>2 DEF PortInv, TypeOK
<1> QED
    BY <1>1, <1>2, <1>3, TypeCorrect, PTL DEF Spec, PortsRegistered

-----------------------------------------------------------------------------
\* In reset no instance puts an access on the bus.
ResetQuiet == clk = "1" /\ sreset = "1" => \A c \in Cores : bus[c] = None

\* Every step keeps it so: only an instruction puts an access on the bus, and
\* sreset does not rise while the clock is high.
LEMMA QuietStep ==
    ASSUME SyncReset
    PROVE  TypeOK /\ IndInv /\ ResetQuiet /\ [Next]_vars => ResetQuiet'
<1> SUFFICES ASSUME TypeOK, IndInv, ResetQuiet, [Next]_vars PROVE ResetQuiet'
    OBVIOUS
<1>1. CASE \E c \in Cores : Process(c)
    BY <1>1 DEF Process, ProcIdle, ProcReset, ProcEnter, history, signals, ResetQuiet
<1>2. CASE HookCode \/ HookMemRead \/ HookMemWrite \/ EmuError
    BY <1>2 DEF HookCode, HookMemRead, HookMemWrite, HookMem, EmuError, history, signals,
       ResetQuiet
<1>3. CASE EmuReturn
  <2>1. stage = "exec" /\ sreset' = sreset
    BY <1>3 DEF EmuReturn
  <2>2. sreset # "1"
    BY <2>1 DEF IndInv, EmulatorOnEdge, InEmulator
  <2> QED
    BY <2>1, <2>2 DEF ResetQuiet
<1>4. CASE Observe \/ Settle \/ StopRun
    BY <1>4 DEF Observe, Settle, StopRun, history, signals, ResetQuiet
<1>5. CASE Tick
  <2>1. stage = "kernel" /\ ready = {} /\ bus' = bus
    BY <1>5 DEF Tick
  <2>2. clk = "0" => \A c \in Cores : bus[c] = None
    BY <2>1 DEF IndInv, Drained
  <2>3. clk = "1" => clk' = "0"
    BY <1>5 DEF Tick
  <2> QED
    BY <2>1, <2>2, <2>3 DEF ResetQuiet, TypeOK
<1>6. CASE ResetChange
    BY <1>6 DEF ResetChange, SyncReset, ResetQuiet
<1>7. CASE UNCHANGED vars
    BY <1>7 DEF vars, signals, history, ResetQuiet
<1> QED
    BY <1>1, <1>2, <1>3, <1>4, <1>5, <1>6, <1>7 DEF Next, Simulator, Emulator, Done

-----------------------------------------------------------------------------
\* Ports that show an access decode to it.
LEMMA ShownIsAccess ==
    ASSUME NEW p \in PortType, NEW acc \in Access \cup {None}, ShowsAccess(p, acc)
    PROVE  Shown(p) = acc
<1>1. CASE acc = None
    BY <1>1 DEF Shown, ShowsAccess
<1>2. CASE acc \in Access /\ acc # None
  <2>1. acc = [kind |-> acc.kind, addr |-> acc.addr, data |-> acc.data]
      /\ acc.kind \in {"read", "write"}
    BY <1>2 DEF Access
  <2> QED
    BY <1>2, <2>1 DEF Shown, ShowsAccess
<1> QED
    BY <1>1, <1>2

\* The mapped variables.
Waiting == IF clk = "1" THEN ready ELSE {}
Seen    == [c \in Cores |-> IF Sampling /\ clk = "0" THEN Shown(port[c]) ELSE None]

\* A step that leaves these variables alone leaves the mapped ones alone.
LEMMA Stutter ==
    ASSUME UNCHANGED <<clk, ready, bus, port, sreset>>,
           stage \in {"kernel", "fetch", "exec"}, stage' \in {"kernel", "fetch", "exec"},
           stage = stage' \/ clk = "1"
    PROVE  UNCHANGED <<BusPhase, Waiting, bus, Seen>>
<1>1. BusPhase' = BusPhase
    BY DEF BusPhase
<1>2. Waiting' = Waiting
    BY DEF Waiting
<1>3. Seen' = Seen
    BY DEF Seen, Sampling
<1> QED
    BY <1>1, <1>2, <1>3

\* Time 0 maps to an idle bus.
LEMMA BusInit == Init => Bus!Init
<1> SUFFICES ASSUME Init PROVE Bus!Init
    OBVIOUS
<1>1. clk = "0" /\ stage = "kernel" /\ ready = Cores /\ Monitor \notin ready
    BY NameAssumption DEF Init
<1>2. BusPhase = "idle"
    BY <1>1 DEF BusPhase
<1>3. ~Sampling
    BY <1>1 DEF Sampling
<1> QED
    BY <1>1, <1>2, <1>3 DEF Init, Bus!Init, Bus!Nothing

-----------------------------------------------------------------------------
\* The turn of an instance: it leaves `ready' with access acc on the bus.
LEMMA TurnStep ==
    ASSUME TypeOK, IndInv, NEW c \in Cores, NEW acc \in Access \cup {None},
           clk = "1", c \in ready, stage # "quit", stage' = "kernel",
           ready' = ready \ {c}, bus' = [bus EXCEPT ![c] = acc],
           UNCHANGED <<clk, port, sreset>>
    PROVE  Bus!Next
<1>1. BusPhase = "execute" /\ BusPhase' = BusPhase
    BY DEF BusPhase
<1>2. Waiting = ready /\ Waiting' = ready \ {c}
    BY DEF Waiting
<1>3. Seen' = Seen
    BY DEF Seen
<1>4. Bus!Turn(c, acc)
    BY <1>1, <1>2, <1>3 DEF Bus!Turn, Waiting, Seen
<1> QED
    BY <1>4 DEF Bus!Next, Bus!Cycle, Bus!Take

\* Both clock edges.
LEMMA BusTick ==
    ASSUME TypeOK, IndInv, ResetQuiet, Tick
    PROVE  Bus!Next
<1>1. /\ stage = "kernel" /\ stage' = "kernel" /\ ready = {} /\ port = drv
      /\ UNCHANGED <<sreset, port, bus>>
    BY DEF Tick, engine
<1>2. Seen = Bus!Nothing
    BY <1>1 DEF Seen, Sampling, Bus!Nothing
<1>3. CASE clk = "0"
  <2>1. clk' = "1" /\ ready' = Cores
    BY <1>3 DEF Tick, Woken
  <2>2. BusPhase = "idle" /\ BusPhase' = "execute" /\ Waiting' = Cores
    BY <1>1, <1>3, <2>1 DEF BusPhase, Waiting
  <2>3. Seen' = Seen
    BY <1>1, <1>2, <2>1 DEF Seen, Bus!Nothing
  <2>4. Bus!Rise
    BY <1>1, <2>2, <2>3 DEF Bus!Rise, Waiting, Seen
  <2> QED
    BY <2>4 DEF Bus!Next
<1>4. CASE clk = "1"
  <2>1. clk' = "0" /\ ready' = Cores \cup {Monitor}
    BY <1>4 DEF Tick, Woken
  <2>2. BusPhase = "execute" /\ BusPhase' = "sample" /\ Waiting = {} /\ Waiting' = {}
    BY <1>1, <1>4, <2>1 DEF BusPhase, Waiting
  <2>3. ASSUME NEW c \in Cores
        PROVE  (IF Sampling' /\ clk' = "0" THEN Shown(port'[c]) ELSE None) = bus[c]
    <3>1. CASE sreset = "1"
      BY <1>1, <1>4, <3>1 DEF Sampling, ResetQuiet
    <3>2. CASE sreset # "1"
      <4>1. ShowsAccess(port[c], bus[c])
        BY <1>1, <1>4, <3>2 DEF IndInv, HighPhase
      <4>2. port[c] \in PortType /\ bus[c] \in Access \cup {None}
        BY DEF TypeOK
      <4>3. Shown(port[c]) = bus[c]
        BY <4>1, <4>2, ShownIsAccess
      <4> QED
        BY <1>1, <2>1, <3>2, <4>3 DEF Sampling
    <3> QED
      BY <3>1, <3>2
  <2>4. Seen' = bus
    BY <2>3 DEF Seen, TypeOK
  <2>5. Bus!Fall
    BY <1>1, <2>2, <2>4 DEF Bus!Fall, Waiting, Seen
  <2> QED
    BY <2>5 DEF Bus!Next, Bus!Cycle
<1> QED
    BY <1>3, <1>4 DEF TypeOK

\* The monitor's run is the sampling.
LEMMA BusObserve ==
    ASSUME TypeOK, IndInv, Observe
    PROVE  Bus!Next
<1>1. /\ stage = "kernel" /\ stage' = "kernel" /\ Monitor \in ready
      /\ ready' = ready \ {Monitor} /\ bus' = [c \in Cores |-> None]
      /\ UNCHANGED <<clk, sreset, port>>
    BY DEF Observe, Return, engine
<1>2. clk = "0"
    BY <1>1 DEF IndInv, HighPhase, TypeOK
<1>3. BusPhase = "sample" /\ BusPhase' = "idle" /\ Waiting' = Waiting
    BY <1>1, <1>2 DEF BusPhase, Waiting
<1>4. Seen' = Bus!Nothing
    BY <1>1 DEF Seen, Sampling, Bus!Nothing
<1>5. Bus!Sample
    BY <1>1, <1>3, <1>4 DEF Bus!Sample, Bus!Nothing, Waiting, Seen
<1> QED
    BY <1>5 DEF Bus!Next, Bus!Cycle

\* A step that ends the simulation.
LEMMA BusStop ==
    ASSUME TypeOK, IndInv, EmuError \/ StopRun
    PROVE  Bus!Next
<1>1. /\ stage # "quit" /\ stage' = "quit"
      /\ UNCHANGED <<clk, ready, bus, port, sreset>>
      /\ stage = "kernel" => ready = {}
    BY DEF EmuError, StopRun, signals, history
<1>2. clk = "0" => Monitor \notin ready
    BY <1>1 DEF IndInv, EmulatorOnEdge, InEmulator, EmuError, StopRun
<1>3. BusPhase \in {"idle", "execute"} /\ BusPhase' = "stopped" /\ Waiting' = Waiting
    BY <1>1, <1>2 DEF BusPhase, Waiting, TypeOK
<1>4. Seen' = Seen
    BY <1>1, <1>2 DEF Seen, Sampling
<1>5. Bus!Stop
    BY <1>1, <1>3, <1>4 DEF Bus!Stop, Waiting, Seen
<1> QED
    BY <1>5 DEF Bus!Next

\* Every step of the bridge is a step of the abstract bus or leaves it alone.
LEMMA BusStep ==
    ASSUME SyncReset, TypeOK, IndInv, ResetQuiet, [Next]_vars
    PROVE  [Bus!Next]_(Bus!vars)
<1> SUFFICES Bus!Next \/ UNCHANGED <<BusPhase, Waiting, bus, Seen>>
    BY DEF Bus!vars, Waiting, Seen
<1>1. ASSUME NEW c \in Cores, ProcIdle(c) PROVE UNCHANGED <<BusPhase, Waiting, bus, Seen>>
  <2>1. /\ stage = "kernel" /\ stage' = "kernel" /\ clk = "0" /\ ready' = ready \ {c}
        /\ UNCHANGED <<clk, bus, port, sreset>>
    BY <1>1 DEF ProcIdle, Clocked, Return, engine, history, TypeOK
  <2>2. Monitor \in ready' <=> Monitor \in ready
    BY <2>1, NameAssumption
  <2> QED
    BY <2>1, <2>2 DEF BusPhase, Waiting, Seen, Sampling
<1>2. ASSUME NEW c \in Cores, ProcReset(c) PROVE Bus!Next
  <2>1. /\ stage = "kernel" /\ stage' = "kernel" /\ clk = "1" /\ c \in ready
        /\ ready' = ready \ {c} /\ bus' = bus
        /\ UNCHANGED <<clk, port, sreset>>
    BY <1>2 DEF ProcReset, Clocked, Return, engine
  <2>2. bus[c] = None
    BY <1>2, <2>1 DEF IndInv, HighPhase
  <2>3. bus' = [bus EXCEPT ![c] = None]
    BY <2>1, <2>2 DEF TypeOK
  <2> QED
    BY <2>1, <2>3, TurnStep
<1>3. ASSUME NEW c \in Cores, ProcEnter(c) PROVE UNCHANGED <<BusPhase, Waiting, bus, Seen>>
    BY <1>3, Stutter DEF ProcEnter, Clocked, signals
<1>4. CASE HookCode \/ HookMemRead \/ HookMemWrite
  <2>1. /\ stage \in {"fetch", "exec"} /\ stage' = "exec"
        /\ UNCHANGED <<clk, ready, bus, port, sreset>>
    BY <1>4 DEF HookCode, HookMemRead, HookMemWrite, HookMem, signals, history
  <2>2. clk = "1"
    BY <2>1 DEF IndInv, EmulatorOnEdge, InEmulator
  <2> QED
    BY <2>1, <2>2, Stutter
<1>5. CASE EmuReturn
  <2>1. /\ stage = "exec" /\ stage' = "kernel" /\ ready' = ready \ {cur}
        /\ bus' = [bus EXCEPT ![cur] = access]
        /\ UNCHANGED <<clk, port, sreset>>
    BY <1>5 DEF EmuReturn, Return
  <2>2. clk = "1" /\ cur \in ready /\ cur \in Cores /\ access \in Access \cup {None}
    BY <2>1 DEF IndInv, EmulatorOnEdge, InEmulator, TypeOK
  <2> QED
    BY <2>1, <2>2, TurnStep
<1>6. CASE EmuError \/ StopRun
    BY <1>6, BusStop
<1>7. CASE Observe
    BY <1>7, BusObserve
<1>8. CASE Settle
  <2>1. /\ stage = "kernel" /\ stage' = "kernel" /\ ready = {} /\ ready' = {}
        /\ UNCHANGED <<clk, bus, sreset>>
    BY <1>8 DEF Settle, engine, history
  <2> QED
    BY <2>1 DEF BusPhase, Waiting, Seen, Sampling
<1>9. CASE Tick
    BY <1>9, BusTick
<1>10. CASE ResetChange
  <2>1. /\ stage = "kernel" /\ stage' = "kernel" /\ ready = {} /\ ready' = Cores
        /\ clk = "0" /\ UNCHANGED <<clk, bus>>
    BY <1>10 DEF ResetChange, SyncReset, engine, history
  <2> QED
    BY <2>1, NameAssumption DEF BusPhase, Waiting, Seen, Sampling
<1>11. CASE UNCHANGED vars
    BY <1>11 DEF vars, signals, engine, history, BusPhase, Waiting, Seen, Sampling
<1> QED
    BY <1>1, <1>2, <1>3, <1>4, <1>5, <1>6, <1>7, <1>8, <1>9, <1>10, <1>11
    DEF Next, Simulator, Process, Emulator, Done

\* Under a testbench that changes the reset while the clock is low, every
\* behaviour of the bridge is, cycle by cycle, one of the abstract bus: the
\* safety part of BusSpec.
THEOREM ImplementsBus ==
    ASSUME SyncReset
    PROVE  Spec => Bus!Init /\ [][Bus!Next]_(Bus!vars)
<1>1. Init => Bus!Init /\ ResetQuiet
    BY BusInit DEF Init, ResetQuiet
<1>2. TypeOK /\ IndInv /\ ResetQuiet /\ [Next]_vars => ResetQuiet'
    BY QuietStep
<1>3. TypeOK /\ IndInv /\ ResetQuiet /\ [Next]_vars => [Bus!Next]_(Bus!vars)
    BY BusStep
<1> QED
    BY <1>1, <1>2, <1>3, Inductive, TypeCorrect, PTL DEF Spec

=============================================================================
