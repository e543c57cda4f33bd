-------------------------- MODULE BusTransactions --------------------------
(***************************************************************************)
(* What the bridge promises a testbench, without the simulator's deltas,   *)
(* the drivers, the hooks and the globals between them: in each clock      *)
(* cycle every core takes one turn, in any order; at the falling edge the  *)
(* testbench sees exactly the accesses made in those turns; a cycle that   *)
(* has begun comes to its end.  A core in reset takes its turn without an  *)
(* access.  Bridge implements this specification (BridgeBus).              *)
(***************************************************************************)

CONSTANTS
    Cores,      \* instances of the entity riscv
    Access,     \* memory accesses
    None        \* no access

VARIABLES
    phase,      \* "idle", "execute", "sample" or "stopped"
    waiting,    \* cores that have yet to take their turn in this cycle
    bus,        \* bus[c]: access made by c in this cycle, until it is sampled
    seen        \* seen[c]: access of c as the testbench sees it

vars == <<phase, waiting, bus, seen>>

Nothing == [c \in Cores |-> None]

Init ==
    /\ phase = "idle" /\ waiting = {}
    /\ bus = Nothing /\ seen = Nothing

\* The rising edge.
Rise ==
    /\ phase = "idle" /\ phase' = "execute"
    /\ waiting' = Cores
    /\ UNCHANGED <<bus, seen>>

\* An instruction of core c, or c in reset, puts its access on the bus.
Turn(c, access) ==
    /\ phase = "execute" /\ c \in waiting
    /\ waiting' = waiting \ {c}
    /\ bus' = [bus EXCEPT ![c] = access]
    /\ UNCHANGED <<phase, seen>>

\* The falling edge: the testbench sees the bus.
Fall ==
    /\ phase = "execute" /\ waiting = {}
    /\ phase' = "sample"
    /\ seen' = bus
    /\ UNCHANGED <<waiting, bus>>

\* The testbench has sampled the bus.
Sample ==
    /\ phase = "sample" /\ phase' = "idle"
    /\ bus' = Nothing /\ seen' = Nothing
    /\ UNCHANGED waiting

\* The simulation ends.  An access it ends with is never sampled.
Stop ==
    /\ phase \in {"idle", "execute"} /\ phase' = "stopped"
    /\ UNCHANGED <<waiting, bus, seen>>

Take  == \E c \in Cores, access \in Access \cup {None} : Turn(c, access)
Cycle == Take \/ Fall \/ Sample

Next == Rise \/ Cycle \/ Stop

\* A cycle that has begun goes on; nothing obliges a new one to begin.
Spec == Init /\ [][Next]_vars /\ WF_vars(Cycle)

=============================================================================
