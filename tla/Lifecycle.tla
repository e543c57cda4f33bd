----------------------------- MODULE Lifecycle -----------------------------
(***************************************************************************)
(* What the FLI library of src/src/fli_riscv.c acquires and releases:      *)
(* cif_init() is called at elaboration for every instance of the entity,   *)
(* allocates its inst_rec_struct (ip), opens its Unicorn engine, loads its *)
(* program (Loader) and registers the callbacks that release record and    *)
(* engine on quit and on restart;                                          *)
(* riscv_process() uses both and ends the simulation with mti_Quit() when  *)
(* the engine reports an error.                                            *)
(*                                                                         *)
(* The simulator is external: it runs the callbacks of a list in any       *)
(* order, and a restart forgets both lists before it elaborates again.     *)
(* mti_FatalError() and mti_Quit() do not return to their caller.          *)
(* Definitions marked "mutant" are slips the code could have made, which   *)
(* some property must detect.                                              *)
(***************************************************************************)
EXTENDS Loader

CONSTANTS
    Instances,      \* instances of the entity riscv
    None,           \* no instance
    Names,          \* file names the generic may be
    MaxRestarts     \* bound: restarts of the simulation

ASSUME RestartAssumption == MaxRestarts \in Nat
ASSUME NoneAssumption    == None \notin Instances

\* A file name has no NUL in it, and fits the buffer.
ASSUME NamesAssumption   == \A name \in Names : /\ name \in Seq(Range(name) \ {NulChar})
                                               /\ Len(name) \in 0..(MAX_WORD - 1)

VARIABLES
    phase,      \* what the simulator is doing
    after,      \* the phase that follows "closing"
    todo,       \* instances still to be elaborated
    quitCB,     \* callbacks registered with mti_AddQuitCB
    restartCB,  \* callbacks registered with mti_AddRestartCB
    pending,    \* callbacks still to run while closing
    ip,         \* ip[i]: the inst_rec_struct of instance i
    uc,         \* uc[i]: the engine of instance i
    generic,    \* generic[i]: the file name instance i is given
    filename,   \* the static buffer of get_generic_filename
    loaded,     \* loaded[i]: what init_unicorn did to the engine of instance i
    emulating,  \* the instance inside uc_emu_start
    restarts    \* restarts so far

lists == <<quitCB, restartCB>>
image == <<generic, filename, loaded>>
vars  == <<phase, after, todo, lists, pending, ip, uc, image, emulating, restarts>>

Callback == [fn : {"mti_Free", "call_unicorn_cleanup"}, arg : Instances]

TypeOK ==
    /\ phase \in {"elaborate", "run", "fatal", "closing", "exited"}
    /\ after \in {"elaborate", "exited"}
    /\ todo \subseteq Instances
    /\ quitCB \in Seq(Callback) /\ restartCB \in Seq(Callback) /\ pending \in Seq(Callback)
    /\ ip \in [Instances -> {"none", "live", "freed", "corrupt"}]
    /\ uc \in [Instances -> {"none", "open", "closed", "corrupt"}]
    /\ generic \in [Instances -> Names]
    /\ DOMAIN filename = 0..(MAX_WORD - 1) /\ NulChar \in Range(filename)
    /\ DOMAIN loaded = Instances
    /\ emulating \in Instances \cup {None}
    /\ restarts \in 0..MaxRestarts

NotLoaded == [mem |-> ZeroMemory, total |-> 0, hooks |-> FALSE]

Init ==
    /\ phase = "elaborate" /\ after = "exited" /\ todo = Instances
    /\ quitCB = <<>> /\ restartCB = <<>> /\ pending = <<>>
    /\ ip = [i \in Instances |-> "none"] /\ uc = [i \in Instances |-> "none"]
    /\ generic \in [Instances -> Names] /\ filename = EmptyName
    /\ loaded = [i \in Instances |-> NotLoaded]
    /\ emulating = None /\ restarts = 0

-----------------------------------------------------------------------------
\* mti_AddQuitCB and mti_AddRestartCB with the same callback.
RegisterQuit(cbs) == quitCB' = quitCB \o cbs /\ UNCHANGED restartCB  \* mutant
Register(cbs)     == quitCB' = quitCB \o cbs /\ restartCB' = restartCB \o cbs

FreeNull(i) == [fn |-> "mti_Free", arg |-> None]  \* mutant
FreeCB(i)   == [fn |-> "mti_Free", arg |-> i]
CloseCB(i)  == [fn |-> "call_unicorn_cleanup", arg |-> i]

\* get_generic_filename meets a generic that is not an array: nothing has been
\* acquired yet.
CifInitBadGeneric(i) ==
    /\ phase = "elaborate" /\ i \in todo
    /\ phase' = "fatal"
    /\ UNCHANGED <<after, todo, lists, pending, ip, uc, image, emulating, restarts>>

\* What is registered by the time uc_open fails: the release of ip alone.
BothCallbacks(i)  == <<FreeCB(i), CloseCB(i)>>  \* mutant
EarlyCallbacks(i) == <<FreeCB(i)>>

CifInitOpenFails(i) ==
    /\ phase = "elaborate" /\ i \in todo
    /\ filename' = get_generic_filename(filename, generic[i])
    /\ ip' = [ip EXCEPT ![i] = "live"]
    /\ Register(EarlyCallbacks(i))
    /\ phase' = "fatal"
    /\ UNCHANGED <<after, todo, pending, uc, generic, loaded, emulating, restarts>>

\* cif_init runs to its end, whether or not init_unicorn finds the image file
\* (its result is ignored).  The simulation starts after the last instance.
CifInit(i) ==
    /\ phase = "elaborate" /\ i \in todo
    /\ filename' = get_generic_filename(filename, generic[i])
    /\ ip' = [ip EXCEPT ![i] = "live"]
    /\ uc' = [uc EXCEPT ![i] = "open"]
    /\ loaded' = [loaded EXCEPT ![i] = init_unicorn(CString(filename'))]
    /\ Register(EarlyCallbacks(i) \o <<CloseCB(i)>>)
    /\ todo' = todo \ {i}
    /\ phase' = IF todo' = {} THEN "run" ELSE "elaborate"
    /\ UNCHANGED <<after, pending, generic, emulating, restarts>>

-----------------------------------------------------------------------------
\* riscv_process on a rising edge out of reset: into uc_emu_start.
Enter(i) ==
    /\ phase = "run" /\ emulating = None
    /\ emulating' = i
    /\ UNCHANGED <<phase, after, todo, lists, pending, ip, uc, image, restarts>>

\* uc_emu_start succeeds and riscv_process returns.
Leave ==
    /\ phase = "run" /\ emulating # None
    /\ emulating' = None
    /\ UNCHANGED <<phase, after, todo, lists, pending, ip, uc, image, restarts>>

\* The simulator leaves the simulation and starts on the callbacks of a list.
Close(cbs, next) ==
    /\ phase' = "closing" /\ after' = next
    /\ pending' = cbs
    /\ UNCHANGED <<todo, lists, ip, uc, image, restarts>>

\* uc_emu_start has returned an error: mti_Quit.
QuitInHook  == Close(quitCB, "exited") /\ UNCHANGED emulating  \* mutant: mti_Quit in hook_intr
QuitOnError == Close(quitCB, "exited") /\ emulating' = None

EmuError == phase = "run" /\ emulating # None /\ QuitOnError

\* The user quits, also after a fatal error, or restarts the simulation.
UserQuit ==
    /\ phase \in {"run", "fatal"} /\ emulating = None
    /\ Close(quitCB, "exited")
    /\ UNCHANGED emulating

UserRestart ==
    /\ phase \in {"run", "fatal"} /\ emulating = None
    /\ restarts < MaxRestarts
    /\ Close(restartCB, "elaborate")
    /\ UNCHANGED emulating

-----------------------------------------------------------------------------
\* mti_Free of an inst_rec_struct, call_unicorn_cleanup of an engine.
RunCallback(cb) ==
    IF cb.fn = "mti_Free"
    THEN /\ ip' = [ip EXCEPT ![cb.arg] = IF @ = "live" THEN "freed" ELSE "corrupt"]
         /\ UNCHANGED uc
    ELSE /\ uc' = [uc EXCEPT ![cb.arg] = IF @ = "open" THEN "closed" ELSE "corrupt"]
         /\ UNCHANGED ip

Closing ==
    /\ phase = "closing"
    /\ \E k \in DOMAIN pending :
          /\ RunCallback(pending[k])
          /\ pending' = RemoveAt(pending, k)
    /\ UNCHANGED <<phase, after, todo, lists, image, emulating, restarts>>

\* All callbacks have run: exit, or elaborate the design again, with the
\* library loaded anew or kept.
Closed ==
    /\ phase = "closing" /\ pending = <<>>
    /\ phase' = after
    /\ IF after = "elaborate"
       THEN /\ todo' = Instances
            /\ quitCB' = <<>> /\ restartCB' = <<>>
            /\ restarts' = restarts + 1
            /\ loaded' = [i \in Instances |-> NotLoaded]
            /\ filename' \in {filename, EmptyName}
       ELSE UNCHANGED <<todo, lists, restarts, loaded, filename>>
    /\ UNCHANGED <<after, pending, ip, uc, generic, emulating>>

Done == phase = "exited" /\ UNCHANGED vars

Elaborate == \E i \in Instances :
                CifInitBadGeneric(i) \/ CifInitOpenFails(i) \/ CifInit(i)
Simulate  == (\E i \in Instances : Enter(i)) \/ Leave \/ EmuError

Next == Elaborate \/ Simulate \/ UserQuit \/ UserRestart \/ Closing \/ Closed \/ Done

Spec == Init /\ [][Next]_vars

-----------------------------------------------------------------------------
\* Properties

\* Nothing is freed twice, no engine is closed twice or closed without having
\* been opened, whichever way the simulation ends and however often it restarts.
NoDoubleRelease == \A i \in Instances : ip[i] # "corrupt" /\ uc[i] # "corrupt"

\* When the callbacks have run, for a quit or a restart, nothing that
\* cif_init acquired is left behind, on its error paths too.
AllReleased ==
    phase = "closing" /\ pending = <<>> =>
        \A i \in Instances : ip[i] # "live" /\ uc[i] # "open"

\* An engine inside uc_emu_start is open, and its port record is allocated.
NoUseAfterRelease ==
    emulating # None => ip[emulating] = "live" /\ uc[emulating] = "open"

\* When the simulation runs, the memory of each engine holds the file its own
\* generic names, from START_ADDRESS on and as far as the mapping goes, and
\* nothing else; the total printed is the size of the file, the part that did
\* not fit included; the engine has hooks exactly if there was such a file.
LoadsOwnImage ==
    phase = "run" => \A i \in Instances :
        LET found == generic[i] \in DOMAIN Files
            bytes == IF found THEN Files[generic[i]] ELSE <<>>
            At(a) == a - START_ADDRESS + 1
        IN  /\ loaded[i].hooks = found
            /\ loaded[i].total = Len(bytes)
            /\ \A a \in Mapped : loaded[i].mem[a] =
                  IF a >= START_ADDRESS /\ At(a) <= Len(bytes) THEN bytes[At(a)] ELSE 0

=============================================================================
