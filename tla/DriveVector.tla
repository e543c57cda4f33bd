---------------------------- MODULE DriveVector ----------------------------
(***************************************************************************)
(* drive_lv_uint() of src/src/fli_riscv.c: an unsigned word is scheduled   *)
(* on the drivers of a std_logic_vector, one element per iteration, from   *)
(* the rightmost element (highest index) to the leftmost.  A word is the   *)
(* function from bit positions to BOOLEAN that it is in binary, so that a  *)
(* right shift is a shift of positions and nothing depends on its size.    *)
(* Definitions marked "mutant" are slips the code could have made.         *)
(***************************************************************************)
EXTENDS Integers

CONSTANTS
    WIDTH,      \* bits of a uint32_t: 32
    Lengths     \* lengths of the vectors it is called for

ASSUME WidthAssumption  == WIDTH \in Nat \ {0}
ASSUME LengthAssumption == Lengths \subseteq Nat

Word == [0..(WIDTH - 1) -> BOOLEAN]

VARIABLES
    arraylen,   \* length of the vector
    newval,     \* what is left of the value
    i,          \* loop counter
    drivers,    \* drivers[k]: what this call scheduled on element k, counted from the left
    control,    \* "start", "loop", "done", or "fatal" after mti_FatalError
    value       \* history: the argument newval of the call

vars == <<arraylen, newval, i, drivers, control, value>>

TypeOK ==
    /\ arraylen \in Lengths
    /\ newval \in Word
    /\ value \in Word
    /\ control \in {"start", "loop", "done", "fatal"}
    /\ i \in Int
    /\ control = "loop" => i \in -1..(arraylen - 1)
    /\ drivers \in [0..(arraylen - 1) -> {"none", "0", "1"}]

Init ==
    /\ arraylen \in Lengths
    /\ value \in Word
    /\ newval = value
    /\ i = -1
    /\ drivers = [k \in 0..(arraylen - 1) |-> "none"]
    /\ control = "start"

\* newval >>= 1.
NoShift(w)    == w  \* mutant
ShiftRight(w) == [b \in 0..(WIDTH - 1) |-> IF b = WIDTH - 1 THEN FALSE ELSE w[b + 1]]

\* Vectors longer than a word are refused.
Wide    == FALSE  \* mutant
TooLong == arraylen > WIDTH

Start ==
    /\ control = "start"
    /\ IF TooLong THEN control' = "fatal" /\ i' = i
                  ELSE control' = "loop" /\ i' = arraylen - 1
    /\ UNCHANGED <<arraylen, newval, drivers, value>>

\* The index of the last iteration.
BeyondLeft == -1  \* mutant
Last       == 0

Iterate ==
    /\ control = "loop" /\ i >= Last
    /\ drivers' = [drivers EXCEPT ![i] = IF newval[0] THEN "1" ELSE "0"]
    /\ newval' = ShiftRight(newval)
    /\ i' = i - 1
    /\ UNCHANGED <<arraylen, control, value>>

Exit ==
    /\ control = "loop" /\ i < Last
    /\ control' = "done"
    /\ UNCHANGED <<arraylen, newval, i, drivers, value>>

\* The call has returned, or the simulation has stopped.
Terminated == control \in {"done", "fatal"} /\ UNCHANGED vars

Next == Start \/ Iterate \/ Exit \/ Terminated

Spec == Init /\ [][Next]_vars

-----------------------------------------------------------------------------
\* Properties

\* On return element k from the left carries bit arraylen - 1 - k of the value:
\* the vector, read as a binary number, is the value modulo 2^arraylen.
DrivesValue ==
    control = "done" =>
        \A k \in 0..(arraylen - 1) : drivers[k] = IF value[arraylen - 1 - k] THEN "1" ELSE "0"

\* The inductive invariant: the elements right of i are driven, and newval is
\* the value shifted by as many positions.  A vector longer than the word never
\* gets into the loop, and nothing is scheduled for it.
Progress ==
    /\ control = "start" => newval = value
    /\ control \in {"start", "fatal"} => \A k \in DOMAIN drivers : drivers[k] = "none"
    /\ control \in {"loop", "done"} =>
          /\ arraylen <= WIDTH
          /\ \A k \in (i + 1)..(arraylen - 1) :
                drivers[k] = IF value[arraylen - 1 - k] THEN "1" ELSE "0"
    /\ control = "loop" =>
          \A b \in 0..i : newval[b] = value[b + (arraylen - 1 - i)]
    /\ control = "done" => i = -1

=============================================================================
