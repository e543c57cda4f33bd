---------------------------- MODULE PortMonitor ----------------------------
(***************************************************************************)
(* The debug port monitor, the last process of src/rtl/tb.vhd: on every    *)
(* falling clock edge it looks at the bus and, when it carries a write to  *)
(* DEBUGPORT, collects the low byte in the line L, which it writes to the  *)
(* transcript when a terminator arrives or the line is full.  The reset of *)
(* the testbench is released once in a run and never asserted again.       *)
(*                                                                         *)
(* Falling edges without such a write leave the process as it is and are   *)
(* not modelled.  Definitions marked "mutant" are slips the code could     *)
(* have made, which some property must detect.                             *)
(***************************************************************************)
EXTENDS Integers, SequencesExt

CONSTANTS
    Graphic,        \* bytes std_to_char displays as themselves
    Control,        \* other bytes, displayed as a dot
    CR, LF, NUL,    \* X"0D", X"0A", X"00"
    Dot,            \* the character '.'
    Prefix,         \* the text "PORT_MON : " that opens a line
    MAXCHAR_C,      \* 80 in the code
    MaxSent         \* bound: bytes stored to the port

Byte == Graphic \cup Control \cup {CR, LF, NUL}

\* The initial value of an integer variable without initialiser: integer'left.
IntegerLeft == -2147483647 - 1

ASSUME LineAssumption == MAXCHAR_C \in Nat \ {0}
ASSUME SentAssumption == MaxSent \in Nat
ASSUME ByteAssumption == /\ Prefix \notin Graphic \cup {Dot}
                         /\ {CR, LF, NUL} \cap (Graphic \cup Control) = {}

VARIABLES
    sreset,     \* the reset of the testbench, '1' until it is released
    i_v,        \* characters counted in the current line
    L,          \* the current line
    output,     \* the lines of the transcript
    sent        \* history: every byte stored to the port out of reset

vars == <<sreset, i_v, L, output, sent>>

Character == Graphic \cup {Dot, Prefix}

TypeOK ==
    /\ sreset \in BOOLEAN
    /\ i_v \in {IntegerLeft} \cup 0..MAXCHAR_C
    /\ L \in Seq(Character)
    /\ output \in Seq(Seq(Character))
    /\ sent \in Seq(Byte)

Init ==
    /\ sreset = TRUE /\ i_v = IntegerLeft
    /\ L = <<>> /\ output = <<>> /\ sent = <<>>

std_to_char(b) == IF b \in Graphic THEN b ELSE Dot

\* What a byte adds to the line.  Carriage return, line feed and NUL add nothing.
SkipNul(b) == IF b \in {CR, LF} THEN <<>> ELSE <<std_to_char(b)>>  \* mutant
Text(b)    == IF b \in {CR, LF, NUL} THEN <<>> ELSE <<std_to_char(b)>>

\* A line ends when it is full or a terminator arrives, which is not shown.
LineEndEarly(b) == i_v = MAXCHAR_C - 1 \/ b \in {CR, NUL}  \* mutant
LineEndLate(b)  == b \in {CR, NUL}  \* mutant
LineEnd(b)      == i_v = MAXCHAR_C \/ b \in {CR, NUL}

-----------------------------------------------------------------------------
\* A falling edge in reset.  The reset lasts for several of them.
InReset ==
    /\ sreset
    /\ i_v' = 0
    /\ UNCHANGED <<sreset, L, output, sent>>

Release ==
    /\ sreset /\ i_v = 0
    /\ sreset' = FALSE
    /\ UNCHANGED <<i_v, L, output, sent>>

\* A store of b is sampled.
Open(b) ==
    /\ i_v = 0
    /\ L' = L \o <<Prefix>> \o Text(b)
    /\ i_v' = i_v + 1
    /\ UNCHANGED output

\* writeline hands L over and leaves it empty.
Flush(b) ==
    /\ i_v # 0 /\ LineEnd(b)
    /\ output' = Append(output, L)
    /\ L' = <<>>
    /\ i_v' = 0

Extend(b) ==
    /\ i_v # 0 /\ ~LineEnd(b)
    /\ L' = L \o Text(b)
    /\ i_v' = i_v + 1
    /\ UNCHANGED output

Sample(b) ==
    /\ ~sreset
    /\ Len(sent) < MaxSent
    /\ Open(b) \/ Flush(b) \/ Extend(b)
    /\ sent' = Append(sent, b)
    /\ UNCHANGED sreset

\* The simulator restarts the simulation: the process is elaborated anew, and
\* the transcript and the stores are those of the new run.
Restart ==
    /\ sreset' = TRUE /\ i_v' = IntegerLeft
    /\ L' = <<>> /\ output' = <<>> /\ sent' = <<>>

\* The run ends: after MaxSent stores nothing more is sampled.
Done == Len(sent) = MaxSent /\ UNCHANGED vars

Next == InReset \/ Release \/ (\E b \in Byte : Sample(b)) \/ Restart \/ Done

Spec == Init /\ [][Next]_vars

-----------------------------------------------------------------------------
\* Properties

IsLine(s) == /\ s # <<>> /\ s[1] = Prefix
             /\ Len(s) <= MAXCHAR_C + 1
             /\ \A i \in 2..Len(s) : s[i] # Prefix

\* Every line of the transcript is the prefix and at most MAXCHAR_C
\* characters, and the counter says whether a line is open and bounds its length.
LineShape ==
    /\ \A k \in DOMAIN output : IsLine(output[k])
    /\ ~sreset => IF i_v = 0 THEN L = <<>> ELSE IsLine(L) /\ Len(L) <= i_v + 1

\* The characters on display, line breaks and prefixes left out, and the
\* characters the program stored.
Body(line) == IF line = <<>> THEN <<>> ELSE Tail(line)
Displayed  == FlattenSeq([k \in DOMAIN output |-> Body(output[k])]) \o Body(L)
Stored     == FlattenSeq([i \in DOMAIN sent |->
                 IF sent[i] \in {CR, LF, NUL} THEN <<>> ELSE <<std_to_char(sent[i])>>])

\* s is t with some elements left out.
IsSubsequence(s, t) ==
    Len(s) = FoldLeft(LAMBDA n, e : IF n < Len(s) /\ s[n + 1] = e THEN n + 1 ELSE n, 0, t)

\* The display never reorders, repeats or invents a character, and drops at
\* most one for every line it has written.
OrderedText ==
    /\ IsSubsequence(Displayed, Stored)
    /\ Len(Stored) - Len(Displayed) <= Len(output)

\* As long as the program sends a terminator at least every MAXCHAR_C bytes,
\* everything it stored is on display, in order.
ShortLinesIntact ==
    (\A i \in 1..(Len(sent) - MAXCHAR_C + 1) :
        \E j \in i..(i + MAXCHAR_C - 1) : sent[j] \in {CR, NUL})
    => Displayed = Stored

\* A line is written only for a terminator or for a full line's worth of bytes.
Terminators(s) == {k \in DOMAIN s : s[k] \in {CR, NUL}}
LinesAccountedFor ==
    Len(output) * (MAXCHAR_C + 1) <= Len(sent) + MAXCHAR_C * Cardinality(Terminators(sent))

\* What src/README.md:215 says, any write to the port is displayed.
EverythingDisplayed == Displayed = Stored

=============================================================================
