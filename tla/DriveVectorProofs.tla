------------------------- MODULE DriveVectorProofs -------------------------
(***************************************************************************)
(* drive_lv_uint drives the value it is given, for every word size, every  *)
(* vector length and every value.                                          *)
(***************************************************************************)
EXTENDS DriveVector, TLAPS

\* A shifted word is a word.
LEMMA ShiftType == ASSUME NEW w \in Word PROVE ShiftRight(w) \in Word
<1>1. ASSUME NEW b \in 0..(WIDTH - 1)
      PROVE  (IF b = WIDTH - 1 THEN FALSE ELSE w[b + 1]) \in BOOLEAN
  <2>1. CASE b = WIDTH - 1
    BY <2>1
  <2>2. CASE b # WIDTH - 1
    <3>1. b + 1 \in 0..(WIDTH - 1)
      BY <2>2, WidthAssumption
    <3> QED
      BY <2>2, <3>1 DEF Word
  <2> QED
    BY <2>1, <2>2
<1> QED
    BY <1>1 DEF ShiftRight, Word

\* Every step keeps the types: the index never leaves the vector.
LEMMA TypeStep == TypeOK /\ [Next]_vars => TypeOK'
<1> SUFFICES ASSUME TypeOK, [Next]_vars PROVE TypeOK'
    OBVIOUS
<1> USE WidthAssumption, LengthAssumption
<1>1. CASE Start
    BY <1>1 DEF TypeOK, Start
<1>2. CASE Iterate
  <2>1. newval' \in Word
    BY <1>2, ShiftType DEF TypeOK, Iterate
  <2>2. i \in 0..(arraylen - 1) /\ i' \in -1..(arraylen - 1)
    BY <1>2 DEF TypeOK, Iterate, Last
  <2>3. drivers' \in [0..(arraylen' - 1) -> {"none", "0", "1"}]
    BY <1>2, <2>2 DEF TypeOK, Iterate
  <2> QED
    BY <1>2, <2>1, <2>2, <2>3 DEF TypeOK, Iterate
<1>3. CASE Exit
    BY <1>3 DEF TypeOK, Exit
<1>4. CASE UNCHANGED vars
    BY <1>4 DEF TypeOK, vars
<1> QED
    BY <1>1, <1>2, <1>3, <1>4 DEF Next, Terminated

\* The types are an invariant.
THEOREM VectorType == Spec => []TypeOK
<1>1. Init => TypeOK
    BY LengthAssumption DEF Init, TypeOK
<1> QED
    BY <1>1, TypeStep, PTL DEF Spec

\* One iteration drives one more element and keeps the rest of the value in
\* the low bits of newval.
LEMMA IterateStep == ASSUME TypeOK, Progress, Iterate PROVE Progress'
<1> USE WidthAssumption, LengthAssumption
<1>1. /\ control = "loop" /\ control' = "loop" /\ i \in 0..(arraylen - 1)
      /\ arraylen \in Nat /\ arraylen <= WIDTH /\ i' = i - 1
      /\ arraylen' = arraylen /\ value' = value
    BY DEF TypeOK, Progress, Iterate, Last
<1>2. \A b \in 0..i : newval[b] = value[b + (arraylen - 1 - i)]
    BY <1>1 DEF Progress
<1>3. ASSUME NEW k \in (i' + 1)..(arraylen - 1)
      PROVE  drivers'[k] = IF value[arraylen - 1 - k] THEN "1" ELSE "0"
  <2>1. CASE k = i
    <3>1. newval[0] = value[arraylen - 1 - i]
      BY <1>1, <1>2
    <3> QED
      BY <1>1, <2>1, <3>1 DEF TypeOK, Iterate
  <2>2. CASE k # i
    <3>1. k \in (i + 1)..(arraylen - 1)
      BY <1>1, <2>2
    <3>2. drivers'[k] = drivers[k]
      BY <1>1, <2>2, <3>1 DEF TypeOK, Iterate
    <3> QED
      BY <1>1, <3>1, <3>2 DEF Progress
  <2> QED
    BY <2>1, <2>2
<1>4. ASSUME NEW b \in 0..i'
      PROVE  newval'[b] = value[b + (arraylen - 1 - i')]
  <2>1. b \in 0..(WIDTH - 1) /\ b # WIDTH - 1 /\ b + 1 \in 0..i
    BY <1>1
  <2>2. newval'[b] = newval[b + 1]
    BY <2>1 DEF Iterate, ShiftRight
  <2>3. newval[b + 1] = value[(b + 1) + (arraylen - 1 - i)]
    BY <1>2, <2>1
  <2>4. (b + 1) + (arraylen - 1 - i) = b + (arraylen - 1 - i')
    BY <1>1, <2>1
  <2> QED
    BY <2>2, <2>3, <2>4
<1> QED
    BY <1>1, <1>3, <1>4 DEF Progress

\* The loop invariant holds throughout.
THEOREM VectorProgress == Spec => []Progress
<1>1. Init => Progress
    BY LengthAssumption DEF Init, Progress
<1>2. TypeOK /\ Progress /\ [Next]_vars => Progress'
  <2> SUFFICES ASSUME TypeOK, Progress, [Next]_vars PROVE Progress'
    OBVIOUS
  <2>1. CASE Start
    BY <2>1, LengthAssumption, WidthAssumption DEF TypeOK, Progress, Start, TooLong
  <2>2. CASE Iterate
    BY <2>2, IterateStep
  <2>3. CASE Exit
    BY <2>3, LengthAssumption DEF TypeOK, Progress, Exit, Last
  <2>4. CASE UNCHANGED vars
    BY <2>4 DEF Progress, vars
  <2> QED
    BY <2>1, <2>2, <2>3, <2>4 DEF Next, Terminated
<1> QED
    BY <1>1, <1>2, VectorType, PTL DEF Spec

\* On return the vector carries the value modulo 2^arraylen, leftmost element first.
THEOREM VectorDriven == Spec => []DrivesValue
<1>1. TypeOK /\ Progress => DrivesValue
    BY LengthAssumption DEF TypeOK, Progress, DrivesValue
<1> QED
    BY <1>1, VectorType, VectorProgress, PTL

=============================================================================
