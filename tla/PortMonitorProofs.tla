------------------------- MODULE PortMonitorProofs -------------------------
(***************************************************************************)
(* The lines of the debug port monitor have the right shape for every line *)
(* length, every alphabet and any number of stores.                        *)
(***************************************************************************)
EXTENDS PortMonitor, SeqLemmas, TLAPS

\* What a byte adds to a line: at most one character, never a second prefix.
LEMMA TextShape ==
    ASSUME NEW b \in Byte
    PROVE  /\ Text(b) \in Seq(Character)
           /\ Len(Text(b)) \in 0..1
           /\ \A k \in 1..Len(Text(b)) : Text(b)[k] # Prefix
<1>1. CASE b \in {CR, LF, NUL}
    BY <1>1 DEF Text
<1>2. CASE b \notin {CR, LF, NUL}
  <2>1. std_to_char(b) \in Character /\ std_to_char(b) # Prefix
    BY ByteAssumption DEF std_to_char, Character
  <2>2. Text(b) = <<std_to_char(b)>>
    BY <1>2 DEF Text
  <2> QED
    BY <2>1, <2>2
<1> QED
    BY <1>1, <1>2

\* A line that takes another byte is a line, as long as there is room for it.
LEMMA LineGrows ==
    ASSUME NEW s \in Seq(Character), IsLine(s), Len(s) <= MAXCHAR_C, NEW b \in Byte
    PROVE  IsLine(s \o Text(b)) /\ Len(s \o Text(b)) <= Len(s) + 1
<1> DEFINE t == Text(b)
<1>1. t \in Seq(Character) /\ Len(t) \in 0..1 /\ \A k \in 1..Len(t) : t[k] # Prefix
    BY TextShape
<1> HIDE DEF t
<1>2. Len(s) \in Nat /\ Len(s) >= 1
    BY DEF IsLine
<1>3. /\ Len(s \o t) = Len(s) + Len(t)
      /\ \A k \in 1..(Len(s) + Len(t)) :
            (s \o t)[k] = IF k <= Len(s) THEN s[k] ELSE t[k - Len(s)]
    BY <1>1, ConcatProperties
<1>4. (s \o t)[1] = Prefix /\ s \o t # <<>>
    BY <1>1, <1>2, <1>3 DEF IsLine
<1>5. ASSUME NEW k \in 2..Len(s \o t) PROVE (s \o t)[k] # Prefix
  <2>1. CASE k <= Len(s)
    BY <1>1, <1>2, <1>3, <2>1 DEF IsLine
  <2>2. CASE k > Len(s)
    BY <1>1, <1>2, <1>3, <2>2
  <2> QED
    BY <1>2, <2>1, <2>2
<1>6. Len(s \o t) <= MAXCHAR_C + 1
    BY <1>1, <1>2, <1>3, LineAssumption
<1> QED
    BY <1>1, <1>2, <1>3, <1>4, <1>5, <1>6 DEF IsLine, t

\* A process that has not been released has seen and shown nothing.
BeforeRelease ==
    IF sreset THEN i_v \in {IntegerLeft, 0} /\ L = <<>> /\ output = <<>> /\ sent = <<>>
              ELSE i_v \in 0..MAXCHAR_C

\* The inductive invariant.
IInv == TypeOK /\ LineShape /\ BeforeRelease

\* The invariant holds before the reset.
LEMMA InitIInv == Init => IInv
BY DEF Init, IInv, TypeOK, LineShape, BeforeRelease

\* The first byte of a line.
LEMMA OpenStep ==
    ASSUME IInv, ~sreset, NEW b \in Byte, Open(b)
    PROVE  /\ L' \in Seq(Character) /\ IsLine(L') /\ Len(L') <= i_v' + 1
           /\ i_v' = 1 /\ output' = output
<1>1. L = <<>> /\ i_v' = 1 /\ output' = output
    BY DEF IInv, LineShape, Open
<1>2. <<Prefix>> \in Seq(Character) /\ IsLine(<<Prefix>>) /\ Len(<<Prefix>>) = 1
    BY LineAssumption DEF Character, IsLine
<1>3. L \o <<Prefix>> \o Text(b) = <<Prefix>> \o Text(b)
    BY <1>1, <1>2, ConcatEmptySeq
<1>4. L' = <<Prefix>> \o Text(b)
    BY <1>3 DEF Open
<1>5. IsLine(L') /\ Len(L') <= 2
  <2>1. Len(<<Prefix>>) <= MAXCHAR_C
    BY <1>2, LineAssumption
  <2>2. /\ IsLine(<<Prefix>> \o Text(b))
        /\ Len(<<Prefix>> \o Text(b)) <= Len(<<Prefix>>) + 1
    BY <1>2, <2>1, LineGrows
  <2>3. Len(<<Prefix>>) + 1 = 2
    BY <1>2
  <2> QED
    BY <1>4, <2>2, <2>3
<1>6. L' \in Seq(Character)
    BY <1>2, <1>4, TextShape, ConcatProperties
<1> QED
    BY <1>1, <1>5, <1>6

\* A byte in a line that is not full.
LEMMA ExtendStep ==
    ASSUME IInv, ~sreset, NEW b \in Byte, Extend(b)
    PROVE  /\ L' \in Seq(Character) /\ IsLine(L') /\ Len(L') <= i_v' + 1
           /\ i_v' \in 1..MAXCHAR_C /\ output' = output
<1>1. /\ i_v \in 1..(MAXCHAR_C - 1) /\ i_v' = i_v + 1 /\ output' = output
      /\ L' = L \o Text(b)
    BY LineAssumption DEF IInv, BeforeRelease, Extend, LineEnd
<1>2. L \in Seq(Character) /\ IsLine(L) /\ Len(L) <= i_v + 1 /\ Len(L) \in Nat
    BY <1>1 DEF IInv, TypeOK, LineShape
<1>3. Len(L) <= MAXCHAR_C
    BY <1>1, <1>2, LineAssumption
<1>4. IsLine(L') /\ Len(L') <= Len(L) + 1
    BY <1>1, <1>2, <1>3, LineGrows
<1>5. L' \in Seq(Character)
    BY <1>1, <1>2, TextShape, ConcatProperties
<1>6. Len(L') \in Nat
    BY <1>5
<1> QED
    BY <1>1, <1>2, <1>4, <1>5, <1>6, LineAssumption

\* The line goes to the transcript.
LEMMA FlushStep ==
    ASSUME IInv, ~sreset, NEW b \in Byte, Flush(b)
    PROVE  /\ L' = <<>> /\ i_v' = 0
           /\ output' \in Seq(Seq(Character))
           /\ \A k \in DOMAIN output' : IsLine(output'[k])
<1>1. L' = <<>> /\ i_v' = 0 /\ output' = Append(output, L)
    BY DEF Flush
<1>2. L \in Seq(Character) /\ IsLine(L)
    BY DEF IInv, TypeOK, LineShape, Flush
<1>3. output \in Seq(Seq(Character)) /\ \A k \in DOMAIN output : IsLine(output[k])
    BY DEF IInv, TypeOK, LineShape
<1>4. /\ output' \in Seq(Seq(Character)) /\ Len(output') = Len(output) + 1
      /\ \A k \in 1..Len(output) : output'[k] = output[k]
      /\ output'[Len(output) + 1] = L
    BY <1>1, <1>2, <1>3
<1>5. ASSUME NEW k \in DOMAIN output' PROVE IsLine(output'[k])
  <2>1. k \in 1..(Len(output) + 1) /\ Len(output) \in Nat
    BY <1>3, <1>4
  <2>2. CASE k = Len(output) + 1
    BY <1>2, <1>4, <2>2
  <2>3. CASE k # Len(output) + 1
    <3>1. k \in 1..Len(output) /\ k \in DOMAIN output
      BY <1>3, <2>1, <2>3
    <3> QED
      BY <1>3, <1>4, <3>1
  <2> QED
    BY <2>2, <2>3
<1> QED
    BY <1>1, <1>4, <1>5

\* Every step keeps the invariant.
LEMMA StepIInv == IInv /\ [Next]_vars => IInv'
<1> SUFFICES ASSUME IInv, [Next]_vars PROVE IInv'
    OBVIOUS
<1>1. CASE InReset
    BY <1>1, LineAssumption DEF IInv, TypeOK, LineShape, BeforeRelease, InReset
<1>2. CASE Release
  <2>1. /\ sreset /\ ~sreset' /\ sreset' \in BOOLEAN /\ i_v' = 0
        /\ L' = L /\ output' = output /\ sent' = sent
    BY <1>2 DEF Release
  <2>2. L = <<>>
    BY <2>1 DEF IInv, BeforeRelease
  <2>3. TypeOK'
    BY <2>1, LineAssumption DEF IInv, TypeOK
  <2>4. LineShape' /\ BeforeRelease'
    BY <2>1, <2>2, LineAssumption DEF IInv, LineShape, BeforeRelease
  <2> QED
    BY <2>3, <2>4 DEF IInv
<1>3. ASSUME NEW b \in Byte, Sample(b) PROVE IInv'
  <2>1. ~sreset /\ sreset' = sreset /\ sent' \in Seq(Byte)
    BY <1>3 DEF Sample, IInv, TypeOK
  <2>2. output \in Seq(Seq(Character)) /\ \A k \in DOMAIN output : IsLine(output[k])
    BY DEF IInv, TypeOK, LineShape
  <2>3. CASE Open(b)
    BY <2>1, <2>2, <2>3, OpenStep, LineAssumption
    DEF IInv, TypeOK, LineShape, BeforeRelease
  <2>4. CASE Flush(b)
    <3>1. /\ L' = <<>> /\ i_v' = 0 /\ output' \in Seq(Seq(Character))
          /\ \A k \in DOMAIN output' : IsLine(output'[k])
      BY <2>1, <2>4, FlushStep
    <3>2. TypeOK'
      BY <2>1, <3>1, LineAssumption DEF IInv, TypeOK
    <3>3. LineShape' /\ BeforeRelease'
      BY <2>1, <3>1, LineAssumption DEF LineShape, BeforeRelease
    <3> QED
      BY <3>2, <3>3 DEF IInv
  <2>5. CASE Extend(b)
    BY <2>1, <2>2, <2>5, ExtendStep, LineAssumption
    DEF IInv, TypeOK, LineShape, BeforeRelease
  <2> QED
    BY <1>3, <2>3, <2>4, <2>5 DEF Sample
<1>4. CASE Restart
    BY <1>4 DEF IInv, TypeOK, LineShape, BeforeRelease, Restart
<1>5. CASE UNCHANGED vars
    BY <1>5 DEF IInv, TypeOK, LineShape, BeforeRelease, vars
<1> QED
    BY <1>1, <1>2, <1>3, <1>4, <1>5 DEF Next, Done

\* The types are an invariant: the counter never leaves 0 to MAXCHAR_C once the
\* monitor has been reset.
THEOREM MonitorType == Spec => []TypeOK
<1>1. IInv => TypeOK
    BY DEF IInv
<1> QED
    BY <1>1, InitIInv, StepIInv, PTL DEF Spec

\* Every line shown is a prefix and at most MAXCHAR_C characters, and the
\* counter says whether a line is open and bounds its length.
THEOREM MonitorLines == Spec => []LineShape
<1>1. IInv => LineShape
    BY DEF IInv
<1> QED
    BY <1>1, InitIInv, StepIInv, PTL DEF Spec

-----------------------------------------------------------------------------
\* The loop of IsSubsequence: how much of s has been met after k elements of t.
Advance(s, e, m)  == IF m < Len(s) /\ s[m + 1] = e THEN m + 1 ELSE m
IsMatch(f, s, t)  == /\ f \in [0..Len(t) -> Nat] /\ f[0] = 0
                     /\ \A k \in 1..Len(t) : f[k] = Advance(s, t[k], f[k - 1])
\* All of s has been met in the end.
Matches(f, s, t)  == IsMatch(f, s, t) /\ f[Len(t)] = Len(s)

LEMMA MatchLoop ==
    ASSUME NEW S, NEW s \in Seq(S), NEW t \in Seq(S)
    PROVE  \E f : IsMatch(f, s, t) /\ (IsSubsequence(s, t) <=> Matches(f, s, t))
<1> DEFINE n == Len(t)
           step == [k \in 1..n |-> [m \in Nat |-> Advance(s, t[k], m)]]
           Rec(g) == g = [R \in SUBSET (DOMAIN t) |->
                             IF R = {} THEN 0
                             ELSE IF g[R \ {Max(R)}] < Len(s)
                                     /\ s[g[R \ {Max(R)}] + 1] = t[Max(R)]
                                  THEN g[R \ {Max(R)}] + 1 ELSE g[R \ {Max(R)}]]
           g == CHOOSE h : Rec(h)
<1>1. n \in Nat /\ DOMAIN t = 1..n
    BY LenProperties
<1>2. IsStep(step, Nat, n)
    BY DEF IsStep, Advance
<1>3. PICK h : IsFold(h, Nat, n, 0, step)
  <2> HIDE DEF step, n
  <2> QED
    BY <1>1, <1>2, FoldExists
<1>4. Rec(h)
  <2>1. h \in [SUBSET (1..n) -> Nat] /\ h[{}] = 0
    BY <1>3 DEF IsFold
  <2>2. ASSUME NEW R \in SUBSET (1..n), R # {}
        PROVE  h[R] = Advance(s, t[Max(R)], h[R \ {Max(R)}])
    <3>1. Max(R) \in R /\ h[R] = step[Max(R)][h[R \ {Max(R)}]]
      BY <1>3, <2>2 DEF IsFold
    <3>2. Max(R) \in 1..n /\ R \ {Max(R)} \in SUBSET (1..n)
      BY <3>1
    <3>3. h[R \ {Max(R)}] \in Nat
      BY <2>1, <3>2
    <3> QED
      BY <3>1, <3>2, <3>3
  <2> QED
    BY <1>1, <2>1, <2>2 DEF Advance
<1>5. Rec(g)
  <2> HIDE DEF Rec
  <2> QED
    BY <1>4
<1>6. Follows(g, Nat, n, 0, step)
  <2>1. g = [R \in SUBSET (1..n) |->
                IF R = {} THEN 0 ELSE Advance(s, t[Max(R)], g[R \ {Max(R)}])]
    BY <1>1, <1>5 DEF Advance
  <2> HIDE DEF g
  <2>2. g[1..0] = 0
    <3>1. 1..0 = {} /\ {} \in SUBSET (1..n)
      OBVIOUS
    <3> QED
      BY <2>1, <3>1
  <2>3. ASSUME NEW k \in 1..n, g[1..(k - 1)] \in Nat
        PROVE  g[1..k] = step[k][g[1..(k - 1)]]
    <3>1. 1..k \in SUBSET (1..n) /\ 1..k # {} /\ k \in Nat \ {0}
      <4>1. n \in Nat /\ k \in Nat /\ 1 <= k /\ k <= n
        BY <1>1
      <4> HIDE DEF n
      <4> QED
        BY <4>1, SegmentMax
    <3>2. g[1..k] = Advance(s, t[Max(1..k)], g[(1..k) \ {Max(1..k)}])
      BY <2>1, <3>1
    <3>3. Max(1..k) = k /\ (1..k) \ {k} = 1..(k - 1)
      BY <3>1, SegmentMax
    <3> QED
      BY <2>3, <3>2, <3>3
  <2> QED
    BY <2>2, <2>3 DEF Follows
<1>7. IsSubsequence(s, t) <=> Len(s) = g[DOMAIN t]
    BY DEF IsSubsequence, FoldLeft, MapThenFoldSet
<1> DEFINE f == [k \in 0..n |-> g[1..k]]
<1>8. IsLoop(f, Nat, n, 0, step)
  <2> HIDE DEF g, step, n
  <2> QED
    BY <1>1, <1>2, <1>6, FoldIsLoop
<1>9. f[n] = g[DOMAIN t]
    BY <1>1
<1> HIDE DEF f, g
<1>10. IsMatch(f, s, t)
  <2>1. ASSUME NEW k \in 1..n PROVE f[k] = Advance(s, t[k], f[k - 1])
    <3>1. k - 1 \in 0..n /\ f \in [0..n -> Nat]
      BY <1>1, <1>8 DEF IsLoop
    <3>2. f[k - 1] \in Nat /\ f[k] = step[k][f[k - 1]]
      BY <1>8, <3>1 DEF IsLoop
    <3> QED
      BY <3>2
  <2> QED
    BY <1>8, <2>1 DEF IsLoop, IsMatch
<1> QED
    BY <1>7, <1>9, <1>10 DEF Matches

\* The run over one more element, for s itself and for s with that element.
LEMMA MatchGrows ==
    ASSUME NEW S, NEW s \in Seq(S), NEW t \in Seq(S), NEW e \in S,
           NEW r \in {s, Append(s, e)}, NEW f, NEW g,
           Matches(f, s, t), IsMatch(g, r, Append(t, e))
    PROVE  Matches(g, r, Append(t, e))
<1> DEFINE n == Len(t)
           u == Append(t, e)
           Q(k) == g[k] = f[k] \/ (f[k] = Len(s) /\ g[k] = Len(r))
           T == {k \in 0..n : f[k] <= Len(s) /\ Q(k)}
<1>1. /\ n \in Nat /\ Len(s) \in Nat /\ Len(u) = n + 1 /\ u[n + 1] = e
      /\ \A k \in 1..n : u[k] = t[k]
    BY AppendProperties, LenProperties
<1>2. /\ Len(r) \in {Len(s), Len(s) + 1}
      /\ \A k \in 1..Len(s) : r[k] = s[k]
      /\ Len(r) = Len(s) + 1 => r[Len(s) + 1] = e
    BY <1>1, AppendProperties
<1>3. f[0] = 0 /\ g[0] = 0
    BY DEF IsMatch, Matches
<1>4. ASSUME NEW k \in 0..n PROVE f[k] \in Nat
    BY DEF IsMatch, Matches
<1>5. ASSUME NEW k \in 1..n PROVE f[k] = Advance(s, t[k], f[k - 1])
    BY DEF IsMatch, Matches
<1> HIDE DEF n, u
<1>6. ASSUME NEW k \in 1..(n + 1) PROVE g[k] = Advance(r, u[k], g[k - 1])
  <2>1. k \in 1..Len(u)
    BY <1>1
  <2> QED
    BY <2>1 DEF IsMatch, u
<1>7. 0 \in T
    BY <1>1, <1>3
<1>8. ASSUME NEW k \in 0..(n - 1), k \in T PROVE k + 1 \in T
  <2> DEFINE l == k + 1
  <2>1. l \in 1..n /\ l \in 1..(n + 1) /\ l \in 0..n /\ l - 1 = k /\ k \in 0..n
    BY <1>1
  <2> HIDE DEF l
  <2>2. f[k] \in Nat /\ f[k] <= Len(s) /\ Q(k)
    BY <1>4, <1>8, <2>1
  <2>3. f[l] = Advance(s, t[l], f[k])
    BY <1>5, <2>1
  <2>4. g[l] = Advance(r, t[l], g[k])
    BY <1>1, <1>6, <2>1
  <2>5. CASE g[k] = f[k] /\ f[k] < Len(s)
    <3>1. f[k] + 1 \in 1..Len(s) /\ g[k] < Len(r)
      BY <1>1, <1>2, <2>2, <2>5
    <3>2. r[f[k] + 1] = s[f[k] + 1]
      BY <1>2, <3>1
    <3>3. g[l] = f[l] /\ f[l] <= Len(s)
      BY <1>1, <2>2, <2>3, <2>4, <2>5, <3>1, <3>2 DEF Advance
    <3> QED
      BY <2>1, <3>3 DEF l
  <2>6. CASE g[k] = f[k] /\ ~(f[k] < Len(s))
    <3>1. f[k] = Len(s) /\ f[l] = Len(s)
      BY <1>1, <2>2, <2>3, <2>6 DEF Advance
    <3>2. g[l] = Len(s) \/ g[l] = Len(r)
      BY <1>1, <1>2, <2>4, <2>6, <3>1 DEF Advance
    <3> QED
      BY <1>1, <2>1, <3>1, <3>2 DEF l
  <2>7. CASE f[k] = Len(s) /\ g[k] = Len(r)
    <3>1. f[l] = Len(s) /\ g[l] = Len(r)
      BY <1>1, <1>2, <2>3, <2>4, <2>7 DEF Advance
    <3> QED
      BY <1>1, <2>1, <3>1 DEF l
  <2> QED
    BY <2>2, <2>5, <2>6, <2>7
<1>9. Q(n)
  <2>1. 0..n \subseteq T
    <3> HIDE DEF T
    <3> QED
      BY <1>1, <1>7, <1>8, UpTo
  <2>2. n \in T
    BY <1>1, <2>1
  <2> QED
    BY <2>2
<1>10. f[n] = Len(s)
    BY DEF n, Matches
<1>11. g[n + 1] = Advance(r, e, g[n])
  <2>1. n + 1 \in 1..(n + 1) /\ (n + 1) - 1 = n
    BY <1>1
  <2> QED
    BY <1>1, <1>6, <2>1
<1>12. g[n + 1] = Len(r)
    BY <1>1, <1>2, <1>9, <1>10, <1>11 DEF Advance
<1> QED
    BY <1>1, <1>12 DEF n, u, Matches

LEMMA SubsequenceGrows ==
    ASSUME NEW S, NEW s \in Seq(S), NEW t \in Seq(S), NEW e \in S, IsSubsequence(s, t)
    PROVE  /\ IsSubsequence(s, Append(t, e))
           /\ IsSubsequence(Append(s, e), Append(t, e))
<1>1. /\ Append(t, e) \in Seq(S) /\ Append(s, e) \in Seq(S)
      /\ Len(Append(t, e)) = Len(t) + 1
    BY AppendProperties
<1>2. PICK f : Matches(f, s, t)
    BY MatchLoop
<1>3. ASSUME NEW r \in {s, Append(s, e)} PROVE IsSubsequence(r, Append(t, e))
  <2>1. r \in Seq(S)
    BY <1>1
  <2>2. PICK g : /\ IsMatch(g, r, Append(t, e))
                 /\ IsSubsequence(r, Append(t, e)) <=> Matches(g, r, Append(t, e))
    BY <1>1, <2>1, MatchLoop
  <2>3. Matches(g, r, Append(t, e))
    BY <1>2, <2>2, MatchGrows
  <2> QED
    BY <2>2, <2>3
<1> QED
    BY <1>3

\* Nothing is left out of nothing.
LEMMA EmptySubsequence == IsSubsequence(<< >>, << >>)
<1>1. << >> \in Seq({}) /\ Len(<< >>) = 0
    OBVIOUS
<1>2. PICK f : /\ IsMatch(f, << >>, << >>)
               /\ IsSubsequence(<< >>, << >>) <=> Matches(f, << >>, << >>)
    BY <1>1, MatchLoop
<1> QED
    BY <1>1, <1>2 DEF IsMatch, Matches

-----------------------------------------------------------------------------
\* The lines of a transcript without their prefixes, and what the bytes sent
\* add to it.
Bodies(o) == [k \in DOMAIN o |-> Body(o[k])]
Texts(s)  == [i \in DOMAIN s |->
                 IF s[i] \in {CR, LF, NUL} THEN <<>> ELSE <<std_to_char(s[i])>>]

\* The body of a line that has its prefix grows as the line does.
LEMMA BodyGrows ==
    ASSUME NEW u \in Seq(Character), u # <<>>, NEW v \in Seq(Character)
    PROVE  Body(u) \in Seq(Character) /\ Joins(Body(u), v, Body(u \o v))
<1> DEFINE w == u \o v
           x == Tail(u) \o v
<1>1. Len(u) \in Nat /\ Len(v) \in Nat /\ Len(u) # 0
    BY EmptySeq, LenProperties
<1>2. /\ Tail(u) \in Seq(Character) /\ Len(Tail(u)) = Len(u) - 1
      /\ \A k \in 1..(Len(u) - 1) : Tail(u)[k] = u[k + 1]
    BY HeadTailProperties
<1>3. /\ w \in Seq(Character) /\ Len(w) = Len(u) + Len(v)
      /\ \A k \in 1..(Len(u) + Len(v)) : w[k] = IF k <= Len(u) THEN u[k] ELSE v[k - Len(u)]
    BY ConcatProperties
<1>4. w # <<>>
    BY <1>1, <1>3, EmptySeq
<1>5. /\ x \in Seq(Character) /\ Len(x) = Len(Tail(u)) + Len(v)
      /\ \A k \in 1..(Len(Tail(u)) + Len(v)) :
            x[k] = IF k <= Len(Tail(u)) THEN Tail(u)[k] ELSE v[k - Len(Tail(u))]
    BY <1>2, ConcatProperties
<1> HIDE DEF w, x
<1>6. /\ Tail(w) \in Seq(Character) /\ Len(Tail(w)) = Len(w) - 1
      /\ \A k \in 1..(Len(w) - 1) : Tail(w)[k] = w[k + 1]
    BY <1>3, <1>4, HeadTailProperties
<1>7. ASSUME NEW k \in 1..Len(x) PROVE Tail(w)[k] = x[k]
  <2>1. k \in 1..(Len(w) - 1) /\ k + 1 \in 1..(Len(u) + Len(v))
    BY <1>1, <1>2, <1>3, <1>5
  <2>2. Tail(w)[k] = w[k + 1]
    BY <1>6, <2>1
  <2>3. CASE k + 1 <= Len(u)
    <3>1. k \in 1..(Len(u) - 1) /\ k <= Len(Tail(u)) /\ k \in 1..(Len(Tail(u)) + Len(v))
      BY <1>1, <1>2, <1>3, <2>1, <2>3
    <3>2. w[k + 1] = u[k + 1] /\ x[k] = Tail(u)[k] /\ Tail(u)[k] = u[k + 1]
      BY <1>2, <1>3, <1>5, <2>1, <2>3, <3>1
    <3> QED
      BY <2>2, <3>2
  <2>4. CASE ~(k + 1 <= Len(u))
    <3>1. /\ ~(k <= Len(Tail(u))) /\ k \in 1..(Len(Tail(u)) + Len(v))
          /\ k - Len(Tail(u)) = (k + 1) - Len(u)
      BY <1>1, <1>2, <1>3, <2>1, <2>4
    <3>2. w[k + 1] = v[(k + 1) - Len(u)] /\ x[k] = v[k - Len(Tail(u))]
      BY <1>3, <1>5, <2>1, <2>4, <3>1
    <3> QED
      BY <2>2, <3>1, <3>2
  <2> QED
    BY <2>3, <2>4
<1>8. Len(Tail(w)) = Len(x)
    BY <1>1, <1>2, <1>3, <1>5, <1>6
<1>9. Tail(w) = x
    BY <1>5, <1>6, <1>7, <1>8, SeqEqual
<1> QED
    BY <1>2, <1>4, <1>9 DEF Body, Joins, w, x

\* A line goes to the end of the transcript.
LEMMA LineAdds ==
    ASSUME NEW o \in Seq(Seq(Character)), NEW l \in Seq(Character)
    PROVE  /\ FlattenSeq(Bodies(o)) \in Seq(Character) /\ Body(l) \in Seq(Character)
           /\ Joins(FlattenSeq(Bodies(o)), Body(l), FlattenSeq(Bodies(Append(o, l))))
<1>1. \A r \in Seq(Character) : Body(r) \in Seq(Character)
    BY HeadTailProperties DEF Body
<1>2. Len(o) \in Nat /\ DOMAIN o = 1..Len(o) /\ \A k \in 1..Len(o) : o[k] \in Seq(Character)
    BY LenProperties, ElementOfSeq
<1>3. Bodies(o) \in Seq(Seq(Character)) /\ Len(Bodies(o)) = Len(o)
    BY <1>1, <1>2 DEF Bodies
<1> DEFINE p == Append(o, l)
<1>4. /\ p \in Seq(Seq(Character)) /\ DOMAIN p = 1..(Len(o) + 1) /\ p[Len(o) + 1] = l
      /\ \A k \in 1..Len(o) : p[k] = o[k]
    BY AppendProperties, LenProperties
<1>5. Bodies(p) = Append(Bodies(o), Body(l))
  <2> DEFINE q == Append(Bodies(o), Body(l))
  <2>1. /\ q \in Seq(Seq(Character)) /\ Len(q) = Len(o) + 1 /\ q[Len(o) + 1] = Body(l)
        /\ \A k \in 1..Len(o) : q[k] = Bodies(o)[k]
    BY <1>1, <1>3, AppendProperties
  <2> HIDE DEF p, q
  <2>2. \A k \in 1..Len(o) : q[k] = Body(p[k])
    BY <1>2, <1>4, <2>1 DEF Bodies
  <2>3. ASSUME NEW k \in 1..(Len(o) + 1) PROVE q[k] = Body(p[k])
    <3>1. k \in 1..Len(o) \/ k = Len(o) + 1
      BY <1>2
    <3> QED
      BY <1>4, <2>1, <2>2, <3>1
  <2>4. q = [k \in 1..(Len(o) + 1) |-> Body(p[k])]
    BY <1>2, <2>1, <2>3
  <2> QED
    BY <1>4, <2>4 DEF Bodies, q
<1>6. Joins(FlattenSeq(Bodies(o)), Body(l), FlattenSeq(Append(Bodies(o), Body(l))))
    BY <1>1, <1>3, FlattenProperties
<1> QED
    BY <1>1, <1>3, <1>5, <1>6, FlattenProperties

\* A byte goes to the end of what has been stored.
LEMMA ByteAdds ==
    ASSUME NEW s \in Seq(Byte), NEW b \in Byte
    PROVE  /\ FlattenSeq(Texts(s)) \in Seq(Character)
           /\ Joins(FlattenSeq(Texts(s)), Text(b), FlattenSeq(Texts(Append(s, b))))
<1>1. \A c \in Byte : Text(c) \in Seq(Character)
    BY TextShape
<1>2. Len(s) \in Nat /\ DOMAIN s = 1..Len(s) /\ \A k \in 1..Len(s) : s[k] \in Byte
    BY LenProperties, ElementOfSeq
<1>3. \A r : Texts(r) = [i \in DOMAIN r |-> Text(r[i])]
    BY DEF Texts, Text
<1>4. Texts(s) \in Seq(Seq(Character)) /\ Len(Texts(s)) = Len(s)
  <2>1. \A k \in 1..Len(s) : Text(s[k]) \in Seq(Character)
    BY <1>1, <1>2
  <2>2. Texts(s) = [i \in 1..Len(s) |-> Text(s[i])]
    BY <1>2, <1>3
  <2> QED
    BY <1>2, <2>1, <2>2
<1> DEFINE p == Append(s, b)
<1>5. /\ p \in Seq(Byte) /\ DOMAIN p = 1..(Len(s) + 1) /\ p[Len(s) + 1] = b
      /\ \A k \in 1..Len(s) : p[k] = s[k]
    BY AppendProperties, LenProperties
<1>6. Texts(p) = Append(Texts(s), Text(b))
  <2> DEFINE q == Append(Texts(s), Text(b))
  <2>1. /\ q \in Seq(Seq(Character)) /\ Len(q) = Len(s) + 1 /\ q[Len(s) + 1] = Text(b)
        /\ \A k \in 1..Len(s) : q[k] = Texts(s)[k]
    BY <1>1, <1>4, AppendProperties
  <2> HIDE DEF p, q
  <2>2. \A k \in 1..Len(s) : q[k] = Text(p[k])
    BY <1>2, <1>3, <1>5, <2>1
  <2>3. ASSUME NEW k \in 1..(Len(s) + 1) PROVE q[k] = Text(p[k])
    <3>1. k \in 1..Len(s) \/ k = Len(s) + 1
      BY <1>2
    <3> QED
      BY <1>5, <2>1, <2>2, <3>1
  <2>4. q = [k \in 1..(Len(s) + 1) |-> Text(p[k])]
    BY <1>2, <2>1, <2>3
  <2> QED
    BY <1>3, <1>5, <2>4 DEF q
<1>7. Joins(FlattenSeq(Texts(s)), Text(b), FlattenSeq(Append(Texts(s), Text(b))))
    BY <1>1, <1>4, FlattenProperties
<1> QED
    BY <1>4, <1>6, <1>7, FlattenProperties

\* What is stored and what is on display are sequences of characters.
LEMMA TextTypes == ASSUME TypeOK PROVE Displayed \in Seq(Character) /\ Stored \in Seq(Character)
<1>1. FlattenSeq(Bodies(output)) \in Seq(Character) /\ Body(L) \in Seq(Character)
    BY LineAdds DEF TypeOK
<1>2. FlattenSeq(Bodies(output)) \o Body(L) \in Seq(Character)
    BY <1>1, ConcatProperties
<1>3. FlattenSeq(Texts(sent)) \in Seq(Character)
  <2>1. CR \in Byte /\ sent \in Seq(Byte)
    BY DEF Byte, TypeOK
  <2> QED
    BY <2>1, ByteAdds
<1> QED
    BY <1>2, <1>3 DEF Displayed, Stored, Bodies, Texts

\* A byte that is sampled goes to the end of what is stored, and of what is on
\* display unless it ends a line, which shows none of it.
LEMMA SampleTexts ==
    ASSUME IInv, NEW b \in Byte, Sample(b)
    PROVE  /\ Joins(Stored, Text(b), Stored')
           /\ \/ output' = output /\ Joins(Displayed, Text(b), Displayed')
              \/ Flush(b) /\ Len(output') = Len(output) + 1 /\ Displayed' = Displayed
<1>1. /\ ~sreset /\ sent' = Append(sent, b)
      /\ L \in Seq(Character) /\ output \in Seq(Seq(Character)) /\ sent \in Seq(Byte)
    BY DEF Sample, IInv, TypeOK
<1>2. Stored = FlattenSeq(Texts(sent)) /\ Stored' = FlattenSeq(Texts(sent'))
    BY DEF Stored, Texts
<1>3. Joins(Stored, Text(b), Stored')
    BY <1>1, <1>2, ByteAdds
<1>4. /\ Displayed = FlattenSeq(Bodies(output)) \o Body(L)
      /\ Displayed' = FlattenSeq(Bodies(output')) \o Body(L')
    BY DEF Displayed, Bodies
<1> DEFINE f == FlattenSeq(Bodies(output))
<1>5. f \in Seq(Character) /\ Body(L) \in Seq(Character) /\ Text(b) \in Seq(Character)
    BY <1>1, LineAdds, TextShape
<1> HIDE DEF f
<1>6. ASSUME output' = output, Joins(Body(L), Text(b), Body(L'))
      PROVE  Joins(Displayed, Text(b), Displayed')
  <2>1. Displayed = f \o Body(L) /\ Displayed' = f \o Body(L')
    BY <1>4, <1>6 DEF f
  <2>2. Body(L') = Body(L) \o Text(b)
    BY <1>6 DEF Joins
  <2>3. f \o (Body(L) \o Text(b)) = (f \o Body(L)) \o Text(b)
    BY <1>5, ConcatAssociative
  <2> QED
    BY <2>1, <2>2, <2>3 DEF Joins
<1>7. CASE Open(b)
  <2>1. L = <<>> /\ output' = output /\ L' = L \o <<Prefix>> \o Text(b)
    BY <1>1, <1>7 DEF IInv, LineShape, Open
  <2>2. <<Prefix>> \in Seq(Character) /\ <<Prefix>> # <<>> /\ Tail(<<Prefix>>) = <<>>
    BY DEF Character
  <2>3. L' = <<Prefix>> \o Text(b)
    BY <2>1, <2>2, ConcatEmptySeq
  <2>4. Body(<<Prefix>>) = <<>> /\ Body(L) = <<>>
    BY <2>1, <2>2 DEF Body
  <2>5. Joins(Body(<<Prefix>>), Text(b), Body(<<Prefix>> \o Text(b)))
    BY <1>5, <2>2, BodyGrows
  <2> QED
    BY <1>3, <1>6, <2>1, <2>3, <2>4, <2>5
<1>8. CASE Extend(b)
  <2>1. output' = output /\ L' = L \o Text(b) /\ L # <<>>
    BY <1>1, <1>8 DEF IInv, LineShape, IsLine, Extend
  <2>2. Joins(Body(L), Text(b), Body(L'))
    BY <1>1, <1>5, <2>1, BodyGrows
  <2> QED
    BY <1>3, <1>6, <2>1, <2>2
<1>9. CASE Flush(b)
  <2>1. output' = Append(output, L) /\ L' = <<>>
    BY <1>9 DEF Flush
  <2>2. Len(output') = Len(output) + 1
    BY <1>1, <2>1, AppendProperties
  <2>3. FlattenSeq(Bodies(output')) = f \o Body(L)
    BY <1>1, <2>1, LineAdds DEF Joins, f
  <2>4. f \o Body(L) \in Seq(Character) /\ Body(L') = <<>>
    BY <1>5, <2>1, ConcatProperties DEF Body
  <2>5. Displayed' = Displayed
    BY <1>4, <2>3, <2>4, ConcatEmptySeq DEF f
  <2> QED
    BY <1>3, <1>9, <2>2, <2>5
<1> QED
    BY <1>7, <1>8, <1>9 DEF Sample

\* Nothing stored, nothing on display.
LEMMA NothingYet ==
    ASSUME NEW o, o = <<>>, NEW l, l = <<>>, NEW s, s = <<>>
    PROVE  /\ FlattenSeq(Bodies(o)) \o Body(l) = <<>>
           /\ FlattenSeq(Texts(s)) = <<>>
           /\ Len(o) = 0
<1>1. Bodies(o) = <<>> /\ Texts(s) = <<>> /\ Body(l) = <<>> /\ Len(o) = 0
  <2>1. DOMAIN o = {} /\ DOMAIN s = {}
    OBVIOUS
  <2>2. Bodies(o) = [k \in {} |-> Body(o[k])] /\ <<>> = [k \in {} |-> Body(o[k])]
    BY <2>1 DEF Bodies
  <2>3. Texts(s) = <<>>
    BY <2>1 DEF Texts
  <2> QED
    BY <2>2, <2>3 DEF Body
<1>2. FlattenSeq(<<>>) = <<>>
    BY FlattenProperties
<1>3. <<>> \o <<>> = <<>>
    OBVIOUS
<1> QED
    BY <1>1, <1>2, <1>3

\* The display keeps the order of what is stored, and a line that is written
\* costs at most one character.
LEMMA StepOrdered == IInv /\ OrderedText /\ [Next]_vars => OrderedText'
<1> SUFFICES ASSUME IInv, OrderedText, [Next]_vars PROVE OrderedText'
    OBVIOUS
<1>1. ASSUME NEW b \in Byte, Sample(b) PROVE OrderedText'
  <2> DEFINE t == Text(b)
             s == Displayed
             u == Stored
  <2>1. s \in Seq(Character) /\ u \in Seq(Character)
    BY TextTypes DEF IInv
  <2>2. t \in Seq(Character) /\ Len(t) \in 0..1
    BY TextShape
  <2>3. IsSubsequence(s, u) /\ Len(u) - Len(s) <= Len(output) /\ Len(output) \in Nat
    BY LenProperties DEF OrderedText, IInv, TypeOK
  <2>4. /\ Stored' = u \o t
        /\ \/ output' = output /\ Displayed' = s \o t
           \/ Len(output') = Len(output) + 1 /\ Displayed' = s
    BY <1>1, SampleTexts DEF Joins
  <2> HIDE DEF s, t, u
  <2>5. IsSubsequence(s, u \o t) /\ IsSubsequence(s \o t, u \o t)
    <3>1. CASE t = <<>>
      BY <2>1, <2>3, <3>1, ConcatEmptySeq
    <3>2. CASE t # <<>>
      <4>1. PICK e \in Character : t = <<e>>
        <5>1. Len(t) = 1 /\ t[1] \in Character
          BY <2>2, <3>2, EmptySeq, ElementOfSeq
        <5> QED
          BY <2>2, <5>1
      <4>2. s \o t = Append(s, e) /\ u \o t = Append(u, e)
        BY <2>1, <4>1
      <4> QED
        BY <2>1, <2>3, <4>2, SubsequenceGrows
    <3> QED
      BY <3>1, <3>2
  <2>6. /\ Len(s) \in Nat /\ Len(u) \in Nat
        /\ Len(u \o t) = Len(u) + Len(t) /\ Len(s \o t) = Len(s) + Len(t)
    BY <2>1, <2>2, ConcatProperties, LenProperties
  <2>7. IsSubsequence(Displayed', Stored')
    BY <2>4, <2>5
  <2>8. Len(Stored') - Len(Displayed') <= Len(output')
    BY <2>2, <2>3, <2>4, <2>6
  <2> QED
    BY <2>7, <2>8 DEF OrderedText
<1>2. CASE InReset \/ Release \/ UNCHANGED vars
  <2>1. L' = L /\ output' = output /\ sent' = sent
    BY <1>2 DEF InReset, Release, vars
  <2>2. Displayed' = Displayed /\ Stored' = Stored
    BY <2>1 DEF Displayed, Stored
  <2> QED
    BY <2>1, <2>2 DEF OrderedText
<1>3. CASE Restart
  <2>1. L' = <<>> /\ output' = <<>> /\ sent' = <<>>
    BY <1>3 DEF Restart
  <2>2. Displayed' = <<>> /\ Stored' = <<>> /\ Len(output') = 0
    BY <2>1, NothingYet DEF Displayed, Stored, Bodies, Texts
  <2> QED
    BY <2>2, EmptySubsequence DEF OrderedText
<1> QED
    BY <1>1, <1>2, <1>3 DEF Next, Done

\* The display never reorders, repeats or invents a character, over any number
\* of lines, and drops at most one for every line it has written.
THEOREM MonitorOrder == Spec => []OrderedText
<1>1. Init => OrderedText
  <2> SUFFICES ASSUME Init PROVE OrderedText
    OBVIOUS
  <2>1. Displayed = <<>> /\ Stored = <<>> /\ Len(output) = 0
    BY NothingYet DEF Init, Displayed, Stored, Bodies, Texts
  <2> QED
    BY <2>1, EmptySubsequence DEF OrderedText
<1> QED
    BY <1>1, InitIInv, StepIInv, StepOrdered, PTL DEF Spec

-----------------------------------------------------------------------------
\* What LinesAccountedFor and ShortLinesIntact rest on: the bytes counted in
\* the line that is open are still to be paid for, and none but the first of
\* them is a terminator.
Paid    == Len(output) * (MAXCHAR_C + 1) + i_v
               <= Len(sent) + MAXCHAR_C * Cardinality(Terminators(sent))
Unended == /\ i_v <= Len(sent)
           /\ \A k \in (Len(sent) - i_v + 2)..Len(sent) : sent[k] \notin {CR, NUL}
Account == ~sreset => Paid /\ Unended

\* One more byte is a terminator, or is none.
LEMMA TerminatorAdds ==
    ASSUME NEW s \in Seq(Byte), NEW b \in Byte
    PROVE  /\ Cardinality(Terminators(s)) \in Nat
           /\ Cardinality(Terminators(Append(s, b)))
                 = Cardinality(Terminators(s)) + (IF b \in {CR, NUL} THEN 1 ELSE 0)
<1> DEFINE p == Append(s, b)
           n == Len(s)
<1>1. /\ n \in Nat /\ DOMAIN s = 1..n /\ DOMAIN p = 1..(n + 1) /\ p[n + 1] = b
      /\ \A k \in 1..n : p[k] = s[k]
    BY AppendProperties, LenProperties
<1> HIDE DEF p, n
<1>2. IsFiniteSet(Terminators(s))
  <2>1. IsFiniteSet(1..n) /\ Terminators(s) \subseteq 1..n
    BY <1>1, FS_Interval DEF Terminators
  <2> QED
    BY <2>1, FS_Subset
<1>3. n + 1 \notin Terminators(s)
    BY <1>1 DEF Terminators
<1>4. Terminators(p) = Terminators(s) \cup (IF b \in {CR, NUL} THEN {n + 1} ELSE {})
  <2>1. \A k : k \in 1..(n + 1) <=> k \in 1..n \/ k = n + 1
    BY <1>1
  <2>2. \A k : k \in Terminators(p) <=>
               \/ k \in Terminators(s)
               \/ k = n + 1 /\ b \in {CR, NUL}
    BY <1>1, <2>1 DEF Terminators
  <2> QED
    BY <2>2
<1>5. CASE b \in {CR, NUL}
  <2>1. Terminators(p) = Terminators(s) \cup {n + 1}
    BY <1>4, <1>5
  <2>2. Cardinality(Terminators(p)) = Cardinality(Terminators(s)) + 1
    BY <1>2, <1>3, <2>1, FS_AddElement
  <2> QED
    BY <1>2, <1>5, <2>2, FS_CardinalityType DEF p
<1>6. CASE b \notin {CR, NUL}
  <2>1. Terminators(p) = Terminators(s)
    BY <1>4, <1>6
  <2>2. Cardinality(Terminators(s)) \in Nat
    BY <1>2, FS_CardinalityType
  <2> QED
    BY <1>6, <2>1, <2>2 DEF p
<1> QED
    BY <1>5, <1>6

LEMMA Distribute ==
    \A m, a \in Nat : m * (a + 1) = m * a + m /\ a * m \in Nat /\ m * a \in Nat
                      /\ (a + 1) * m = a * m + m
OBVIOUS

\* Every step keeps the account.
LEMMA StepAccount == IInv /\ Account /\ [Next]_vars => Account'
<1> SUFFICES ASSUME IInv, Account, [Next]_vars PROVE Account'
    OBVIOUS
<1>1. ASSUME NEW b \in Byte, Sample(b) PROVE Account'
  <2> DEFINE M == MAXCHAR_C
             T == Cardinality(Terminators(sent))
             O == Len(output)
             N == Len(sent)
             A == O * (M + 1)
             B == M * T
  <2>1. /\ ~sreset /\ sreset' = sreset /\ sent \in Seq(Byte) /\ sent' = Append(sent, b)
        /\ i_v \in 0..M /\ output \in Seq(Seq(Character)) /\ L \in Seq(Character)
    BY <1>1 DEF Sample, IInv, TypeOK, BeforeRelease
  <2>2. Paid /\ Unended
    BY <2>1 DEF Account
  <2>3. /\ N \in Nat /\ Len(sent') = N + 1 /\ sent'[N + 1] = b
        /\ \A k \in 1..N : sent'[k] = sent[k]
    BY <2>1, AppendProperties, LenProperties
  <2>4. /\ T \in Nat
        /\ Cardinality(Terminators(sent')) = T + (IF b \in {CR, NUL} THEN 1 ELSE 0)
    BY <2>1, TerminatorAdds
  <2>5. O \in Nat /\ M \in Nat \ {0}
    BY <2>1, LenProperties, LineAssumption
  <2> HIDE DEF T, O, N, M
  <2>6. A \in Nat /\ B \in Nat /\ (O + 1) * (M + 1) = A + (M + 1) /\ M * (T + 1) = B + M
    BY <2>4, <2>5, Distribute
  <2>7. A + i_v <= N + B
    BY <2>2 DEF Paid, T, O, N, M
  <2>8. i_v <= N /\ \A k \in (N - i_v + 2)..N : sent[k] \notin {CR, NUL}
    BY <2>2 DEF Unended, N
  <2>9. M * Cardinality(Terminators(sent')) >= B
    BY <2>4, <2>5, <2>6
  <2> HIDE DEF A, B
  <2>10. CASE (Open(b) \/ Extend(b)) /\ ~Flush(b)
    <3>1. i_v' = i_v + 1 /\ output' = output /\ (i_v # 0 => b \notin {CR, NUL})
      BY <2>10 DEF Open, Extend, LineEnd
    <3>2. Len(output') * (MAXCHAR_C + 1) = A
      BY <3>1 DEF A, O, M
    <3>3. Paid'
      <4>1. A + i_v' <= Len(sent') + M * Cardinality(Terminators(sent'))
        <5> DEFINE C == M * Cardinality(Terminators(sent'))
        <5>1. C \in Nat
          BY <2>4, <2>5, Distribute
        <5> HIDE DEF C
        <5>2. A + i_v' <= Len(sent') + C
          BY <2>1, <2>3, <2>6, <2>7, <2>9, <3>1, <5>1 DEF C
        <5> QED
          BY <5>2 DEF C
      <4> QED
        BY <3>2, <4>1 DEF Paid, M
    <3>4. Unended'
      <4>1. ASSUME NEW k \in (Len(sent') - i_v' + 2)..Len(sent')
            PROVE  sent'[k] \notin {CR, NUL}
        <5>1. k \in (N - i_v + 2)..(N + 1) /\ i_v \in Nat
          BY <2>1, <2>3, <3>1
        <5>2. CASE k = N + 1
          <6>1. i_v # 0
            BY <2>3, <5>1, <5>2
          <6> QED
            BY <2>3, <3>1, <5>2, <6>1
        <5>3. CASE k # N + 1
          <6>1. k \in (N - i_v + 2)..N /\ k \in 1..N
            BY <2>3, <2>8, <5>1, <5>3
          <6> QED
            BY <2>3, <2>8, <6>1
        <5> QED
          BY <5>2, <5>3
      <4>2. i_v' <= Len(sent')
        BY <2>1, <2>3, <2>8, <3>1
      <4> QED
        BY <4>1, <4>2 DEF Unended
    <3> QED
      BY <3>3, <3>4 DEF Account
  <2>11. CASE Flush(b)
    <3>1. /\ i_v' = 0 /\ output' = Append(output, L) /\ (i_v = M \/ b \in {CR, NUL})
          /\ i_v \in Nat
      BY <2>1, <2>11 DEF Flush, LineEnd, M
    <3>2. Len(output') = O + 1
      BY <2>1, <3>1, AppendProperties DEF O
    <3>3. A + (M + 1) + 0 <= (N + 1) + M * Cardinality(Terminators(sent'))
      <4>1. CASE b \in {CR, NUL}
        <5>1. M * Cardinality(Terminators(sent')) = B + M
          BY <2>4, <2>6, <4>1
        <5> QED
          BY <2>3, <2>5, <2>6, <2>7, <3>1, <5>1
      <4>2. CASE b \notin {CR, NUL}
        <5>1. M * Cardinality(Terminators(sent')) = B
          BY <2>4, <4>2 DEF B
        <5>2. i_v = M
          BY <3>1, <4>2
        <5> QED
          BY <2>3, <2>5, <2>6, <2>7, <5>1, <5>2
      <4> QED
        BY <4>1, <4>2
    <3>4. Paid'
      BY <2>3, <2>6, <3>1, <3>2, <3>3 DEF Paid, M
    <3>5. Unended'
      BY <2>3, <3>1 DEF Unended
    <3> QED
      BY <3>4, <3>5 DEF Account
  <2> QED
    BY <1>1, <2>10, <2>11 DEF Sample
<1>2. CASE InReset \/ Restart
    BY <1>2 DEF InReset, Restart, Account
<1>3. CASE Release
  <2>1. /\ sent' = sent /\ output' = output /\ i_v' = 0 /\ sent = <<>> /\ output = <<>>
    BY <1>3 DEF Release, IInv, BeforeRelease
  <2>2. Len(sent') = 0 /\ Len(output') = 0
    BY <2>1
  <2>3. Cardinality(Terminators(sent')) = 0
    <3>1. Terminators(sent') = {}
      BY <2>1 DEF Terminators
    <3> QED
      BY <3>1, FS_EmptySet
  <2>4. Paid' /\ Unended'
    BY <2>1, <2>2, <2>3, LineAssumption DEF Paid, Unended
  <2> QED
    BY <2>4 DEF Account
<1>4. CASE UNCHANGED vars
    BY <1>4 DEF vars, Account, Paid, Unended
<1> QED
    BY <1>1, <1>2, <1>3, <1>4 DEF Next, Done

LEMMA InitAccount == Init => Account
BY DEF Init, Account

\* A line is written only for a terminator or for a full line's worth of bytes.
THEOREM MonitorAccount == Spec => []LinesAccountedFor
<1>1. IInv /\ Account => LinesAccountedFor
  <2> SUFFICES ASSUME IInv, Account PROVE LinesAccountedFor
    OBVIOUS
  <2>1. /\ sent \in Seq(Byte) /\ output \in Seq(Seq(Character))
        /\ Len(sent) \in Nat /\ Len(output) \in Nat
    BY LenProperties DEF IInv, TypeOK
  <2>2. Cardinality(Terminators(sent)) \in Nat
    <3>1. NUL \in Byte
      BY DEF Byte
    <3> QED
      BY <2>1, <3>1, TerminatorAdds
  <2>3. CASE sreset
    <3>1. Len(output) = 0
      BY <2>3 DEF IInv, BeforeRelease
    <3>2. MAXCHAR_C * Cardinality(Terminators(sent)) \in Nat /\ 0 * (MAXCHAR_C + 1) = 0
      BY <2>2, LineAssumption, Distribute
    <3> QED
      BY <2>1, <3>1, <3>2 DEF LinesAccountedFor
  <2>4. CASE ~sreset
    <3>1. Paid /\ i_v \in Nat
      BY <2>4, LineAssumption DEF Account, IInv, BeforeRelease
    <3> DEFINE A == Len(output) * (MAXCHAR_C + 1)
               B == MAXCHAR_C * Cardinality(Terminators(sent))
    <3>2. A \in Nat /\ B \in Nat
      BY <2>1, <2>2, LineAssumption, Distribute
    <3>3. A + i_v <= Len(sent) + B
      BY <3>1 DEF Paid
    <3> HIDE DEF A, B
    <3>4. A <= Len(sent) + B
      BY <2>1, <3>1, <3>2, <3>3
    <3> QED
      BY <3>4 DEF LinesAccountedFor, A, B
  <2> QED
    BY <2>3, <2>4
<1> QED
    BY <1>1, InitIInv, StepIInv, InitAccount, StepAccount, PTL DEF Spec

\* A program that ends its lines in time.
Terminated(s) == \A i \in 1..(Len(s) - MAXCHAR_C + 1) :
                    \E j \in i..(i + MAXCHAR_C - 1) : s[j] \in {CR, NUL}

\* As long as it does, nothing is lost: a line that is full then ends with a
\* terminator, which shows nothing anyway.
LEMMA StepIntact == IInv /\ Account /\ ShortLinesIntact /\ [Next]_vars => ShortLinesIntact'
<1> SUFFICES ASSUME IInv, Account, ShortLinesIntact, [Next]_vars, Terminated(sent')
             PROVE  Displayed' = Stored'
    BY DEF ShortLinesIntact, Terminated
<1>1. ASSUME NEW b \in Byte, Sample(b) PROVE Displayed' = Stored'
  <2> DEFINE M == MAXCHAR_C
             N == Len(sent)
  <2>1. /\ ~sreset /\ sent \in Seq(Byte) /\ sent' = Append(sent, b) /\ i_v \in 0..M
        /\ M \in Nat \ {0}
    BY <1>1, LineAssumption DEF Sample, IInv, TypeOK, BeforeRelease
  <2>2. /\ N \in Nat /\ Len(sent') = N + 1 /\ sent'[N + 1] = b
        /\ \A k \in 1..N : sent'[k] = sent[k]
    BY <2>1, AppendProperties, LenProperties
  <2>3. i_v <= N /\ \A k \in (N - i_v + 2)..N : sent[k] \notin {CR, NUL}
    BY <2>1 DEF Account, Unended
  <2> HIDE DEF M, N
  <2>4. \A i \in 1..(N + 1 - M + 1) : \E j \in i..(i + M - 1) : sent'[j] \in {CR, NUL}
    <3>1. \A i \in 1..(Len(sent') - M + 1) : \E j \in i..(i + M - 1) : sent'[j] \in {CR, NUL}
      BY Zenon DEF Terminated, M
    <3>2. ASSUME NEW i \in 1..(N + 1 - M + 1)
          PROVE  \E j \in i..(i + M - 1) : sent'[j] \in {CR, NUL}
      <4>1. i \in 1..(Len(sent') - M + 1)
        BY <2>1, <2>2
      <4> QED
        BY <3>1, <4>1, Zenon
    <3> QED
      BY <3>2
  <2>5. Terminated(sent)
    <3>1. ASSUME NEW i \in 1..(N - M + 1)
          PROVE  \E j \in i..(i + M - 1) : sent[j] \in {CR, NUL}
      <4>1. i \in 1..(N + 1 - M + 1)
        BY <2>1, <2>2
      <4>2. PICK j \in i..(i + M - 1) : sent'[j] \in {CR, NUL}
        BY <2>4, <4>1
      <4>3. j \in 1..N
        BY <2>1, <2>2
      <4> QED
        BY <2>2, <4>2, <4>3
    <3> QED
      BY <3>1 DEF Terminated, M, N
  <2>6. Displayed = Stored
    BY <2>5 DEF ShortLinesIntact, Terminated
  <2>7. Flush(b) => b \in {CR, NUL}
    <3> SUFFICES ASSUME Flush(b), b \notin {CR, NUL} PROVE FALSE
      OBVIOUS
    <3>1. i_v = M
      BY DEF Flush, LineEnd, M
    <3>2. N - M + 2 \in 1..(N + 1 - M + 1)
      BY <2>1, <2>2, <2>3, <3>1
    <3>3. PICK j \in (N - M + 2)..(N - M + 2 + M - 1) : sent'[j] \in {CR, NUL}
      BY <2>4, <3>2
    <3>4. j \in (N - M + 2)..(N + 1) /\ j \in 1..(N + 1)
      BY <2>1, <2>2, <2>3, <3>1
    <3>5. CASE j = N + 1
      BY <2>2, <3>3, <3>5
    <3>6. CASE j # N + 1
      <4>1. j \in (N - i_v + 2)..N /\ j \in 1..N
        BY <2>2, <3>1, <3>4, <3>6
      <4> QED
        BY <2>2, <2>3, <3>3, <4>1
    <3> QED
      BY <3>5, <3>6
  <2>8. Displayed \in Seq(Character) /\ Stored \in Seq(Character)
    BY TextTypes DEF IInv
  <2>9. Joins(Stored, Text(b), Stored')
    BY <1>1, SampleTexts
  <2>10. Joins(Displayed, Text(b), Displayed') \/ (Flush(b) /\ Displayed' = Displayed)
    BY <1>1, SampleTexts
  <2>11. CASE Joins(Displayed, Text(b), Displayed')
    BY <2>6, <2>9, <2>11 DEF Joins
  <2>12. CASE Flush(b) /\ Displayed' = Displayed
    <3>1. Text(b) = <<>>
      BY <2>7, <2>12 DEF Text
    <3>2. Stored' = Stored
      BY <2>8, <2>9, <3>1, ConcatEmptySeq DEF Joins
    <3> QED
      BY <2>6, <2>12, <3>2
  <2> QED
    BY <2>10, <2>11, <2>12
<1>2. CASE InReset \/ Release \/ UNCHANGED vars
  <2>1. L' = L /\ output' = output /\ sent' = sent
    BY <1>2 DEF InReset, Release, vars
  <2>2. Displayed' = Displayed /\ Stored' = Stored
    BY <2>1 DEF Displayed, Stored
  <2>3. Displayed = Stored
    BY <2>1 DEF ShortLinesIntact, Terminated
  <2> QED
    BY <2>2, <2>3
<1>3. CASE Restart
  <2>1. L' = <<>> /\ output' = <<>> /\ sent' = <<>>
    BY <1>3 DEF Restart
  <2> QED
    BY <2>1, NothingYet DEF Displayed, Stored, Bodies, Texts
<1> QED
    BY <1>1, <1>2, <1>3 DEF Next, Done

\* As long as the program sends a terminator at least every MAXCHAR_C bytes,
\* everything it stored is on display, in order.
THEOREM MonitorIntact == Spec => []ShortLinesIntact
<1>1. Init => ShortLinesIntact
  <2> SUFFICES ASSUME Init PROVE Displayed = Stored
    BY DEF ShortLinesIntact
  <2> QED
    BY NothingYet DEF Init, Displayed, Stored, Bodies, Texts
<1> QED
    BY <1>1, InitIInv, StepIInv, InitAccount, StepAccount, StepIntact, PTL DEF Spec

=============================================================================
