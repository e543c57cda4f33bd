----------------------------- MODULE SeqLemmas -----------------------------
(***************************************************************************)
(* Lemmas about loops over sequences: induction over the natural numbers,  *)
(* stated for a set instead of a predicate, and what the folds and the     *)
(* flattening of the community modules compute one element at a time.      *)
(***************************************************************************)
EXTENDS Integers, SequencesExt, FiniteSetTheorems, SequenceTheorems, TLAPS

-----------------------------------------------------------------------------
\* Every non-empty set of natural numbers has a least element: among the
\* intervals from 0 to its elements one contains no other.
LEMMA LeastNatural ==
    ASSUME NEW T, T \subseteq Nat, T # {}
    PROVE  \E n \in T : \A m \in T : n <= m
<1> DEFINE R == StrictSubsetOrdering(Nat)
           F == FiniteSubsetsOf(Nat)
           G == {0..n : n \in T}
<1>1. IsWellFoundedOn(R, F)
    BY FS_StrictSubsetOrderingWellFounded
<1>2. G \subseteq F /\ G # {}
  <2>1. ASSUME NEW n \in T PROVE 0..n \in F
    <3>1. IsFiniteSet(0..n)
      BY FS_Interval
    <3> QED
      BY <3>1 DEF FiniteSubsetsOf
  <2> QED
    BY <2>1
<1>3. PICK g \in G : \A h \in G : ~ (<<h, g>> \in R)
  <2> HIDE DEF R, F, G
  <2> QED
    BY <1>1, <1>2, WFMin
<1>4. PICK n \in T : g = 0..n
    OBVIOUS
<1>5. ASSUME NEW m \in T, m < n PROVE FALSE
  <2>1. /\ 0..m \in SUBSET Nat /\ 0..n \in SUBSET Nat
        /\ 0..m \subseteq 0..n /\ 0..m # 0..n
    BY <1>5
  <2>2. <<0..m, 0..n>> \in R
    BY <2>1 DEF StrictSubsetOrdering
  <2> QED
    BY <2>2, <1>3, <1>4
<1> QED
    BY <1>5

\* Induction: a set with 0 and the successor of each of its numbers up to n
\* has all numbers up to n.
LEMMA UpTo ==
    ASSUME NEW n \in Nat, NEW S, 0 \in S,
           \A k \in 0..(n - 1) : k \in S => k + 1 \in S
    PROVE  0..n \subseteq S
<1> DEFINE T == {k \in 0..n : k \notin S}
<1>1. SUFFICES ASSUME T # {} PROVE FALSE
    OBVIOUS
<1>2. PICK k \in T : \A m \in T : k <= m
  <2>1. T \subseteq Nat
    OBVIOUS
  <2> QED
    BY <1>1, <2>1, LeastNatural
<1>3. k # 0 /\ k - 1 \in 0..(n - 1) /\ k - 1 \in S
    BY <1>2
<1> QED
    BY <1>2, <1>3

-----------------------------------------------------------------------------
\* A loop of n rounds over states V: it starts with base, and round k applies
\* step[k].  f gives the state after each round.
IsStep(step, V, n)       == step \in [1..n -> [V -> V]]
IsLoop(f, V, n, base, step) == /\ f \in [0..n -> V] /\ f[0] = base
                               /\ \A k \in 1..n : f[k] = step[k][f[k - 1]]

LEMMA LoopExists ==
    ASSUME NEW V, NEW n \in Nat, NEW base \in V, NEW step, IsStep(step, V, n)
    PROVE  \E f : IsLoop(f, V, n, base, step)
<1> DEFINE S == {m \in 0..n : \E f : IsLoop(f, V, m, base, step)}
<1>1. 0 \in S
  <2> DEFINE z == [k \in 0..0 |-> base]
  <2>1. IsLoop(z, V, 0, base, step)
    BY DEF IsLoop
  <2> QED
    BY <2>1
<1>2. ASSUME NEW m \in 0..(n - 1), m \in S PROVE m + 1 \in S
  <2>1. PICK f : IsLoop(f, V, m, base, step)
    BY <1>2
  <2> DEFINE g == [k \in 0..(m + 1) |-> IF k = m + 1 THEN step[k][f[m]] ELSE f[k]]
  <2>2. f[m] \in V /\ step[m + 1] \in [V -> V]
    BY <2>1 DEF IsLoop, IsStep
  <2>3. step[m + 1][f[m]] \in V
    BY <2>2
  <2>4. g \in [0..(m + 1) -> V]
    BY <2>1, <2>3 DEF IsLoop
  <2>5. ASSUME NEW k \in 1..(m + 1) PROVE g[k] = step[k][g[k - 1]]
    <3>1. k - 1 \in 0..m
      OBVIOUS
    <3>2. g[k - 1] = f[k - 1]
      BY <3>1
    <3> QED
      BY <2>1, <3>1, <3>2 DEF IsLoop
  <2>6. g[0] = base
    BY <2>1 DEF IsLoop
  <2> HIDE DEF g
  <2>7. IsLoop(g, V, m + 1, base, step)
    BY <2>4, <2>5, <2>6 DEF IsLoop
  <2> QED
    BY <2>7
<1>3. n \in S
  <2> HIDE DEF S
  <2>1. 0..n \subseteq S
    BY <1>1, <1>2, UpTo
  <2> QED
    BY <2>1
<1> QED
    BY <1>3

\* There is only one.
LEMMA LoopUnique ==
    ASSUME NEW V, NEW n \in Nat, NEW base, NEW step, NEW f, NEW g,
           IsLoop(f, V, n, base, step), IsLoop(g, V, n, base, step)
    PROVE  f = g
<1> DEFINE S == {k \in 0..n : f[k] = g[k]}
<1>1. 0 \in S
    BY DEF IsLoop
<1>2. ASSUME NEW k \in 0..(n - 1), k \in S PROVE k + 1 \in S
  <2>1. k + 1 \in 1..n /\ (k + 1) - 1 = k /\ f[k] = g[k]
    BY <1>2
  <2>2. f[k + 1] = step[k + 1][f[k]] /\ g[k + 1] = step[k + 1][g[k]]
    BY <2>1 DEF IsLoop
  <2> QED
    BY <2>1, <2>2
<1>3. 0..n \subseteq S
  <2> HIDE DEF S
  <2> QED
    BY <1>1, <1>2, UpTo
<1> QED
    BY <1>3 DEF IsLoop

-----------------------------------------------------------------------------
\* The greatest element of a set of numbers up to n.
LEMMA MaxUpTo ==
    ASSUME NEW n \in Nat, NEW S, S \subseteq 1..n, S # {}
    PROVE  Max(S) \in S /\ \A y \in S : y <= Max(S)
<1> DEFINE T == {n - k : k \in S}
<1>0. \A k \in S : k \in 1..n /\ n - k \in Nat /\ n - k \in T
    OBVIOUS
<1>1. T \subseteq Nat /\ T # {}
    BY <1>0
<1>2. PICK l \in T : \A m \in T : l <= m
    BY <1>1, LeastNatural
<1>3. PICK x \in S : l = n - x
    OBVIOUS
<1>4. ASSUME NEW y \in S PROVE x >= y
  <2>1. n - y \in T
    BY <1>0
  <2> HIDE DEF T
  <2>2. n - x <= n - y
    BY <1>2, <1>3, <2>1
  <2>3. x \in 1..n /\ y \in 1..n
    BY <1>0
  <2> QED
    BY <2>2, <2>3
<1>5. \E z \in S : \A y \in S : z >= y
    BY <1>4
<1>6. Max(S) \in S /\ \A y \in S : Max(S) >= y
    BY <1>5, Zenon DEF Max
<1> QED
    BY <1>6

LEMMA SegmentMax ==
    ASSUME NEW k \in Nat \ {0}
    PROVE  Max(1..k) = k /\ (1..k) \ {k} = 1..(k - 1) /\ 1..k # {}
<1>1. 1..k \subseteq 1..k /\ k \in 1..k
    OBVIOUS
<1>2. Max(1..k) \in 1..k /\ k <= Max(1..k)
    BY <1>1, MaxUpTo
<1> QED
    BY <1>1, <1>2

\* The fold from the left over a sequence of length n as the community modules
\* define it, a function of the set of the elements not taken yet.
IsFold(h, V, n, base, step) ==
    /\ h \in [SUBSET (1..n) -> V] /\ h[{}] = base
    /\ \A S \in SUBSET (1..n) :
          S # {} => Max(S) \in S /\ h[S] = step[Max(S)][h[S \ {Max(S)}]]

\* One more element, the greatest.
LEMMA FoldExtends ==
    ASSUME NEW V, NEW m \in Nat, NEW base, NEW step, IsStep(step, V, m + 1),
           NEW h, IsFold(h, V, m, base, step)
    PROVE  \E g : IsFold(g, V, m + 1, base, step)
<1> DEFINE l == m + 1
           g == [S \in SUBSET (1..l) |->
                    IF l \in S THEN step[l][h[S \ {l}]] ELSE h[S]]
<1>1. ASSUME NEW S \in SUBSET (1..l)
      PROVE  S \ {l} \in SUBSET (1..m) /\ (l \notin S => S \in SUBSET (1..m))
    OBVIOUS
<1>2. \A R \in SUBSET (1..m) : h[R] \in V
    BY DEF IsFold
<1>3. l \in 1..l /\ step[l] \in [V -> V]
    BY DEF IsStep
<1>4. ASSUME NEW S \in SUBSET (1..l) PROVE g[S] \in V
  <2>1. CASE l \in S
    <3>1. h[S \ {l}] \in V
      BY <1>1, <1>2
    <3> QED
      BY <1>3, <2>1, <3>1
  <2>2. CASE l \notin S
    BY <1>1, <1>2, <2>2
  <2> QED
    BY <2>1, <2>2
<1>5. g \in [SUBSET (1..l) -> V]
    BY <1>4
<1>6. g[{}] = base
  <2>1. {} \in SUBSET (1..l) /\ l \notin {}
    OBVIOUS
  <2> QED
    BY <2>1 DEF IsFold
<1>7. ASSUME NEW S \in SUBSET (1..l), S # {}
      PROVE  Max(S) \in S /\ g[S] = step[Max(S)][g[S \ {Max(S)}]]
  <2>0. l \in Nat /\ S \subseteq 1..l
    OBVIOUS
  <2>1. Max(S) \in S /\ \A y \in S : y <= Max(S)
    BY <1>7, <2>0, MaxUpTo
  <2>2. CASE l \in S
    <3>1. Max(S) = l
      <4>1. Max(S) \in 1..l /\ l <= Max(S)
        BY <2>0, <2>1, <2>2
      <4> QED
        BY <4>1
    <3>2. S \ {l} \in SUBSET (1..l) /\ l \notin S \ {l}
      OBVIOUS
    <3>3. g[S \ {l}] = h[S \ {l}]
      BY <3>2
    <3> QED
      BY <2>1, <2>2, <3>1, <3>3
  <2>3. CASE l \notin S
    <3>1. S \in SUBSET (1..m) /\ S \ {Max(S)} \in SUBSET (1..l) /\ l \notin S \ {Max(S)}
      BY <1>1, <2>3
    <3>2. h[S] = step[Max(S)][h[S \ {Max(S)}]]
      BY <1>7, <3>1 DEF IsFold
    <3>3. g[S] = h[S] /\ g[S \ {Max(S)}] = h[S \ {Max(S)}]
      BY <2>3, <3>1
    <3> QED
      BY <2>1, <3>2, <3>3
  <2> QED
    BY <2>2, <2>3
<1> HIDE DEF g
<1>8. IsFold(g, V, l, base, step)
    BY <1>5, <1>6, <1>7 DEF IsFold
<1> QED
    BY <1>8

LEMMA FoldExists ==
    ASSUME NEW V, NEW n \in Nat, NEW base \in V, NEW step, IsStep(step, V, n)
    PROVE  \E h : IsFold(h, V, n, base, step)
<1> DEFINE S == {m \in 0..n : \E h : IsFold(h, V, m, base, step)}
<1>1. 0 \in S
  <2> DEFINE z == [R \in SUBSET (1..0) |-> base]
  <2>1. SUBSET (1..0) = {{}}
    OBVIOUS
  <2>2. z \in [SUBSET (1..0) -> V] /\ z[{}] = base
    BY <2>1
  <2> HIDE DEF z
  <2>3. IsFold(z, V, 0, base, step)
    BY <2>1, <2>2 DEF IsFold
  <2> QED
    BY <2>3
<1>2. ASSUME NEW m \in 0..(n - 1), m \in S PROVE m + 1 \in S
  <2>1. PICK h : IsFold(h, V, m, base, step)
    BY <1>2
  <2>2. m \in Nat /\ m + 1 \in 0..n /\ \A k \in 1..(m + 1) : k \in 1..n
    OBVIOUS
  <2>3. \E g : IsFold(g, V, m + 1, base, step)
    <3> DEFINE cut == [k \in 1..(m + 1) |-> step[k]]
    <3>1. IsStep(cut, V, m + 1)
      BY <2>2 DEF IsStep
    <3>2. \A k \in 1..(m + 1) : cut[k] = step[k]
      OBVIOUS
    <3> HIDE DEF cut
    <3>3. IsFold(h, V, m, base, cut)
      <4>1. ASSUME NEW R \in SUBSET (1..m), R # {}
            PROVE  Max(R) \in R /\ h[R] = cut[Max(R)][h[R \ {Max(R)}]]
        <5>1. Max(R) \in R /\ h[R] = step[Max(R)][h[R \ {Max(R)}]]
          BY <2>1, <4>1 DEF IsFold
        <5>2. Max(R) \in 1..(m + 1)
          <6>1. Max(R) \in 1..m
            BY <5>1
          <6> QED
            BY <2>2, <6>1
        <5> QED
          BY <3>2, <5>1, <5>2
      <4> QED
        BY <2>1, <4>1 DEF IsFold
    <3>4. PICK g : IsFold(g, V, m + 1, base, cut)
      BY <2>2, <3>1, <3>3, FoldExtends
    <3>5. IsFold(g, V, m + 1, base, step)
      <4>1. ASSUME NEW R \in SUBSET (1..(m + 1)), R # {}
            PROVE  Max(R) \in R /\ g[R] = step[Max(R)][g[R \ {Max(R)}]]
        <5>1. Max(R) \in R /\ g[R] = cut[Max(R)][g[R \ {Max(R)}]]
          BY <3>4, <4>1 DEF IsFold
        <5>2. Max(R) \in 1..(m + 1)
          BY <5>1
        <5> QED
          BY <3>2, <5>1, <5>2
      <4> QED
        BY <3>4, <4>1 DEF IsFold
    <3> QED
      BY <3>5
  <2> QED
    BY <2>2, <2>3
<1>3. 0..n \subseteq S
  <2> HIDE DEF S
  <2> QED
    BY <1>1, <1>2, UpTo
<1>4. n \in S
    BY <1>3
<1> QED
    BY <1>4

\* On the initial segments a fold is a loop.
Follows(g, V, n, base, step) ==
    /\ g[1..0] = base
    /\ \A k \in 1..n : g[1..(k - 1)] \in V => g[1..k] = step[k][g[1..(k - 1)]]

LEMMA FoldIsLoop ==
    ASSUME NEW V, NEW n \in Nat, NEW base \in V, NEW step, IsStep(step, V, n),
           NEW g, Follows(g, V, n, base, step)
    PROVE  IsLoop([k \in 0..n |-> g[1..k]], V, n, base, step)
<1> DEFINE S == {k \in 0..n : g[1..k] \in V}
<1>1. 0 \in S
    BY DEF Follows
<1>2. ASSUME NEW k \in 0..(n - 1), k \in S PROVE k + 1 \in S
  <2> DEFINE l == k + 1
  <2>1. l \in 1..n /\ l \in 0..n /\ l - 1 = k
    OBVIOUS
  <2> HIDE DEF l
  <2>2. g[1..(l - 1)] \in V
    BY <1>2, <2>1
  <2>3. g[1..l] = step[l][g[1..(l - 1)]]
    BY <2>1, <2>2 DEF Follows
  <2>4. step[l] \in [V -> V]
    BY <2>1 DEF IsStep
  <2>5. g[1..l] \in V
    BY <2>2, <2>3, <2>4
  <2>6. l \in S
    BY <2>1, <2>5
  <2> QED
    BY <2>6 DEF l
<1>3. 0..n \subseteq S
  <2> HIDE DEF S
  <2> QED
    BY <1>1, <1>2, UpTo
<1> DEFINE f == [k \in 0..n |-> g[1..k]]
<1>4. f \in [0..n -> V]
    BY <1>3
<1>5. f[0] = base
    BY DEF Follows
<1>6. ASSUME NEW k \in 1..n PROVE f[k] = step[k][f[k - 1]]
  <2>1. k \in 0..n /\ k - 1 \in 0..n
    OBVIOUS
  <2>2. g[1..(k - 1)] \in V
    BY <1>3, <2>1
  <2>3. g[1..k] = step[k][g[1..(k - 1)]]
    BY <2>2 DEF Follows
  <2> QED
    BY <2>1, <2>3
<1> HIDE DEF f
<1>7. IsLoop(f, V, n, base, step)
    BY <1>4, <1>5, <1>6 DEF IsLoop
<1> QED
    BY <1>7 DEF f

-----------------------------------------------------------------------------
\* FlattenSeq is a loop that appends one sequence in each round.
IsFlattening(f, s, V) == /\ s \in Seq(Seq(V)) /\ f \in [0..Len(s) -> Seq(V)]
                         /\ f[0] = << >>
                         /\ \A k \in 1..Len(s) : f[k] = f[k - 1] \o s[k]

LEMMA FlattenLoop ==
    ASSUME NEW V, NEW s \in Seq(Seq(V))
    PROVE  \E f : IsFlattening(f, s, V) /\ FlattenSeq(s) = f[Len(s)]
<1> DEFINE n == Len(s)
           W == Seq(V)
           G == [k \in 1..n |-> [t \in W |-> t \o s[k]]]
           Rec(g) == g = [i \in 1..n |-> IF i = 1 THEN s[i] ELSE g[i - 1] \o s[i]]
           flat == CHOOSE g : Rec(g)
<1>1. n \in Nat /\ \A k \in 1..n : s[k] \in Seq(V)
    BY ElementOfSeq
<1>2. IsStep(G, W, n)
  <2>1. \A k \in 1..n, t \in W : t \o s[k] \in W
    BY <1>1, ConcatProperties
  <2> QED
    BY <2>1 DEF IsStep
<1>3. << >> \in W
    OBVIOUS
<1>4. PICK f : IsLoop(f, W, n, << >>, G)
  <2> HIDE DEF G, n, W
  <2> QED
    BY <1>1, <1>2, <1>3, LoopExists
<1>5. \A k \in 1..n : f[k - 1] \in Seq(V) /\ f[k] = f[k - 1] \o s[k]
  <2> SUFFICES ASSUME NEW k \in 1..n
               PROVE  f[k - 1] \in Seq(V) /\ f[k] = f[k - 1] \o s[k]
    OBVIOUS
  <2>1. k - 1 \in 0..n
    BY <1>1
  <2>2. f[k - 1] \in Seq(V)
    BY <1>4, <2>1 DEF IsLoop
  <2> QED
    BY <1>4, <2>2 DEF IsLoop
<1>6. Rec(flat)
  <2> DEFINE h == [i \in 1..n |-> f[i]]
  <2>1. ASSUME NEW i \in 1..n PROVE h[i] = IF i = 1 THEN s[i] ELSE h[i - 1] \o s[i]
    <3>1. CASE i = 1
      <4>1. f[1] = << >> \o s[1] /\ s[1] \in Seq(V)
        <5>1. 1 \in 1..n /\ 1 - 1 = 0
          BY <3>1
        <5> QED
          BY <1>1, <1>4, <1>5, <5>1 DEF IsLoop
      <4> QED
        BY <3>1, <4>1, ConcatEmptySeq
    <3>2. CASE i # 1
      <4>1. i - 1 \in 1..n
        BY <1>1, <3>2
      <4> QED
        BY <1>5, <3>2, <4>1
    <3> QED
      BY <3>1, <3>2
  <2>2. Rec(h)
    BY <2>1
  <2> HIDE DEF Rec
  <2> QED
    BY <2>2
<1>7. n # 0 => flat[n] = f[n]
  <2> DEFINE S == {k \in 0..n : k # 0 => flat[k] = f[k]}
  <2>1. 0 \in S
    BY <1>1
  <2>2. ASSUME NEW k \in 0..(n - 1), k \in S PROVE k + 1 \in S
    <3>1. k + 1 \in 1..n /\ (k + 1) - 1 = k
      BY <1>1
    <3>2. flat[k + 1] = IF k = 0 THEN s[k + 1] ELSE flat[k] \o s[k + 1]
      <4>1. flat = [i \in 1..n |-> IF i = 1 THEN s[i] ELSE flat[i - 1] \o s[i]]
        BY <1>6
      <4> HIDE DEF flat
      <4>2. flat[k + 1] = IF k + 1 = 1 THEN s[k + 1] ELSE flat[(k + 1) - 1] \o s[k + 1]
        BY <3>1, <4>1
      <4> QED
        BY <3>1, <4>2
    <3>3. f[k + 1] = f[k] \o s[k + 1] /\ s[k + 1] \in Seq(V)
      BY <1>1, <1>5, <3>1
    <3>4. k = 0 => f[k] \o s[k + 1] = s[k + 1]
      BY <1>4, <3>3, ConcatEmptySeq DEF IsLoop
    <3>5. flat[k + 1] = f[k + 1]
      BY <2>2, <3>2, <3>3, <3>4
    <3> HIDE DEF flat
    <3> QED
      BY <3>1, <3>5
  <2> HIDE DEF S
  <2>3. 0..n \subseteq S
    BY <1>1, <2>1, <2>2, UpTo
  <2>4. n \in S
    BY <1>1, <2>3
  <2> QED
    BY <2>4 DEF S
<1>8. FlattenSeq(s) = IF n = 0 THEN s ELSE flat[n]
    BY DEF FlattenSeq
<1>9. n = 0 => s = << >>
    BY EmptySeq
<1>10. FlattenSeq(s) = f[n]
    BY <1>1, <1>4, <1>7, <1>8, <1>9 DEF IsLoop
<1> QED
    BY <1>4, <1>5, <1>10 DEF IsLoop, IsFlattening

\* The sequences that are flattened, and what is there after each round.
LEMMA FlattenTypes ==
    ASSUME NEW V, NEW s, NEW f, IsFlattening(f, s, V)
    PROVE  s \in Seq(Seq(V)) /\ Len(s) \in Nat
BY LenProperties DEF IsFlattening

LEMMA FlattenPiece ==
    ASSUME NEW V, NEW s, NEW f, IsFlattening(f, s, V), NEW k \in 1..Len(s)
    PROVE  s[k] \in Seq(V) /\ Len(s[k]) \in Nat
<1>1. s[k] \in Seq(V)
    BY ElementOfSeq DEF IsFlattening
<1> QED
    BY <1>1, LenProperties

LEMMA FlattenState ==
    ASSUME NEW V, NEW s, NEW f, IsFlattening(f, s, V), NEW k \in 0..Len(s)
    PROVE  f[k] \in Seq(V) /\ Len(f[k]) \in Nat
<1>1. f[k] \in Seq(V)
    BY DEF IsFlattening
<1> QED
    BY <1>1, LenProperties

\* w is u followed by v.
Joins(u, v, w) == w = u \o v

LEMMA FlattenJoins ==
    ASSUME NEW V, NEW s, NEW f, IsFlattening(f, s, V), NEW k \in 1..Len(s)
    PROVE  Joins(f[k - 1], s[k], f[k])
BY DEF IsFlattening, Joins

\* Sequences that start alike are flattened alike.
LEMMA FlattenPrefix ==
    ASSUME NEW V, NEW s, NEW t, NEW f, NEW g,
           IsFlattening(f, s, V), IsFlattening(g, t, V),
           Len(s) <= Len(t), \A k \in 1..Len(s) : t[k] = s[k]
    PROVE  \A k \in 0..Len(s) : f[k] = g[k]
<1> DEFINE S == {k \in 0..Len(s) : f[k] = g[k]}
<1>1. Len(s) \in Nat /\ Len(t) \in Nat
    BY FlattenTypes
<1>2. 0 \in S
    BY <1>1 DEF IsFlattening
<1>3. ASSUME NEW k \in 0..(Len(s) - 1), k \in S PROVE k + 1 \in S
  <2> DEFINE l == k + 1
  <2>1. l \in 1..Len(s) /\ l \in 1..Len(t) /\ l \in 0..Len(s) /\ l - 1 = k /\ f[k] = g[k]
    BY <1>1, <1>3
  <2> HIDE DEF l
  <2>2. Joins(f[l - 1], s[l], f[l])
    BY <2>1, FlattenJoins
  <2>3. Joins(g[l - 1], t[l], g[l])
    BY <2>1, FlattenJoins
  <2>4. t[l] = s[l]
    BY <2>1
  <2>5. f[l] = g[l]
    BY <2>1, <2>2, <2>3, <2>4 DEF Joins
  <2>6. l \in S
    BY <2>1, <2>5
  <2> QED
    BY <2>6 DEF l
<1>4. 0..Len(s) \subseteq S
  <2> HIDE DEF S
  <2> QED
    BY <1>1, <1>2, <1>3, UpTo
<1> QED
    BY <1>4

\* Nothing flattened is nothing, and one more sequence goes to the end.
LEMMA FlattenProperties ==
    ASSUME NEW V
    PROVE  /\ FlattenSeq(<< >>) = << >>
           /\ \A s \in Seq(Seq(V)) : FlattenSeq(s) \in Seq(V)
           /\ \A s \in Seq(Seq(V)), x \in Seq(V) :
                  Joins(FlattenSeq(s), x, FlattenSeq(Append(s, x)))
<1>1. FlattenSeq(<< >>) = << >>
    BY EmptySeq DEF FlattenSeq
<1>2. ASSUME NEW s \in Seq(Seq(V)) PROVE FlattenSeq(s) \in Seq(V)
  <2>1. PICK f : IsFlattening(f, s, V) /\ FlattenSeq(s) = f[Len(s)]
    BY FlattenLoop
  <2>2. Len(s) \in 0..Len(s)
    BY LenProperties
  <2>3. f[Len(s)] \in Seq(V)
    BY <2>1, <2>2, FlattenState
  <2> QED
    BY <2>1, <2>3
<1>3. ASSUME NEW s \in Seq(Seq(V)), NEW x \in Seq(V)
      PROVE  Joins(FlattenSeq(s), x, FlattenSeq(Append(s, x)))
  <2> DEFINE t == Append(s, x)
  <2>1. /\ t \in Seq(Seq(V)) /\ Len(t) = Len(s) + 1 /\ Len(s) \in Nat
        /\ t[Len(t)] = x /\ \A k \in 1..Len(s) : t[k] = s[k]
    BY AppendProperties, LenProperties
  <2> HIDE DEF t
  <2>2. PICK f : IsFlattening(f, s, V) /\ FlattenSeq(s) = f[Len(s)]
    BY FlattenLoop
  <2>3. PICK g : IsFlattening(g, t, V) /\ FlattenSeq(t) = g[Len(t)]
    BY <2>1, FlattenLoop
  <2>4. \A k \in 0..Len(s) : f[k] = g[k]
    BY <2>1, <2>2, <2>3, FlattenPrefix
  <2>5. Len(t) \in 1..Len(t) /\ Len(t) - 1 = Len(s) /\ Len(s) \in 0..Len(s)
    BY <2>1
  <2>6. Joins(g[Len(t) - 1], t[Len(t)], g[Len(t)])
    BY <2>3, <2>5, FlattenJoins
  <2>7. g[Len(t) - 1] = f[Len(s)]
    BY <2>4, <2>5
  <2> QED
    BY <2>1, <2>2, <2>3, <2>6, <2>7 DEF t
<1> QED
    BY <1>1, <1>2, <1>3

\* u is how v starts.
Starts(u, v) == /\ Len(u) \in Nat /\ Len(v) \in Nat /\ Len(u) <= Len(v)
                /\ \A i \in 1..Len(u) : v[i] = u[i]

LEMMA JoinProperties ==
    ASSUME NEW V, NEW u \in Seq(V), NEW v \in Seq(V), NEW w, Joins(u, v, w)
    PROVE  /\ Len(w) = Len(u) + Len(v)
           /\ Starts(u, w)
           /\ \A j \in 1..Len(v) : Len(u) + j \in 1..Len(w) /\ w[Len(u) + j] = v[j]
<1>1. Len(u) \in Nat /\ Len(v) \in Nat
    BY LenProperties
<1>2. /\ Len(u \o v) = Len(u) + Len(v)
      /\ \A i \in 1..(Len(u) + Len(v)) :
            (u \o v)[i] = IF i <= Len(u) THEN u[i] ELSE v[i - Len(u)]
    BY ConcatProperties
<1>3. w = u \o v
    BY DEF Joins
<1>4. ASSUME NEW i \in 1..Len(u) PROVE w[i] = u[i]
    BY <1>1, <1>2, <1>3
<1>5. ASSUME NEW j \in 1..Len(v)
      PROVE  Len(u) + j \in 1..Len(w) /\ w[Len(u) + j] = v[j]
  <2>1. /\ Len(u) + j \in 1..(Len(u) + Len(v)) /\ ~ (Len(u) + j <= Len(u))
        /\ (Len(u) + j) - Len(u) = j
    BY <1>1
  <2> QED
    BY <1>2, <1>3, <2>1
<1> QED
    BY <1>1, <1>2, <1>3, <1>4, <1>5 DEF Starts

\* Each sequence adds its length.
LengthsAdd(u, v, w) == Len(u) \in Nat /\ Len(v) \in Nat /\ Len(w) = Len(u) + Len(v)

LEMMA FlattenLength ==
    ASSUME NEW V, NEW s, NEW f, IsFlattening(f, s, V), NEW k \in 1..Len(s)
    PROVE  LengthsAdd(f[k - 1], s[k], f[k])
<1> DEFINE u == f[k - 1]
           v == s[k]
           w == f[k]
<1>1. k - 1 \in 0..Len(s)
    BY FlattenTypes
<1>2. u \in Seq(V) /\ v \in Seq(V) /\ Joins(u, v, w)
    BY <1>1, FlattenState, FlattenPiece, FlattenJoins
<1>3. Len(u) \in Nat /\ Len(v) \in Nat
    BY <1>1, FlattenState, FlattenPiece
<1> HIDE DEF u, v, w
<1>4. Len(w) = Len(u) + Len(v)
    BY <1>2, JoinProperties
<1> QED
    BY <1>3, <1>4 DEF LengthsAdd, u, v, w

\* What is there after k rounds stays where it is.
LEMMA FlattenKeeps ==
    ASSUME NEW V, NEW s, NEW f, IsFlattening(f, s, V),
           NEW k \in 0..Len(s), NEW m \in k..Len(s)
    PROVE  Starts(f[k], f[m])
<1> DEFINE S == {d \in 0..(m - k) : Starts(f[k], f[k + d])}
<1>1. Len(s) \in Nat /\ k \in Nat /\ m - k \in Nat
    BY FlattenTypes
<1>2. 0 \in S
  <2>1. Len(f[k]) \in Nat /\ k + 0 = k
    BY <1>1, FlattenState
  <2> QED
    BY <1>1, <2>1 DEF Starts
<1>3. ASSUME NEW d \in 0..((m - k) - 1), d \in S PROVE d + 1 \in S
  <2> DEFINE l == k + (d + 1)
  <2>1. l \in 1..Len(s) /\ l - 1 \in 0..Len(s) /\ l - 1 = k + d /\ d + 1 \in 0..(m - k)
    BY <1>1
  <2> HIDE DEF l
  <2>2. Starts(f[k], f[l - 1])
    BY <1>3, <2>1
  <2>3. f[l - 1] \in Seq(V) /\ s[l] \in Seq(V)
    BY <2>1, FlattenState, FlattenPiece
  <2>4. Joins(f[l - 1], s[l], f[l])
    BY <2>1, FlattenJoins
  <2>5. Starts(f[l - 1], f[l])
    BY <2>3, <2>4, JoinProperties
  <2>6. Starts(f[k], f[l])
    BY <2>2, <2>5 DEF Starts
  <2> QED
    BY <2>1, <2>6 DEF l
<1>4. 0..(m - k) \subseteq S
  <2> HIDE DEF S
  <2> QED
    BY <1>1, <1>2, <1>3, UpTo
<1>5. m - k \in S /\ k + (m - k) = m
  <2> HIDE DEF S
  <2> QED
    BY <1>1, <1>4
<1> QED
    BY <1>5

\* Where the elements of the k-th sequence are in the end.
LEMMA FlattenAt ==
    ASSUME NEW V, NEW s, NEW f, IsFlattening(f, s, V), NEW k \in 1..Len(s),
           NEW j \in 1..Len(s[k])
    PROVE  /\ Len(f[k - 1]) + j \in 1..Len(f[k]) /\ Len(f[k]) <= Len(f[Len(s)])
           /\ f[Len(s)][Len(f[k - 1]) + j] = s[k][j]
<1>1. /\ Len(s) \in Nat /\ k \in 0..Len(s) /\ k - 1 \in 0..Len(s)
      /\ Len(s) \in k..Len(s)
    BY FlattenTypes
<1> DEFINE u == f[k - 1]
           v == s[k]
           w == f[k]
<1>2. u \in Seq(V) /\ v \in Seq(V) /\ Joins(u, v, w)
    BY <1>1, FlattenState, FlattenPiece, FlattenJoins
<1>3. Starts(w, f[Len(s)])
    BY <1>1, FlattenKeeps
<1> HIDE DEF u, v, w
<1>4. j \in 1..Len(v)
    BY DEF v
<1>5. Len(u) + j \in 1..Len(w) /\ w[Len(u) + j] = v[j]
    BY <1>2, <1>4, JoinProperties
<1> QED
    BY <1>3, <1>5 DEF Starts, u, v, w

=============================================================================
