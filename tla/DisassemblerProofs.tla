------------------------- MODULE DisassemblerProofs -------------------------
(***************************************************************************)
(* Whatever program is disassembled: the loop fetches the words that were  *)
(* assembled, each at its offset and with its length; registers and        *)
(* immediates have the width and the scale of their codec; the operands of *)
(* a branch, a jump and a register-immediate instruction encode back to    *)
(* its word; opcode and operands tell every bit of the word; every opcode  *)
(* is in the table, none compressed after decompression; and the text      *)
(* shows every operand, of a pseudo instruction every operand of what it   *)
(* stands for.                                                             *)
(***************************************************************************)
EXTENDS Disassembler, RvBitsProofs, SeqLemmas, FiniteSetTheorems

-----------------------------------------------------------------------------
(***************************************************************************)
(* The layout of a program: where its words are, and their bytes.          *)
(***************************************************************************)
(* The sum of a list is what a loop adds up.                               *)
Adds(g, s) == /\ g \in [0..Len(s) -> Nat] /\ g[0] = 0
              /\ \A k \in 1..Len(s) : g[k] = g[k - 1] + s[k]

LEMMA SumLoop ==
    ASSUME NEW s \in Seq(Nat)
    PROVE  \E f : Adds(f, s) /\ FoldLeft(+, 0, s) = f[Len(s)]
<1> DEFINE n == Len(s)
           step == [k \in 1..n |-> [m \in Nat |-> m + s[k]]]
           Rec(g) == g = [R \in SUBSET (DOMAIN s) |->
                             IF R = {} THEN 0 ELSE g[R \ {Max(R)}] + s[Max(R)]]
           g == CHOOSE h : Rec(h)
<1>1. n \in Nat /\ DOMAIN s = 1..n /\ \A k \in 1..n : s[k] \in Nat
  BY LenProperties, ElementOfSeq
<1>2. IsStep(step, Nat, n)
  BY <1>1 DEF IsStep
<1>3. PICK h : IsFold(h, Nat, n, 0, step)
  <2> HIDE DEF step, n
  <2> QED
    BY <1>1, <1>2, FoldExists
<1>4. Rec(h)
  <2>1. h \in [SUBSET (1..n) -> Nat] /\ h[{}] = 0
    BY <1>3 DEF IsFold
  <2>2. ASSUME NEW R \in SUBSET (1..n), R # {}
        PROVE  h[R] = h[R \ {Max(R)}] + s[Max(R)]
    <3>1. Max(R) \in R /\ h[R] = step[Max(R)][h[R \ {Max(R)}]]
      BY <1>3, <2>2 DEF IsFold
    <3>2. Max(R) \in 1..n /\ R \ {Max(R)} \in SUBSET (1..n)
      BY <3>1
    <3>3. h[R \ {Max(R)}] \in Nat
      BY <2>1, <3>2
    <3> QED
      BY <3>1, <3>2, <3>3
  <2> QED
    BY <1>1, <2>1, <2>2
<1>5. Rec(g)
  <2> HIDE DEF Rec
  <2> QED
    BY <1>4
<1>6. Follows(g, Nat, n, 0, step)
  <2>1. g = [R \in SUBSET (1..n) |->
                IF R = {} THEN 0 ELSE g[R \ {Max(R)}] + s[Max(R)]]
    BY <1>1, <1>5
  <2> HIDE DEF g
  <2>2. g[1..0] = 0
    <3>1. 1..0 = {} /\ {} \in SUBSET (1..n)
      OBVIOUS
    <3> QED
      BY <2>1, <3>1
  <2>3. ASSUME NEW k \in 1..n, g[1..(k - 1)] \in Nat
        PROVE  g[1..k] = step[k][g[1..(k - 1)]]
    <3>1. 1..k \in SUBSET (1..n) /\ 1..k # {} /\ k \in Nat \ {0}
      <4>1. n \in Nat /\ k \in Nat /\ 1 <= k /\ k <= n
        BY <1>1
      <4> HIDE DEF n
      <4> QED
        BY <4>1, SegmentMax
    <3>2. g[1..k] = g[(1..k) \ {Max(1..k)}] + s[Max(1..k)]
      BY <2>1, <3>1
    <3>3. Max(1..k) = k /\ (1..k) \ {k} = 1..(k - 1)
      BY <3>1, SegmentMax
    <3> QED
      BY <2>3, <3>2, <3>3
  <2> QED
    BY <2>2, <2>3 DEF Follows
<1>7. FoldLeft(+, 0, s) = g[DOMAIN s]
  BY DEF FoldLeft, MapThenFoldSet
<1> DEFINE f == [k \in 0..n |-> g[1..k]]
<1>8. IsLoop(f, Nat, n, 0, step)
  <2> HIDE DEF g, step, n
  <2> QED
    BY <1>1, <1>2, <1>6, FoldIsLoop
<1>9. f[n] = g[DOMAIN s]
  BY <1>1
<1> HIDE DEF f, g
<1>10. Adds(f, s)
  <2>1. ASSUME NEW k \in 1..n PROVE f[k] = f[k - 1] + s[k]
    <3>1. k - 1 \in 0..n /\ f \in [0..n -> Nat]
      BY <1>1, <1>8 DEF IsLoop
    <3>2. f[k - 1] \in Nat /\ f[k] = step[k][f[k - 1]]
      BY <1>8, <3>1 DEF IsLoop
    <3> QED
      BY <3>2
  <2> QED
    BY <1>8, <2>1 DEF Adds, IsLoop
<1> QED
  BY <1>7, <1>9, <1>10

-----------------------------------------------------------------------------
(* The bytes of a word, and of a program.                                  *)
Byte   == SUBSET (0..7)
chunks == [k \in DOMAIN words |-> WordBytes(words[k])]

LEMMA BytesOfWord ==
    ASSUME NEW w \in Word
    PROVE  /\ WordBytes(w) \in Seq(Byte) /\ Len(WordBytes(w)) = w.size
           /\ \A j \in 1..w.size : WordBytes(w)[j] = Shr(w.inst, 8 * (j - 1)) \cap 0..7
<1>1. w.size \in Nat
  BY DEF Word
<1>2. \A j \in 1..w.size : Shr(w.inst, 8 * (j - 1)) \cap 0..7 \in Byte
  BY DEF Byte
<1> DEFINE b == WordBytes(w)
<1>3. b = [j \in 1..w.size |-> Shr(w.inst, 8 * (j - 1)) \cap 0..7]
  BY DEF WordBytes
<1>4. b \in [1..w.size -> Byte]
  BY <1>2, <1>3
<1> HIDE DEF b
<1>5. b \in Seq(Byte) /\ DOMAIN b = 1..w.size
  BY <1>1, <1>4, SeqDef
<1>6. Len(b) = w.size
  BY <1>1, <1>5, LenProperties
<1> QED
  BY <1>3, <1>5, <1>6 DEF b

LEMMA ProgramChunks ==
    ASSUME words \in Seq(Word)
    PROVE  /\ Len(words) \in Nat /\ DOMAIN words = 1..Len(words)
           /\ chunks \in Seq(Seq(Byte)) /\ Len(chunks) = Len(words)
           /\ \A k \in 1..Len(words) : /\ words[k] \in Word
                                       /\ chunks[k] = WordBytes(words[k])
<1>1. Len(words) \in Nat /\ DOMAIN words = 1..Len(words)
  BY LenProperties
<1>2. \A k \in 1..Len(words) : words[k] \in Word
  BY ElementOfSeq
<1>3. \A k \in 1..Len(words) : chunks[k] = WordBytes(words[k])
  BY <1>1 DEF chunks
<1>4. chunks \in [1..Len(words) -> Seq(Byte)]
  BY <1>1, <1>2, BytesOfWord DEF chunks
<1>5. chunks \in Seq(Seq(Byte)) /\ DOMAIN chunks = 1..Len(words)
  BY <1>1, <1>4, SeqDef
<1>6. Len(chunks) = Len(words)
  BY <1>1, <1>5, LenProperties
<1> QED
  BY <1>1, <1>2, <1>3, <1>5, <1>6

(* The k-th word starts where the bytes of the words before it end.        *)
LEMMA StartIsLength ==
    ASSUME words \in Seq(Word), NEW f, IsFlattening(f, chunks, Byte),
           NEW k \in 1..(Len(words) + 1)
    PROVE  Start(k) = Len(f[k - 1])
<1> DEFINE s == [j \in 1..(k - 1) |-> words[j].size]
<1>1. /\ Len(words) \in Nat /\ Len(chunks) = Len(words)
      /\ \A j \in 1..Len(words) : words[j] \in Word /\ chunks[j] = WordBytes(words[j])
  BY ProgramChunks
<1>2. k - 1 \in Nat /\ k - 1 <= Len(words)
  BY <1>1
<1>3. \A j \in 1..(k - 1) : words[j].size \in Nat
  BY <1>1, <1>2 DEF Word
<1>4. s \in [1..(k - 1) -> Nat]
  BY <1>3
<1>5. s \in Seq(Nat) /\ DOMAIN s = 1..(k - 1)
  BY <1>2, <1>4, SeqDef
<1>6. Len(s) = k - 1
  BY <1>2, <1>5, LenProperties
<1>7. \A j \in 1..(k - 1) : s[j] = words[j].size
  OBVIOUS
<1>8. Start(k) = FoldLeft(+, 0, s)
  BY DEF Start
<1> HIDE DEF s
<1>9. PICK g : Adds(g, s) /\ FoldLeft(+, 0, s) = g[Len(s)]
  BY <1>5, SumLoop
<1> DEFINE S == {j \in 0..(k - 1) : g[j] = Len(f[j])}
<1>10. 0 \in S
  <2>1. g[0] = 0 /\ f[0] = << >>
    BY <1>9 DEF Adds, IsFlattening
  <2>2. Len(f[0]) = 0
    BY <2>1
  <2> QED
    BY <1>2, <2>1, <2>2
<1>11. ASSUME NEW j \in 0..(k - 1 - 1), j \in S PROVE j + 1 \in S
  <2>1. j + 1 \in 1..(k - 1) /\ j + 1 \in 1..Len(chunks) /\ (j + 1) - 1 =
            j /\ j \in 0..Len(chunks)
    BY <1>1, <1>2
  <2>2. g[j + 1] = g[j] + words[j + 1].size
    BY <1>6, <1>7, <1>9, <2>1 DEF Adds
  <2>3. ASSUME NEW i \in 1..Len(chunks) PROVE LengthsAdd(f[i - 1], chunks[i], f[i])
    BY FlattenLength
  <2>4. LengthsAdd(f[(j + 1) - 1], chunks[j + 1], f[j + 1])
    BY <2>1, <2>3
  <2>5. Len(f[j + 1]) = Len(f[j]) + Len(chunks[j + 1])
    BY <2>1, <2>4 DEF LengthsAdd
  <2>6. Len(chunks[j + 1]) = words[j + 1].size
    BY <1>1, <2>1, BytesOfWord
  <2> QED
    BY <1>11, <2>1, <2>2, <2>5, <2>6
<1>12. k - 1 \in S
  <2> HIDE DEF S
  <2>1. 0..(k - 1) \subseteq S
    BY <1>2, <1>10, <1>11, UpTo
  <2> QED
    BY <1>2, <2>1
<1> QED
  BY <1>6, <1>8, <1>9, <1>12

(* The bytes of the k-th word, in the program.                             *)
LEMMA ProgramBytes ==
    ASSUME words \in Seq(Word)
    PROVE  /\ Start(1) = 0 /\ Start(Len(words) + 1) = Len(data)
           /\ \A k \in 1..Len(words) :
                 /\ Start(k) \in Nat /\ Start(k + 1) = Start(k) + words[k].size
                 /\ Start(k) + words[k].size <= Len(data)
                 /\ \A j \in 1..words[k].size :
                       data[Start(k) + j] = Shr(words[k].inst, 8 * (j - 1)) \cap 0..7
<1>1. /\ Len(words) \in Nat /\ chunks \in Seq(Seq(Byte)) /\ Len(chunks) = Len(words)
      /\ \A j \in 1..Len(words) : words[j] \in Word /\ chunks[j] = WordBytes(words[j])
  BY ProgramChunks
<1>2. PICK f : IsFlattening(f, chunks, Byte) /\ FlattenSeq(chunks) = f[Len(chunks)]
  BY <1>1, FlattenLoop
<1>3. data = f[Len(words)]
  BY <1>1, <1>2 DEF data, chunks
<1>4. Start(1) = 0
  <2>1. f[0] = << >> /\ 1 \in 1..(Len(words) + 1) /\ 1 - 1 = 0
    BY <1>1, <1>2 DEF IsFlattening
  <2>2. Start(1) = Len(f[1 - 1])
    BY <1>2, <2>1, StartIsLength
  <2> QED
    BY <2>1, <2>2
<1>5. Start(Len(words) + 1) = Len(data)
  <2>1. Len(words) + 1 \in 1..(Len(words) + 1) /\ (Len(words) + 1) - 1 = Len(words)
    BY <1>1
  <2>2. Start(Len(words) + 1) = Len(f[(Len(words) + 1) - 1])
    BY <1>2, <2>1, StartIsLength
  <2> QED
    BY <1>3, <2>1, <2>2
<1>6. ASSUME NEW k \in 1..Len(words)
      PROVE  /\ Start(k) \in Nat /\ Start(k + 1) = Start(k) + words[k].size
             /\ Start(k) + words[k].size <= Len(data)
             /\ \A j \in 1..words[k].size :
                   data[Start(k) + j] = Shr(words[k].inst, 8 * (j - 1)) \cap 0..7
  <2>1. /\ k \in 1..(Len(words) + 1) /\ k + 1 \in 1..(Len(words) + 1) /\ (k + 1) - 1 = k
        /\ k \in 1..Len(chunks) /\ k - 1 \in 0..Len(chunks) /\ k \in 0..Len(chunks)
    BY <1>1
  <2>2. Start(k) = Len(f[k - 1])
    BY <1>2, <2>1, StartIsLength
  <2>3. Start(k + 1) = Len(f[k])
    <3>1. Start(k + 1) = Len(f[(k + 1) - 1])
      BY <1>2, <2>1, StartIsLength
    <3> QED
      BY <2>1, <3>1
  <2>4. words[k] \in Word /\ chunks[k] = WordBytes(words[k]) /\ words[k].size \in {2, 4, 6, 8}
    BY <1>1 DEF Word
  <2>5. /\ Len(chunks[k]) = words[k].size
        /\ \A j \in 1..words[k].size : chunks[k][j] = Shr(words[k].inst, 8 * (j - 1)) \cap 0..7
    BY <2>4, BytesOfWord
  <2>6. f[k - 1] \in Seq(Byte) /\ chunks[k] \in Seq(Byte) /\ Len(f[k - 1]) \in Nat
    BY <1>2, <2>1, FlattenState, FlattenPiece
  <2>7. Len(f[k]) = Len(f[k - 1]) + words[k].size
    <3>1. LengthsAdd(f[k - 1], chunks[k], f[k])
      BY <1>2, <2>1, FlattenLength
    <3> QED
      BY <2>5, <3>1 DEF LengthsAdd
  <2>8. ASSUME NEW j \in 1..words[k].size
        PROVE  data[Start(k) + j] = Shr(words[k].inst, 8 * (j - 1)) \cap 0..7
    <3>1. j \in 1..Len(chunks[k])
      BY <2>5
    <3>2. f[Len(chunks)][Len(f[k - 1]) + j] = chunks[k][j]
      BY <1>2, <2>1, <3>1, FlattenAt
    <3> QED
      BY <1>1, <1>3, <2>2, <2>5, <3>2
  <2>9. Len(f[k]) <= Len(data)
    <3>1. 1 \in 1..Len(chunks[k])
      BY <2>4, <2>5
    <3>2. Len(f[k]) <= Len(f[Len(chunks)])
      BY <1>2, <2>1, <3>1, FlattenAt
    <3> QED
      BY <1>1, <1>3, <3>2
  <2> QED
    BY <2>2, <2>3, <2>6, <2>7, <2>8, <2>9
<1> QED
  BY <1>4, <1>5, <1>6

-----------------------------------------------------------------------------
(* A byte of a word, moved back to its place.                              *)
LEMMA ByteInPlace ==
    ASSUME NEW w, NEW m \in 0..7
    PROVE  Shl(Shr(w, 8 * m) \cap 0..7, 8 * m) = w \cap (8 * m)..(8 * m + 7)
<1> DEFINE n == 8 * m
           v == Shr(w, n) \cap 0..7
<1>1. n \in 0..56 /\ n \in 0..63
  OBVIOUS
<1> SUFFICES ASSUME NEW b PROVE b \in Shl(v, n) <=> b \in w \cap n..(n + 7)
  OBVIOUS
<1> HIDE DEF n
<1>2. b \in Shl(v, n) <=> b \in n..63 /\ b - n \in v
  BY <1>1, ShlMember
<1>3. b \in n..63 => (b - n \in Shr(w, n) <=> b - n \in 0..(63 - n) /\ (b - n) + n \in w)
  BY <1>1, ShrMember
<1>4. b \in n..63 => (b - n) + n = b
  BY <1>1
<1> QED
  BY <1>1, <1>2, <1>3, <1>4

LEMMA WordAt ==
    ASSUME words \in Seq(Word), NEW k \in 1..Len(words)
    PROVE  words[k] \in Word /\ words[k].size \in {2, 4, 6, 8}
<1>1. words[k] \in Word
  BY ElementOfSeq
<1> QED
  BY <1>1 DEF Word

LEMMA FetchedByte ==
    ASSUME words \in Seq(Word), NEW k \in 1..Len(words), NEW m \in 0..(words[k].size - 1)
    PROVE  ByteAt(Start(k), m) = words[k].inst \cap (8 * m)..(8 * m + 7)
<1>1. words[k] \in Word /\ words[k].size \in {2, 4, 6, 8}
  BY WordAt
<1>2. /\ Start(k) \in Nat
      /\ \A j \in 1..words[k].size :
            data[Start(k) + j] = Shr(words[k].inst, 8 * (j - 1)) \cap 0..7
  BY ProgramBytes
<1>3. m + 1 \in 1..words[k].size /\ m \in 0..7 /\ (m + 1) - 1 = m
  BY <1>1
<1>4. data[Start(k) + (m + 1)] = Shr(words[k].inst, 8 * ((m + 1) - 1)) \cap 0..7
  BY <1>2, <1>3
<1>5. Start(k) + (m + 1) = Start(k) + m + 1
  BY <1>2, <1>3
<1>6. data[Start(k) + m + 1] = Shr(words[k].inst, 8 * m) \cap 0..7
  BY <1>3, <1>4, <1>5
<1> QED
  BY <1>3, <1>6, ByteInPlace DEF ByteAt

(* The first two bytes of a word announce its length.                      *)
LEMMA LengthOf ==
    ASSUME NEW p \in Word, Announces(p)
    PROVE  inst_length(p.inst \cap 0..15) = p.size
<1>1. p.size \in {2, 4, 6, 8}
  BY DEF Word
<1> DEFINE i == p.inst \cap 0..15
<1>2. /\ {0, 1} \subseteq i <=> {0, 1} \subseteq p.inst
      /\ {2, 3, 4} \subseteq i <=> {2, 3, 4} \subseteq p.inst
      /\ 5 \in i <=> 5 \in p.inst
      /\ 6 \in i <=> 6 \in p.inst
  OBVIOUS
<1>3. /\ 0..4 \subseteq p.inst <=> {0, 1} \subseteq p.inst /\ {2, 3, 4} \subseteq p.inst
      /\ 0..5 \subseteq p.inst <=> 0..4 \subseteq p.inst /\ 5 \in p.inst
      /\ 0..6 \subseteq p.inst <=> 0..5 \subseteq p.inst /\ 6 \in p.inst
  <2>1. 0..4 = {0, 1} \cup {2, 3, 4} /\ 0..5 = 0..4 \cup {5} /\ 0..6 = 0..5 \cup {6}
    OBVIOUS
  <2> QED
    BY <2>1
<1>4. inst_length(i) = IF ~ {0, 1} \subseteq p.inst         THEN 2
                       ELSE IF ~ {2, 3, 4} \subseteq p.inst THEN 4
                       ELSE IF 5 \notin p.inst              THEN 6
                       ELSE IF 6 \notin p.inst              THEN 8 ELSE 0
  BY <1>2 DEF inst_length
<1> QED
  BY <1>1, <1>3, <1>4 DEF Announces

(* The parcels of a word, as far as it goes, are the word.                 *)
IsParcel(v, p, n) == v = IF p.size >= n THEN p.inst \cap (8 * (n - 2))..(8 * n - 1) ELSE {}

LEMMA Parcels ==
    ASSUME NEW p \in Word, Announces(p), NEW p2, IsParcel(p2, p, 2),
           NEW p4, IsParcel(p4, p, 4), NEW p6, IsParcel(p6, p, 6), NEW p8, IsParcel(p8, p, 8)
    PROVE  p2 \cup p8 \cup p6 \cup p4 = p.inst
<1> DEFINE w == p.inst
           size == p.size
<1>1. size \in {2, 4, 6, 8} /\ w \subseteq 0..(8 * size - 1)
  BY DEF Word, Announces
<1> SUFFICES ASSUME NEW b PROVE b \in p2 \cup p8 \cup p6 \cup p4 <=> b \in w
  OBVIOUS
<1>2. /\ b \in p2 <=> b \in w /\ b \in 0..15
      /\ b \in p4 <=> size >= 4 /\ b \in w /\ b \in 16..31
      /\ b \in p6 <=> size >= 6 /\ b \in w /\ b \in 32..47
      /\ b \in p8 <=> size >= 8 /\ b \in w /\ b \in 48..63
  BY <1>1 DEF IsParcel
<1>3. b \in w => b \in Int /\ 0 <= b /\ b < 8 * size
  BY <1>1
<1> HIDE DEF w, size
<1> QED
  BY <1>1, <1>2, <1>3

(* Two bytes, the second one first.                                        *)
LEMMA FetchedParcel ==
    ASSUME words \in Seq(Word), NEW k \in 1..Len(words), NEW n \in {2, 4, 6, 8},
           words[k].size >= n
    PROVE  ByteAt(Start(k), n - 1) \cup ByteAt(Start(k), n - 2)
             = words[k].inst \cap (8 * (n - 2))..(8 * n - 1)
<1>1. words[k].size \in {2, 4, 6, 8}
  BY WordAt
<1>2. n - 1 \in 0..(words[k].size - 1) /\ n - 2 \in 0..(words[k].size - 1)
  BY <1>1
<1>3. /\ ByteAt(Start(k), n - 1) = words[k].inst \cap (8 * (n - 1))..(8 * (n - 1) + 7)
      /\ ByteAt(Start(k), n - 2) = words[k].inst \cap (8 * (n - 2))..(8 * (n - 2) + 7)
  BY <1>2, FetchedByte
<1> QED
  BY <1>3

LEMMA FetchWord ==
    ASSUME words \in Seq(Word), NEW k \in 1..Len(words), Announces(words[k])
    PROVE  /\ inst_fetch(Start(k)).len = words[k].size
           /\ inst_fetch(Start(k)).inst = words[k].inst
<1> DEFINE w    == words[k].inst
           size == words[k].size
           B(m) == ByteAt(Start(k), m)
           first == B(1) \cup B(0)
           P(n) == IF HasParcel(size, n) THEN B(n - 1) \cup B(n - 2) ELSE {}
<1>1. words[k] \in Word /\ size \in {2, 4, 6, 8}
  BY WordAt
<1>3. ASSUME NEW n \in {2, 4, 6, 8}
      PROVE  IsParcel(P(n), words[k], n)
  BY FetchedParcel DEF HasParcel, IsParcel
<1>4. P(2) = first /\ IsParcel(P(2), words[k], 2)
  BY <1>1, <1>3 DEF HasParcel
<1>5. first = w \cap 0..15
  <2>1. (8 * (2 - 2))..(8 * 2 - 1) = 0..15 /\ size >= 2
    BY <1>1
  <2> HIDE DEF P, first
  <2> QED
    BY <1>4, <2>1 DEF IsParcel
<1>6. inst_length(first) = size
  BY <1>1, <1>5, LengthOf
<1>7. first \cup P(8) \cup P(6) \cup P(4) = w
  <2>1. /\ IsParcel(first, words[k], 2) /\ IsParcel(P(4), words[k], 4)
        /\ IsParcel(P(6), words[k], 6) /\ IsParcel(P(8), words[k], 8)
    BY <1>3, <1>4
  <2> HIDE DEF P, first
  <2> QED
    BY <1>1, <2>1, Parcels
<1>8. inst_fetch(Start(k)) =
         [len  |-> inst_length(first),
          inst |-> first
             \cup (IF HasParcel(inst_length(first), 8) THEN B(8 - 1) \cup B(8 - 2) ELSE {})
             \cup (IF HasParcel(inst_length(first), 6) THEN B(6 - 1) \cup B(6 - 2) ELSE {})
             \cup (IF HasParcel(inst_length(first), 4) THEN B(4 - 1) \cup B(4 - 2) ELSE {})]
  BY DEF inst_fetch
<1>9. inst_fetch(Start(k)) = [len |-> size, inst |-> first \cup P(8) \cup P(6) \cup P(4)]
  <2> HIDE DEF B, first, size
  <2> QED
    BY <1>6, <1>8
<1> QED
  BY <1>7, <1>9

-----------------------------------------------------------------------------
(***************************************************************************)
(* The codecs that have an encoder.                                        *)
(***************************************************************************)
(* dec keeps its fields through every phase.                               *)
DecFields == Operands \cup {"inst", "op", "codec"}
DecShape  == dec = [f \in DecFields |-> dec[f]]
CodecInv      == DecShape /\ Reencodes

LEMMA ZeroShape == ZeroDec = [f \in DecFields |-> ZeroDec[f]]
  BY DEF ZeroDec, DecFields, Operands

LEMMA Updated ==
    ASSUME NEW d, d = [f \in DecFields |-> d[f]], NEW g \in DecFields, NEW v
    PROVE  LET e == [d EXCEPT ![g] = v] IN
           /\ e = [f \in DecFields |-> e[f]]
           /\ e[g] = v
           /\ \A f \in DecFields \ {g} : e[f] = d[f]
  OBVIOUS

(* What each codec's operands are, for the three codecs that have an       *)
(* encoder.                                                                *)
LEMMA BranchOperands == ASSUME NEW i
                        PROVE  decode_inst_operands("sb", i).imm = operand_sbimm12(i)
  BY DEF decode_inst_operands, imm_of

LEMMA JumpOperands == ASSUME NEW i
                      PROVE  /\ decode_inst_operands("uj", i).imm = operand_jimm20(i)
                             /\ decode_inst_operands("uj", i).rd = operand_rd(i)
  BY DEF decode_inst_operands, imm_of, rd_of, base_rd

LEMMA ImmediateOperands == ASSUME NEW i
                           PROVE  /\ decode_inst_operands("i", i).imm = operand_imm12(i)
                                  /\ decode_inst_operands("i", i).rd = operand_rd(i)
                                  /\ decode_inst_operands("i", i).rs1 = operand_rs1(i)
  BY DEF decode_inst_operands, imm_of, rd_of, rs1_of, base_rd

LEMMA OperandsStep ==
    ASSUME DecShape, DecodeOperands
    PROVE  CodecInv'
<1> DEFINE c == codec(dec.op)
           o == decode_inst_operands(c, dec.inst)
<1>1. DOMAIN dec = DecFields
  BY DEF DecShape
<1>2. dec' = [f \in DOMAIN dec |-> IF f \in Operands THEN o[f]
                                   ELSE IF f = "codec" THEN c ELSE dec[f]]
  BY DEF DecodeOperands
<1> HIDE DEF o
<1>3. dec' = [f \in DecFields |-> IF f \in Operands THEN o[f]
                                  ELSE IF f = "codec" THEN c ELSE dec[f]]
  BY <1>1, <1>2
<1>4. /\ dec'["codec"] = c /\ dec'["inst"] = dec["inst"]
      /\ dec'["imm"] = o["imm"] /\ dec'["rd"] = o["rd"] /\ dec'["rs1"] = o["rs1"]
  BY <1>3 DEF DecFields, Operands
<1>5. DecShape'
  BY <1>3 DEF DecShape
<1>6. dec'.codec = "sb" => encode_sbimm12(dec'.imm) = dec'.inst \cap (7..11 \cup 25..31)
  BY <1>4, BranchOperands, BranchReencoded DEF o
<1>7. dec'.codec = "uj" => encode_r_jimm20(dec'.rd, dec'.imm) = dec'.inst \cap 7..31
  BY <1>4, JumpOperands, JumpReencoded DEF o
<1>8. dec'.codec = "i" => encode_rr_simm12(dec'.rd, dec'.rs1, dec'.imm)
                            = dec'.inst \cap (7..11 \cup 15..31)
  BY <1>4, ImmediateOperands, ImmediateReencoded DEF o
<1> QED
  BY <1>5, <1>6, <1>7, <1>8 DEF CodecInv, Reencodes

(* The phase after which Reencodes speaks is reached by DecodeOperands     *)
(* alone; the others need only keep the fields of dec.                     *)
LEMMA InitCodec == Init => CodecInv
  BY ZeroShape DEF Init, CodecInv, DecShape, Reencodes

LEMMA CodecNext == CodecInv /\ [Next]_vars => CodecInv'
<1> SUFFICES ASSUME CodecInv, [Next]_vars PROVE CodecInv'
  OBVIOUS
<1>1. DecShape /\ Reencodes
  BY DEF CodecInv
<1>2. CASE InstFetch
  <2>1. dec' = [ZeroDec EXCEPT !.inst = inst_fetch(offset).inst] /\ stage' = "fetched"
    BY <1>2 DEF InstFetch
  <2>2. "inst" \in DecFields
    BY DEF DecFields
  <2>3. DecShape'
    BY <2>1, <2>2, ZeroShape, Updated DEF DecShape
  <2> QED
    BY <2>1, <2>3 DEF CodecInv, Reencodes
<1>3. CASE DecodeOpcode
  <2>1. dec' = [dec EXCEPT !.op = decode_inst_opcode(dec.inst, isa)] /\ stage' = "opcode"
    BY <1>3 DEF DecodeOpcode
  <2>2. DecShape'
    BY <1>1, <2>1, Updated DEF DecShape
  <2> QED
    BY <2>1, <2>2 DEF CodecInv, Reencodes
<1>4. CASE DecodeOperands
  BY <1>1, <1>4, OperandsStep
<1>5. CASE Decompress
  <2>1. dec' = decode_inst_decompress(dec) /\ stage' = "plain"
    BY <1>5 DEF Decompress
  <2>2. DecShape'
    BY <1>1, <2>1 DEF DecShape, decode_inst_decompress
  <2> QED
    BY <2>1, <2>2 DEF CodecInv, Reencodes
<1>6. CASE LiftPseudo
  <2>1. dec' = decode_inst_lift_pseudo(dec) /\ stage' = "lifted"
    BY <1>6 DEF LiftPseudo
  <2>2. DecShape'
    BY <1>1, <2>1 DEF DecShape, decode_inst_lift_pseudo
  <2> QED
    BY <2>1, <2>2 DEF CodecInv, Reencodes
<1>7. CASE Format
  BY <1>1, <1>7 DEF Format, CodecInv, DecShape, Reencodes
<1>8. CASE Advance
  BY <1>1, <1>8 DEF Advance, CodecInv, DecShape, Reencodes
<1>9. CASE Return
  BY <1>1, <1>9 DEF Return, CodecInv, DecShape, Reencodes
<1>10. CASE UNCHANGED vars
  BY <1>1, <1>10 DEF vars, CodecInv, DecShape, Reencodes
<1> QED
  BY <1>2, <1>3, <1>4, <1>5, <1>6, <1>7, <1>8, <1>9, <1>10 DEF Next

-----------------------------------------------------------------------------
(***************************************************************************)
(* Widths and scaling.                                                     *)
(***************************************************************************)
LEMMA ImmediateWidth == ASSUME NEW c, NEW i PROVE imm_of(c, i) \subseteq 0..31
<1>1. /\ operand_cimm4spn(i) \subseteq 0..31 /\ operand_cimmw(i) \subseteq 0..31
      /\ operand_cimmd(i) \subseteq 0..31    /\ operand_cimmq(i) \subseteq 0..31
      /\ operand_cimmlwsp(i) \subseteq 0..31 /\ operand_cimmldsp(i) \subseteq 0..31
      /\ operand_cimmlqsp(i) \subseteq 0..31 /\ operand_cimmswsp(i) \subseteq 0..31
      /\ operand_cimmsdsp(i) \subseteq 0..31 /\ operand_cimmsqsp(i) \subseteq 0..31
      /\ operand_cimmsh6(i) \subseteq 0..31  /\ operand_shamt5(i) \subseteq 0..31
      /\ operand_shamt6(i) \subseteq 0..31   /\ operand_shamt7(i) \subseteq 0..31
      /\ operand_csr12(i) \subseteq 0..31
  BY UnsignedImmediates DEF Within
<1>2. /\ operand_cimmj(i) \subseteq 0..31    /\ operand_cimmb(i) \subseteq 0..31
      /\ operand_cimmi(i) \subseteq 0..31    /\ operand_cimm16sp(i) \subseteq 0..31
      /\ operand_cimmui(i) \subseteq 0..31   /\ operand_imm12(i) \subseteq 0..31
      /\ operand_simm12(i) \subseteq 0..31   /\ operand_sbimm12(i) \subseteq 0..31
      /\ operand_jimm20(i) \subseteq 0..31   /\ operand_imm20(i) \subseteq 0..31
  BY SignedImmediates DEF IsSigned
<1>3. cimm_of(c, i) \subseteq 0..31
  BY <1>1, <1>2 DEF cimm_of
<1> QED
  BY <1>1, <1>2, <1>3 DEF imm_of

LEMMA RegisterWidth ==
    ASSUME NEW c, NEW i
    PROVE  /\ rd_of(c, i) \subseteq 0..4 /\ rs1_of(c, i) \subseteq 0..4
           /\ rs2_of(c, i) \subseteq 0..4 /\ operand_rs3(i) \subseteq 0..4
<1>1. /\ operand_rd(i) \subseteq 0..4     /\ operand_rs1(i) \subseteq 0..4
      /\ operand_rs2(i) \subseteq 0..4    /\ operand_rs3(i) \subseteq 0..4
      /\ operand_crd(i) \subseteq 0..4    /\ operand_crs1(i) \subseteq 0..4
      /\ operand_crs1rd(i) \subseteq 0..4 /\ operand_crs2(i) \subseteq 0..4
  BY RegisterFields DEF Within
<1>2. /\ Wide(operand_crdq(i)) \subseteq 0..4    /\ Wide(operand_crs1q(i)) \subseteq 0..4
      /\ Wide(operand_crs1rdq(i)) \subseteq 0..4 /\ Wide(operand_crs2q(i)) \subseteq 0..4
  BY RegisterFields DEF Within, Wide
<1>3. x0 \subseteq 0..4 /\ ra \subseteq 0..4 /\ sp \subseteq 0..4
  BY DEF x0, ra, sp
<1>4. rd_of(c, i) \subseteq 0..4
  BY <1>1, <1>2, <1>3 DEF rd_of
<1>5. rs1_of(c, i) \subseteq 0..4
  BY <1>1, <1>2, <1>3 DEF rs1_of
<1>6. rs2_of(c, i) \subseteq 0..4
  BY <1>1, <1>2, <1>3 DEF rs2_of
<1> QED
  BY <1>1, <1>4, <1>5, <1>6

LEMMA UnsignedCodecs ==
    ASSUME NEW c \in DOMAIN Unsigned, NEW i
    PROVE  imm_of(c, i) \subseteq Unsigned[c]
<1>1. CASE c \in {"ciw_4spn", "cl_lw", "cs_sw", "cl_ld", "cs_sd", "cl_lq", "cs_sq"}
  <2>1. /\ operand_cimm4spn(i) \subseteq 2..9 /\ operand_cimmw(i) \subseteq 2..6
        /\ operand_cimmd(i) \subseteq 3..7    /\ operand_cimmq(i) \subseteq 4..8
    BY UnsignedImmediates DEF Within
  <2> QED
    BY <1>1, <2>1 DEF Unsigned, imm_of, cimm_of
<1>2. CASE c \in {"ci_lwsp", "ci_ldsp", "ci_lqsp", "css_swsp", "css_sdsp", "css_sqsp"}
  <2>1. /\ operand_cimmlwsp(i) \subseteq 2..7 /\ operand_cimmldsp(i) \subseteq 3..8
        /\ operand_cimmlqsp(i) \subseteq 4..9 /\ operand_cimmswsp(i) \subseteq 2..7
        /\ operand_cimmsdsp(i) \subseteq 3..8 /\ operand_cimmsqsp(i) \subseteq 4..9
    BY UnsignedImmediates DEF Within
  <2> QED
    BY <1>2, <2>1 DEF Unsigned, imm_of, cimm_of
<1>3. CASE c \in {"cb_sh6", "ci_sh6", "i_sh5", "i_sh6", "i_sh7", "i_csr"}
  <2>1. /\ operand_cimmsh6(i) \subseteq 0..5 /\ operand_shamt5(i) \subseteq 0..4
        /\ operand_shamt6(i) \subseteq 0..5  /\ operand_shamt7(i) \subseteq 0..6
        /\ operand_csr12(i) \subseteq 0..11
    BY UnsignedImmediates DEF Within
  <2> QED
    BY <1>3, <2>1 DEF Unsigned, imm_of, cimm_of
<1> QED
  BY <1>1, <1>2, <1>3 DEF Unsigned

LEMMA SignedCodecs ==
    ASSUME NEW c \in DOMAIN Signed, NEW i
    PROVE  IsSigned(imm_of(c, i), Signed[c][1], Signed[c][2])
<1>1. CASE c \in {"i", "s", "sb", "uj", "u"}
  BY <1>1, SignedImmediates DEF Signed, imm_of
<1>2. CASE c \in {"cj", "cj_jal", "cb"}
  BY <1>2, SignedImmediates DEF Signed, imm_of, cimm_of
<1>3. CASE c \in {"ci", "ci_li", "cb_imm", "ci_16sp", "ci_lui"}
  BY <1>3, SignedImmediates DEF Signed, imm_of, cimm_of
<1> QED
  BY <1>1, <1>2, <1>3 DEF Signed

-----------------------------------------------------------------------------
(***************************************************************************)
(* Registers and immediates through the phases.                            *)
(***************************************************************************)
Registers == {"rd", "rs1", "rs2", "rs3"}
OperandsFit == (\A f \in Registers : dec[f] \subseteq 0..4) /\ dec.imm \subseteq 0..31
WidthInv == DecShape /\ OperandsFit /\ ImmediatesScaled

(* What decode_inst_operands leaves in dec.                                *)
LEMMA OperandsDecoded ==
    ASSUME DecShape, DecodeOperands
    PROVE  /\ DecShape' /\ dec'.inst = dec.inst /\ dec'.op = dec.op
           /\ dec'.codec = codec(dec.op)
           /\ \A f \in Operands : dec'[f] = decode_inst_operands(codec(dec.op), dec.inst)[f]
<1> DEFINE c == codec(dec.op)
           o == decode_inst_operands(c, dec.inst)
<1>1. DOMAIN dec = DecFields
  BY DEF DecShape
<1>2. dec' = [f \in DOMAIN dec |-> IF f \in Operands THEN o[f]
                                   ELSE IF f = "codec" THEN c ELSE dec[f]]
  BY DEF DecodeOperands
<1> HIDE DEF o
<1>3. dec' = [f \in DecFields |-> IF f \in Operands THEN o[f]
                                  ELSE IF f = "codec" THEN c ELSE dec[f]]
  BY <1>1, <1>2
<1>4. dec'["codec"] = c /\ dec'["inst"] = dec["inst"] /\ dec'["op"] = dec["op"]
  BY <1>3 DEF DecFields, Operands
<1>5. DecShape'
  BY <1>3 DEF DecShape
<1>6. \A f \in Operands : dec'[f] = o[f]
  BY <1>3 DEF DecFields
<1> QED
  BY <1>4, <1>5, <1>6 DEF o

LEMMA ScaledStep == ASSUME DecShape, DecodeOperands PROVE WidthInv'
<1> DEFINE c == codec(dec.op)
           i == dec.inst
<1>1. /\ DecShape' /\ dec'.codec = c
      /\ \A f \in Operands : dec'[f] = decode_inst_operands(c, i)[f]
  BY OperandsDecoded
<1>2. /\ dec'["rd"] = rd_of(c, i) /\ dec'["rs1"] = rs1_of(c, i) /\ dec'["rs2"] = rs2_of(c, i)
      /\ dec'["rs3"] = (IF c = "r4_m" THEN operand_rs3(i) ELSE {})
      /\ dec'["imm"] = imm_of(c, i)
  BY <1>1 DEF Operands, decode_inst_operands
<1> HIDE DEF c, i
<1>3. /\ dec'["rd"] \subseteq 0..4 /\ dec'["rs1"] \subseteq 0..4
      /\ dec'["rs2"] \subseteq 0..4 /\ dec'["rs3"] \subseteq 0..4
  BY <1>2, RegisterWidth
<1>4. dec'["imm"] \subseteq 0..31
  BY <1>2, ImmediateWidth
<1>5. OperandsFit'
  BY <1>3, <1>4 DEF OperandsFit, Registers
<1>6. dec'.codec \in DOMAIN Unsigned => dec'.imm \subseteq Unsigned[dec'.codec]
  BY <1>1, <1>2, UnsignedCodecs
<1>7. dec'.codec \in DOMAIN Signed =>
         IsSigned(dec'.imm, Signed[dec'.codec][1], Signed[dec'.codec][2])
  BY <1>1, <1>2, SignedCodecs
<1>8. ImmediatesScaled'
  BY <1>6, <1>7 DEF ImmediatesScaled, IsSigned
<1> QED
  BY <1>1, <1>5, <1>8 DEF WidthInv

Renamed(d, op)      == [d EXCEPT !.op = op]
Recoded(d, op, new) == [d EXCEPT !.op = op, !.codec = new]

(* The other phases change the opcode, the codec or the word alone.        *)
LEMMA OtherPhasesKeep ==
    ASSUME DecShape, DecodeOpcode \/ Decompress \/ LiftPseudo \/ Format \/ Advance \/ Return
    PROVE  /\ dec'.inst = dec.inst /\ dec'.imm = dec.imm
           /\ \A f \in Registers : dec'[f] = dec[f]
           /\ \A f \in Operands : dec'[f] = dec[f]
<1> DEFINE keep == {"inst"} \cup Operands
<1>1. keep \subseteq DecFields /\ "op" \notin keep /\ "codec" \notin keep
      /\ "op" \in DecFields /\ "codec" \in DecFields
  BY DEF DecFields, Operands
<1>2. ASSUME NEW v PROVE \A f \in keep : Renamed(dec, v)[f] = dec[f]
  BY <1>1 DEF DecShape, Renamed
<1>3. ASSUME NEW v, NEW u PROVE \A f \in keep : Recoded(dec, v, u)[f] = dec[f]
  BY <1>1 DEF DecShape, Recoded
<1> HIDE DEF keep
<1>4. \A f \in keep : dec'[f] = dec[f]
  <2>1. CASE DecodeOpcode
    <3>1. dec' = Renamed(dec, decode_inst_opcode(dec.inst, isa))
      BY <2>1 DEF DecodeOpcode, Renamed
    <3> QED
      BY <1>2, <3>1
  <2>2. CASE Decompress
    <3> DEFINE op == Expansion[dec.op]
    <3>1. \/ dec' = dec
          \/ dec' = Renamed(dec, "illegal")
          \/ dec' = Recoded(dec, op, codec(op))
      BY <2>2 DEF Decompress, decode_inst_decompress, Renamed, Recoded
    <3> HIDE DEF op
    <3> QED
      BY <1>2, <1>3, <3>1
  <2>3. CASE LiftPseudo
    <3> DEFINE table == IF dec.op \in DOMAIN rvcp THEN rvcp[dec.op] ELSE << >>
               holds == {k \in DOMAIN table : \A c \in table[k][2] : check_constraint(dec, c)}
               op    == table[Min(holds)][1]
    <3>1. dec' = dec \/ dec' = Recoded(dec, op, codec(op))
      BY <2>3 DEF LiftPseudo, decode_inst_lift_pseudo, Recoded
    <3> HIDE DEF table, holds, op
    <3> QED
      BY <1>3, <3>1
  <2>4. CASE Format \/ Advance \/ Return
    BY <2>4 DEF Format, Advance, Return
  <2> QED
    BY <2>1, <2>2, <2>3, <2>4
<1>5. Registers \subseteq keep /\ "imm" \in keep /\ "inst" \in keep /\ Operands \subseteq keep
  BY DEF keep, Registers, Operands
<1> QED
  BY <1>4, <1>5

-----------------------------------------------------------------------------
(***************************************************************************)
(* What the loop of t2.c has fetched.                                      *)
(***************************************************************************)
Program == /\ isa \in isas /\ words \in Seq(Word)
           /\ \A k \in 1..Len(words) : Announces(words[k])
Here(k) == offset = Start(k) /\ inst_len = words[k].size /\ dec.inst = words[k].inst
Located == IF stage \in {"loop", "done"}
           THEN \E k \in 1..(Len(words) + 1) : offset = Start(k)
           ELSE \E k \in 1..Len(words) : Here(k)
FetchInv == DecShape /\ Program /\ Located

LEMMA InitFetch == Init => FetchInv
<1> SUFFICES ASSUME Init PROVE FetchInv
  OBVIOUS
<1>1. PICK in \in Inputs : isa = in.isa /\ words = in.words
  BY DEF Init
<1>2. words \in Seq(Word) /\ isa \in isas /\ \A k \in DOMAIN words : Announces(words[k])
  BY <1>1, InputsAssumption
<1>3. Len(words) \in Nat /\ DOMAIN words = 1..Len(words)
  BY <1>2, LenProperties
<1>4. Program
  BY <1>2, <1>3 DEF Program
<1>5. Start(1) = 0
  BY <1>2, ProgramBytes
<1>6. 1 \in 1..(Len(words) + 1)
  BY <1>3
<1>7. Located
  BY <1>5, <1>6 DEF Init, Located
<1>8. DecShape
  BY ZeroShape DEF Init, DecShape
<1> QED
  BY <1>4, <1>7, <1>8 DEF FetchInv

(* A step that leaves the program alone leaves its layout alone.           *)
LEMMA SameProgram ==
    ASSUME words' = words, isa' = isa, Program, NEW k
    PROVE  Program' /\ Len(words)' = Len(words) /\ Len(data)' = Len(data)
           /\ Start(k)' = Start(k)
<1>1. Len(words)' = Len(words)
  OBVIOUS
<1>2. Program'
  BY <1>1 DEF Program
<1>3. data' = data
  BY DEF data
<1>4. Start(k)' = Start(k)
  BY DEF Start, FoldLeft, MapThenFoldSet
<1> QED
  BY <1>1, <1>2, <1>3, <1>4

LEMMA FetchStep ==
    ASSUME FetchInv, InstFetch
    PROVE  FetchInv'
<1>1. DecShape /\ Program /\ stage = "loop" /\ offset < Len(data)
  BY DEF FetchInv, InstFetch
<1>2. /\ words \in Seq(Word) /\ Len(words) \in Nat
      /\ \A k \in 1..Len(words) : Announces(words[k])
  BY <1>1, LenProperties DEF Program
<1>3. PICK k \in 1..(Len(words) + 1) : offset = Start(k)
  BY <1>1 DEF FetchInv, Located
<1>4. k \in 1..Len(words)
  <2>1. Start(Len(words) + 1) = Len(data) /\ Len(data) \in Nat
    <3>1. Start(Len(words) + 1) = Len(data)
      BY <1>2, ProgramBytes
    <3>2. data \in Seq(Byte)
      <4>1. chunks \in Seq(Seq(Byte))
        BY <1>2, ProgramChunks
      <4> QED
        BY <4>1, FlattenProperties DEF data, chunks
    <3> QED
      BY <3>1, <3>2, LenProperties
  <2>2. CASE k = Len(words) + 1
    BY <1>1, <1>3, <2>1, <2>2
  <2> QED
    BY <1>2, <2>2
<1>5. /\ inst_fetch(Start(k)).len = words[k].size
      /\ inst_fetch(Start(k)).inst = words[k].inst
  BY <1>2, <1>4, FetchWord
<1>6. /\ inst_len' = words[k].size /\ offset' = Start(k) /\ stage' = "fetched"
      /\ dec' = [ZeroDec EXCEPT !.inst = words[k].inst]
      /\ words' = words /\ isa' = isa
  BY <1>3, <1>5 DEF InstFetch
<1>7. DecShape' /\ dec'.inst = words[k].inst
  <2>1. "inst" \in DecFields
    BY DEF DecFields
  <2> QED
    BY <1>6, <2>1, ZeroShape, Updated DEF DecShape
<1>8. Program' /\ Len(words)' = Len(words) /\ Start(k)' = Start(k)
  BY <1>1, <1>6, SameProgram
<1>9. Here(k)'
  BY <1>6, <1>7, <1>8 DEF Here
<1>10. Located'
  BY <1>4, <1>6, <1>8, <1>9 DEF Located
<1> QED
  BY <1>7, <1>8, <1>10 DEF FetchInv

(* The phases of disasm_inst work on the word that was fetched.            *)
LEMMA PhaseStep ==
    ASSUME FetchInv, DecShape', dec'.inst = dec.inst,
           stage \notin {"loop", "done"}, stage' \notin {"loop", "done"},
           UNCHANGED <<isa, words, offset, inst_len>>
    PROVE  FetchInv'
<1>1. Program /\ Located
  BY DEF FetchInv
<1>2. PICK k \in 1..Len(words) : Here(k)
  BY <1>1 DEF Located
<1>3. Program' /\ Len(words)' = Len(words) /\ Start(k)' = Start(k)
  BY <1>1, SameProgram
<1>4. Here(k)'
  BY <1>2, <1>3 DEF Here
<1>5. Located'
  BY <1>3, <1>4 DEF Located
<1> QED
  BY <1>3, <1>5 DEF FetchInv

LEMMA AdvanceStep ==
    ASSUME FetchInv, Advance
    PROVE  FetchInv'
<1>1. DecShape /\ Program /\ Located
  BY DEF FetchInv
<1>2. words \in Seq(Word) /\ Len(words) \in Nat
  BY <1>1, LenProperties DEF Program
<1>3. PICK k \in 1..Len(words) : Here(k)
  BY <1>1 DEF Located, Advance
<1>4. Start(k + 1) = Start(k) + words[k].size /\ k + 1 \in 1..(Len(words) + 1)
  BY <1>2, ProgramBytes
<1>5. Program' /\ Len(words)' = Len(words) /\ Start(k + 1)' = Start(k + 1)
  <2>1. words' = words /\ isa' = isa
    BY DEF Advance
  <2> QED
    BY <1>1, <2>1, SameProgram
<1>6. offset' = Start(k + 1)'
  BY <1>3, <1>4, <1>5 DEF Here, Advance
<1>7. Located'
  BY <1>4, <1>5, <1>6 DEF Advance, Located
<1>8. DecShape'
  BY <1>1 DEF Advance, DecShape
<1> QED
  BY <1>5, <1>7, <1>8 DEF FetchInv

LEMMA ReturnStep ==
    ASSUME FetchInv, Return
    PROVE  FetchInv'
<1>1. DecShape /\ Program /\ Located
  BY DEF FetchInv
<1>2. PICK k \in 1..(Len(words) + 1) : offset = Start(k)
  BY <1>1 DEF Located, Return
<1>3. Program' /\ Len(words)' = Len(words) /\ Start(k)' = Start(k)
  <2>1. words' = words /\ isa' = isa
    BY DEF Return
  <2> QED
    BY <1>1, <2>1, SameProgram
<1>4. Located'
  BY <1>2, <1>3 DEF Return, Located
<1>5. DecShape'
  BY <1>1 DEF Return, DecShape
<1> QED
  BY <1>3, <1>4, <1>5 DEF FetchInv

LEMMA StutterStep ==
    ASSUME FetchInv, UNCHANGED vars
    PROVE  FetchInv'
<1>1. DecShape /\ Program /\ Located
  BY DEF FetchInv
<1>2. words' = words /\ isa' = isa /\ offset' = offset /\ inst_len' = inst_len
      /\ stage' = stage /\ dec' = dec
  BY DEF vars
<1>3. ASSUME NEW k
      PROVE  Program' /\ Len(words)' = Len(words) /\ Start(k)' = Start(k)
  BY <1>1, <1>2, SameProgram
<1>4. Located'
  <2>1. CASE stage \in {"loop", "done"}
    <3>1. PICK k \in 1..(Len(words) + 1) : offset = Start(k)
      BY <1>1, <2>1 DEF Located
    <3>2. Start(k)' = Start(k) /\ Len(words)' = Len(words)
      BY <1>3
    <3> QED
      BY <1>2, <2>1, <3>1, <3>2 DEF Located
  <2>2. CASE stage \notin {"loop", "done"}
    <3>1. PICK k \in 1..Len(words) : Here(k)
      BY <1>1, <2>2 DEF Located
    <3>2. Start(k)' = Start(k) /\ Len(words)' = Len(words)
      BY <1>3
    <3>3. Here(k)'
      BY <1>2, <3>1, <3>2 DEF Here
    <3> QED
      BY <1>2, <2>2, <3>2, <3>3 DEF Located
  <2> QED
    BY <2>1, <2>2
<1>5. DecShape'
  BY <1>1, <1>2 DEF DecShape
<1>6. Program'
  BY <1>1, <1>2, SameProgram
<1> QED
  BY <1>4, <1>5, <1>6 DEF FetchInv

LEMMA FetchNext == CodecInv /\ FetchInv /\ [Next]_vars => FetchInv'
<1> SUFFICES ASSUME CodecInv, FetchInv, [Next]_vars PROVE FetchInv'
  OBVIOUS
<1>1. DecShape /\ DecShape'
  BY CodecNext DEF CodecInv
<1>2. CASE InstFetch
  BY <1>2, FetchStep
<1>3. CASE DecodeOpcode
  <2>1. dec'.inst = dec.inst
    BY <1>1, <1>3, OtherPhasesKeep
  <2> QED
    BY <1>1, <1>3, <2>1, PhaseStep DEF DecodeOpcode
<1>4. CASE DecodeOperands
  <2>1. dec'.inst = dec.inst
    BY <1>1, <1>4, OperandsDecoded
  <2> QED
    BY <1>1, <1>4, <2>1, PhaseStep DEF DecodeOperands
<1>5. CASE Decompress
  <2>1. dec'.inst = dec.inst
    BY <1>1, <1>5, OtherPhasesKeep
  <2> QED
    BY <1>1, <1>5, <2>1, PhaseStep DEF Decompress
<1>6. CASE LiftPseudo
  <2>1. dec'.inst = dec.inst
    BY <1>1, <1>6, OtherPhasesKeep
  <2> QED
    BY <1>1, <1>6, <2>1, PhaseStep DEF LiftPseudo
<1>7. CASE Format
  BY <1>1, <1>7, PhaseStep DEF Format
<1>8. CASE Advance
  BY <1>8, AdvanceStep
<1>9. CASE Return
  BY <1>9, ReturnStep
<1>10. CASE UNCHANGED vars
  BY <1>10, StutterStep
<1> QED
  BY <1>2, <1>3, <1>4, <1>5, <1>6, <1>7, <1>8, <1>9, <1>10 DEF Next

LEMMA InitWidth == Init => WidthInv
<1> SUFFICES ASSUME Init PROVE WidthInv
  OBVIOUS
<1>1. dec = ZeroDec /\ stage = "loop"
  BY DEF Init
<1>2. DecShape
  BY <1>1, ZeroShape DEF DecShape
<1>3. OperandsFit
  BY <1>1 DEF OperandsFit, ZeroDec, Operands, Registers
<1> QED
  BY <1>1, <1>2, <1>3 DEF WidthInv, ImmediatesScaled

LEMMA WidthNext == CodecInv /\ WidthInv /\ [Next]_vars => WidthInv'
<1> SUFFICES ASSUME CodecInv, WidthInv, [Next]_vars PROVE WidthInv'
  OBVIOUS
<1>1. DecShape /\ DecShape' /\ OperandsFit /\ ImmediatesScaled
  BY CodecNext DEF CodecInv, WidthInv
<1>2. CASE InstFetch
  <2>1. dec' = [ZeroDec EXCEPT !.inst = inst_fetch(offset).inst] /\ stage' = "fetched"
    BY <1>2 DEF InstFetch
  <2>2. "inst" \in DecFields /\ "inst" \notin Registers \cup {"imm"}
        /\ Registers \cup {"imm"} \subseteq DecFields
    BY DEF DecFields, Operands, Registers
  <2>3. \A f \in Registers \cup {"imm"} : dec'[f] = ZeroDec[f]
    BY <2>1, <2>2, ZeroShape, Updated
  <2>4. \A f \in Registers \cup {"imm"} : dec'[f] = {}
    BY <2>3 DEF ZeroDec, Operands, Registers
  <2>5. OperandsFit'
    BY <2>4 DEF OperandsFit
  <2> QED
    BY <1>1, <2>1, <2>5 DEF WidthInv, ImmediatesScaled
<1>3. CASE DecodeOperands
  BY <1>1, <1>3, ScaledStep
<1>4. CASE DecodeOpcode \/ Decompress \/ LiftPseudo \/ Format \/ Advance \/ Return
  <2>1. dec'.imm = dec.imm /\ \A f \in Registers : dec'[f] = dec[f]
    BY <1>1, <1>4, OtherPhasesKeep
  <2>2. OperandsFit'
    BY <1>1, <2>1 DEF OperandsFit
  <2>3. stage' # "operands"
    BY <1>4 DEF DecodeOpcode, Decompress, LiftPseudo, Format, Advance, Return
  <2> QED
    BY <1>1, <2>2, <2>3 DEF WidthInv, ImmediatesScaled
<1>5. CASE UNCHANGED vars
  <2>1. dec' = dec /\ stage' = stage
    BY <1>5 DEF vars
  <2>2. OperandsFit' /\ ImmediatesScaled'
    BY <1>1, <2>1 DEF OperandsFit, ImmediatesScaled
  <2> QED
    BY <1>1, <2>2 DEF WidthInv
<1> QED
  BY <1>2, <1>3, <1>4, <1>5 DEF Next

(* The length and the word stay what was fetched.                          *)
FetchedInv == inst_len \in {0, 2, 4, 6, 8} /\ dec.inst \in rv_inst

LEMMA InitFetched == Init => FetchedInv
<1>1. ZeroDec["inst"] = {}
  BY DEF ZeroDec, Operands
<1> QED
  BY <1>1 DEF Init, FetchedInv, rv_inst

LEMMA FetchedNext == CodecInv /\ FetchInv /\ FetchedInv /\ [Next]_vars => FetchedInv'
<1> SUFFICES ASSUME CodecInv, FetchInv, FetchedInv, [Next]_vars PROVE FetchedInv'
  OBVIOUS
<1>1. FetchInv'
  BY FetchNext
<1>2. CASE stage' \in {"loop", "done"}
  <2>1. inst_len' = inst_len /\ dec' = dec
    BY <1>2 DEF Next, InstFetch, DecodeOpcode, DecodeOperands, Decompress, LiftPseudo, Format,
                Advance, Return, vars
  <2> QED
    BY <2>1 DEF FetchedInv
<1>3. CASE stage' \notin {"loop", "done"}
  <2>1. Program' /\ Located'
    BY <1>1 DEF FetchInv
  <2>2. PICK k \in 1..Len(words') : inst_len' = words'[k].size /\ dec'.inst = words'[k].inst
    BY <1>3, <2>1 DEF Located, Here
  <2>3. words' \in Seq(Word)
    BY <2>1 DEF Program
  <2>4. words'[k] \in Word
    BY <2>2, <2>3, ElementOfSeq
  <2> QED
    BY <2>2, <2>4 DEF FetchedInv, Word
<1> QED
  BY <1>2, <1>3

(* The offset stays within the program.                                    *)
LEMMA OffsetInside ==
    ASSUME FetchInv
    PROVE  offset \in 0..Len(data)
<1>1. Program /\ Located
  BY DEF FetchInv
<1>2. words \in Seq(Word) /\ Len(words) \in Nat
  BY <1>1, LenProperties DEF Program
<1>3. PICK k \in 1..(Len(words) + 1) : offset = Start(k)
  <2>1. CASE stage \in {"loop", "done"}
    BY <1>1, <2>1 DEF Located
  <2>2. CASE stage \notin {"loop", "done"}
    <3>1. PICK k \in 1..Len(words) : Here(k)
      BY <1>1, <2>2 DEF Located
    <3>2. k \in 1..(Len(words) + 1)
      BY <1>2
    <3> QED
      BY <3>1, <3>2 DEF Here
  <2> QED
    BY <2>1, <2>2
<1>4. Len(data) \in Nat
  <2>1. chunks \in Seq(Seq(Byte))
    BY <1>2, ProgramChunks
  <2>2. data \in Seq(Byte)
    BY <2>1, FlattenProperties DEF data, chunks
  <2> QED
    BY <2>2, LenProperties
<1>5. CASE k = Len(words) + 1
  BY <1>2, <1>3, <1>4, <1>5, ProgramBytes
<1>6. CASE k # Len(words) + 1
  <2>1. k \in 1..Len(words)
    BY <1>2, <1>6
  <2>2. Start(k) \in Nat /\ Start(k) + words[k].size <= Len(data)
    BY <1>2, <2>1, ProgramBytes
  <2>3. words[k].size \in {2, 4, 6, 8}
    BY <1>2, <2>1, WordAt
  <2> QED
    BY <1>3, <1>4, <2>2, <2>3
<1> QED
  BY <1>5, <1>6

-----------------------------------------------------------------------------
(***************************************************************************)
(* Opcodes: every one that is decoded, expanded or lifted to is in the     *)
(* table, and none is decoded that the isa has no expansion for.           *)
(***************************************************************************)
(* What a table has comes from one of its rows.                            *)
LEMMA TableValue ==
    ASSUME NEW rows, NEW key \in DOMAIN Table(rows)
    PROVE  \E row \in rows : row[1] = key /\ row[2] = Table(rows)[key]
<1>1. \E row \in rows : row[1] = key
  BY DEF Table
<1>2. Table(rows)[key] = (CHOOSE row \in rows : row[1] = key)[2]
  BY DEF Table
<1> QED
  BY <1>1, <1>2

LEMMA CaseIn ==
    ASSUME NEW S, NEW rows, NEW n, \A row \in rows : row[2] \in S, "illegal" \in S
    PROVE  Case(Table(rows), n) \in S
  BY TableValue DEF Case

LEMMA SwitchIn ==
    ASSUME NEW S, NEW cases, NEW n, \A k \in DOMAIN cases : cases[k] \in S, "illegal" \in S
    PROVE  Switch(cases, n) \in S
  BY DEF Switch

LEMMA WhenIn ==
    ASSUME NEW S, NEW cond, NEW op, cond => op \in S, "illegal" \in S
    PROVE  When(cond, op) \in S
  BY DEF When

(* The mnemonics of a row are mnemonics.                                   *)
LEMMA RowIn ==
    ASSUME NEW rows, NEW row \in rows, NEW op \in row[3]
    PROVE  op \in Mnemonics(rows)
  BY DEF Mnemonics

LEMMA CodecListed ==
    ASSUME NEW op \in rv_op
    PROVE  codec(op) \in rv_codec
<1>1. \E row \in Rows : op \in row[3]
  <2>1. CASE op = "illegal"
    <3>1. <<"illegal", << >>, {"illegal"}>> \in Rows
      BY DEF Rows
    <3> QED
      BY <2>1, <3>1
  <2>2. CASE op # "illegal"
    BY <2>2 DEF rv_op, IntegerOps, SystemOps, FloatOps, Compressed, PseudoOps, Mnemonics, Rows
  <2> QED
    BY <2>1, <2>2
<1>2. PICK row \in Rows : op \in row[3] /\ Row[op] = row
  BY <1>1 DEF Row
<1> QED
  BY <1>2 DEF codec, rv_codec

(* The 16 bit quadrants give an opcode that the isa has.                   *)
Known(x) == Compressed \ NotIn[x]

CompressedNames == {
  "c.addi4spn", "c.fld", "c.ld", "c.lw", "c.flw", "c.lq", "c.sq", "c.fsd", "c.sd", "c.sw",
      "c.fsw",
  "c.nop", "c.ebreak", "c.addi", "c.addiw", "c.jal", "c.li", "c.addi16sp", "c.lui", "c.srli",
  "c.srai", "c.andi", "c.sub", "c.xor", "c.or", "c.and", "c.subw", "c.addw", "c.j", "c.beqz",
  "c.bnez", "c.slli", "c.fldsp", "c.ldsp", "c.lwsp", "c.flwsp", "c.lqsp", "c.sqsp", "c.jr",
      "c.mv",
  "c.jalr", "c.add", "c.fsdsp", "c.sdsp", "c.swsp", "c.fswsp"}

LEMMA CompressedListed == Compressed = CompressedNames
<1>1. Compressed \subseteq CompressedNames
  BY DEF Compressed, Mnemonics, CompressedRows, CompressedNames
<1>2. CompressedNames \subseteq Compressed
  BY DEF Compressed, Mnemonics, CompressedRows, CompressedNames
<1> QED
  BY <1>1, <1>2

LEMMA ExpansionKeys == CompressedNames \subseteq DOMAIN Expansion
  BY DEF Expansion, Expands, CompressedNames

LEMMA QuadrantKnown ==
    ASSUME NEW x \in isas, NEW i
    PROVE  /\ Quadrant0(i, x) \in Known(x) \cup {"illegal"}
           /\ Quadrant1(i, x) \in Known(x) \cup {"illegal"}
           /\ Quadrant2(i, x) \in Known(x) \cup {"illegal"}
<1> DEFINE S == Known(x) \cup {"illegal"}
<1>1. "illegal" \in S
  OBVIOUS
<1>2. \A op \in CompressedNames : op \notin NotIn[x] => op \in S
  BY CompressedListed DEF Known
<1> HIDE DEF S
<1>3. Quadrant0(i, x) \in S
  <2> DEFINE cases == <<"c.addi4spn",
        IF x = "rv128" THEN "c.lq" ELSE "c.fld", "c.lw",
        IF x = "rv32" THEN "c.flw" ELSE "c.ld", "illegal",
        IF x = "rv128" THEN "c.sq" ELSE "c.fsd", "c.sw",
        IF x = "rv32" THEN "c.fsw" ELSE "c.sd">>
  <2>1. \A k \in DOMAIN cases : cases[k] \in S
    BY <1>1, <1>2 DEF CompressedNames, NotIn, isas
  <2> HIDE DEF cases
  <2>2. Switch(cases, Bits(i, 13, 3)) \in S
    BY <1>1, <2>1, SwitchIn
  <2> QED
    BY <2>2 DEF cases, Quadrant0
<1>4. CompressedAlu(i) \in S
  <2> DEFINE a == <<"c.srli", "c.srai", "c.andi">>
             b == <<"c.sub", "c.xor", "c.or", "c.and", "c.subw", "c.addw">>
  <2>1. \A k \in DOMAIN a : a[k] \in S
    BY <1>2 DEF CompressedNames, NotIn, isas
  <2>2. \A k \in DOMAIN b : b[k] \in S
    BY <1>2 DEF CompressedNames, NotIn, isas
  <2> HIDE DEF a, b
  <2>3. Switch(a, Bits(i, 10, 2)) \in S
    BY <1>1, <2>1, SwitchIn
  <2>4. Switch(b, 4 * Bits(i, 12, 1) + Bits(i, 5, 2)) \in S
    BY <1>1, <2>2, SwitchIn
  <2> QED
    BY <2>3, <2>4 DEF CompressedAlu, a, b
<1>5. Quadrant1(i, x) \in S
  <2> DEFINE alu   == CompressedAlu(i)
             cases == <<
                IF Bits(i, 2, 11) = 0 THEN "c.nop" ELSE "c.addi",
                IF x = "rv32" THEN "c.jal" ELSE "c.addiw", "c.li",
                IF Bits(i, 7, 5) = 2 THEN "c.addi16sp" ELSE "c.lui",
                alu, "c.j", "c.beqz", "c.bnez">>
  <2> HIDE DEF alu
  <2>1. \A k \in DOMAIN cases : cases[k] \in S
    <3>1. alu \in S
      BY <1>4 DEF alu
    <3> QED
      BY <1>2, <3>1 DEF CompressedNames, NotIn, isas
  <2> HIDE DEF cases
  <2>2. Switch(cases, Bits(i, 13, 3)) \in S
    BY <1>1, <2>1, SwitchIn
  <2> QED
    BY <2>2 DEF cases, alu, Quadrant1, JalOrAddiw
<1>6. JumpOrMove(i) \in S
  BY <1>2 DEF JumpOrMove, CompressedNames, NotIn, isas
<1>7. Quadrant2(i, x) \in S
  <2> DEFINE move  == JumpOrMove(i)
             cases == <<"c.slli",
                IF x = "rv128" THEN "c.lqsp" ELSE "c.fldsp", "c.lwsp",
                IF x = "rv32" THEN "c.flwsp" ELSE "c.ldsp", move,
                IF x = "rv128" THEN "c.sqsp" ELSE "c.fsdsp", "c.swsp",
                IF x = "rv32" THEN "c.fswsp" ELSE "c.sdsp">>
  <2> HIDE DEF move
  <2>1. \A k \in DOMAIN cases : cases[k] \in S
    <3>1. move \in S
      BY <1>6 DEF move
    <3> QED
      BY <1>2, <3>1 DEF CompressedNames, NotIn, isas
  <2> HIDE DEF cases
  <2>2. Switch(cases, Bits(i, 13, 3)) \in S
    BY <1>1, <2>1, SwitchIn
  <2> QED
    BY <2>2 DEF cases, move, Quadrant2
<1> QED
  BY <1>3, <1>5, <1>7 DEF S

(* The names each group of the enum has.                                   *)
LEMMA IntegerNames ==
    /\ {"lb", "lh", "lw", "lbu", "lhu", "lwu", "ld", "ldu", "lq"} \subseteq BaseOps
    /\ {"sb", "sh", "sw", "sd", "sq", "fence", "fence.i"} \subseteq BaseOps
    /\ {"lui", "auipc", "jal", "jalr", "beq", "bne", "blt", "bge", "bltu",
        "bgeu"} \subseteq BaseOps
    /\ {"addi", "slti", "sltiu", "xori", "ori", "andi", "addiw", "addid"} \subseteq BaseOps
    /\ {"slli", "srli", "srai", "slliw", "srliw", "sraiw", "sllid", "srlid", "sraid"}
          \subseteq BaseOps
    /\ "illegal" \in BaseOps
  BY DEF BaseOps, IntegerOps, Mnemonics, IntegerRows

LEMMA AluNames ==
    /\ {RegAlu[n] : n \in DOMAIN RegAlu} \subseteq BaseOps
    /\ Names({RegAlu[n] : n \in NarrowAlu}, {"w", "d"}) \subseteq BaseOps
<1> DEFINE names == {RegAlu[n] : n \in DOMAIN RegAlu}
                    \cup Names({RegAlu[n] : n \in NarrowAlu}, {"w", "d"})
<1>1. <<"r", rd_rs1_rs2, names>> \in IntegerRows
  BY DEF IntegerRows
<1> HIDE DEF names
<1>2. names \subseteq BaseOps
  BY <1>1 DEF Mnemonics, IntegerOps, BaseOps
<1> QED
  BY <1>2 DEF names

LEMMA SystemNames ==
    /\ {"ecall", "ebreak", "uret", "sret", "hret", "mret", "dret", "wfi"} \subseteq BaseOps
    /\ {"sfence.vm", "sfence.vma"} \subseteq BaseOps
    /\ {"csrrw", "csrrs", "csrrc", "csrrwi", "csrrsi", "csrrci"} \subseteq BaseOps
    /\ Names({"lr"}, {".w", ".d", ".q"}) \subseteq BaseOps
    /\ Names({AmoStem[n] : n \in DOMAIN AmoStem \ {2}}, {".w", ".d", ".q"}) \subseteq BaseOps
<1>1. ASSUME NEW row \in SystemRows PROVE row[3] \subseteq BaseOps
  BY DEF BaseOps, SystemOps, Mnemonics
<1> QED
  BY <1>1 DEF SystemRows

LEMMA FloatNames ==
    /\ {"flw", "fld", "flq", "fsw", "fsd", "fsq"} \subseteq BaseOps
    /\ Names({"fmadd", "fmsub", "fnmsub", "fnmadd"}, FpSuffix) \subseteq BaseOps
    /\ Names({"fadd", "fsub", "fmul", "fdiv"}, FpSuffix) \subseteq BaseOps
    /\ Names({"fsgnj", "fsgnjn", "fsgnjx", "fmin", "fmax"}, FpSuffix) \subseteq BaseOps
    /\ Names({"fsqrt"}, FpSuffix) \subseteq BaseOps
    /\ {"fcvt" \o s[1] \o s[2] : s \in {p \in FpSuffix \X FpSuffix : p[1] # p[2]}} \subseteq BaseOps
    /\ Names({"fle", "flt", "feq"}, FpSuffix) \subseteq BaseOps
    /\ Names(Names({"fcvt"}, {".w", ".wu", ".l", ".lu"}), FpSuffix) \subseteq BaseOps
    /\ Names(Names({"fcvt"}, FpSuffix), {".w", ".wu", ".l", ".lu"}) \subseteq BaseOps
    /\ Names({"fmv.x", "fclass"}, FpSuffix) \subseteq BaseOps
    /\ Names(Names({"fmv"}, FpSuffix), {".x"}) \subseteq BaseOps
<1>1. ASSUME NEW row \in FloatRows PROVE row[3] \subseteq BaseOps
  BY DEF BaseOps, FloatOps, Mnemonics
<1> QED
  BY <1>1 DEF FloatRows

(* A name and its suffix.                                                  *)
LEMMA Suffixed ==
    ASSUME NEW stems, NEW suffixes, NEW a \in stems, NEW b \in suffixes
    PROVE  a \o b \in Names(stems, suffixes)
  BY DEF Names

(* Every switch of decode_inst_opcode gives an opcode of its group.        *)
LEMMA MemoryBase ==
    ASSUME NEW i
    PROVE  /\ Load(i) \in BaseOps /\ LoadFp(i) \in BaseOps /\ Fence(i) \in BaseOps
           /\ Store(i) \in BaseOps /\ StoreFp(i) \in BaseOps /\ Branch(i) \in BaseOps
<1> DEFINE S == BaseOps
<1>1. "illegal" \in S
  BY IntegerNames
<1> HIDE DEF S
<1>2. Load(i) \in S
  <2> DEFINE cases == <<"lb", "lh", "lw", "ld", "lbu", "lhu", "lwu", "ldu">>
  <2>1. \A k \in DOMAIN cases : cases[k] \in S
    BY IntegerNames DEF S
  <2> HIDE DEF cases
  <2>2. Switch(cases, f3(i)) \in S
    BY <1>1, <2>1, SwitchIn
  <2> QED
    BY <2>2 DEF cases, Load
<1>3. LoadFp(i) \in S
  <2> DEFINE cases == <<"illegal", "illegal", "flw", "fld", "flq">>
  <2>1. \A k \in DOMAIN cases : cases[k] \in S
    BY <1>1, FloatNames DEF S
  <2> HIDE DEF cases
  <2>2. Switch(cases, f3(i)) \in S
    BY <1>1, <2>1, SwitchIn
  <2> QED
    BY <2>2 DEF cases, LoadFp
<1>4. Fence(i) \in S
  <2> DEFINE cases == <<"fence", "fence.i", "lq">>
  <2>1. \A k \in DOMAIN cases : cases[k] \in S
    BY IntegerNames DEF S
  <2> HIDE DEF cases
  <2>2. Switch(cases, f3(i)) \in S
    BY <1>1, <2>1, SwitchIn
  <2> QED
    BY <2>2 DEF cases, Fence
<1>5. Store(i) \in S
  <2> DEFINE cases == <<"sb", "sh", "sw", "sd", "sq">>
  <2>1. \A k \in DOMAIN cases : cases[k] \in S
    BY IntegerNames DEF S
  <2> HIDE DEF cases
  <2>2. Switch(cases, f3(i)) \in S
    BY <1>1, <2>1, SwitchIn
  <2> QED
    BY <2>2 DEF cases, Store
<1>6. StoreFp(i) \in S
  <2> DEFINE cases == <<"illegal", "illegal", "fsw", "fsd", "fsq">>
  <2>1. \A k \in DOMAIN cases : cases[k] \in S
    BY <1>1, FloatNames DEF S
  <2> HIDE DEF cases
  <2>2. Switch(cases, f3(i)) \in S
    BY <1>1, <2>1, SwitchIn
  <2> QED
    BY <2>2 DEF cases, StoreFp
<1>7. Branch(i) \in S
  <2> DEFINE cases == <<"beq", "bne", "illegal", "illegal", "blt", "bge", "bltu", "bgeu">>
  <2>1. \A k \in DOMAIN cases : cases[k] \in S
    BY <1>1, IntegerNames DEF S
  <2> HIDE DEF cases
  <2>2. Switch(cases, f3(i)) \in S
    BY <1>1, <2>1, SwitchIn
  <2> QED
    BY <2>2 DEF cases, Branch
<1> QED
  BY <1>2, <1>3, <1>4, <1>5, <1>6, <1>7 DEF S

LEMMA ImmediateBase ==
    ASSUME NEW i
    PROVE  OpImm(i) \in BaseOps /\ OpImmW(i) \in BaseOps /\ OpImmD(i) \in BaseOps
<1> DEFINE S == BaseOps
<1>1. "illegal" \in S
  BY IntegerNames
<1> HIDE DEF S
<1>2. OpImm(i) \in S
  <2> DEFINE shift == When(Bits(i, 27, 5) = 0, "slli")
             rows  == {<<0, "srli">>, <<8, "srai">>}
             right == Case(Table(rows), Bits(i, 27, 5))
             cases == <<"addi", shift, "slti", "sltiu", "xori", right, "ori", "andi">>
  <2>1. shift \in S
    BY <1>1, IntegerNames, WhenIn DEF S
  <2>2. \A row \in rows : row[2] \in S
    BY IntegerNames DEF S
  <2> HIDE DEF shift, rows
  <2>3. right \in S
    BY <1>1, <2>2, CaseIn
  <2> HIDE DEF right
  <2>4. \A k \in DOMAIN cases : cases[k] \in S
    BY <2>1, <2>3, IntegerNames DEF S
  <2> HIDE DEF cases
  <2>5. Switch(cases, f3(i)) \in S
    BY <1>1, <2>4, SwitchIn
  <2> QED
    BY <2>5 DEF cases, right, rows, shift, OpImm
<1>3. OpImmW(i) \in S
  <2> DEFINE shift == When(f7(i) = 0, "slliw")
             rows  == {<<0, "srliw">>, <<32, "sraiw">>}
             right == Case(Table(rows), f7(i))
             cases == {<<0, "addiw">>, <<1, shift>>, <<5, right>>}
  <2>1. shift \in S
    BY <1>1, IntegerNames, WhenIn DEF S
  <2>2. \A row \in rows : row[2] \in S
    BY IntegerNames DEF S
  <2> HIDE DEF shift, rows
  <2>3. right \in S
    BY <1>1, <2>2, CaseIn
  <2> HIDE DEF right
  <2>4. \A row \in cases : row[2] \in S
    BY <2>1, <2>3, IntegerNames DEF S
  <2> HIDE DEF cases
  <2>5. Case(Table(cases), f3(i)) \in S
    BY <1>1, <2>4, CaseIn
  <2> QED
    BY <2>5 DEF cases, right, rows, shift, OpImmW
<1>4. OpImmD(i) \in S
  <2> DEFINE shift == When(Bits(i, 26, 6) = 0, "sllid")
             rows  == {<<0, "srlid">>, <<16, "sraid">>}
             right == Case(Table(rows), Bits(i, 26, 6))
             cases == {<<0, "addid">>, <<1, shift>>, <<5, right>>}
  <2>1. shift \in S
    BY <1>1, IntegerNames, WhenIn DEF S
  <2>2. \A row \in rows : row[2] \in S
    BY IntegerNames DEF S
  <2> HIDE DEF shift, rows
  <2>3. right \in S
    BY <1>1, <2>2, CaseIn
  <2> HIDE DEF right
  <2>4. \A row \in cases : row[2] \in S
    BY <2>1, <2>3, IntegerNames DEF S
  <2> HIDE DEF cases
  <2>5. Case(Table(cases), f3(i)) \in S
    BY <1>1, <2>4, CaseIn
  <2> QED
    BY <2>5 DEF cases, right, rows, shift, OpImmD
<1> QED
  BY <1>2, <1>3, <1>4 DEF S

LEMMA AluBase ==
    ASSUME NEW i, NEW suffix \in {"w", "d"}
    PROVE  Op(i) \in BaseOps /\ OpNarrow(i, suffix) \in BaseOps
<1>1. "illegal" \in BaseOps
  BY IntegerNames
<1>2. ASSUME NEW n \in DOMAIN RegAlu PROVE Case(RegAlu, n) = RegAlu[n]
  BY DEF Case
<1>3. Op(i) \in BaseOps
  BY <1>1, AluNames DEF Op, Case
<1>4. NarrowAlu \subseteq DOMAIN RegAlu
  BY DEF RegAlu, Table, NarrowAlu
<1>5. ASSUME NEW n \in NarrowAlu
      PROVE  Case(RegAlu, n) \o suffix \in Names({RegAlu[m] : m \in NarrowAlu}, {"w", "d"})
  BY <1>2, <1>4, <1>5, Suffixed
<1>6. OpNarrow(i, suffix) \in BaseOps
  <2> DEFINE n == 8 * f7(i) + f3(i)
  <2>1. n \in NarrowAlu => Case(RegAlu, n) \o suffix \in BaseOps
    BY <1>5, AluNames
  <2> HIDE DEF n
  <2>2. When(n \in NarrowAlu, Case(RegAlu, n) \o suffix) \in BaseOps
    BY <1>1, <2>1, WhenIn
  <2> QED
    BY <2>2 DEF OpNarrow, n
<1> QED
  BY <1>3, <1>6

LEMMA AtomicBase ==
    ASSUME NEW i
    PROVE  Amo(i) \in BaseOps
<1> DEFINE stem  == Bits(i, 27, 5)
           width == f3(i)
           cond  == /\ stem \in DOMAIN AmoStem /\ width \in DOMAIN AmoWidth
                    /\ stem = 2 => rs2(i) = 0
           name  == Case(AmoStem, stem) \o Case(AmoWidth, width)
<1>1. Amo(i) = When(cond, name)
  BY DEF Amo
<1> HIDE DEF stem, width
<1>2. ASSUME width \in DOMAIN AmoWidth PROVE Case(AmoWidth, width) \in {".w", ".d", ".q"}
  <2>1. Case(AmoWidth, width) = AmoWidth[width]
    BY <1>2 DEF Case
  <2> QED
    BY <1>2, <2>1, TableValue DEF AmoWidth
<1>3. ASSUME stem \in DOMAIN AmoStem
      PROVE  Case(AmoStem, stem) \in {"lr"} \cup {AmoStem[n] : n \in DOMAIN AmoStem \ {2}}
  <2>1. Case(AmoStem, stem) = AmoStem[stem]
    BY <1>3 DEF Case
  <2>2. CASE stem = 2
    BY <1>3, <2>1, <2>2, TableValue DEF AmoStem
  <2>3. CASE stem # 2
    BY <1>3, <2>1, <2>3
  <2> QED
    BY <2>2, <2>3
<1>4. cond => name \in BaseOps
  BY <1>2, <1>3, Suffixed, SystemNames
<1>5. When(cond, name) \in BaseOps
  <2> HIDE DEF cond, name
  <2> QED
    BY <1>4, IntegerNames, WhenIn
<1> QED
  BY <1>1, <1>5

LEMMA Widths ==
    ASSUME NEW n \in DOMAIN FpWidth
    PROVE  /\ Case(FpWidth, n) \in FpSuffix
           /\ \A m \in DOMAIN FpWidth : m # n => Case(FpWidth, m) # Case(FpWidth, n)
<1>1. \A m \in DOMAIN FpWidth : Case(FpWidth, m) = FpWidth[m]
  BY DEF Case
<1>2. \A m \in DOMAIN FpWidth :
         <<m, FpWidth[m]>> \in {<<0, ".s">>, <<1, ".d">>, <<3, ".q">>}
  BY TableValue DEF FpWidth
<1> QED
  BY <1>1, <1>2 DEF FpSuffix

(* A stem with the suffix of its width.                                    *)
LEMMA FpNameBase ==
    ASSUME NEW i, NEW stems, Names(stems, FpSuffix) \subseteq BaseOps,
           NEW stem \in stems \cup {"illegal"}
    PROVE  FpName(stem, i) \in BaseOps
<1> DEFINE width == Bits(i, 25, 2)
           cond  == stem # "illegal" /\ width \in DOMAIN FpWidth
           name  == stem \o Case(FpWidth, width)
<1>1. cond => name \in BaseOps
  BY Widths, Suffixed
<1>2. When(cond, name) \in BaseOps
  <2> HIDE DEF cond, name
  <2> QED
    BY <1>1, IntegerNames, WhenIn
<1> QED
  BY <1>2 DEF FpName

Stems == {"fadd", "fsub", "fmul", "fdiv", "fsgnj", "fsgnjn", "fsgnjx", "fmin", "fmax", "fsqrt",
          "fle", "flt", "feq"}

LEMMA FpStems ==
    ASSUME NEW i
    PROVE  FpStem(i) \in Stems \cup {"illegal"}
<1> DEFINE S == Stems \cup {"illegal"}
           sign  == Switch(<<"fsgnj", "fsgnjn", "fsgnjx">>, f3(i))
           order == Switch(<<"fmin", "fmax">>, f3(i))
           root  == When(rs2(i) = 0, "fsqrt")
           test  == Switch(<<"fle", "flt", "feq">>, f3(i))
           rows  == {<<0, "fadd">>, <<1, "fsub">>, <<2, "fmul">>, <<3, "fdiv">>,
                     <<4, sign>>, <<5, order>>, <<11, root>>, <<20, test>>}
<1>1. \A op \in Stems : op \in S
  OBVIOUS
<1>2. "illegal" \in S
  OBVIOUS
<1> HIDE DEF S
<1>3. sign \in S
  <2> DEFINE cases == <<"fsgnj", "fsgnjn", "fsgnjx">>
  <2>1. \A k \in DOMAIN cases : cases[k] \in S
    BY <1>1 DEF Stems
  <2> HIDE DEF cases
  <2>2. Switch(cases, f3(i)) \in S
    BY <1>2, <2>1, SwitchIn
  <2> QED
    BY <2>2 DEF cases
<1>4. order \in S
  <2> DEFINE cases == <<"fmin", "fmax">>
  <2>1. \A k \in DOMAIN cases : cases[k] \in S
    BY <1>1 DEF Stems
  <2> HIDE DEF cases
  <2>2. Switch(cases, f3(i)) \in S
    BY <1>2, <2>1, SwitchIn
  <2> QED
    BY <2>2 DEF cases
<1>5. root \in S
  BY <1>1, <1>2 DEF When, Stems
<1>6. test \in S
  <2> DEFINE cases == <<"fle", "flt", "feq">>
  <2>1. \A k \in DOMAIN cases : cases[k] \in S
    BY <1>1 DEF Stems
  <2> HIDE DEF cases
  <2>2. Switch(cases, f3(i)) \in S
    BY <1>2, <2>1, SwitchIn
  <2> QED
    BY <2>2 DEF cases
<1> HIDE DEF sign, order, root, test
<1>7. \A row \in rows : row[2] \in S
  BY <1>1, <1>3, <1>4, <1>5, <1>6 DEF Stems
<1> HIDE DEF rows
<1>8. Case(Table(rows), Bits(i, 27, 5)) \in S
  BY <1>2, <1>7, CaseIn
<1> QED
  BY <1>8 DEF S, rows, sign, order, root, test, FpStem

LEMMA StemNames == Names(Stems, FpSuffix) \subseteq BaseOps
<1>1. ASSUME NEW a \in Stems, NEW b \in FpSuffix PROVE a \o b \in BaseOps
  <2>1. CASE a \in {"fadd", "fsub", "fmul", "fdiv"}
    BY <2>1, Suffixed, FloatNames
  <2>2. CASE a \in {"fsgnj", "fsgnjn", "fsgnjx", "fmin", "fmax"}
    BY <2>2, Suffixed, FloatNames
  <2>3. CASE a \in {"fsqrt"}
    BY <2>3, Suffixed, FloatNames
  <2>4. CASE a \in {"fle", "flt", "feq"}
    BY <2>4, Suffixed, FloatNames
  <2> QED
    BY <2>1, <2>2, <2>3, <2>4 DEF Stems
<1> SUFFICES ASSUME NEW name \in Names(Stems, FpSuffix) PROVE name \in BaseOps
  OBVIOUS
<1>2. PICK a \in Stems, b \in FpSuffix : name = a \o b
  BY DEF Names
<1> QED
  BY <1>1, <1>2

LEMMA IntTypes ==
    ASSUME NEW n \in 0..3
    PROVE  Switch(IntType, n) \in {".w", ".wu", ".l", ".lu"}
  BY DEF Switch, IntType

LEMMA ConversionBase ==
    ASSUME NEW i
    PROVE  FcvtWidth(i) \in BaseOps /\ FpToInt(i) \in BaseOps /\ IntToFp(i) \in BaseOps
<1> DEFINE width == Bits(i, 25, 2)
           from  == rs2(i)
<1>1. FcvtWidth(i) \in BaseOps
  <2> DEFINE cond == width \in DOMAIN FpWidth /\ from \in DOMAIN FpWidth /\ from # width
             name == "fcvt" \o Case(FpWidth, width) \o Case(FpWidth, from)
  <2>1. cond => name \in BaseOps
    <3> SUFFICES ASSUME cond PROVE name \in BaseOps
      OBVIOUS
    <3>1. /\ Case(FpWidth, width) \in FpSuffix /\ Case(FpWidth, from) \in FpSuffix
          /\ Case(FpWidth, width) # Case(FpWidth, from)
      BY Widths
    <3> DEFINE a == Case(FpWidth, width)
               b == Case(FpWidth, from)
    <3> HIDE DEF a, b
    <3>2. <<a, b>> \in {p \in FpSuffix \X FpSuffix : p[1] # p[2]}
      BY <3>1 DEF a, b
    <3>3. ASSUME NEW s \in {p \in FpSuffix \X FpSuffix : p[1] # p[2]}
          PROVE  "fcvt" \o s[1] \o s[2] \in BaseOps
      BY FloatNames
    <3>4. "fcvt" \o <<a, b>>[1] \o <<a, b>>[2] \in BaseOps
      BY <3>2, <3>3
    <3> QED
      BY <3>4 DEF a, b
  <2>2. When(cond, name) \in BaseOps
    <3> HIDE DEF cond, name
    <3> QED
      BY <2>1, IntegerNames, WhenIn
  <2> QED
    BY <2>2 DEF FcvtWidth
<1>2. FpToInt(i) \in BaseOps
  <2> DEFINE cond == width \in DOMAIN FpWidth /\ from \in 0..3
             name == "fcvt" \o Switch(IntType, from) \o Case(FpWidth, width)
  <2>1. cond => name \in BaseOps
    <3> SUFFICES ASSUME cond PROVE name \in BaseOps
      OBVIOUS
    <3>1. /\ Case(FpWidth, width) \in FpSuffix
          /\ Switch(IntType, from) \in {".w", ".wu", ".l", ".lu"}
      BY Widths, IntTypes
    <3>2. "fcvt" \o Switch(IntType, from) \in Names({"fcvt"}, {".w", ".wu", ".l", ".lu"})
      BY <3>1, Suffixed
    <3>3. name \in Names(Names({"fcvt"}, {".w", ".wu", ".l", ".lu"}), FpSuffix)
      BY <3>1, <3>2, Suffixed
    <3> QED
      BY <3>3, FloatNames
  <2>2. When(cond, name) \in BaseOps
    <3> HIDE DEF cond, name
    <3> QED
      BY <2>1, IntegerNames, WhenIn
  <2> QED
    BY <2>2 DEF FpToInt
<1>3. IntToFp(i) \in BaseOps
  <2> DEFINE cond == width \in DOMAIN FpWidth /\ from \in 0..3
             name == "fcvt" \o Case(FpWidth, width) \o Switch(IntType, from)
  <2>1. cond => name \in BaseOps
    <3> SUFFICES ASSUME cond PROVE name \in BaseOps
      OBVIOUS
    <3>1. /\ Case(FpWidth, width) \in FpSuffix
          /\ Switch(IntType, from) \in {".w", ".wu", ".l", ".lu"}
      BY Widths, IntTypes
    <3>2. "fcvt" \o Case(FpWidth, width) \in Names({"fcvt"}, FpSuffix)
      BY <3>1, Suffixed
    <3>3. name \in Names(Names({"fcvt"}, FpSuffix), {".w", ".wu", ".l", ".lu"})
      BY <3>1, <3>2, Suffixed
    <3> QED
      BY <3>3, FloatNames
  <2>2. When(cond, name) \in BaseOps
    <3> HIDE DEF cond, name
    <3> QED
      BY <2>1, IntegerNames, WhenIn
  <2> QED
    BY <2>2 DEF IntToFp
<1> QED
  BY <1>1, <1>2, <1>3

LEMMA MoveBase ==
    ASSUME NEW i
    PROVE  FpToBits(i) \in BaseOps /\ BitsToFp(i) \in BaseOps
<1>1. FpToBits(i) \in BaseOps
  <2> DEFINE cases == <<"fmv.x", "fclass">>
             S     == {"fmv.x", "fclass"} \cup {"illegal"}
             stem  == When(rs2(i) = 0, Switch(cases, f3(i)))
  <2>1. \A k \in DOMAIN cases : cases[k] \in S
    OBVIOUS
  <2>2. "illegal" \in S
    OBVIOUS
  <2> HIDE DEF cases, S
  <2>3. Switch(cases, f3(i)) \in S
    BY <2>1, <2>2, SwitchIn
  <2>4. stem \in S
    BY <2>2, <2>3 DEF When
  <2> HIDE DEF stem
  <2>5. FpName(stem, i) \in BaseOps
    BY <2>4, FpNameBase, FloatNames DEF S
  <2> QED
    BY <2>5 DEF stem, cases, FpToBits
<1>2. BitsToFp(i) \in BaseOps
  <2> DEFINE stem == When(rs2(i) = 0 /\ f3(i) = 0, "fmv")
             move == FpName(stem, i)
             S    == Names({"fmv"}, FpSuffix) \cup {"illegal"}
  <2>1. stem \in {"fmv", "illegal"}
    BY DEF When
  <2> HIDE DEF stem
  <2>2. move \in S
    BY <2>1, Widths, Suffixed DEF FpName, When
  <2> HIDE DEF move
  <2>3. move # "illegal" => move \o ".x" \in Names(Names({"fmv"}, FpSuffix), {".x"})
    BY <2>2, Suffixed
  <2>4. move # "illegal" => move \o ".x" \in BaseOps
    BY <2>3, FloatNames
  <2>5. When(move # "illegal", move \o ".x") \in BaseOps
    BY <2>4, IntegerNames DEF When
  <2> QED
    BY <2>5 DEF move, stem, BitsToFp
<1> QED
  BY <1>1, <1>2

LEMMA FloatBase ==
    ASSUME NEW i
    PROVE  OpFp(i) \in BaseOps
<1>1. FpName(FpStem(i), i) \in BaseOps
  BY FpStems, StemNames, FpNameBase
<1> QED
  BY <1>1, ConversionBase, MoveBase DEF OpFp

LEMMA SystemBase ==
    ASSUME NEW i
    PROVE  System(i) \in BaseOps
<1> DEFINE S == BaseOps
           calls == {<<0, "ecall">>, <<32, "ebreak">>, <<64, "uret">>}
           call  == Case(Table(calls), rs12(i))
           sret  == When(Bits(i, 15, 5) = 0, "sret")
           wfi   == When(Bits(i, 15, 5) = 0, "wfi")
           supervised == {<<2, sret>>, <<4, "sfence.vm">>, <<5, wfi>>}
           supervisor == Case(Table(supervised), rs2(i))
           hret  == When(rs12(i) = 64, "hret")
           mret  == When(rs12(i) = 64, "mret")
           dret  == When(rs12(i) = 576, "dret")
           rows  == {<<0, call>>, <<256, supervisor>>, <<288, "sfence.vma">>, <<512, hret>>,
                     <<768, mret>>, <<1952, dret>>}
           private == Privileged(i)
           cases == <<private, "csrrw", "csrrs", "csrrc", "illegal", "csrrwi", "csrrsi",
                      "csrrci">>
<1>1. "illegal" \in S
  BY IntegerNames
<1>2. /\ \A op \in {"ecall", "ebreak", "uret", "sret", "hret", "mret", "dret", "wfi"} : op \in S
      /\ \A op \in {"sfence.vm", "sfence.vma"} : op \in S
      /\ \A op \in {"csrrw", "csrrs", "csrrc", "csrrwi", "csrrsi", "csrrci"} : op \in S
  BY SystemNames
<1> HIDE DEF S
<1>3. call \in S
  <2>1. \A row \in calls : row[2] \in S
    BY <1>2
  <2> HIDE DEF calls
  <2> QED
    BY <1>1, <2>1, CaseIn
<1>4. sret \in S /\ wfi \in S /\ hret \in S /\ mret \in S /\ dret \in S
  BY <1>1, <1>2 DEF When
<1> HIDE DEF call, sret, wfi, hret, mret, dret
<1>5. supervisor \in S
  <2>1. \A row \in supervised : row[2] \in S
    BY <1>2, <1>4
  <2> HIDE DEF supervised
  <2> QED
    BY <1>1, <2>1, CaseIn
<1> HIDE DEF supervisor
<1>6. Case(Table(rows), 32 * f7(i) + Bits(i, 7, 5)) \in S
  <2>1. \A row \in rows : row[2] \in S
    BY <1>2, <1>3, <1>4, <1>5
  <2> HIDE DEF rows
  <2> QED
    BY <1>1, <2>1, CaseIn
<1>7. private \in S
  BY <1>6 DEF Privileged, supervisor, call, sret, wfi, hret, mret, dret
<1> HIDE DEF private
<1>8. \A k \in DOMAIN cases : cases[k] \in S
  BY <1>1, <1>2, <1>7
<1> HIDE DEF cases
<1>9. Switch(cases, f3(i)) \in S
  BY <1>1, <1>8, SwitchIn
<1> QED
  BY <1>9 DEF S, cases, private, System

(* Whatever the 32 bit word.                                               *)
LEMMA Quadrant3Base ==
    ASSUME NEW i
    PROVE  Quadrant3(i) \in BaseOps
<1>1. /\ FpName("fmadd", i) \in BaseOps /\ FpName("fmsub", i) \in BaseOps
      /\ FpName("fnmsub", i) \in BaseOps /\ FpName("fnmadd", i) \in BaseOps
  <2> DEFINE fused == {"fmadd", "fmsub", "fnmsub", "fnmadd"}
  <2>1. Names(fused, FpSuffix) \subseteq BaseOps
    BY FloatNames
  <2>2. ASSUME NEW stem \in fused PROVE FpName(stem, i) \in BaseOps
    <3> HIDE DEF fused
    <3>1. stem \in fused \cup {"illegal"}
      OBVIOUS
    <3> QED
      BY <2>1, <3>1, FpNameBase
  <2> QED
    BY <2>2
<1>2. When(f3(i) = 0, "jalr") \in BaseOps
  BY IntegerNames DEF When
<1>3. /\ "auipc" \in BaseOps /\ "lui" \in BaseOps /\ "jal" \in BaseOps /\ "illegal" \in BaseOps
  BY IntegerNames
<1>4. OpNarrow(i, "w") \in BaseOps /\ OpNarrow(i, "d") \in BaseOps /\ Op(i) \in BaseOps
  BY AluBase
<1> QED
  BY <1>1, <1>2, <1>3, <1>4, MemoryBase, ImmediateBase, AtomicBase, FloatBase, SystemBase
     DEF Quadrant3

(* Whatever the word.                                                      *)
LEMMA DecodesKnown ==
    ASSUME NEW x \in isas, NEW i
    PROVE  decode_inst_opcode(i, x) \in BaseOps \cup Known(x)
<1>1. "illegal" \in BaseOps
  BY IntegerNames
<1> QED
  BY <1>1, QuadrantKnown, Quadrant3Base DEF decode_inst_opcode

(* The groups are the enum.                                                *)
LEMMA InTable ==
    /\ BaseOps \subseteq rv_op /\ Compressed \subseteq rv_op /\ PseudoOps \subseteq rv_op
    /\ \A x : Known(x) \subseteq rv_op
  BY DEF BaseOps, rv_op, Known

(* Decompression gives the opcode of a 32 bit instruction.                 *)
LEMMA ExpansionBase ==
    ASSUME NEW op \in DOMAIN Expansion
    PROVE  Expansion[op] \in BaseOps
<1>1. PICK row \in Expands : Expansion[op] = row[2]
  BY DEF Expansion
<1>2. /\ RegAlu[0] = "add" /\ RegAlu[4] = "xor" /\ RegAlu[6] = "or" /\ RegAlu[7] = "and"
      /\ RegAlu[256] = "sub" /\ {0, 4, 6, 7, 256} \subseteq DOMAIN RegAlu
  <2>1. \A n \in {0, 4, 6, 7, 256} : n \in DOMAIN RegAlu
    BY DEF RegAlu, Table
  <2> QED
    BY <2>1, TableValue DEF RegAlu
<1>3. "add" \in BaseOps /\ "xor" \in BaseOps /\ "or" \in BaseOps /\ "and" \in BaseOps
      /\ "sub" \in BaseOps
  <2>1. \A n \in {0, 4, 6, 7, 256} : RegAlu[n] \in BaseOps
    BY <1>2, AluNames
  <2> QED
    BY <1>2, <2>1
<1>4. "sub" \o "w" \in BaseOps /\ "add" \o "w" \in BaseOps
  <2>1. 0 \in NarrowAlu /\ 256 \in NarrowAlu
    BY DEF NarrowAlu
  <2>2. RegAlu[256] \in {RegAlu[n] : n \in NarrowAlu} /\ RegAlu[0] \in {RegAlu[n] : n \in NarrowAlu}
    BY <2>1
  <2>3. "sub" \in {RegAlu[n] : n \in NarrowAlu} /\ "add" \in {RegAlu[n] : n \in NarrowAlu}
    BY <1>2, <2>2
  <2>4. "w" \in {"w", "d"}
    OBVIOUS
  <2> HIDE DEF NarrowAlu
  <2>5. /\ "sub" \o "w" \in Names({RegAlu[n] : n \in NarrowAlu}, {"w", "d"})
        /\ "add" \o "w" \in Names({RegAlu[n] : n \in NarrowAlu}, {"w", "d"})
    BY <2>3, <2>4, Suffixed
  <2> QED
    BY <2>5, AluNames
<1>5. "ebreak" \in BaseOps
  BY SystemNames
<1>6. {"flw", "fsw", "fld", "fsd"} \subseteq BaseOps
  BY FloatNames
<1>7. {"addi", "lw", "sw", "ld", "sd", "lq", "sq", "jal", "jalr", "beq", "bne", "lui", "andi",
       "srli", "srai", "slli", "addiw"} \subseteq BaseOps
  BY IntegerNames
<1>8. \A r \in Expands :
         \/ r[2] \in {"addi", "lw", "sw", "ld", "sd", "lq", "sq", "jal", "jalr", "beq", "bne",
                      "lui", "andi", "srli", "srai", "slli", "addiw"}
         \/ r[2] \in {"flw", "fsw", "fld", "fsd"}
         \/ r[2] \in {"add", "xor", "or", "and", "sub", "ebreak"}
         \/ r[2] \in {"sub" \o "w", "add" \o "w"}
  BY DEF Expands
<1>9. \A r \in Expands : r[2] \in BaseOps
  BY <1>3, <1>4, <1>5, <1>6, <1>7, <1>8
<1> QED
  BY <1>1, <1>9

(* Every form an opcode may be lifted to is in the table: a pseudo         *)
(* instruction, or a jump with the same name.                              *)
Lifted == PseudoOps \cup {"jal", "jalr"}
Forms(table) == DOMAIN table \subseteq Nat /\ \A k \in DOMAIN table : table[k][1] \in Lifted

(* The names of the pseudo instructions.                                   *)
LEMMA PseudoNames ==
    /\ {"nop", "ret", "mv", "not", "sext.w", "seqz", "neg", "negw", "snez", "sgtz", "sltz"}
          \subseteq PseudoOps
    /\ {"beqz", "bnez", "bgez", "bltz", "blez", "bgtz", "ble", "bleu", "bgt", "bgtu", "j", "jr"}
          \subseteq PseudoOps
    /\ {"rdcycle", "rdtime", "rdinstret", "rdcycleh", "rdtimeh", "rdinstreth",
        "frcsr", "frrm", "frflags"} \subseteq PseudoOps
    /\ {"fscsr", "fsrm", "fsflags", "fsrmi", "fsflagsi"} \subseteq PseudoOps
    /\ Names({"fmv", "fabs", "fneg"}, FpSuffix) \subseteq PseudoOps
<1>1. ASSUME NEW row \in PseudoRows PROVE row[3] \subseteq PseudoOps
  BY DEF PseudoOps, Mnemonics
<1> QED
  BY <1>1 DEF PseudoRows

LEMMA LiftedForms ==
    ASSUME NEW op \in DOMAIN rvcp
    PROVE  Forms(rvcp[op])
<1>1. "jal" \in Lifted /\ "jalr" \in Lifted /\ PseudoOps \subseteq Lifted
  BY DEF Lifted
<1>2. ASSUME NEW pair \in FpAlias PROVE pair[2] \in Lifted
  <2>1. PICK names \in SignInjection, x \in FpSuffix : pair[2] = names[2] \o x
    BY DEF FpAlias
  <2>2. names[2] \in {"fmv", "fabs", "fneg"}
    BY DEF SignInjection
  <2> QED
    BY <1>1, <2>1, <2>2, Suffixed, PseudoNames
<1>3. ASSUME NEW a \in Lifted, NEW ca PROVE Forms(<<<<a, ca>>>>)
  BY DEF Forms
<1>4. ASSUME NEW a \in Lifted, NEW ca, NEW b \in Lifted, NEW cb
      PROVE  Forms(<<<<a, ca>>, <<b, cb>>>>)
  BY DEF Forms
<1>5. ASSUME NEW a \in Lifted, NEW ca, NEW b \in Lifted, NEW cb, NEW c \in Lifted, NEW cc
      PROVE  Forms(<<<<a, ca>>, <<b, cb>>, <<c, cc>>>>)
  BY DEF Forms
<1>6. Forms(<<Counter("rdcycle", "csr_c00"), Counter("rdtime", "csr_c01"),
              Counter("rdinstret", "csr_c02"), Counter("rdcycleh", "csr_c80"),
              Counter("rdtimeh", "csr_c81"), Counter("rdinstreth", "csr_c82"),
              Counter("frcsr", "csr_003"), Counter("frrm", "csr_002"),
              Counter("frflags", "csr_001")>>)
  BY <1>1, PseudoNames DEF Forms, Counter
<1>7. \A row \in Liftings : Forms(row[2])
  <2> DEFINE Good(row) == Forms(row[2])
  <2>1. ASSUME NEW a, NEW table, Forms(table) PROVE Good(Lifts(a, table))
    BY <2>1 DEF Lifts
  <2> HIDE DEF Good
  <2>2. ASSUME NEW op1, NEW a \in Lifted, NEW ca PROVE Good(Lifts(op1, <<<<a, ca>>>>))
    BY <1>3, <2>1
  <2>3. ASSUME NEW op1, NEW a \in Lifted, NEW ca, NEW b \in Lifted, NEW cb
        PROVE  Good(Lifts(op1, <<<<a, ca>>, <<b, cb>>>>))
    BY <1>4, <2>1
  <2>4. ASSUME NEW op1, NEW a \in Lifted, NEW ca, NEW b \in Lifted, NEW cb, NEW c \in Lifted,
               NEW cc
        PROVE  Good(Lifts(op1, <<<<a, ca>>, <<b, cb>>, <<c, cc>>>>))
    BY <1>5, <2>1
  <2>5. {"jal", "jalr", "j", "ret", "jr", "beqz", "bnez", "bltz", "bgtz", "bgt", "blez", "bgez",
         "ble", "bgtu", "bleu", "nop", "mv", "seqz", "not", "neg", "negw", "sltz", "sgtz", "snez",
         "sext.w", "fscsr", "fsrm", "fsflags", "fsrmi", "fsflagsi"} \subseteq Lifted
    BY <1>1, PseudoNames
  <2>6. \A pair \in FpAlias : Good(Lifts(pair[1], <<<<pair[2], {"rs2_eq_rs1"}>>>>))
    BY <1>2, <2>2
  <2> HIDE DEF Lifted
  <2>7. /\ Good(Lifts("jal", <<<<"j", {"rd_eq_x0"}>>, <<"jal", {"rd_eq_ra"}>>>>))
        /\ Good(Lifts("jalr", <<<<"ret", {"rd_eq_x0", "rs1_eq_ra"}>>,
                                <<"jr", {"rd_eq_x0", "imm_eq_zero"}>>,
                                <<"jalr", {"rd_eq_ra", "imm_eq_zero"}>>>>))
        /\ Good(Lifts("beq", <<<<"beqz", {"rs2_eq_x0"}>>>>))
        /\ Good(Lifts("bne", <<<<"bnez", {"rs2_eq_x0"}>>>>))
        /\ Good(Lifts("blt", <<<<"bltz", {"rs2_eq_x0"}>>, <<"bgtz", {"rs1_eq_x0"}>>,
                               <<"bgt", {}>>>>))
        /\ Good(Lifts("bge", <<<<"blez", {"rs1_eq_x0"}>>, <<"bgez", {"rs2_eq_x0"}>>,
                               <<"ble", {}>>>>))
        /\ Good(Lifts("bltu", <<<<"bgtu", {}>>>>)) /\ Good(Lifts("bgeu", <<<<"bleu", {}>>>>))
    BY <1>1, <2>2, <2>3, <2>4, <2>5
  <2>8. /\ Good(Lifts("addi", <<<<"nop", {"rd_eq_x0", "rs1_eq_x0", "imm_eq_zero"}>>,
                                <<"mv", {"imm_eq_zero"}>>>>))
        /\ Good(Lifts("sltiu", <<<<"seqz", {"imm_eq_p1"}>>>>))
        /\ Good(Lifts("xori", <<<<"not", {"imm_eq_n1"}>>>>))
        /\ Good(Lifts("sub", <<<<"neg", {"rs1_eq_x0"}>>>>))
        /\ Good(Lifts("sub" \o "w", <<<<"negw", {"rs1_eq_x0"}>>>>))
        /\ Good(Lifts("slt", <<<<"sltz", {"rs2_eq_x0"}>>, <<"sgtz", {"rs1_eq_x0"}>>>>))
        /\ Good(Lifts("sltu", <<<<"snez", {"rs1_eq_x0"}>>>>))
        /\ Good(Lifts("addiw", <<<<"sext.w", {"imm_eq_zero"}>>>>))
    BY <2>2, <2>3, <2>5
  <2>9. /\ Good(Lifts("csrrw", <<<<"fscsr", {"csr_003"}>>, <<"fsrm", {"csr_002"}>>,
                                 <<"fsflags", {"csr_001"}>>>>))
        /\ Good(Lifts("csrrwi", <<<<"fsrmi", {"csr_002"}>>, <<"fsflagsi", {"csr_001"}>>>>))
        /\ Good(Lifts("csrrs",
             <<Counter("rdcycle", "csr_c00"), Counter("rdtime", "csr_c01"),
               Counter("rdinstret", "csr_c02"), Counter("rdcycleh", "csr_c80"),
               Counter("rdtimeh", "csr_c81"), Counter("rdinstreth", "csr_c82"),
               Counter("frcsr", "csr_003"), Counter("frrm", "csr_002"),
               Counter("frflags", "csr_001")>>))
    BY <1>6, <2>1, <2>3, <2>4, <2>5
  <2>10. \A row \in Liftings : Good(row)
    BY <2>6, <2>7, <2>8, <2>9 DEF Liftings
  <2> QED
    BY <2>10 DEF Good
<1> QED
  BY <1>7, TableValue DEF rvcp

-----------------------------------------------------------------------------
(***************************************************************************)
(* Opcodes through the phases.                                             *)
(***************************************************************************)
Phases == {"loop", "fetched", "opcode", "operands", "plain", "lifted", "printed", "done"}
OpcodeInv == /\ isa \in isas /\ stage \in Phases
             /\ dec.op \in rv_op /\ dec.codec \in rv_codec /\ text.op \in rv_op
             /\ stage \in {"opcode", "operands"} => dec.op \in BaseOps \cup Known(isa)
             /\ NoCompressedLeft

LEMMA Illegal == "illegal" \in rv_op /\ "illegal" \in rv_codec
<1>1. <<"illegal", << >>, {"illegal"}>> \in Rows
  BY DEF Rows
<1>2. "illegal" \in rv_codec
  BY <1>1 DEF rv_codec
<1> QED
  BY <1>2 DEF rv_op

LEMMA InitOpcode == Init => OpcodeInv
<1> SUFFICES ASSUME Init PROVE OpcodeInv
  OBVIOUS
<1>1. PICK in \in Inputs : isa = in.isa
  BY DEF Init
<1>2. isa \in isas
  BY <1>1, InputsAssumption
<1>3. stage = "loop" /\ dec = ZeroDec /\ text = NoText
  BY DEF Init
<1>4. dec.op = "illegal" /\ dec.codec = "illegal" /\ text.op = "illegal"
  BY <1>3 DEF ZeroDec, NoText, Operands
<1> QED
  BY <1>2, <1>3, <1>4, Illegal DEF OpcodeInv, Phases, NoCompressedLeft

LEMMA RenamedFields ==
    ASSUME DecShape, NEW op, NEW new
    PROVE  /\ Renamed(dec, op).op = op /\ Renamed(dec, op).codec = dec.codec
           /\ Recoded(dec, op, new).op = op /\ Recoded(dec, op, new).codec = new
<1>1. "op" \in DecFields /\ "codec" \in DecFields /\ "op" # "codec"
  BY DEF DecFields
<1> QED
  BY <1>1 DEF DecShape, Renamed, Recoded

(* The columns of the table for an isa are empty only for opcodes that     *)
(* decode_inst_opcode does not give there.                                 *)
LEMMA DecompressedBase ==
    ASSUME DecShape, OpcodeInv, stage = "operands"
    PROVE  /\ decode_inst_decompress(dec).op \in BaseOps
           /\ decode_inst_decompress(dec).codec \in rv_codec
<1> DEFINE d  == decode_inst_decompress(dec)
           op == Expansion[dec.op]
           has == DOMAIN Expansion \ NotIn[isa]
<1>1. dec.op \in BaseOps \cup Known(isa) /\ dec.codec \in rv_codec
  BY DEF OpcodeInv
<1>2. CASE dec.op \notin has
  <2>1. d = dec
    BY <1>2 DEF decode_inst_decompress
  <2>2. dec.op \notin Known(isa)
    BY <1>2, CompressedListed, ExpansionKeys DEF Known
  <2> QED
    BY <1>1, <2>1, <2>2
<1>3. CASE dec.op \in has /\ dec.op \in rvcd_imm_nz /\ dec.imm = {}
  <2>1. d = Renamed(dec, "illegal")
    BY <1>3 DEF decode_inst_decompress, Renamed
  <2> QED
    BY <1>1, <2>1, RenamedFields, IntegerNames
<1>4. CASE dec.op \in has /\ ~ (dec.op \in rvcd_imm_nz /\ dec.imm = {})
  <2>1. d = Recoded(dec, op, codec(op))
    BY <1>4 DEF decode_inst_decompress, Recoded
  <2>2. op \in BaseOps
    BY <1>4, ExpansionBase
  <2>3. codec(op) \in rv_codec
    BY <2>2, InTable, CodecListed
  <2> HIDE DEF op
  <2> QED
    BY <2>1, <2>2, <2>3, RenamedFields
<1> QED
  BY <1>2, <1>3, <1>4

LEMMA LiftedListed ==
    ASSUME DecShape, OpcodeInv
    PROVE  /\ decode_inst_lift_pseudo(dec).op \in rv_op
           /\ decode_inst_lift_pseudo(dec).codec \in rv_codec
<1> DEFINE d     == decode_inst_lift_pseudo(dec)
           table == IF dec.op \in DOMAIN rvcp THEN rvcp[dec.op] ELSE << >>
           holds == {k \in DOMAIN table : \A c \in table[k][2] : check_constraint(dec, c)}
           op    == table[Min(holds)][1]
<1>1. dec.op \in rv_op /\ dec.codec \in rv_codec
  BY DEF OpcodeInv
<1>2. Forms(table)
  BY LiftedForms DEF Forms
<1>3. d = IF holds = {} THEN dec ELSE Recoded(dec, op, codec(op))
  BY DEF decode_inst_lift_pseudo, Recoded
<1>4. holds \subseteq DOMAIN table /\ holds \subseteq Nat
  BY <1>2 DEF Forms
<1> HIDE DEF table, holds, d
<1>5. ASSUME holds = {} PROVE d.op \in rv_op /\ d.codec \in rv_codec
  BY <1>1, <1>3, <1>5
<1>6. ASSUME holds # {} PROVE d.op \in rv_op /\ d.codec \in rv_codec
  <2>1. \E n \in holds : \A m \in holds : n <= m
    BY <1>4, <1>6, LeastNatural
  <2>2. Min(holds) \in holds
    BY <2>1 DEF Min
  <2>3. op \in rv_op
    BY <1>2, <1>4, <2>2, IntegerNames, InTable DEF Forms, Lifted
  <2>4. codec(op) \in rv_codec
    BY <2>3, CodecListed
  <2> HIDE DEF op
  <2> QED
    BY <1>3, <1>6, <2>3, <2>4, RenamedFields
<1> QED
  BY <1>5, <1>6 DEF d

LEMMA OpcodeNext == CodecInv /\ OpcodeInv /\ [Next]_vars => OpcodeInv'
<1> SUFFICES ASSUME CodecInv, OpcodeInv, [Next]_vars PROVE OpcodeInv'
  OBVIOUS
<1>1. DecShape
  BY DEF CodecInv
<1>2. /\ isa \in isas /\ stage \in Phases /\ text.op \in rv_op
      /\ dec.op \in rv_op /\ dec.codec \in rv_codec
      /\ stage \in {"opcode", "operands"} => dec.op \in BaseOps \cup Known(isa)
      /\ NoCompressedLeft
  BY DEF OpcodeInv
<1>3. CASE InstFetch
  <2>1. /\ dec' = [ZeroDec EXCEPT !.inst = inst_fetch(offset).inst] /\ stage' = "fetched"
        /\ isa' = isa /\ text' = text
    BY <1>3 DEF InstFetch
  <2>2. "inst" \in DecFields /\ "op" \in DecFields \ {"inst"} /\ "codec" \in DecFields \ {"inst"}
    BY DEF DecFields
  <2>3. dec'["op"] = ZeroDec["op"] /\ dec'["codec"] = ZeroDec["codec"]
    BY <2>1, <2>2, ZeroShape, Updated
  <2>4. dec'.op = "illegal" /\ dec'.codec = "illegal"
    BY <2>3 DEF ZeroDec, Operands
  <2> QED
    BY <1>2, <2>1, <2>4, Illegal DEF OpcodeInv, Phases, NoCompressedLeft
<1>4. CASE DecodeOpcode
  <2>1. /\ dec' = Renamed(dec, decode_inst_opcode(dec.inst, isa)) /\ stage' = "opcode"
        /\ isa' = isa /\ text' = text
    BY <1>4 DEF DecodeOpcode, Renamed
  <2>2. dec'.op \in BaseOps \cup Known(isa) /\ dec'.codec = dec.codec
    BY <1>1, <1>2, <2>1, RenamedFields, DecodesKnown
  <2> QED
    BY <1>2, <2>1, <2>2, InTable DEF OpcodeInv, Phases, NoCompressedLeft
<1>5. CASE DecodeOperands
  <2>1. stage = "opcode" /\ stage' = "operands" /\ isa' = isa /\ text' = text
    BY <1>5 DEF DecodeOperands
  <2>2. dec'.codec = codec(dec.op) /\ dec'.op = dec.op
    BY <1>1, <1>5, OperandsDecoded
  <2>3. dec'.codec \in rv_codec
    BY <1>2, <2>2, CodecListed
  <2> QED
    BY <1>2, <2>1, <2>2, <2>3 DEF OpcodeInv, Phases, NoCompressedLeft
<1>6. CASE Decompress
  <2>1. /\ dec' = decode_inst_decompress(dec) /\ stage = "operands" /\ stage' = "plain"
        /\ isa' = isa /\ text' = text
    BY <1>6 DEF Decompress
  <2>2. dec'.op \in BaseOps /\ dec'.codec \in rv_codec
    BY <1>1, <2>1, DecompressedBase
  <2>3. dec'.op \notin Compressed
    BY <2>2, MnemonicsApart
  <2> QED
    BY <1>2, <2>1, <2>2, <2>3, InTable DEF OpcodeInv, Phases, NoCompressedLeft
<1>7. CASE LiftPseudo
  <2>1. dec' = decode_inst_lift_pseudo(dec) /\ stage' = "lifted" /\ isa' = isa /\ text' = text
    BY <1>7 DEF LiftPseudo
  <2>2. dec'.op \in rv_op /\ dec'.codec \in rv_codec
    BY <1>1, <2>1, LiftedListed
  <2> QED
    BY <1>2, <2>1, <2>2 DEF OpcodeInv, Phases, NoCompressedLeft
<1>8. CASE Format
  <2>1. text' = decode_inst_format(dec) /\ stage' = "printed" /\ dec' = dec /\ isa' = isa
    BY <1>8 DEF Format
  <2>2. text'.op = dec.op
    BY <2>1 DEF decode_inst_format
  <2> QED
    BY <1>2, <2>1, <2>2 DEF OpcodeInv, Phases, NoCompressedLeft
<1>9. CASE Advance \/ Return
  <2>1. /\ text' = text /\ dec' = dec /\ isa' = isa /\ stage' \in {"loop", "done"}
    BY <1>9 DEF Advance, Return
  <2> QED
    BY <1>2, <2>1 DEF OpcodeInv, Phases, NoCompressedLeft
<1>10. CASE UNCHANGED vars
  <2>1. text' = text /\ dec' = dec /\ isa' = isa /\ stage' = stage
    BY <1>10 DEF vars
  <2> QED
    BY <1>2, <2>1 DEF OpcodeInv, NoCompressedLeft
<1> QED
  BY <1>3, <1>4, <1>5, <1>6, <1>7, <1>8, <1>9, <1>10 DEF Next

-----------------------------------------------------------------------------
(****************************************************************************)
(* Numbers: what the selected bits of a word stand for.                    *)
(****************************************************************************)
(* The number a word of at most 12 bits stands for, bit by bit.            *)
Digit(s, b, value) == IF b \in s THEN value ELSE 0
Value(s) == Digit(s, 0, 1) + Digit(s, 1, 2) + Digit(s, 2, 4) + Digit(s, 3, 8) + Digit(s, 4, 16)
            + Digit(s, 5, 32) + Digit(s, 6, 64) + Digit(s, 7, 128) + Digit(s, 8, 256)
            + Digit(s, 9, 512) + Digit(s, 10, 1024) + Digit(s, 11, 2048)

(* It is below 4096, and below 32 for a register.                          *)
LEMMA ValueRange == ASSUME NEW s PROVE Value(s) \in 0..4095
<1>1. Digit(s, 0, 1) + Digit(s, 1, 2) + Digit(s, 2, 4) + Digit(s, 3, 8) + Digit(s, 4, 16)
         + Digit(s, 5, 32) \in 0..63
  BY DEF Digit
<1>2. /\ Digit(s, 6, 64) \in {0, 64} /\ Digit(s, 7, 128) \in {0, 128}
      /\ Digit(s, 8, 256) \in {0, 256} /\ Digit(s, 9, 512) \in {0, 512}
      /\ Digit(s, 10, 1024) \in {0, 1024} /\ Digit(s, 11, 2048) \in {0, 2048}
  BY DEF Digit
<1> DEFINE low == Digit(s, 0, 1) + Digit(s, 1, 2) + Digit(s, 2, 4) + Digit(s, 3, 8)
                  + Digit(s, 4, 16) + Digit(s, 5, 32)
<1>3. Value(s) = low + Digit(s, 6, 64) + Digit(s, 7, 128) + Digit(s, 8, 256)
                 + Digit(s, 9, 512) + Digit(s, 10, 1024) + Digit(s, 11, 2048)
  BY DEF Value
<1> HIDE DEF low
<1>4. low \in Nat /\ low <= 63
  BY <1>1 DEF low
<1>5. Value(s) \in Nat /\ Value(s) <= 4095
  BY <1>2, <1>3, <1>4
<1> DEFINE top == 4095
<1>6. Value(s) \in Nat /\ Value(s) <= top /\ top \in Nat
  BY <1>5
<1> HIDE DEF top
<1>7. Value(s) \in 0..top
  BY <1>6
<1> QED
  BY <1>7 DEF top

LEMMA SmallValue == ASSUME NEW s, s \subseteq 0..4 PROVE Value(s) \in 0..31
  BY DEF Value, Digit

LEMMA ValueNat == ASSUME NEW s PROVE Value(s) \in Nat
  BY DEF Value, Digit

(* Taking a bit away takes its weight away.                                *)
LEMMA ValueStep ==
    ASSUME NEW s \in SUBSET (0..11), NEW x \in s
    PROVE  Value(s) = 2^x + Value(s \ {x}) /\ Value(s \ {x}) < Value(s)
<1>1. CASE x = 0
  BY <1>1 DEF Value, Digit
<1>2. CASE x = 1
  BY <1>2 DEF Value, Digit
<1>3. CASE x = 2
  BY <1>3 DEF Value, Digit
<1>4. CASE x = 3
  BY <1>4 DEF Value, Digit
<1>5. CASE x = 4
  BY <1>5 DEF Value, Digit
<1>6. CASE x = 5
  BY <1>6 DEF Value, Digit
<1>7. CASE x = 6
  BY <1>7 DEF Value, Digit
<1>8. CASE x = 7
  BY <1>8 DEF Value, Digit
<1>9. CASE x = 8
  BY <1>9 DEF Value, Digit
<1>10. CASE x = 9
  BY <1>10 DEF Value, Digit
<1>11. CASE x = 10
  BY <1>11 DEF Value, Digit
<1>12. CASE x = 11
  BY <1>12 DEF Value, Digit
<1> QED
  BY <1>1, <1>2, <1>3, <1>4, <1>5, <1>6, <1>7, <1>8, <1>9, <1>10, <1>11, <1>12

(* Two words with the same number have the same bits.                      *)
LEMMA ValueApart ==
    ASSUME NEW s \in SUBSET (0..11), NEW t \in SUBSET (0..11), Value(s) = Value(t)
    PROVE  s = t
<1>1. \A b \in 0..11 : b \in s <=> b \in t
  BY DEF Value, Digit
<1> QED
  BY <1>1

(* The bits of a field, moved down to 0.                                   *)
Lowered(w, at, width) == {b \in 0..(width - 1) : b + at \in w}

(* A field of the word is the number of its bits, moved down.              *)
LEMMA BitsAt ==
    ASSUME NEW w, NEW at \in Nat, NEW width \in Nat, Lowered(w, at, width) \subseteq 0..11
    PROVE  Bits(w, at, width) = Value(Lowered(w, at, width))
<1> DEFINE S == w \cap at..(at + width - 1)
           Down(s) == {b \in 0..11 : b + at \in s}
           Rec(h) == h = [s \in SUBSET S |-> IF s = {} THEN 0
                            ELSE 2^((CHOOSE x \in s : TRUE) - at) + h[s \ {CHOOSE x \in s : TRUE}]]
           g == CHOOSE h : Rec(h)
           v == [s \in SUBSET S |-> Value(Down(s))]
<1>1. Bits(w, at, width) = g[S]
  BY DEF Bits, MapThenSumSet, MapThenFoldSet
<1>2. \A x \in S : x - at \in 0..11 /\ x - at + at = x
  <2>1. \A x \in S : x - at \in Lowered(w, at, width) /\ x - at + at = x
    BY DEF Lowered
  <2> QED
    BY <2>1
<1>20. S \in SUBSET Int /\ Down(S) = Lowered(w, at, width)
  <2>1. \A b \in 0..11 : b + at \in S <=> b \in 0..(width - 1) /\ b + at \in w
    OBVIOUS
  <2> QED
    BY <2>1 DEF Lowered
<1> HIDE DEF S
<1>21. ASSUME NEW s \in SUBSET S, NEW x \in s
       PROVE  /\ Value(Down(s)) = 2^(x - at) + Value(Down(s \ {x})) /\ s \ {x} \in SUBSET S
              /\ Value(Down(s \ {x})) < Value(Down(s))
  <2>1. x - at \in Down(s) /\ Down(s) \in SUBSET (0..11)
    BY <1>2
  <2>2. Down(s \ {x}) = Down(s) \ {x - at}
    <3>1. \A b \in 0..11 : b + at = x <=> b = x - at
      BY <1>20
    <3> QED
      BY <3>1
  <2> HIDE DEF Down
  <2>3. /\ Value(Down(s)) = 2^(x - at) + Value(Down(s) \ {x - at})
        /\ Value(Down(s) \ {x - at}) < Value(Down(s))
    BY <2>1, ValueStep
  <2> QED
    BY <2>2, <2>3
<1>22. Value(Down({})) = 0
  <2>1. Down({}) = {}
    OBVIOUS
  <2> QED
    BY <2>1 DEF Value, Digit
<1> HIDE DEF Down
<1>3. Rec(v)
  <2>1. ASSUME NEW s \in SUBSET S, s # {}
        PROVE  Value(Down(s)) = 2^((CHOOSE x \in s : TRUE) - at)
                                  + v[s \ {CHOOSE x \in s : TRUE}]
    <3> DEFINE x == CHOOSE x \in s : TRUE
    <3>1. x \in s
      BY <2>1
    <3> HIDE DEF x
    <3>2. Value(Down(s)) = 2^(x - at) + Value(Down(s \ {x})) /\ s \ {x} \in SUBSET S
      BY <1>21, <3>1
    <3> QED
      BY <3>2 DEF x
  <2> QED
    BY <1>22, <2>1
<1>4. Rec(g)
  <2> HIDE DEF Rec, v
  <2> QED
    BY <1>3
<1> HIDE DEF g
<1>5. ASSUME NEW s \in SUBSET S, g[s] # Value(Down(s)) PROVE FALSE
  <2> DEFINE Bad == {r \in SUBSET S : g[r] # Value(Down(r))}
             T   == {Value(Down(r)) : r \in Bad}
  <2>1. s \in Bad
    BY <1>5
  <2>20. T \subseteq Nat /\ T # {}
    <3>1. \A r : Value(r) \in Nat
      BY ValueNat
    <3> HIDE DEF Bad
    <3>2. Value(Down(s)) \in T
      BY <2>1
    <3> QED
      BY <3>1, <3>2
  <2>2. PICK r \in Bad : \A q \in Bad : Value(Down(r)) <= Value(Down(q))
    <3> HIDE DEF T
    <3>1. PICK n \in T : \A m \in T : n <= m
      BY <2>20, LeastNatural
    <3> QED
      BY <3>1 DEF T
  <2> DEFINE x == CHOOSE x \in r : TRUE
             q == r \ {x}
  <2>3. r \in SUBSET S /\ g[r] # Value(Down(r))
    BY <2>2
  <2>4. g[{}] = 0
    BY <1>4
  <2>5. r # {}
    BY <1>22, <2>3, <2>4
  <2>6. x \in r
    BY <2>5
  <2>7. g[r] = 2^(x - at) + g[q]
    BY <1>4, <2>3, <2>5
  <2> HIDE DEF x
  <2>8. /\ Value(Down(r)) = 2^(x - at) + Value(Down(q)) /\ q \in SUBSET S
        /\ Value(Down(q)) < Value(Down(r))
    BY <1>21, <2>3, <2>6
  <2>9. q \notin Bad
    <3> SUFFICES ASSUME q \in Bad PROVE FALSE
      OBVIOUS
    <3>1. Value(Down(r)) <= Value(Down(q))
      BY <2>2
    <3>2. Value(Down(r)) \in Int /\ Value(Down(q)) \in Int
      BY ValueNat
    <3> QED
      BY <2>8, <3>1, <3>2
  <2> QED
    BY <2>3, <2>7, <2>8, <2>9
<1> QED
  BY <1>1, <1>5, <1>20

(* A field at the bottom of the word.                                      *)
LEMMA BitsValue ==
    ASSUME NEW w, NEW width \in Nat, w \cap 0..(width - 1) \subseteq 0..11
    PROVE  Bits(w, 0, width) = Value(w \cap 0..(width - 1))
<1>1. Lowered(w, 0, width) = w \cap 0..(width - 1)
  BY DEF Lowered
<1> QED
  BY <1>1, BitsAt

(* A field of a word, as a number, tells its bits; small fields are small. *)
LEMMA BitsAlike ==
    ASSUME NEW i, NEW j, NEW at \in Nat, NEW width \in 0..12,
           Bits(i, at, width) = Bits(j, at, width)
    PROVE  Alike(i, j, at..(at + width - 1))
<1>1. Lowered(i, at, width) \in SUBSET (0..11) /\ Lowered(j, at, width) \in SUBSET (0..11)
  BY DEF Lowered
<1>2. Lowered(i, at, width) = Lowered(j, at, width)
  BY <1>1, BitsAt, ValueApart
<1> SUFFICES ASSUME NEW b \in at..(at + width - 1) PROVE b \in i <=> b \in j
  BY DEF Alike
<1>3. b - at \in 0..(width - 1) /\ b - at + at = b
  OBVIOUS
<1> QED
  BY <1>2, <1>3 DEF Lowered

(* Small fields are small.                                                 *)
LEMMA BitsRange ==
    ASSUME NEW i, NEW at \in Nat
    PROVE  /\ \A width \in 0..12 : Bits(i, at, width) \in Nat
           /\ Bits(i, at, 1) \in 0..1 /\ Bits(i, at, 2) \in 0..3
           /\ Bits(i, at, 3) \in 0..7 /\ Bits(i, at, 5) \in 0..31
<1>1. ASSUME NEW width \in 0..12
      PROVE  Bits(i, at, width) = Value(Lowered(i, at, width))
  <2>1. Lowered(i, at, width) \subseteq 0..11
    BY DEF Lowered
  <2> QED
    BY <2>1, BitsAt
<1>2. Value(Lowered(i, at, 1)) \in 0..1 /\ Value(Lowered(i, at, 2)) \in 0..3
  BY DEF Value, Digit, Lowered
<1>3. Value(Lowered(i, at, 3)) \in 0..7
  BY DEF Value, Digit, Lowered
<1>4. Value(Lowered(i, at, 5)) \in 0..31
  <2>1. Lowered(i, at, 5) \subseteq 0..4
    BY DEF Lowered
  <2> QED
    BY <2>1, SmallValue
<1> QED
  BY <1>1, <1>2, <1>3, <1>4, ValueNat

-----------------------------------------------------------------------------
(****************************************************************************)
(* Names: nothing the disassembler prints stands for two operands.         *)
(****************************************************************************)
(* A switch from 0 on whose names a table numbers gives no name twice.     *)
Numbers(number, names, len) ==
    Len(names) = len /\ \A k \in 1..len : names[k] # None /\ number[names[k]] = k - 1

(* Two cases of such a switch with the same name are the same case.        *)
LEMMA FromApart ==
    ASSUME NEW names, NEW len \in Nat, NEW number, Numbers(number, names, len),
           NEW n \in 0..(len - 1), NEW m \in 0..(len - 1),
           From(0, names)[n] = From(0, names)[m]
    PROVE  n = m
<1>0. Len(names) = len /\ \A k \in 1..len : names[k] # None /\ number[names[k]] = k - 1
  BY DEF Numbers
<1>1. \A k \in 0..(len - 1) : k \in {j \in 0..(0 + Len(names) - 1) : names[j - 0 + 1] # None}
  <2> SUFFICES ASSUME NEW k \in 0..(len - 1)
               PROVE  k \in 0..(0 + Len(names) - 1) /\ names[k - 0 + 1] # None
    OBVIOUS
  <2>1. k - 0 + 1 \in 1..len
    OBVIOUS
  <2> QED
    BY <1>0, <2>1
<1>2. \A k \in 0..(len - 1) : From(0, names)[k] = names[k - 0 + 1]
  BY <1>1 DEF From
<1>3. \A k \in 0..(len - 1) : k - 0 + 1 \in 1..len /\ (k - 0 + 1) - 1 = k
  OBVIOUS
<1>4. \A k \in 0..(len - 1) : number[From(0, names)[k]] = k
  <2> SUFFICES ASSUME NEW k \in 0..(len - 1) PROVE number[From(0, names)[k]] = k
    OBVIOUS
  <2> DEFINE j == k - 0 + 1
  <2>1. j \in 1..len /\ j - 1 = k
    BY <1>3
  <2>2. From(0, names)[k] = names[j]
    BY <1>2
  <2> HIDE DEF j
  <2> QED
    BY <1>0, <2>1, <2>2
<1> QED
  BY <1>4

(* No two integer registers have the same name.                            *)
LEMMA IregApart ==
    ASSUME NEW n \in 0..31, NEW m \in 0..31, rv_ireg_name_sym[n] = rv_ireg_name_sym[m]
    PROVE  n = m
<1> DEFINE names == <<
    "zero", "ra", "sp",  "gp",  "tp", "t0", "t1", "t2", "s0", "s1", "a0",
    "a1",   "a2", "a3",  "a4",  "a5", "a6", "a7", "s2", "s3", "s4", "s5",
    "s6",   "s7", "s8",  "s9",  "s10", "s11", "t3", "t4", "t5", "t6">>
<1>1. Len(names) = 32 /\ rv_ireg_name_sym = From(0, names)
  BY DEF rv_ireg_name_sym
<1>2. \A k \in 1..32 : names[k] \in DOMAIN rv_ireg
  BY DEF rv_ireg
<1>3. None \notin DOMAIN rv_ireg
  BY DEF rv_ireg, None
<1>4. \A k \in 1..32 : rv_ireg[names[k]] = k - 1
  BY DEF rv_ireg
<1> HIDE DEF names
<1>5. Numbers(rv_ireg, names, 32)
  BY <1>1, <1>2, <1>3, <1>4 DEF Numbers
<1>6. rv_ireg_name_sym = From(0, names)
  BY <1>1
<1> QED
  BY <1>5, <1>6, FromApart
(* The numbers of the FP registers, as rv_ireg gives the integer ones.       *)
rv_freg ==
    [ft0 |-> 0, ft1 |-> 1, ft2 |-> 2, ft3 |-> 3, ft4 |-> 4, ft5 |-> 5, ft6 |-> 6,
     ft7 |-> 7, fs0 |-> 8, fs1 |-> 9, fa0 |-> 10, fa1 |-> 11, fa2 |-> 12, fa3 |-> 13,
     fa4 |-> 14, fa5 |-> 15, fa6 |-> 16, fa7 |-> 17, fs2 |-> 18, fs3 |-> 19,
     fs4 |-> 20, fs5 |-> 21, fs6 |-> 22, fs7 |-> 23, fs8 |-> 24, fs9 |-> 25,
     fs10 |-> 26, fs11 |-> 27, ft8 |-> 28, ft9 |-> 29, ft10 |-> 30, ft11 |-> 31]

(* Nor two FP registers, rounding modes or fence sets.                     *)
LEMMA FregApart ==
    ASSUME NEW n \in 0..31, NEW m \in 0..31, rv_freg_name_sym[n] = rv_freg_name_sym[m]
    PROVE  n = m
<1> DEFINE names == <<
    "ft0", "ft1", "ft2", "ft3", "ft4", "ft5", "ft6", "ft7", "fs0", "fs1", "fa0",
    "fa1", "fa2", "fa3", "fa4", "fa5", "fa6", "fa7", "fs2", "fs3", "fs4", "fs5",
    "fs6", "fs7", "fs8", "fs9", "fs10", "fs11", "ft8", "ft9", "ft10", "ft11">>
<1>1. Len(names) = 32 /\ rv_freg_name_sym = From(0, names)
  BY DEF rv_freg_name_sym
<1>2. \A k \in 1..32 : names[k] \in DOMAIN rv_freg
  BY DEF rv_freg
<1>3. None \notin DOMAIN rv_freg
  BY DEF rv_freg, None
<1>4. \A k \in 1..32 : rv_freg[names[k]] = k - 1
  BY DEF rv_freg
<1> HIDE DEF names
<1>5. Numbers(rv_freg, names, 32)
  BY <1>1, <1>2, <1>3, <1>4 DEF Numbers
<1>6. rv_freg_name_sym = From(0, names)
  BY <1>1
<1> QED
  BY <1>5, <1>6, FromApart

LEMMA RmApart ==
    ASSUME NEW n \in DOMAIN rv_rm, NEW m \in DOMAIN rv_rm, rv_rm[n] = rv_rm[m]
    PROVE  n = m /\ rv_rm[n] # "inv"
<1> DEFINE names == <<"rne", "rtz", "rdn", "rup", "rmm", None, None, "dyn">>
           cases == {j \in 0..(0 + 8 - 1) : names[j - 0 + 1] # None}
<1>1. DOMAIN rv_rm = cases /\ \A j \in cases : rv_rm[j] = names[j - 0 + 1]
  <2>1. Len(names) = 8 
    OBVIOUS
  <2> HIDE DEF names
  <2>2. rv_rm = From(0, names)
    BY DEF names, rv_rm
  <2> QED
    BY <2>1, <2>2 DEF From
<1>2. cases = {0, 1, 2, 3, 4, 7}
  <2>1. /\ names[6] = None /\ names[7] = None
        /\ \A j \in {1, 2, 3, 4, 5, 8} : names[j] # None
    BY DEF None
  <2> HIDE DEF names
  <2>2. \A j \in 0..7 : j \in cases <=> names[j + 1] # None
    <3> SUFFICES ASSUME NEW j \in 0..7 PROVE j \in cases <=> names[j + 1] # None
      OBVIOUS
    <3>1. j - 0 + 1 = j + 1 /\ 0 + 8 - 1 = 7
      OBVIOUS
    <3> QED
      BY <3>1
  <2>3. cases \subseteq 0..7
    OBVIOUS
  <2> HIDE DEF cases
  <2>4. \A j \in 0..7 : j \in cases <=> j \in {0, 1, 2, 3, 4, 7}
    BY <2>1, <2>2
  <2>5. {0, 1, 2, 3, 4, 7} \subseteq 0..7
    OBVIOUS
  <2> QED
    BY <2>3, <2>4, <2>5, Zenon
<1> HIDE DEF cases
<1>3. /\ rv_rm[0] = "rne" /\ rv_rm[1] = "rtz" /\ rv_rm[2] = "rdn" /\ rv_rm[3] = "rup"
      /\ rv_rm[4] = "rmm" /\ rv_rm[7] = "dyn"
  BY <1>1, <1>2
<1>4. DOMAIN rv_rm = {0, 1, 2, 3, 4, 7}
  BY <1>1, <1>2
<1> QED
  BY <1>3, <1>4

LEMMA FenceApart ==
    ASSUME NEW v \in SUBSET (0..3), NEW w \in SUBSET (0..3), FenceLetters(v) = FenceLetters(w)
    PROVE  v = w
<1>1. \A letter \in DOMAIN rv_fence : rv_fence[letter] \in v <=> rv_fence[letter] \in w
  BY DEF FenceLetters
<1>2. \A b \in 0..3 : b \in v <=> b \in w
  BY <1>1 DEF rv_fence
<1> QED
  BY <1>2

CsrLast    == 4095
CsrNumbers == 0..CsrLast

(* 4096 different texts for 4096 numbers: no two control registers share   *)
(* one.                                                                    *)
LEMMA CsrApart ==
    ASSUME NEW n \in CsrNumbers, NEW m \in CsrNumbers, CsrText(n) = CsrText(m)
    PROVE  n = m
<1> DEFINE S == CsrNumbers
           T == {CsrText(k) : k \in S}
           f == [k \in S |-> CsrText(k)]
<1>1. f \in Surjection(S, T)
  <2> HIDE DEF S
  <2> QED
    BY DEF Surjection
<1>2. CsrLast \in Int /\ 0 \in Int /\ ~ (0 > CsrLast)
  BY DEF CsrLast
<1>3. IsFiniteSet(S) /\ Cardinality(S) = CsrLast + 1
  BY <1>2, FS_Interval DEF CsrNumbers
<1>4. Cardinality(T) = CsrLast + 1
  BY CsrTextsApart DEF CsrLast, CsrNumbers
<1>5. n \in S /\ m \in S
  OBVIOUS
<1> HIDE DEF S
<1>6. f[n] = f[m] /\ DOMAIN f = S
  BY <1>5
<1> HIDE DEF f, T
<1>7. f \in Injection(S, T)
  BY <1>1, <1>3, <1>4, FS_SurjSameCardinalityImpliesInj
<1>8. IsInjective(f)
  BY <1>7 DEF Injection
<1> QED
  BY <1>5, <1>6, <1>8 DEF IsInjective

(* The number of a word of few bits, and of no other.                      *)
LEMMA NumberValue ==
    ASSUME NEW w \in SUBSET (0..11)
    PROVE  Number(w) = Value(w)
<1>1. w \cap 0..(31 - 1) = w
  <2>1. 0..11 \subseteq 0..(31 - 1)
    OBVIOUS
  <2> QED
    BY <2>1, Zenon
<1> QED
  BY <1>1, BitsValue DEF Number

(* The number of a word determines the word.                               *)
LEMMA NumberApart ==
    ASSUME NEW v \in SUBSET (0..11), NEW w \in SUBSET (0..11), Number(v) = Number(w)
    PROVE  v = w
  BY NumberValue, ValueApart

(* A control register is one of 4096, a register one of 32.                *)
LEMMA CsrNumber == ASSUME NEW w \in SUBSET (0..11) PROVE Number(w) \in CsrNumbers
<1>1. Value(w) \in CsrNumbers
  BY ValueRange DEF CsrNumbers, CsrLast
<1> QED
  BY <1>1, NumberValue

LEMMA RegisterNumber == ASSUME NEW w \in SUBSET (0..4) PROVE Number(w) \in 0..31
<1>1. w \in SUBSET (0..11)
  OBVIOUS
<1> QED
  BY <1>1, NumberValue, SmallValue

-----------------------------------------------------------------------------
Letters == {"rd", "rs1", "rs2", "(rs1)", "frd", "frs1", "frs2", "frs3", "csr", "rm", "pred",
            "succ", "imm", "offset", "zimm", "aq", "rl"}
(* The width of the operand a letter shows.                                *)
Fit(letter, w) ==
    CASE letter \in {"pred", "succ"}              -> w \subseteq 0..3
      [] letter = "rm"                            -> w \subseteq 0..2
      [] letter = "csr"                           -> w \subseteq 0..11
      [] letter \in {"imm", "offset", "aq", "rl"} -> TRUE
      [] OTHER                                    -> w \subseteq 0..4

(* Two values an operand may have are shown as two tokens.                 *)
LEMMA ShowsApart ==
    ASSUME NEW letter \in Letters, NEW w, Fit(letter, w), NEW v \in Values(letter, w),
           Shown(letter, v) = Shown(letter, w), ~ (letter = "rm" /\ Shown(letter, w) = "inv")
    PROVE  v = w
<1>1. CASE letter \in {"rd", "rs1", "rs2", "(rs1)"}
  <2>1. v \subseteq 0..4 /\ w \subseteq 0..4
    BY <1>1 DEF Fit, Values
  <2>2. rv_ireg_name_sym[Number(v)] = rv_ireg_name_sym[Number(w)]
    BY <1>1 DEF Shown
  <2>3. v \in SUBSET (0..11) /\ w \in SUBSET (0..11)
    BY <2>1
  <2> QED
    BY <2>1, <2>2, <2>3, IregApart, RegisterNumber, NumberApart
<1>2. CASE letter \in {"frd", "frs1", "frs2", "frs3"}
  <2>1. v \subseteq 0..4 /\ w \subseteq 0..4
    BY <1>2 DEF Fit, Values
  <2>2. rv_freg_name_sym[Number(v)] = rv_freg_name_sym[Number(w)]
    BY <1>2 DEF Shown
  <2>3. v \in SUBSET (0..11) /\ w \in SUBSET (0..11)
    BY <2>1
  <2> QED
    BY <2>1, <2>2, <2>3, FregApart, RegisterNumber, NumberApart
<1>3. CASE letter = "csr"
  <2>1. w \subseteq 0..11 /\ (v = w \/ v \subseteq 0..11)
    BY <1>3 DEF Fit, Values
  <2>2. CsrText(Number(v \cap 0..11)) = CsrText(Number(w \cap 0..11))
    BY <1>3 DEF Shown
  <2>3. CASE v \subseteq 0..11
    <3>1. v \cap 0..11 = v /\ w \cap 0..11 = w /\ v \in SUBSET (0..11) /\ w \in SUBSET (0..11)
      BY <2>1, <2>3
    <3>2. Number(v) \in CsrNumbers /\ Number(w) \in CsrNumbers /\ CsrText(Number(v)) =
              CsrText(Number(w))
      BY <2>2, <3>1, CsrNumber
    <3>3. Number(v) = Number(w)
      BY <3>2, CsrApart
    <3> QED
      BY <3>1, <3>3, NumberApart
  <2> QED
    BY <2>1, <2>3
<1>4. CASE letter = "rm"
  <2>1. v \subseteq 0..2 /\ w \subseteq 0..2
    BY <1>4 DEF Fit, Values
  <2>2. RoundingName(v) = RoundingName(w) /\ RoundingName(w) # "inv"
    BY <1>4 DEF Shown
  <2>3. Number(v) = Number(w)
    BY <2>2, RmApart DEF RoundingName
  <2>4. v \in SUBSET (0..11) /\ w \in SUBSET (0..11)
    BY <2>1
  <2> QED
    BY <2>3, <2>4, NumberApart
<1>5. CASE letter \in {"pred", "succ"}
  <2>1. v \in SUBSET (0..3) /\ w \in SUBSET (0..3)
    BY <1>5 DEF Fit, Values
  <2>2. FenceLetters(v) = FenceLetters(w)
    BY <1>5 DEF Shown
  <2> QED
    BY <2>1, <2>2, FenceApart
<1>6. CASE letter \in {"imm", "offset", "aq", "rl", "zimm"}
  BY <1>6 DEF Shown
<1> QED
  BY <1>1, <1>2, <1>3, <1>4, <1>5, <1>6 DEF Letters

(* A token is read back as the one value it was printed for.               *)
LEMMA ReadsBack ==
    ASSUME NEW letter \in Letters, NEW w, Fit(letter, w), ~ (letter = "rm" /\ Shown(letter,
               w) = "inv")
    PROVE  Readings(letter, Shown(letter, w), w) = {w}
<1>1. w \in Values(letter, w)
  BY DEF Fit, Values, Letters
<1> QED
  BY <1>1, ShowsApart DEF Readings

-----------------------------------------------------------------------------
(****************************************************************************)
(* The format of every opcode, and the operands it shows.                  *)
(****************************************************************************)
LEMMA RowFormat ==
    ASSUME NEW row \in Rows, NEW op \in row[3]
    PROVE  op \in rv_op /\ codec(op) = row[1] /\ format(op) = row[2]
<1>1. op \in rv_op
  BY DEF Rows, rv_op, IntegerOps, SystemOps, FloatOps, Compressed, PseudoOps, Mnemonics
<1>2. Row[op] = CHOOSE r \in Rows : op \in r[3]
  BY <1>1 DEF Row
<1>3. Row[op] \in Rows /\ op \in Row[op][3]
  BY <1>2
<1>4. Row[op] = row
  BY <1>3, RowsApart
<1> QED
  BY <1>1, <1>4 DEF codec, format

(* Every opcode has a row.                                                 *)
LEMMA RowOf ==
    ASSUME NEW op \in rv_op
    PROVE  \E row \in Rows : op \in row[3] /\ codec(op) = row[1] /\ format(op) = row[2]
<1>1. \E row \in Rows : op \in row[3]
  <2>1. CASE op = "illegal"
    <3>1. <<"illegal", << >>, {"illegal"}>> \in Rows
      BY DEF Rows
    <3> QED
      BY <2>1, <3>1
  <2>2. CASE op # "illegal"
    BY <2>2 DEF rv_op, IntegerOps, SystemOps, FloatOps, Compressed, PseudoOps, Mnemonics, Rows
  <2> QED
    BY <2>1, <2>2
<1> QED
  BY <1>1, RowFormat

(* The letters of a format, and which rows show a control register.        *)
Lettered(row) == /\ \A k \in DOMAIN row[2] : row[2][k] \in Letters
                 /\ \A k \in DOMAIN row[2] : row[2][k] = "csr" => row[1] = "i_csr"

(* Every format is made of these letters.                                  *)
LEMMA IntegerFormats == \A row \in IntegerRows : Lettered(row)
  BY DEF IntegerRows, Lettered, Letters, rd_rs1_imm, rd_rs1_rs2, rd_mem, rs2_mem

LEMMA SystemFormats == \A row \in SystemRows : Lettered(row)
  BY DEF SystemRows, Lettered, Letters

LEMMA FloatFormats == \A row \in FloatRows : Lettered(row) /\ row[1] # "i_csr"
<1> DEFINE fused   == Names({"fmadd", "fmsub", "fnmsub", "fnmadd"}, FpSuffix)
           rounded == Names({"fadd", "fsub", "fmul", "fdiv"}, FpSuffix)
           exact   == Names({"fsgnj", "fsgnjn", "fsgnjx", "fmin", "fmax"}, FpSuffix)
           unary   == Names({"fsqrt"}, FpSuffix)
              \cup {"fcvt" \o s[1] \o s[2] : s \in {p \in FpSuffix \X FpSuffix : p[1] # p[2]}}
           tests   == Names({"fle", "flt", "feq"}, FpSuffix)
           toInt   == Names(Names({"fcvt"}, {".w", ".wu", ".l", ".lu"}), FpSuffix)
           fromInt == Names(Names({"fcvt"}, FpSuffix), {".w", ".wu", ".l", ".lu"})
           toBits  == Names({"fmv.x", "fclass"}, FpSuffix)
           ofBits  == Names(Names({"fmv"}, FpSuffix), {".x"})
           rows == {
              <<"i", frd_mem, {"flw", "fld", "flq"}>>, <<"s", frs2_mem, {"fsw", "fsd", "fsq"}>>,
              <<"r4_m", <<"rm", "frd", "frs1", "frs2", "frs3">>, fused>>,
              <<"r_m", <<"rm", "frd", "frs1", "frs2">>, rounded>>,
              <<"r", fp3, exact>>, <<"r_m", <<"rm", "frd", "frs1">>, unary>>,
              <<"r", <<"rd", "frs1", "frs2">>, tests>>, <<"r_m", <<"rm", "rd", "frs1">>, toInt>>,
              <<"r_m", <<"rm", "frd", "rs1">>, fromInt>>, <<"r", <<"rd", "frs1">>, toBits>>,
              <<"r", <<"frd", "rs1">>, ofBits>>}
<1>1. FloatRows = rows
  BY DEF FloatRows
<1> HIDE DEF fused, rounded, exact, unary, tests, toInt, fromInt, toBits, ofBits
<1> QED
  BY <1>1 DEF Lettered, Letters, frd_mem, frs2_mem, fp3

LEMMA CompressedFormats == \A row \in CompressedRows : Lettered(row)
  BY DEF CompressedRows, Lettered, Letters, rd_rs1_imm, rd_rs1_rs2, rd_mem, frd_mem, rs2_mem,
         frs2_mem

LEMMA PseudoFormats ==
    \A row \in PseudoRows :
       /\ Lettered(row) /\ DOMAIN row[2] \subseteq Nat
       /\ \A k \in DOMAIN row[2] : row[2][k] \notin {"csr", "rm", "pred", "succ"}
  BY DEF PseudoRows, Lettered, Letters

(* So is every format an opcode has.                                       *)
LEMMA FormatLetters ==
    ASSUME NEW op \in rv_op, NEW k \in DOMAIN format(op)
    PROVE  format(op)[k] \in Letters /\ (format(op)[k] = "csr" => codec(op) = "i_csr")
<1>1. PICK row \in Rows : op \in row[3] /\ codec(op) = row[1] /\ format(op) = row[2]
  BY RowOf
<1>2. Lettered(<<"illegal", << >>, {"illegal"}>>)
  BY DEF Lettered
<1>3. Lettered(row)
  BY <1>2, IntegerFormats, SystemFormats, FloatFormats, CompressedFormats, PseudoFormats DEF Rows
<1> QED
  BY <1>1, <1>3 DEF Lettered

(* A pseudo instruction shows no control register, mode or fence set.      *)
LEMMA PseudoLetters ==
    ASSUME NEW op \in PseudoOps
    PROVE  /\ DOMAIN format(op) \subseteq Nat
           /\ \A k \in DOMAIN format(op) : format(op)[k] \notin {"csr", "rm", "pred", "succ"}
<1>1. PICK row \in PseudoRows : op \in row[3]
  BY DEF PseudoOps, Mnemonics
<1>2. row \in Rows
  BY DEF Rows
<1>3. format(op) = row[2]
  BY <1>1, <1>2, RowFormat
<1> QED
  BY <1>3, PseudoFormats

CsrOps == {"csrrw", "csrrs", "csrrc", "csrrwi", "csrrsi", "csrrci"}

(* The base instructions that have a control register.                     *)
LEMMA CsrNames ==
    ASSUME NEW op \in BaseOps, codec(op) = "i_csr"
    PROVE  op \in CsrOps
<1>1. PICK row \in Rows : op \in row[3] /\ codec(op) = row[1]
  BY RowOf, InTable
<1>2. row \notin IntegerRows
  BY <1>1 DEF IntegerRows
<1>3. row \in SystemRows => row[3] \in {{"csrrw", "csrrs", "csrrc"}, {"csrrwi", "csrrsi",
          "csrrci"}}
  BY <1>1 DEF SystemRows
<1>4. row \notin FloatRows
  BY <1>1, FloatFormats
<1>5. row \notin CompressedRows /\ row \notin PseudoRows
  BY <1>1, MnemonicsApart DEF Compressed, PseudoOps, Mnemonics
<1>6. row # <<"illegal", << >>, {"illegal"}>>
  BY <1>1
<1>7. row \in SystemRows
  BY <1>2, <1>4, <1>5, <1>6 DEF Rows
<1> QED
  BY <1>1, <1>3, <1>7 DEF CsrOps

(* An arithmetic instruction of a narrow width.                            *)
LEMMA NarrowNames ==
    /\ \A op \in {"sub" \o "w",
                  "add" \o "w"} : op \in BaseOps /\ codec(op) = "r" /\ format(op) = rd_rs1_rs2
<1> DEFINE names == {RegAlu[n] : n \in DOMAIN RegAlu}
                    \cup Names({RegAlu[n] : n \in NarrowAlu}, {"w", "d"})
           row == <<"r", rd_rs1_rs2, names>>
<1>1. row \in IntegerRows
  BY DEF IntegerRows
<1>2. "sub" \o "w" \in names /\ "add" \o "w" \in names
  <2>1. RegAlu[0] = "add" /\ RegAlu[256] = "sub" 
    <3>1. 0 \in DOMAIN RegAlu /\ 256 \in DOMAIN RegAlu
      BY DEF RegAlu, Table
    <3> QED
      BY <3>1, TableValue DEF RegAlu
  <2>2. 0 \in NarrowAlu /\ 256 \in NarrowAlu
    BY DEF NarrowAlu
  <2>3. "sub" \in {RegAlu[n] : n \in NarrowAlu} /\ "add" \in {RegAlu[n] : n \in NarrowAlu}
    BY <2>1, <2>2
  <2>4. "w" \in {"w", "d"}
    OBVIOUS
  <2> HIDE DEF NarrowAlu
  <2> QED
    BY <2>3, <2>4, Suffixed
<1>3. names \subseteq BaseOps
  BY <1>1 DEF BaseOps, IntegerOps, Mnemonics
<1> HIDE DEF names
<1>4. row \in Rows /\ row[1] = "r" /\ row[2] = rd_rs1_rs2 /\ row[3] = names
  BY <1>1 DEF Rows
<1> HIDE DEF row
<1> QED
  BY <1>2, <1>3, <1>4, RowFormat

(* No compressed instruction stands for one of them.                       *)
LEMMA ExpansionCodec ==
    ASSUME NEW op \in DOMAIN Expansion
    PROVE  codec(Expansion[op]) # "i_csr"
<1>1. PICK row \in Expands : Expansion[op] = row[2]
  BY DEF Expansion
<1>2. \A r \in Expands : r[2] \notin CsrOps \/ r[2] \in {"sub" \o "w", "add" \o "w"}
  BY DEF Expands, CsrOps
<1> QED
  BY <1>1, <1>2, ExpansionBase, CsrNames, NarrowNames

-----------------------------------------------------------------------------
(****************************************************************************)
(* What is printed: which operands have which width.                       *)
(****************************************************************************)
ShowsCsr(op) == \E k \in DOMAIN format(op) : format(op)[k] = "csr"

(* The modes have three or four bits.                                      *)
LEMMA ModeFields ==
    ASSUME NEW w
    PROVE  /\ operand_rm(w) \subseteq 0..2 /\ operand_pred(w) \subseteq 0..3
           /\ operand_succ(w) \subseteq 0..3
<1>1. Fits(49, 61, 0, 0, 2) /\ Fits(36, 60, 0, 0, 3) /\ Fits(40, 60, 0, 0, 3)
  BY DEF Fits
<1> QED
  BY <1>1, FieldWithin DEF Within, operand_rm, operand_pred, operand_succ

ModesFit == dec.rm \subseteq 0..2 /\ dec.pred \subseteq 0..3 /\ dec.succ \subseteq 0..3
CsrFits  == stage \in {"operands", "plain", "lifted",
                       "printed"} /\ ShowsCsr(dec.op) => dec.imm \subseteq 0..11
Printed  == stage = "printed" => text = decode_inst_format(dec)
ShowInv  == ModesFit /\ CsrFits /\ Printed

(* Nothing is shown at the start.                                          *)
LEMMA InitShow == Init => ShowInv
<1> SUFFICES ASSUME Init PROVE ShowInv
  OBVIOUS
<1>1. dec = ZeroDec /\ stage = "loop"
  BY DEF Init
<1>2. ModesFit
  BY <1>1 DEF ModesFit, ZeroDec, Operands
<1> QED
  BY <1>1, <1>2 DEF ShowInv, CsrFits, Printed

(* What is decoded as a control register has 12 bits.                      *)
LEMMA CsrDecoded ==
    ASSUME NEW op \in rv_op, NEW i, ShowsCsr(op)
    PROVE  imm_of(codec(op), i) \subseteq 0..11
<1>1. codec(op) = "i_csr"
  BY FormatLetters DEF ShowsCsr
<1>2. operand_csr12(i) \subseteq 0..11
  BY UnsignedImmediates DEF Within
<1> QED
  BY <1>1, <1>2 DEF imm_of

(* Only the instructions on control registers show one.                    *)
LEMMA BaseShowsCsr ==
    ASSUME NEW op \in BaseOps, ShowsCsr(op)
    PROVE  codec(op) = "i_csr" /\ op \in CsrOps
<1>1. codec(op) = "i_csr"
  BY FormatLetters, InTable DEF ShowsCsr
<1> QED
  BY <1>1, CsrNames

(* What is lifted shows none.                                              *)
LEMMA LiftedShowsNone == ASSUME NEW op \in Lifted PROVE ~ ShowsCsr(op)
<1>1. CASE op \in PseudoOps
  BY <1>1, PseudoLetters DEF ShowsCsr
<1>2. CASE op \in {"jal", "jalr"}
  BY <1>2, IntegerNames, BaseShowsCsr DEF CsrOps
<1> QED
  BY <1>1, <1>2 DEF Lifted

(* Decompression gives no instruction that shows a control register it did *)
(* not show before, and lifting none at all.                               *)
LEMMA DecompressShows ==
    ASSUME DecShape, OpcodeInv, stage = "operands", NEW d, d = decode_inst_decompress(dec),
               d.op # dec.op
    PROVE  ~ ShowsCsr(d.op)
<1> DEFINE op == Expansion[dec.op]
           has == DOMAIN Expansion \ NotIn[isa]
<1>1. CASE dec.op \notin has
  BY <1>1 DEF decode_inst_decompress
<1>2. CASE dec.op \in has /\ dec.op \in rvcd_imm_nz /\ dec.imm = {}
  <2>1. d = Renamed(dec, "illegal")
    BY <1>2 DEF decode_inst_decompress, Renamed
  <2>2. d.op = "illegal"
    BY <2>1, RenamedFields
  <2> QED
    BY <2>2, IntegerNames, BaseShowsCsr DEF CsrOps
<1>3. CASE dec.op \in has /\ ~ (dec.op \in rvcd_imm_nz /\ dec.imm = {})
  <2>1. d = Recoded(dec, op, codec(op))
    BY <1>3 DEF decode_inst_decompress, Recoded
  <2>2. op \in BaseOps /\ codec(op) # "i_csr"
    BY <1>3, ExpansionBase, ExpansionCodec
  <2> HIDE DEF op
  <2>3. d.op = op
    BY <2>1, RenamedFields
  <2> QED
    BY <2>2, <2>3, BaseShowsCsr
<1> QED
  BY <1>1, <1>2, <1>3

(* What lifting makes of an instruction.                                   *)
Candidates(op) == IF op \in DOMAIN rvcp THEN rvcp[op] ELSE << >>
(* Either it keeps the opcode, or it gives a form whose constraints hold.  *)
LEMMA LiftCases ==
    ASSUME NEW d
    PROVE  \/ decode_inst_lift_pseudo(d) = d
           \/ \E k \in DOMAIN Candidates(d.op) :
                 LET form == Candidates(d.op)[k]
                 IN  /\ form[1] \in Lifted /\ d.op \in DOMAIN rvcp
                     /\ \A c \in form[2] : check_constraint(d, c)
                     /\ decode_inst_lift_pseudo(d) = Recoded(d, form[1], codec(form[1]))
<1> DEFINE lift  == decode_inst_lift_pseudo(d)
           table == Candidates(d.op)
           holds == {k \in DOMAIN table : \A c \in table[k][2] : check_constraint(d, c)}
           op    == table[Min(holds)][1]
<1>1. lift = IF holds = {} THEN d ELSE Recoded(d, op, codec(op))
  BY DEF decode_inst_lift_pseudo, Recoded, Candidates
<1>2. Forms(table) /\ (table # << >> => d.op \in DOMAIN rvcp)
  BY LiftedForms DEF Forms, Candidates
<1>3. holds \subseteq DOMAIN table /\ holds \subseteq Nat
  BY <1>2 DEF Forms
<1>4. ASSUME holds # {}
      PROVE  /\ Min(holds) \in DOMAIN table
             /\ \A c \in table[Min(holds)][2] : check_constraint(d, c)
             /\ op \in Lifted /\ d.op \in DOMAIN rvcp
  <2>1. Min(holds) \in holds
    <3> HIDE DEF holds
    <3>1. \E n \in holds : \A m \in holds : n <= m
      BY <1>3, <1>4, LeastNatural
    <3> QED
      BY <3>1 DEF Min
  <2>2. table # << >>
    <3>1. DOMAIN << >> = {}
      OBVIOUS
    <3> QED
      BY <1>4, <3>1
  <2> HIDE DEF table
  <2> QED
    BY <1>2, <2>1, <2>2 DEF Forms
<1> HIDE DEF lift, table, holds
<1> QED
  BY <1>1, <1>4 DEF lift, table

(* Each phase keeps the width of the modes.                                *)
LEMMA ModesNext == DecShape /\ ModesFit /\ [Next]_vars => ModesFit'
<1> SUFFICES ASSUME DecShape, ModesFit, [Next]_vars PROVE ModesFit'
  OBVIOUS
<1> DEFINE M == {"rm", "pred", "succ"}
<1>0. M \subseteq Operands /\ M \subseteq DecFields \ {"inst"}
  BY DEF Operands, DecFields
<1>1. CASE InstFetch
  <2>1. dec' = [ZeroDec EXCEPT !.inst = inst_fetch(offset).inst]
    BY <1>1 DEF InstFetch
  <2>2. \A f \in M : dec'[f] = ZeroDec[f]
    BY <1>0, <2>1, ZeroShape, Updated DEF DecFields
  <2>3. \A f \in M : dec'[f] = {}
    BY <2>2 DEF ZeroDec, Operands
  <2> QED
    BY <2>3 DEF ModesFit
<1>2. CASE DecodeOperands
  <2> DEFINE c == codec(dec.op)
             i == dec.inst
  <2>1. \A f \in M : dec'[f] = decode_inst_operands(c, i)[f]
    BY <1>0, <1>2, OperandsDecoded
  <2>2. /\ dec'["rm"] = (IF c \in {"r_m", "r4_m"} THEN operand_rm(i) ELSE {})
        /\ dec'["pred"] = (IF c = "r_f" THEN operand_pred(i) ELSE {})
        /\ dec'["succ"] = (IF c = "r_f" THEN operand_succ(i) ELSE {})
    BY <2>1 DEF decode_inst_operands
  <2> HIDE DEF c, i
  <2> QED
    BY <2>2, ModeFields DEF ModesFit
<1>3. CASE DecodeOpcode \/ Decompress \/ LiftPseudo \/ Format \/ Advance \/ Return
  <2>1. \A f \in M : dec'[f] = dec[f]
    BY <1>0, <1>3, OtherPhasesKeep
  <2> QED
    BY <2>1 DEF ModesFit
<1>4. CASE UNCHANGED vars
  BY <1>4 DEF vars, ModesFit
<1> QED
  BY <1>1, <1>2, <1>3, <1>4 DEF Next

(* Each phase keeps what is shown within its width.                        *)
LEMMA ShowNext == CodecInv /\ OpcodeInv /\ ShowInv /\ [Next]_vars => ShowInv'
<1> SUFFICES ASSUME CodecInv, OpcodeInv, ShowInv, [Next]_vars PROVE ShowInv'
  OBVIOUS
<1>1. DecShape /\ dec.op \in rv_op /\ CsrFits /\ Printed
  BY DEF CodecInv, OpcodeInv, ShowInv
<1>2. ModesFit'
  BY <1>1, ModesNext DEF ShowInv
<1>3. CASE InstFetch \/ DecodeOpcode
  <2>1. stage' \in {"fetched", "opcode"}
    BY <1>3 DEF InstFetch, DecodeOpcode
  <2> QED
    BY <1>2, <2>1 DEF ShowInv, CsrFits, Printed
<1>4. CASE DecodeOperands
  <2>1. stage' = "operands"
    BY <1>4 DEF DecodeOperands
  <2>2. dec'.op = dec.op /\ dec'["imm"] = decode_inst_operands(codec(dec.op), dec.inst)["imm"]
    BY <1>1, <1>4, OperandsDecoded DEF Operands
  <2>3. dec'["imm"] = imm_of(codec(dec.op), dec.inst)
    BY <2>2 DEF decode_inst_operands
  <2>4. ShowsCsr(dec.op) => dec'.imm \subseteq 0..11
    BY <1>1, <2>3, CsrDecoded
  <2> QED
    BY <1>2, <2>1, <2>2, <2>4 DEF ShowInv, CsrFits, Printed
<1>5. CASE Decompress
  <2>1. dec' = decode_inst_decompress(dec) /\ stage = "operands" /\ stage' = "plain"
    BY <1>5 DEF Decompress
  <2>2. dec'.imm = dec.imm
    BY <1>1, <1>5, OtherPhasesKeep
  <2>3. dec'.op = dec.op \/ ~ ShowsCsr(dec'.op)
    BY <1>1, <2>1, DecompressShows
  <2>4. CsrFits'
    BY <1>1, <2>1, <2>2, <2>3 DEF CsrFits
  <2> QED
    BY <1>2, <2>1, <2>4 DEF ShowInv, Printed
<1>6. CASE LiftPseudo
  <2>1. dec' = decode_inst_lift_pseudo(dec) /\ stage = "plain" /\ stage' = "lifted"
    BY <1>6 DEF LiftPseudo
  <2>2. dec'.imm = dec.imm
    BY <1>1, <1>6, OtherPhasesKeep
  <2>3. dec'.op = dec.op \/ ~ ShowsCsr(dec'.op)
    <3>1. dec' = dec \/ \E op \in Lifted : dec' = Recoded(dec, op, codec(op))
      BY <2>1, LiftCases
    <3> QED
      BY <1>1, <3>1, RenamedFields, LiftedShowsNone
  <2>4. CsrFits'
    BY <1>1, <2>1, <2>2, <2>3 DEF CsrFits
  <2> QED
    BY <1>2, <2>1, <2>4 DEF ShowInv, Printed
<1>7. CASE Format
  <2>1. /\ text' = decode_inst_format(dec) /\ dec' = dec /\ stage = "lifted" /\ stage' = "printed"
    BY <1>7 DEF Format
  <2>2. CsrFits'
    BY <1>1, <2>1 DEF CsrFits
  <2>3. Printed'
    BY <2>1 DEF Printed
  <2> QED
    BY <1>2, <2>2, <2>3 DEF ShowInv
<1>8. CASE Advance \/ Return
  <2>1. stage' \in {"loop", "done"}
    BY <1>8 DEF Advance, Return
  <2> QED
    BY <1>2, <2>1 DEF ShowInv, CsrFits, Printed
<1>9. CASE UNCHANGED vars
  <2>1. dec' = dec /\ text' = text /\ stage' = stage
    BY <1>9 DEF vars
  <2>2. CsrFits' /\ Printed'
    BY <1>1, <2>1 DEF CsrFits, Printed
  <2> QED
    BY <1>2, <2>2 DEF ShowInv
<1> QED
  BY <1>3, <1>4, <1>5, <1>6, <1>7, <1>8, <1>9 DEF Next

(* Every operand has the width its letter shows.                           *)
LEMMA OperandsShown ==
    ASSUME OpcodeInv, WidthInv, ShowInv, stage = "printed", NEW k \in DOMAIN format(dec.op)
    PROVE  LET letter == format(dec.op)[k]
           IN  letter \in Letters /\ Fit(letter, dec[FieldOf(letter)])
<1> DEFINE letter == format(dec.op)[k]
           w == dec[FieldOf(letter)]
<1>1. dec.op \in rv_op
  BY DEF OpcodeInv
<1>2. letter \in Letters
  BY <1>1, FormatLetters
<1>3. letter = "csr" => dec.imm \subseteq 0..11
  BY DEF ShowInv, CsrFits, ShowsCsr
<1>4. /\ dec["rd"] \subseteq 0..4 /\ dec["rs1"] \subseteq 0..4 /\ dec["rs2"] \subseteq 0..4
      /\ dec["rs3"] \subseteq 0..4
  BY DEF WidthInv, OperandsFit, Registers
<1>5. dec["rm"] \subseteq 0..2 /\ dec["pred"] \subseteq 0..3 /\ dec["succ"] \subseteq 0..3
  BY DEF ShowInv, ModesFit
<1> HIDE DEF letter
<1>6. Fit(letter, w)
  <2>1. CASE letter \in {"rd", "frd"}
    BY <1>4, <2>1 DEF Fit, FieldOf
  <2>2. CASE letter \in {"rs1", "(rs1)", "frs1", "zimm"}
    BY <1>4, <2>2 DEF Fit, FieldOf
  <2>3. CASE letter \in {"rs2", "frs2"}
    BY <1>4, <2>3 DEF Fit, FieldOf
  <2>4. CASE letter = "frs3"
    BY <1>4, <2>4 DEF Fit, FieldOf
  <2>5. CASE letter = "csr"
    BY <1>3, <2>5 DEF Fit, FieldOf
  <2>6. CASE letter \in {"rm", "pred", "succ"}
    BY <1>5, <2>6 DEF Fit, FieldOf
  <2>7. CASE letter \in {"imm", "offset", "aq", "rl"}
    BY <2>7 DEF Fit
  <2> QED
    BY <1>2, <2>1, <2>2, <2>3, <2>4, <2>5, <2>6, <2>7 DEF Letters
<1> QED
  BY <1>2, <1>6 DEF letter

-----------------------------------------------------------------------------
(****************************************************************************)
(* The manual: what every form of every opcode shows of its base.          *)
(****************************************************************************)
LEMMA MoreNames ==
    ASSUME NEW some, NEW stems, some \subseteq stems, NEW suffixes
    PROVE  Names(some, suffixes) \subseteq Names(stems, suffixes)
  BY DEF Names

(* The fields an opcode shows are those of the letters of its row.         *)
LEMMA FieldsOf ==
    ASSUME NEW row \in Rows, NEW op \in row[3]
    PROVE  Fields(op) = [k \in DOMAIN row[2] |-> FieldOf(row[2][k])]
  BY RowFormat DEF Fields

(* The field each letter shows.                                            *)
LEMMA FieldNames ==
    /\ \A f \in {"rd", "rs1", "rs2", "imm"} : FieldOf(f) = f
    /\ FieldOf("offset") = "imm" /\ FieldOf("csr") = "imm"
    /\ FieldOf("zimm") = "rs1" /\ FieldOf("frd") = "rd" /\ FieldOf("frs1") = "rs1"
    /\ FieldOf("frs2") = "rs2"
  BY DEF FieldOf

(* The base instructions.                                                  *)
LEMMA IntegerFields ==
    /\ Fields("jal") = <<"rd", "imm">>
    /\ \A op \in {"jalr", "addi", "sltiu", "xori", "addiw"} : Fields(op) = <<"rd", "rs1", "imm">>
    /\ \A op \in {"beq", "bne", "blt", "bge", "bltu", "bgeu"} : Fields(op) = <<"rs1", "rs2",
           "imm">>
<1>1. ASSUME NEW row \in IntegerRows, NEW op \in row[3]
      PROVE  Fields(op) = [k \in DOMAIN row[2] |-> FieldOf(row[2][k])]
  BY FieldsOf DEF Rows
<1>2. <<"uj", <<"rd", "offset">>, {"jal"}>> \in IntegerRows
  BY DEF IntegerRows
<1>3. <<"i", rd_rs1_imm, {"jalr"}>> \in IntegerRows
  BY DEF IntegerRows
<1>4. <<"sb", <<"rs1", "rs2", "offset">>, {"beq", "bne", "blt", "bge", "bltu",
                                           "bgeu"}>> \in IntegerRows
  BY DEF IntegerRows
<1>5. <<"i", rd_rs1_imm, {"addi", "slti", "sltiu", "xori", "ori", "andi", "addiw",
                          "addid"}>> \in IntegerRows
  BY DEF IntegerRows
<1>6. Fields("jal") = <<"rd", "imm">>
  <2>1. Fields("jal") = [k \in DOMAIN <<"rd", "offset">> |-> FieldOf(<<"rd", "offset">>[k])]
    BY <1>1, <1>2
  <2> QED
    BY <2>1, FieldNames
<1>7. \A op \in {"jalr", "addi", "sltiu", "xori", "addiw"} : Fields(op) = <<"rd", "rs1", "imm">>
  <2>1. \A op \in {"jalr", "addi", "sltiu", "xori", "addiw"} :
            Fields(op) = [k \in DOMAIN rd_rs1_imm |-> FieldOf(rd_rs1_imm[k])]
    BY <1>1, <1>3, <1>5
  <2>2. [k \in DOMAIN rd_rs1_imm |-> FieldOf(rd_rs1_imm[k])] = <<"rd", "rs1", "imm">>
    BY FieldNames DEF rd_rs1_imm
  <2> QED
    BY <2>1, <2>2
<1>8. \A op \in {"beq", "bne", "blt", "bge", "bltu", "bgeu"} : Fields(op) = <<"rs1", "rs2",
          "imm">>
  <2> DEFINE letters == <<"rs1", "rs2", "offset">>
  <2>1. \A op \in {"beq", "bne", "blt", "bge", "bltu", "bgeu"} :
            Fields(op) = [k \in DOMAIN letters |-> FieldOf(letters[k])]
    BY <1>1, <1>4
  <2>2. [k \in DOMAIN letters |-> FieldOf(letters[k])] = <<"rs1", "rs2", "imm">>
    BY FieldNames
  <2> QED
    BY <2>1, <2>2
<1> QED
  BY <1>6, <1>7, <1>8

(* Register, control register and sign injection instructions.             *)
LEMMA OtherFields ==
    /\ \A op \in {"sub", "slt", "sltu", "sub" \o "w"} : format(op) = rd_rs1_rs2
    /\ \A op \in {"sub", "slt", "sltu", "sub" \o "w"} : Fields(op) = <<"rd", "rs1", "rs2">>
    /\ \A op \in {"csrrw", "csrrs", "csrrwi"} : Fields(op) = <<"rd", "imm", "rs1">>
    /\ \A op \in Names({"fsgnj", "fsgnjn", "fsgnjx"}, FpSuffix) : Fields(op) = <<"rd", "rs1",
           "rs2">>
<1>1. \A op \in {"sub", "slt", "sltu", "sub" \o "w"} : format(op) = rd_rs1_rs2
  <2> DEFINE names == {RegAlu[n] : n \in DOMAIN RegAlu}
                      \cup Names({RegAlu[n] : n \in NarrowAlu}, {"w", "d"})
  <2>1. <<"r", rd_rs1_rs2, names>> \in Rows
    BY DEF IntegerRows, Rows
  <2>2. RegAlu[256] = "sub" /\ RegAlu[2] = "slt" /\ RegAlu[3] = "sltu"
        /\ {256, 2, 3} \subseteq DOMAIN RegAlu
    <3>1. \A n \in {256, 2, 3} : n \in DOMAIN RegAlu
      BY DEF RegAlu, Table
    <3> QED
      BY <3>1, TableValue DEF RegAlu
  <2>3. {"sub", "slt", "sltu"} \subseteq names
    BY <2>2
  <2> HIDE DEF names
  <2>4. \A op \in {"sub", "slt", "sltu"} : format(op) = rd_rs1_rs2
    BY <2>1, <2>3, RowFormat
  <2> QED
    BY <2>4, NarrowNames
<1>2. \A op \in {"sub", "slt", "sltu", "sub" \o "w"} : Fields(op) = <<"rd", "rs1", "rs2">>
  <2>1. ASSUME NEW op, format(op) = rd_rs1_rs2 PROVE Fields(op) = <<"rd", "rs1", "rs2">>
    BY <2>1, FieldNames DEF Fields, rd_rs1_rs2
  <2> QED
    BY <1>1, <2>1
<1>3. \A op \in {"csrrw", "csrrs", "csrrwi"} : Fields(op) = <<"rd", "imm", "rs1">>
  <2>1. <<"i_csr", <<"rd", "csr", "rs1">>, {"csrrw", "csrrs", "csrrc"}>> \in Rows
    BY DEF SystemRows, Rows
  <2>2. <<"i_csr", <<"rd", "csr", "zimm">>, {"csrrwi", "csrrsi", "csrrci"}>> \in Rows
    BY DEF SystemRows, Rows
  <2>3. format("csrrw") = <<"rd", "csr", "rs1">> /\ format("csrrs") = <<"rd", "csr", "rs1">>
        /\ format("csrrwi") = <<"rd", "csr", "zimm">>
    BY <2>1, <2>2, RowFormat
  <2> QED
    BY <2>3, FieldNames DEF Fields
<1>4. \A op \in Names({"fsgnj", "fsgnjn", "fsgnjx"}, FpSuffix) : Fields(op) = <<"rd", "rs1",
          "rs2">>
  <2>1. \A op \in Names({"fsgnj", "fsgnjn", "fsgnjx"}, FpSuffix) : format(op) = fp3
    <3> DEFINE names == Names({"fsgnj", "fsgnjn", "fsgnjx", "fmin", "fmax"}, FpSuffix)
    <3>1. <<"r", fp3, names>> \in Rows
      BY DEF FloatRows, Rows
    <3>2. Names({"fsgnj", "fsgnjn", "fsgnjx"}, FpSuffix) \subseteq names
      BY MoreNames
    <3> HIDE DEF names
    <3> QED
      BY <3>1, <3>2, RowFormat
  <2> QED
    BY <2>1, FieldNames DEF Fields, fp3
<1> QED
  BY <1>1, <1>2, <1>3, <1>4

(* The pseudo instructions.                                                *)
LEMMA PseudoFields ==
    /\ \A op \in {"nop", "ret"} : Fields(op) = << >>
    /\ \A op \in {"mv", "not", "sext.w", "seqz", "sltz", "fscsr", "fsrm", "fsflags",
                  "fsrmi", "fsflagsi"} : Fields(op) = <<"rd", "rs1">>
    /\ \A op \in {"neg", "negw", "snez", "sgtz"} : Fields(op) = <<"rd", "rs2">>
    /\ \A op \in {"beqz", "bnez", "bgez", "bltz"} : Fields(op) = <<"rs1", "imm">>
    /\ \A op \in {"blez", "bgtz"} : Fields(op) = <<"rs2", "imm">>
    /\ \A op \in {"ble", "bleu", "bgt", "bgtu"} : Fields(op) = <<"rs2", "rs1", "imm">>
    /\ Fields("j") = <<"imm">> /\ Fields("jr") = <<"rs1">>
    /\ \A op \in {"rdcycle", "rdtime", "rdinstret", "rdcycleh", "rdtimeh", "rdinstreth", "frcsr",
                  "frrm", "frflags"} : Fields(op) = <<"rd">>
    /\ \A op \in Names({"fmv", "fabs", "fneg"}, FpSuffix) : Fields(op) = <<"rd", "rs1">>
<1> DEFINE aliases == Names({"fmv", "fabs", "fneg"}, FpSuffix)
<1>1. ASSUME NEW row \in PseudoRows, NEW op \in row[3] PROVE format(op) = row[2]
  BY RowFormat DEF Rows
<1>2. <<"r", <<"rd", "rs1">>, aliases>> \in PseudoRows
  BY DEF PseudoRows
<1> HIDE DEF aliases
<1>3. \A op \in aliases : format(op) = <<"rd", "rs1">>
  BY <1>1, <1>2
<1>4. /\ \A op \in {"nop", "ret"} : format(op) = << >>
      /\ \A op \in {"mv", "not", "sext.w", "seqz", "sltz", "fscsr", "fsrm", "fsflags"} :
            format(op) = <<"rd", "rs1">>
      /\ \A op \in {"fsrmi", "fsflagsi"} : format(op) = <<"rd", "zimm">>
  BY <1>1 DEF PseudoRows
<1>5. /\ \A op \in {"neg", "negw", "snez", "sgtz"} : format(op) = <<"rd", "rs2">>
      /\ \A op \in {"beqz", "bnez", "bgez", "bltz"} : format(op) = <<"rs1", "offset">>
      /\ \A op \in {"blez", "bgtz"} : format(op) = <<"rs2", "offset">>
      /\ \A op \in {"ble", "bleu", "bgt", "bgtu"} : format(op) = <<"rs2", "rs1", "offset">>
  BY <1>1 DEF PseudoRows
<1>6. /\ format("j") = <<"offset">> /\ format("jr") = <<"rs1">>
      /\ \A op \in {"rdcycle", "rdtime", "rdinstret", "rdcycleh", "rdtimeh", "rdinstreth",
                    "frcsr",
                    "frrm", "frflags"} : format(op) = <<"rd">>
  BY <1>1 DEF PseudoRows
<1>7. ASSUME NEW op, format(op) = << >> PROVE Fields(op) = << >>
  BY <1>7 DEF Fields
<1>8. ASSUME NEW op, NEW a, format(op) = <<a>> PROVE Fields(op) = <<FieldOf(a)>>
  BY <1>8 DEF Fields
<1>9. ASSUME NEW op, NEW a, NEW b, format(op) = <<a, b>> PROVE Fields(op) = <<FieldOf(a),
                 FieldOf(b)>>
  BY <1>9 DEF Fields
<1>10. ASSUME NEW op, NEW a, NEW b, NEW c, format(op) = <<a, b, c>>
       PROVE  Fields(op) = <<FieldOf(a), FieldOf(b), FieldOf(c)>>
  BY <1>10 DEF Fields
<1>11. /\ \A op \in {"nop", "ret"} : Fields(op) = << >>
       /\ \A op \in {"mv", "not", "sext.w", "seqz", "sltz", "fscsr", "fsrm", "fsflags",
                     "fsrmi", "fsflagsi"} : Fields(op) = <<"rd", "rs1">>
       /\ \A op \in aliases : Fields(op) = <<"rd", "rs1">>
  BY <1>3, <1>4, <1>7, <1>9, FieldNames
<1>12. /\ \A op \in {"neg", "negw", "snez", "sgtz"} : Fields(op) = <<"rd", "rs2">>
       /\ \A op \in {"beqz", "bnez", "bgez", "bltz"} : Fields(op) = <<"rs1", "imm">>
       /\ \A op \in {"blez", "bgtz"} : Fields(op) = <<"rs2", "imm">>
  BY <1>5, <1>9, FieldNames
<1>13. \A op \in {"ble", "bleu", "bgt", "bgtu"} : Fields(op) = <<"rs2", "rs1", "imm">>
  BY <1>5, <1>10, FieldNames
<1>14. /\ Fields("j") = <<"imm">> /\ Fields("jr") = <<"rs1">>
       /\ \A op \in {"rdcycle", "rdtime", "rdinstret", "rdcycleh", "rdtimeh", "rdinstreth",
                     "frcsr",
                     "frrm", "frflags"} : Fields(op) = <<"rd">>
  BY <1>6, <1>8, FieldNames
<1> QED
  BY <1>11, <1>12, <1>13, <1>14 DEF aliases

Injections == Names({"fsgnj", "fsgnjn", "fsgnjx"}, FpSuffix)

(* An opcode has one meaning in the manual.                                *)
LEMMA ManualValue ==
    ASSUME NEW op, NEW alias, <<op, alias>> \in ManualRows
    PROVE  op \in DOMAIN Manual /\ Manual[op] = alias
<1>1. op \in DOMAIN Manual
  BY DEF Manual, Table
<1>2. PICK row \in ManualRows : row[1] = op /\ row[2] = Manual[op]
  BY <1>1, TableValue DEF Manual
<1>3. row = <<op, alias>>
  BY <1>2, OneMeaning
<1> QED
  BY <1>1, <1>2, <1>3

(* A sign injection has one of three names, its alias one of three others. *)
LEMMA AliasNames ==
    ASSUME NEW pair \in FpAlias
    PROVE  /\ pair[1] \in Injections
           /\ pair[2] \in Names({"fmv", "fabs", "fneg"}, FpSuffix)
<1>1. \E names \in SignInjection : \E x \in FpSuffix : pair = <<names[1] \o x, names[2] \o x>>
  BY DEF FpAlias
<1>2. PICK names \in SignInjection : \E x \in FpSuffix : pair = <<names[1] \o x, names[2] \o x>>
  BY <1>1
<1>3. PICK x \in FpSuffix : pair = <<names[1] \o x, names[2] \o x>>
  BY <1>2
<1>4. names[1] \in {"fsgnj", "fsgnjn", "fsgnjx"} /\ names[2] \in {"fmv", "fabs", "fneg"}
  BY DEF SignInjection
<1>5. pair[1] = names[1] \o x /\ pair[2] = names[2] \o x
  BY <1>3
<1> QED
  BY <1>4, <1>5, Suffixed DEF Injections

(* The manual lists pseudo instructions only.                              *)
LEMMA ManualPseudo == DOMAIN Manual \subseteq PseudoOps
<1>1. \A row \in ManualRows : row[1] \in PseudoOps
  <2>1. ASSUME NEW pair \in FpAlias PROVE pair[2] \in PseudoOps
    BY AliasNames, PseudoNames
  <2>2. ASSUME NEW row \in ManualRows, ~ \E pair \in FpAlias : row[1] = pair[2]
        PROVE  row[1] \in PseudoOps
    BY <2>2, PseudoNames DEF ManualRows
  <2> QED
    BY <2>1, <2>2
<1> QED
  BY <1>1 DEF Manual, Table

(* What the constraints of a form say of an operand; a ret has no offset.  *)
Holds(d, cs) == \A c \in cs : check_constraint(d, c)
Fixed(cs, form, f, v) == \A d : Holds(d, cs) /\ (form = "ret" => d.imm = {}) => d[f] = v

(* What each constraint tests.                                             *)
LEMMA Constraints ==
    ASSUME NEW d
    PROVE  /\ check_constraint(d, "rd_eq_x0") => d.rd = x0
           /\ check_constraint(d, "rs1_eq_x0") => d.rs1 = x0
           /\ check_constraint(d, "rs2_eq_x0") => d.rs2 = x0
           /\ check_constraint(d, "rs2_eq_rs1") => d.rs2 = d.rs1
           /\ check_constraint(d, "rs1_eq_ra") => d.rs1 = ra
           /\ check_constraint(d, "imm_eq_zero") => d.imm = {}
           /\ check_constraint(d, "imm_eq_n1") => d.imm = 0..31
           /\ check_constraint(d, "imm_eq_p1") => d.imm = {0}
           /\ check_constraint(d, "csr_001") => d.imm = {0}
           /\ check_constraint(d, "csr_002") => d.imm = {1}
           /\ check_constraint(d, "csr_003") => d.imm = {0, 1}
           /\ check_constraint(d, "csr_c00") => d.imm = {10, 11}
           /\ check_constraint(d, "csr_c01") => d.imm = {0, 10, 11}
           /\ check_constraint(d, "csr_c02") => d.imm = {1, 10, 11}
           /\ check_constraint(d, "csr_c80") => d.imm = {7, 10, 11}
           /\ check_constraint(d, "csr_c81") => d.imm = {0, 7, 10, 11}
           /\ check_constraint(d, "csr_c82") => d.imm = {1, 7, 10, 11}
  BY DEF check_constraint, ImmEqZero

(* An operand a form tests for one value has that value.                   *)
LEMMA FixedBy ==
    ASSUME NEW cs, NEW form
    PROVE  /\ "rd_eq_x0" \in cs => Fixed(cs, form, "rd", x0)
           /\ "rs1_eq_x0" \in cs => Fixed(cs, form, "rs1", x0)
           /\ "rs2_eq_x0" \in cs => Fixed(cs, form, "rs2", x0)
           /\ "rs1_eq_ra" \in cs => Fixed(cs, form, "rs1", ra)
           /\ "imm_eq_zero" \in cs \/ form = "ret" => Fixed(cs, form, "imm", {})
           /\ "imm_eq_n1" \in cs => Fixed(cs, form, "imm", 0..31)
           /\ "imm_eq_p1" \in cs \/ "csr_001" \in cs => Fixed(cs, form, "imm", {0})
           /\ "csr_002" \in cs => Fixed(cs, form, "imm", {1})
           /\ "csr_003" \in cs => Fixed(cs, form, "imm", {0, 1})
           /\ "csr_c00" \in cs => Fixed(cs, form, "imm", {10, 11})
           /\ "csr_c01" \in cs => Fixed(cs, form, "imm", {0, 10, 11})
           /\ "csr_c02" \in cs => Fixed(cs, form, "imm", {1, 10, 11})
           /\ "csr_c80" \in cs => Fixed(cs, form, "imm", {7, 10, 11})
           /\ "csr_c81" \in cs => Fixed(cs, form, "imm", {0, 7, 10, 11})
           /\ "csr_c82" \in cs => Fixed(cs, form, "imm", {1, 7, 10, 11})
  BY Constraints DEF Fixed, Holds

(* The form and its constraints determine every operand of the base.       *)
Given(base, f) == IF f = "rs2" /\ base \in Injections THEN "rs1" ELSE f
Recovered(base, form, cs, f) ==
    LET alias == Manual[form]  given == Given(base, f)
    IN  IF \E j \in DOMAIN alias.args : alias.args[j] = given
        THEN \A d : Holds(d, cs) => d[f] = d[given]
        ELSE Fixed(cs, form, f, alias.implied[f])
Faithful(base, form, cs) ==
    /\ Manual[form].base = base
    /\ Fields(form) = Manual[form].args
    /\ \A k \in DOMAIN Fields(base) : Recovered(base, form, cs, Fields(base)[k])

Spelt(base, form, cs, args, implied, f) ==
    (\E j \in DOMAIN args : args[j] = f) \/ Fixed(cs, form, f, implied[f])

(* A form that shows or fixes every operand of its base is faithful.       *)
LEMMA Spelled ==
    ASSUME NEW base, base \notin Injections, NEW form, NEW cs, NEW args, NEW implied,
           <<form, Alias(base, args, implied)>> \in ManualRows, Fields(form) = args,
           \A k \in DOMAIN Fields(base) : Spelt(base, form, cs, args, implied, Fields(base)[k])
    PROVE  Faithful(base, form, cs)
<1>1. Manual[form] = Alias(base, args, implied)
  BY ManualValue
<1>2. Manual[form].base = base /\ Manual[form].args = args /\ Manual[form].implied = implied
  BY <1>1 DEF Alias
<1>3. \A f : Given(base, f) = f
  BY DEF Given
<1>4. ASSUME NEW k \in DOMAIN Fields(base) PROVE Recovered(base, form, cs, Fields(base)[k])
  BY <1>2, <1>3 DEF Recovered, Spelt
<1> QED
  BY <1>2, <1>4 DEF Faithful

(* The sign injections differ in their format from all other bases.        *)
LEMMA InjectionShape == ASSUME NEW op, op \in Injections PROVE Fields(op) = <<"rd", "rs1",
    "rs2">> /\ format(op) = fp3
<1> DEFINE names == Names({"fsgnj", "fsgnjn", "fsgnjx", "fmin", "fmax"}, FpSuffix)
<1>1. <<"r", fp3, names>> \in Rows
  BY DEF FloatRows, Rows
<1>2. op \in names
  BY MoreNames DEF Injections
<1> HIDE DEF names
<1> QED
  BY <1>1, <1>2, RowFormat, OtherFields DEF Injections

(* A sign injection on one source shows that source.                       *)
LEMMA InjectionFaithful ==
    ASSUME NEW pair \in FpAlias
    PROVE  Faithful(pair[1], pair[2], {"rs2_eq_rs1"})
<1> DEFINE base == pair[1]
           form == pair[2]
           cs   == {"rs2_eq_rs1"}
<1>3. base \in Injections
  BY AliasNames
<1>4. form \in Names({"fmv", "fabs", "fneg"}, FpSuffix)
  BY AliasNames
<1>5. Fields(base) = <<"rd", "rs1", "rs2">> /\ Fields(form) = <<"rd", "rs1">>
  BY <1>3, <1>4, InjectionShape, PseudoFields
<1>6. <<form, Alias(base, <<"rd", "rs1">>, << >>)>> \in ManualRows
  BY DEF ManualRows
<1>7. Manual[form].base = base /\ Manual[form].args = <<"rd", "rs1">>
  BY <1>6, ManualValue DEF Alias
<1>8. \A d : Holds(d, cs) => d["rs2"] = d["rs1"]
  BY Constraints DEF Holds
<1> HIDE DEF base, form, cs
<1>9. Given(base, "rd") = "rd" /\ Given(base, "rs1") = "rs1" /\ Given(base, "rs2") = "rs1"
  BY <1>3 DEF Given
<1>10. ASSUME NEW f \in {"rd", "rs1", "rs2"} PROVE Recovered(base, form, cs, f)
  <2>1. \E j \in DOMAIN Manual[form].args : Manual[form].args[j] = Given(base, f)
    <3>1. Given(base, f) \in {"rd", "rs1"}
      BY <1>9
    <3> QED
      BY <1>7, <3>1
  <2>2. \A d : Holds(d, cs) => d[f] = d[Given(base, f)]
    BY <1>8, <1>9
  <2> QED
    BY <2>1, <2>2 DEF Recovered
<1>11. \A k \in DOMAIN Fields(base) : Fields(base)[k] \in {"rd", "rs1", "rs2"}
  BY <1>5
<1>12. Faithful(base, form, cs)
  BY <1>5, <1>7, <1>10, <1>11 DEF Faithful
<1> QED
  BY <1>12 DEF base, form, cs

(* No other base is a sign injection.                                      *)
LEMMA NotInjection ==
    /\ \A op \in {"jal", "jalr", "addi", "sltiu", "xori", "addiw", "csrrw", "csrrs", "csrrwi"} :
          op \notin Injections
    /\ \A op \in {"beq", "bne", "blt", "bge", "bltu", "bgeu"} : op \notin Injections
    /\ \A op \in {"sub", "slt", "sltu", "sub" \o "w"} : op \notin Injections
<1>1. ASSUME NEW op, Fields(op) # <<"rd", "rs1", "rs2">> PROVE op \notin Injections
  BY <1>1, InjectionShape
<1>2. ASSUME NEW op, format(op) = rd_rs1_rs2 PROVE op \notin Injections
  <2>1. rd_rs1_rs2 # fp3
    BY DEF rd_rs1_rs2, fp3
  <2> QED
    BY <1>2, <2>1, InjectionShape
<1> QED
  BY <1>1, <1>2, IntegerFields, OtherFields

(* A form that shows some fields of its base and fixes the others, by      *)
(* shape.                                                                  *)
LEMMA JumpForm ==
    ASSUME NEW base, base \notin Injections, Fields(base) = <<"rd", "imm">>,
           NEW form, Fields(form) = <<"imm">>, NEW cs, NEW v_rd,
           <<form, Alias(base, <<"imm">>, [rd |-> v_rd])>> \in ManualRows,
           Fixed(cs, form, "rd", v_rd)
    PROVE  Faithful(base, form, cs)
<1> DEFINE args == <<"imm">>
           implied == [rd |-> v_rd]
<1>1. \A f \in {"rd", "imm"} : Spelt(base, form, cs, args, implied, f)
  <2>1. Spelt(base, form, cs, args, implied, "rd")
    BY DEF Spelt
  <2>2. Spelt(base, form, cs, args, implied, "imm")
    <3>1. 1 \in DOMAIN args /\ args[1] = "imm"
      OBVIOUS
    <3> QED
      BY <3>1 DEF Spelt
  <2> QED
    BY <2>1, <2>2
<1>2. \A k \in DOMAIN Fields(base) : Fields(base)[k] \in {"rd", "imm"}
  OBVIOUS
<1> HIDE DEF args, implied
<1>3. \A k \in DOMAIN Fields(base) : Spelt(base, form, cs, args, implied, Fields(base)[k])
  BY <1>1, <1>2
<1> QED
  BY <1>3, Spelled DEF args, implied

LEMMA ImmediateForm ==
    ASSUME NEW base, base \notin Injections, Fields(base) = <<"rd", "rs1", "imm">>,
           NEW form, Fields(form) = <<"rd", "rs1">>, NEW cs, NEW v_imm,
           <<form, Alias(base, <<"rd", "rs1">>, [imm |-> v_imm])>> \in ManualRows,
           Fixed(cs, form, "imm", v_imm)
    PROVE  Faithful(base, form, cs)
<1> DEFINE args == <<"rd", "rs1">>
           implied == [imm |-> v_imm]
<1>1. \A f \in {"rd", "rs1", "imm"} : Spelt(base, form, cs, args, implied, f)
  <2>1. Spelt(base, form, cs, args, implied, "rd")
    <3>1. 1 \in DOMAIN args /\ args[1] = "rd"
      OBVIOUS
    <3> QED
      BY <3>1 DEF Spelt
  <2>2. Spelt(base, form, cs, args, implied, "rs1")
    <3>1. 2 \in DOMAIN args /\ args[2] = "rs1"
      OBVIOUS
    <3> QED
      BY <3>1 DEF Spelt
  <2>3. Spelt(base, form, cs, args, implied, "imm")
    BY DEF Spelt
  <2> QED
    BY <2>1, <2>2, <2>3
<1>2. \A k \in DOMAIN Fields(base) : Fields(base)[k] \in {"rd", "rs1", "imm"}
  OBVIOUS
<1> HIDE DEF args, implied
<1>3. \A k \in DOMAIN Fields(base) : Spelt(base, form, cs, args, implied, Fields(base)[k])
  BY <1>1, <1>2
<1> QED
  BY <1>3, Spelled DEF args, implied

LEMMA RegisterForm ==
    ASSUME NEW base, base \notin Injections, Fields(base) = <<"rd", "rs1", "imm">>,
           NEW form, Fields(form) = <<"rs1">>, NEW cs, NEW v_rd, NEW v_imm,
           <<form, Alias(base, <<"rs1">>, [rd |-> v_rd, imm |-> v_imm])>> \in ManualRows,
           Fixed(cs, form, "rd", v_rd),
           Fixed(cs, form, "imm", v_imm)
    PROVE  Faithful(base, form, cs)
<1> DEFINE args == <<"rs1">>
           implied == [rd |-> v_rd, imm |-> v_imm]
<1>1. \A f \in {"rd", "rs1", "imm"} : Spelt(base, form, cs, args, implied, f)
  <2>1. Spelt(base, form, cs, args, implied, "rd")
    BY DEF Spelt
  <2>2. Spelt(base, form, cs, args, implied, "rs1")
    <3>1. 1 \in DOMAIN args /\ args[1] = "rs1"
      OBVIOUS
    <3> QED
      BY <3>1 DEF Spelt
  <2>3. Spelt(base, form, cs, args, implied, "imm")
    BY DEF Spelt
  <2> QED
    BY <2>1, <2>2, <2>3
<1>2. \A k \in DOMAIN Fields(base) : Fields(base)[k] \in {"rd", "rs1", "imm"}
  OBVIOUS
<1> HIDE DEF args, implied
<1>3. \A k \in DOMAIN Fields(base) : Spelt(base, form, cs, args, implied, Fields(base)[k])
  BY <1>1, <1>2
<1> QED
  BY <1>3, Spelled DEF args, implied

LEMMA BareForm ==
    ASSUME NEW base, base \notin Injections, Fields(base) = <<"rd", "rs1", "imm">>,
           NEW form, Fields(form) = << >>, NEW cs, NEW v_rd, NEW v_rs1, NEW v_imm,
           <<form, Alias(base, << >>, [rd |-> v_rd, rs1 |-> v_rs1,
                                       imm |-> v_imm])>> \in ManualRows,
           Fixed(cs, form, "rd", v_rd),
           Fixed(cs, form, "rs1", v_rs1),
           Fixed(cs, form, "imm", v_imm)
    PROVE  Faithful(base, form, cs)
<1> DEFINE args == << >>
           implied == [rd |-> v_rd, rs1 |-> v_rs1, imm |-> v_imm]
<1>1. \A f \in {"rd", "rs1", "imm"} : Spelt(base, form, cs, args, implied, f)
  <2>1. Spelt(base, form, cs, args, implied, "rd")
    BY DEF Spelt
  <2>2. Spelt(base, form, cs, args, implied, "rs1")
    BY DEF Spelt
  <2>3. Spelt(base, form, cs, args, implied, "imm")
    BY DEF Spelt
  <2> QED
    BY <2>1, <2>2, <2>3
<1>2. \A k \in DOMAIN Fields(base) : Fields(base)[k] \in {"rd", "rs1", "imm"}
  OBVIOUS
<1> HIDE DEF args, implied
<1>3. \A k \in DOMAIN Fields(base) : Spelt(base, form, cs, args, implied, Fields(base)[k])
  BY <1>1, <1>2
<1> QED
  BY <1>3, Spelled DEF args, implied

LEMMA SecondForm ==
    ASSUME NEW base, base \notin Injections, Fields(base) = <<"rd", "rs1", "rs2">>,
           NEW form, Fields(form) = <<"rd", "rs2">>, NEW cs, NEW v_rs1,
           <<form, Alias(base, <<"rd", "rs2">>, [rs1 |-> v_rs1])>> \in ManualRows,
           Fixed(cs, form, "rs1", v_rs1)
    PROVE  Faithful(base, form, cs)
<1> DEFINE args == <<"rd", "rs2">>
           implied == [rs1 |-> v_rs1]
<1>1. \A f \in {"rd", "rs1", "rs2"} : Spelt(base, form, cs, args, implied, f)
  <2>1. Spelt(base, form, cs, args, implied, "rd")
    <3>1. 1 \in DOMAIN args /\ args[1] = "rd"
      OBVIOUS
    <3> QED
      BY <3>1 DEF Spelt
  <2>2. Spelt(base, form, cs, args, implied, "rs1")
    BY DEF Spelt
  <2>3. Spelt(base, form, cs, args, implied, "rs2")
    <3>1. 2 \in DOMAIN args /\ args[2] = "rs2"
      OBVIOUS
    <3> QED
      BY <3>1 DEF Spelt
  <2> QED
    BY <2>1, <2>2, <2>3
<1>2. \A k \in DOMAIN Fields(base) : Fields(base)[k] \in {"rd", "rs1", "rs2"}
  OBVIOUS
<1> HIDE DEF args, implied
<1>3. \A k \in DOMAIN Fields(base) : Spelt(base, form, cs, args, implied, Fields(base)[k])
  BY <1>1, <1>2
<1> QED
  BY <1>3, Spelled DEF args, implied

LEMMA FirstForm ==
    ASSUME NEW base, base \notin Injections, Fields(base) = <<"rd", "rs1", "rs2">>,
           NEW form, Fields(form) = <<"rd", "rs1">>, NEW cs, NEW v_rs2,
           <<form, Alias(base, <<"rd", "rs1">>, [rs2 |-> v_rs2])>> \in ManualRows,
           Fixed(cs, form, "rs2", v_rs2)
    PROVE  Faithful(base, form, cs)
<1> DEFINE args == <<"rd", "rs1">>
           implied == [rs2 |-> v_rs2]
<1>1. \A f \in {"rd", "rs1", "rs2"} : Spelt(base, form, cs, args, implied, f)
  <2>1. Spelt(base, form, cs, args, implied, "rd")
    <3>1. 1 \in DOMAIN args /\ args[1] = "rd"
      OBVIOUS
    <3> QED
      BY <3>1 DEF Spelt
  <2>2. Spelt(base, form, cs, args, implied, "rs1")
    <3>1. 2 \in DOMAIN args /\ args[2] = "rs1"
      OBVIOUS
    <3> QED
      BY <3>1 DEF Spelt
  <2>3. Spelt(base, form, cs, args, implied, "rs2")
    BY DEF Spelt
  <2> QED
    BY <2>1, <2>2, <2>3
<1>2. \A k \in DOMAIN Fields(base) : Fields(base)[k] \in {"rd", "rs1", "rs2"}
  OBVIOUS
<1> HIDE DEF args, implied
<1>3. \A k \in DOMAIN Fields(base) : Spelt(base, form, cs, args, implied, Fields(base)[k])
  BY <1>1, <1>2
<1> QED
  BY <1>3, Spelled DEF args, implied

LEMMA FirstBranchForm ==
    ASSUME NEW base, base \notin Injections, Fields(base) = <<"rs1", "rs2", "imm">>,
           NEW form, Fields(form) = <<"rs1", "imm">>, NEW cs, NEW v_rs2,
           <<form, Alias(base, <<"rs1", "imm">>, [rs2 |-> v_rs2])>> \in ManualRows,
           Fixed(cs, form, "rs2", v_rs2)
    PROVE  Faithful(base, form, cs)
<1> DEFINE args == <<"rs1", "imm">>
           implied == [rs2 |-> v_rs2]
<1>1. \A f \in {"rs1", "rs2", "imm"} : Spelt(base, form, cs, args, implied, f)
  <2>1. Spelt(base, form, cs, args, implied, "rs1")
    <3>1. 1 \in DOMAIN args /\ args[1] = "rs1"
      OBVIOUS
    <3> QED
      BY <3>1 DEF Spelt
  <2>2. Spelt(base, form, cs, args, implied, "rs2")
    BY DEF Spelt
  <2>3. Spelt(base, form, cs, args, implied, "imm")
    <3>1. 2 \in DOMAIN args /\ args[2] = "imm"
      OBVIOUS
    <3> QED
      BY <3>1 DEF Spelt
  <2> QED
    BY <2>1, <2>2, <2>3
<1>2. \A k \in DOMAIN Fields(base) : Fields(base)[k] \in {"rs1", "rs2", "imm"}
  OBVIOUS
<1> HIDE DEF args, implied
<1>3. \A k \in DOMAIN Fields(base) : Spelt(base, form, cs, args, implied, Fields(base)[k])
  BY <1>1, <1>2
<1> QED
  BY <1>3, Spelled DEF args, implied

LEMMA SecondBranchForm ==
    ASSUME NEW base, base \notin Injections, Fields(base) = <<"rs1", "rs2", "imm">>,
           NEW form, Fields(form) = <<"rs2", "imm">>, NEW cs, NEW v_rs1,
           <<form, Alias(base, <<"rs2", "imm">>, [rs1 |-> v_rs1])>> \in ManualRows,
           Fixed(cs, form, "rs1", v_rs1)
    PROVE  Faithful(base, form, cs)
<1> DEFINE args == <<"rs2", "imm">>
           implied == [rs1 |-> v_rs1]
<1>1. \A f \in {"rs1", "rs2", "imm"} : Spelt(base, form, cs, args, implied, f)
  <2>1. Spelt(base, form, cs, args, implied, "rs1")
    BY DEF Spelt
  <2>2. Spelt(base, form, cs, args, implied, "rs2")
    <3>1. 1 \in DOMAIN args /\ args[1] = "rs2"
      OBVIOUS
    <3> QED
      BY <3>1 DEF Spelt
  <2>3. Spelt(base, form, cs, args, implied, "imm")
    <3>1. 2 \in DOMAIN args /\ args[2] = "imm"
      OBVIOUS
    <3> QED
      BY <3>1 DEF Spelt
  <2> QED
    BY <2>1, <2>2, <2>3
<1>2. \A k \in DOMAIN Fields(base) : Fields(base)[k] \in {"rs1", "rs2", "imm"}
  OBVIOUS
<1> HIDE DEF args, implied
<1>3. \A k \in DOMAIN Fields(base) : Spelt(base, form, cs, args, implied, Fields(base)[k])
  BY <1>1, <1>2
<1> QED
  BY <1>3, Spelled DEF args, implied

LEMMA SwappedBranchForm ==
    ASSUME NEW base, base \notin Injections, Fields(base) = <<"rs1", "rs2", "imm">>,
           NEW form, Fields(form) = <<"rs2", "rs1", "imm">>, NEW cs,
           <<form, Alias(base, <<"rs2", "rs1", "imm">>, << >>)>> \in ManualRows
    PROVE  Faithful(base, form, cs)
<1> DEFINE args == <<"rs2", "rs1", "imm">>
           implied == << >>
<1>1. \A f \in {"rs1", "rs2", "imm"} : Spelt(base, form, cs, args, implied, f)
  <2>1. Spelt(base, form, cs, args, implied, "rs1")
    <3>1. 2 \in DOMAIN args /\ args[2] = "rs1"
      OBVIOUS
    <3> QED
      BY <3>1 DEF Spelt
  <2>2. Spelt(base, form, cs, args, implied, "rs2")
    <3>1. 1 \in DOMAIN args /\ args[1] = "rs2"
      OBVIOUS
    <3> QED
      BY <3>1 DEF Spelt
  <2>3. Spelt(base, form, cs, args, implied, "imm")
    <3>1. 3 \in DOMAIN args /\ args[3] = "imm"
      OBVIOUS
    <3> QED
      BY <3>1 DEF Spelt
  <2> QED
    BY <2>1, <2>2, <2>3
<1>2. \A k \in DOMAIN Fields(base) : Fields(base)[k] \in {"rs1", "rs2", "imm"}
  OBVIOUS
<1> HIDE DEF args, implied
<1>3. \A k \in DOMAIN Fields(base) : Spelt(base, form, cs, args, implied, Fields(base)[k])
  BY <1>1, <1>2
<1> QED
  BY <1>3, Spelled DEF args, implied

LEMMA CounterForm ==
    ASSUME NEW base, base \notin Injections, Fields(base) = <<"rd", "imm", "rs1">>,
           NEW form, Fields(form) = <<"rd">>, NEW cs, NEW v_rs1, NEW v_imm,
           <<form, Alias(base, <<"rd">>, [rs1 |-> v_rs1, imm |-> v_imm])>> \in ManualRows,
           Fixed(cs, form, "rs1", v_rs1),
           Fixed(cs, form, "imm", v_imm)
    PROVE  Faithful(base, form, cs)
<1> DEFINE args == <<"rd">>
           implied == [rs1 |-> v_rs1, imm |-> v_imm]
<1>1. \A f \in {"rd", "imm", "rs1"} : Spelt(base, form, cs, args, implied, f)
  <2>1. Spelt(base, form, cs, args, implied, "rd")
    <3>1. 1 \in DOMAIN args /\ args[1] = "rd"
      OBVIOUS
    <3> QED
      BY <3>1 DEF Spelt
  <2>2. Spelt(base, form, cs, args, implied, "imm")
    BY DEF Spelt
  <2>3. Spelt(base, form, cs, args, implied, "rs1")
    BY DEF Spelt
  <2> QED
    BY <2>1, <2>2, <2>3
<1>2. \A k \in DOMAIN Fields(base) : Fields(base)[k] \in {"rd", "imm", "rs1"}
  OBVIOUS
<1> HIDE DEF args, implied
<1>3. \A k \in DOMAIN Fields(base) : Spelt(base, form, cs, args, implied, Fields(base)[k])
  BY <1>1, <1>2
<1> QED
  BY <1>3, Spelled DEF args, implied

LEMMA CsrForm ==
    ASSUME NEW base, base \notin Injections, Fields(base) = <<"rd", "imm", "rs1">>,
           NEW form, Fields(form) = <<"rd", "rs1">>, NEW cs, NEW v_imm,
           <<form, Alias(base, <<"rd", "rs1">>, [imm |-> v_imm])>> \in ManualRows,
           Fixed(cs, form, "imm", v_imm)
    PROVE  Faithful(base, form, cs)
<1> DEFINE args == <<"rd", "rs1">>
           implied == [imm |-> v_imm]
<1>1. \A f \in {"rd", "imm", "rs1"} : Spelt(base, form, cs, args, implied, f)
  <2>1. Spelt(base, form, cs, args, implied, "rd")
    <3>1. 1 \in DOMAIN args /\ args[1] = "rd"
      OBVIOUS
    <3> QED
      BY <3>1 DEF Spelt
  <2>2. Spelt(base, form, cs, args, implied, "imm")
    BY DEF Spelt
  <2>3. Spelt(base, form, cs, args, implied, "rs1")
    <3>1. 2 \in DOMAIN args /\ args[2] = "rs1"
      OBVIOUS
    <3> QED
      BY <3>1 DEF Spelt
  <2> QED
    BY <2>1, <2>2, <2>3
<1>2. \A k \in DOMAIN Fields(base) : Fields(base)[k] \in {"rd", "imm", "rs1"}
  OBVIOUS
<1> HIDE DEF args, implied
<1>3. \A k \in DOMAIN Fields(base) : Spelt(base, form, cs, args, implied, Fields(base)[k])
  BY <1>1, <1>2
<1> QED
  BY <1>3, Spelled DEF args, implied

(* The forms, by the base they are tried for.                              *)
LEMMA JumpForms ==
    /\ Faithful("jal", "j", {"rd_eq_x0"})
    /\ Faithful("jalr", "ret", {"rd_eq_x0", "rs1_eq_ra"})
    /\ Faithful("jalr", "jr", {"rd_eq_x0", "imm_eq_zero"})
<1>1. Faithful("jal", "j", {"rd_eq_x0"})
  <2>1. <<"j", Alias("jal", <<"imm">>, [rd |-> x0])>> \in ManualRows
    BY DEF ManualRows
  <2> QED
    BY <2>1, JumpForm, NotInjection, IntegerFields, PseudoFields, FixedBy
<1>2. Faithful("jalr", "ret", {"rd_eq_x0", "rs1_eq_ra"})
  <2>1. <<"ret", Alias("jalr", << >>, [rd |-> x0, rs1 |-> ra, imm |-> {}])>> \in ManualRows
    BY DEF ManualRows
  <2> QED
    BY <2>1, BareForm, NotInjection, IntegerFields, PseudoFields, FixedBy
<1>3. Faithful("jalr", "jr", {"rd_eq_x0", "imm_eq_zero"})
  <2>1. <<"jr", Alias("jalr", <<"rs1">>, [rd |-> x0, imm |-> {}])>> \in ManualRows
    BY DEF ManualRows
  <2> QED
    BY <2>1, RegisterForm, NotInjection, IntegerFields, PseudoFields, FixedBy
<1> QED
  BY <1>1, <1>2, <1>3

LEMMA ImmediateForms ==
    /\ Faithful("addi", "nop", {"rd_eq_x0", "rs1_eq_x0", "imm_eq_zero"})
    /\ Faithful("addi", "mv", {"imm_eq_zero"})
    /\ Faithful("sltiu", "seqz", {"imm_eq_p1"})
    /\ Faithful("xori", "not", {"imm_eq_n1"})
    /\ Faithful("addiw", "sext.w", {"imm_eq_zero"})
<1>1. Faithful("addi", "nop", {"rd_eq_x0", "rs1_eq_x0", "imm_eq_zero"})
  <2>1. <<"nop", Alias("addi", << >>, [rd |-> x0, rs1 |-> x0, imm |-> {}])>> \in ManualRows
    BY DEF ManualRows
  <2> QED
    BY <2>1, BareForm, NotInjection, IntegerFields, PseudoFields, FixedBy
<1>2. ASSUME NEW base \in {"addi", "sltiu", "xori", "addiw"},
             NEW form \in {"mv", "seqz", "not", "sext.w"}, NEW cs, NEW v,
             <<form, Alias(base, <<"rd", "rs1">>, [imm |-> v])>> \in ManualRows,
             Fixed(cs, form, "imm", v)
      PROVE  Faithful(base, form, cs)
  BY <1>2, ImmediateForm, NotInjection, IntegerFields, PseudoFields
<1>3. /\ <<"mv",   Alias("addi", <<"rd", "rs1">>, [imm |-> {}])>> \in ManualRows
      /\ <<"not",  Alias("xori", <<"rd", "rs1">>, [imm |-> 0..31])>> \in ManualRows
      /\ <<"seqz", Alias("sltiu", <<"rd", "rs1">>, [imm |-> {0}])>> \in ManualRows
      /\ <<"sext.w", Alias("addiw", <<"rd", "rs1">>, [imm |-> {}])>> \in ManualRows
  BY DEF ManualRows
<1>4. Faithful("addi", "mv", {"imm_eq_zero"})
  BY <1>2, <1>3, FixedBy
<1>5. Faithful("sltiu", "seqz", {"imm_eq_p1"})
  BY <1>2, <1>3, FixedBy
<1>6. Faithful("xori", "not", {"imm_eq_n1"})
  BY <1>2, <1>3, FixedBy
<1>7. Faithful("addiw", "sext.w", {"imm_eq_zero"})
  BY <1>2, <1>3, FixedBy
<1> QED
  BY <1>1, <1>4, <1>5, <1>6, <1>7

LEMMA RegisterForms ==
    /\ Faithful("sub", "neg", {"rs1_eq_x0"}) /\ Faithful("sub" \o "w", "negw", {"rs1_eq_x0"})
    /\ Faithful("sltu", "snez", {"rs1_eq_x0"})
    /\ Faithful("slt", "sgtz", {"rs1_eq_x0"}) /\ Faithful("slt", "sltz", {"rs2_eq_x0"})
<1>1. ASSUME NEW base \in {"sub", "slt", "sltu", "sub" \o "w"},
             NEW form \in {"neg", "negw", "snez", "sgtz"},
             <<form, Alias(base, <<"rd", "rs2">>, [rs1 |-> x0])>> \in ManualRows
      PROVE  Faithful(base, form, {"rs1_eq_x0"})
  <2>1. Fixed({"rs1_eq_x0"}, form, "rs1", x0)
    BY FixedBy
  <2> QED
    BY <1>1, <2>1, SecondForm, NotInjection, OtherFields, PseudoFields
<1>2. /\ <<"neg",  Alias("sub", <<"rd", "rs2">>, [rs1 |-> x0])>> \in ManualRows
      /\ <<"negw", Alias("sub" \o "w", <<"rd", "rs2">>, [rs1 |-> x0])>> \in ManualRows
      /\ <<"snez", Alias("sltu", <<"rd", "rs2">>, [rs1 |-> x0])>> \in ManualRows
      /\ <<"sltz", Alias("slt", <<"rd", "rs1">>, [rs2 |-> x0])>> \in ManualRows
      /\ <<"sgtz", Alias("slt", <<"rd", "rs2">>, [rs1 |-> x0])>> \in ManualRows
  BY DEF ManualRows
<1>3. Faithful("slt", "sltz", {"rs2_eq_x0"})
  BY <1>2, FirstForm, NotInjection, OtherFields, PseudoFields, FixedBy
<1> QED
  BY <1>1, <1>2, <1>3

LEMMA BranchForms ==
    /\ Faithful("beq", "beqz", {"rs2_eq_x0"}) /\ Faithful("bne", "bnez", {"rs2_eq_x0"})
    /\ Faithful("blt", "bltz", {"rs2_eq_x0"}) /\ Faithful("bge", "bgez", {"rs2_eq_x0"})
    /\ Faithful("blt", "bgtz", {"rs1_eq_x0"}) /\ Faithful("bge", "blez", {"rs1_eq_x0"})
    /\ Faithful("blt", "bgt", {}) /\ Faithful("bge", "ble", {})
    /\ Faithful("bltu", "bgtu", {}) /\ Faithful("bgeu", "bleu", {})
<1> DEFINE bases == {"beq", "bne", "blt", "bge", "bltu", "bgeu"}
<1>1. ASSUME NEW base \in bases, NEW form \in {"beqz", "bnez", "bltz", "bgez"},
             <<form, Alias(base, <<"rs1", "imm">>, [rs2 |-> x0])>> \in ManualRows
      PROVE  Faithful(base, form, {"rs2_eq_x0"})
  <2>1. Fixed({"rs2_eq_x0"}, form, "rs2", x0)
    BY FixedBy
  <2> QED
    BY <1>1, <2>1, FirstBranchForm, NotInjection, IntegerFields, PseudoFields
<1>2. ASSUME NEW base \in bases, NEW form \in {"bgtz", "blez"},
             <<form, Alias(base, <<"rs2", "imm">>, [rs1 |-> x0])>> \in ManualRows
      PROVE  Faithful(base, form, {"rs1_eq_x0"})
  <2>1. Fixed({"rs1_eq_x0"}, form, "rs1", x0)
    BY FixedBy
  <2> QED
    BY <1>2, <2>1, SecondBranchForm, NotInjection, IntegerFields, PseudoFields
<1>3. ASSUME NEW base \in bases, NEW form \in {"bgt", "ble", "bgtu", "bleu"},
             <<form, Alias(base, <<"rs2", "rs1", "imm">>, << >>)>> \in ManualRows
      PROVE  Faithful(base, form, {})
  BY <1>3, SwappedBranchForm, NotInjection, IntegerFields, PseudoFields
<1>4. /\ <<"beqz", Alias("beq", <<"rs1", "imm">>, [rs2 |-> x0])>> \in ManualRows
      /\ <<"bnez", Alias("bne", <<"rs1", "imm">>, [rs2 |-> x0])>> \in ManualRows
      /\ <<"bltz", Alias("blt", <<"rs1", "imm">>, [rs2 |-> x0])>> \in ManualRows
      /\ <<"bgez", Alias("bge", <<"rs1", "imm">>, [rs2 |-> x0])>> \in ManualRows
  BY DEF ManualRows
<1>5. /\ <<"bgtz", Alias("blt", <<"rs2", "imm">>, [rs1 |-> x0])>> \in ManualRows
      /\ <<"blez", Alias("bge", <<"rs2", "imm">>, [rs1 |-> x0])>> \in ManualRows
      /\ <<"bgt",  Alias("blt", <<"rs2", "rs1", "imm">>, << >>)>> \in ManualRows
      /\ <<"ble",  Alias("bge", <<"rs2", "rs1", "imm">>, << >>)>> \in ManualRows
      /\ <<"bgtu", Alias("bltu", <<"rs2", "rs1", "imm">>, << >>)>> \in ManualRows
      /\ <<"bleu", Alias("bgeu", <<"rs2", "rs1", "imm">>, << >>)>> \in ManualRows
  BY DEF ManualRows
<1> QED
  BY <1>1, <1>2, <1>3, <1>4, <1>5

LEMMA CsrForms ==
    /\ Faithful("csrrw", "fscsr", {"csr_003"}) /\ Faithful("csrrw", "fsrm", {"csr_002"})
    /\ Faithful("csrrw", "fsflags", {"csr_001"})
    /\ Faithful("csrrwi", "fsrmi", {"csr_002"}) /\ Faithful("csrrwi", "fsflagsi", {"csr_001"})
<1>1. ASSUME NEW base \in {"csrrw", "csrrwi"},
             NEW form \in {"fscsr", "fsrm", "fsflags", "fsrmi", "fsflagsi"}, NEW cs, NEW v,
             <<form, Alias(base, <<"rd", "rs1">>, [imm |-> v])>> \in ManualRows,
             Fixed(cs, form, "imm", v)
      PROVE  Faithful(base, form, cs)
  BY <1>1, CsrForm, NotInjection, OtherFields, PseudoFields
<1>2. /\ <<"fscsr", Alias("csrrw", <<"rd", "rs1">>, [imm |-> {0, 1}])>> \in ManualRows
      /\ <<"fsrm",  Alias("csrrw", <<"rd", "rs1">>, [imm |-> {1}])>> \in ManualRows
      /\ <<"fsflags", Alias("csrrw", <<"rd", "rs1">>, [imm |-> {0}])>> \in ManualRows
      /\ <<"fsrmi", Alias("csrrwi", <<"rd", "rs1">>, [imm |-> {1}])>> \in ManualRows
      /\ <<"fsflagsi", Alias("csrrwi", <<"rd", "rs1">>, [imm |-> {0}])>> \in ManualRows
  BY DEF ManualRows
<1>3. Faithful("csrrw", "fscsr", {"csr_003"})
  BY <1>1, <1>2, FixedBy
<1>4. Faithful("csrrw", "fsrm", {"csr_002"}) /\ Faithful("csrrwi", "fsrmi", {"csr_002"})
  BY <1>1, <1>2, FixedBy
<1>5. Faithful("csrrw", "fsflags", {"csr_001"}) /\ Faithful("csrrwi", "fsflagsi", {"csr_001"})
  BY <1>1, <1>2, FixedBy
<1> QED
  BY <1>3, <1>4, <1>5

LEMMA CounterForms ==
    /\ Faithful("csrrs", "rdcycle", {"rs1_eq_x0", "csr_c00"})
    /\ Faithful("csrrs", "rdtime", {"rs1_eq_x0", "csr_c01"})
    /\ Faithful("csrrs", "rdinstret", {"rs1_eq_x0", "csr_c02"})
    /\ Faithful("csrrs", "rdcycleh", {"rs1_eq_x0", "csr_c80"})
    /\ Faithful("csrrs", "rdtimeh", {"rs1_eq_x0", "csr_c81"})
    /\ Faithful("csrrs", "rdinstreth", {"rs1_eq_x0", "csr_c82"})
    /\ Faithful("csrrs", "frcsr", {"rs1_eq_x0", "csr_003"})
    /\ Faithful("csrrs", "frrm", {"rs1_eq_x0", "csr_002"})
    /\ Faithful("csrrs", "frflags", {"rs1_eq_x0", "csr_001"})
<1>1. ASSUME NEW c, NEW v, NEW form \in {"rdcycle", "rdtime", "rdinstret", "rdcycleh", "rdtimeh",
                                         "rdinstreth", "frcsr", "frrm", "frflags"},
             <<form, Counted(v)>> \in ManualRows, Fixed({"rs1_eq_x0", c}, form, "imm", v)
      PROVE  Faithful("csrrs", form, {"rs1_eq_x0", c})
  <2>1. Fixed({"rs1_eq_x0", c}, form, "rs1", x0)
    BY FixedBy
  <2>2. Fields("csrrs") = <<"rd", "imm", "rs1">> /\ "csrrs" \notin Injections
    BY OtherFields, NotInjection
  <2>3. Fields(form) = <<"rd">>
    BY PseudoFields
  <2> QED
    BY <1>1, <2>1, <2>2, <2>3, CounterForm DEF Counted
<1>2. /\ <<"rdcycle", Counted({10, 11})>> \in ManualRows
      /\ <<"rdcycleh", Counted({7, 10, 11})>> \in ManualRows
      /\ <<"rdtime", Counted({0, 10, 11})>> \in ManualRows
      /\ <<"rdtimeh", Counted({0, 7, 10, 11})>> \in ManualRows
      /\ <<"rdinstret", Counted({1, 10, 11})>> \in ManualRows
      /\ <<"rdinstreth", Counted({1, 7, 10, 11})>> \in ManualRows
  BY DEF ManualRows
<1>3. /\ <<"frcsr", Counted({0, 1})>> \in ManualRows /\ <<"frrm", Counted({1})>> \in ManualRows
      /\ <<"frflags", Counted({0})>> \in ManualRows
  BY DEF ManualRows
<1>4. Faithful("csrrs", "rdcycle", {"rs1_eq_x0", "csr_c00"})
  BY <1>1, <1>2, FixedBy
<1>5. Faithful("csrrs", "rdtime", {"rs1_eq_x0", "csr_c01"})
  BY <1>1, <1>2, FixedBy
<1>6. Faithful("csrrs", "rdinstret", {"rs1_eq_x0", "csr_c02"})
  BY <1>1, <1>2, FixedBy
<1>7. Faithful("csrrs", "rdcycleh", {"rs1_eq_x0", "csr_c80"})
  BY <1>1, <1>2, FixedBy
<1>8. Faithful("csrrs", "rdtimeh", {"rs1_eq_x0", "csr_c81"})
  BY <1>1, <1>2, FixedBy
<1>9. Faithful("csrrs", "rdinstreth", {"rs1_eq_x0", "csr_c82"})
  BY <1>1, <1>2, FixedBy
<1>10. Faithful("csrrs", "frcsr", {"rs1_eq_x0", "csr_003"})
  BY <1>1, <1>3, FixedBy
<1>11. Faithful("csrrs", "frrm", {"rs1_eq_x0", "csr_002"})
  BY <1>1, <1>3, FixedBy
<1>12. Faithful("csrrs", "frflags", {"rs1_eq_x0", "csr_001"})
  BY <1>1, <1>3, FixedBy
<1> QED
  BY <1>4, <1>5, <1>6, <1>7, <1>8, <1>9, <1>10, <1>11, <1>12

(* Every form of every opcode is faithful to the manual.                   *)
Meant(op, form, cs)   == form \in DOMAIN Manual => Faithful(op, form, cs)
AllFaithful(op, table) == \A k \in DOMAIN table : Meant(op, table[k][1], table[k][2])

(* Every form of every opcode is faithful to the manual.                   *)
LEMMA LiftingsFaithful ==
    ASSUME NEW op \in DOMAIN rvcp
    PROVE  AllFaithful(op, rvcp[op])
<1>1. \A a, form, cs : Faithful(a, form, cs) => Meant(a, form, cs)
  BY DEF Meant
<1>2. Meant("jal", "jal", {"rd_eq_ra"}) /\ Meant("jalr", "jalr", {"rd_eq_ra", "imm_eq_zero"})
  BY ManualPseudo, IntegerNames, MnemonicsApart DEF Meant
<1>3. ASSUME NEW a, NEW g1, NEW c1, Meant(a, g1, c1)
      PROVE  AllFaithful(a, <<<<g1, c1>>>>)
  BY <1>3 DEF AllFaithful
<1>4. ASSUME NEW a, NEW g1, NEW c1, NEW g2, NEW c2, Meant(a, g1, c1), Meant(a, g2, c2)
      PROVE  AllFaithful(a, <<<<g1, c1>>, <<g2, c2>>>>)
  BY <1>4 DEF AllFaithful
<1>5. ASSUME NEW a, NEW g1, NEW c1, NEW g2, NEW c2, NEW g3, NEW c3, Meant(a, g1, c1),
             Meant(a, g2, c2), Meant(a, g3, c3)
      PROVE  AllFaithful(a, <<<<g1, c1>>, <<g2, c2>>, <<g3, c3>>>>)
  BY <1>5 DEF AllFaithful
<1>6. AllFaithful("csrrs", <<Counter("rdcycle", "csr_c00"), Counter("rdtime", "csr_c01"),
                     Counter("rdinstret", "csr_c02"), Counter("rdcycleh", "csr_c80"),
                     Counter("rdtimeh", "csr_c81"), Counter("rdinstreth", "csr_c82"),
                     Counter("frcsr", "csr_003"), Counter("frrm", "csr_002"),
                     Counter("frflags", "csr_001")>>)
  <2> DEFINE Good(form) == Meant("csrrs", form[1], form[2])
             names == {<<"rdcycle", "csr_c00">>, <<"rdtime", "csr_c01">>, <<"rdinstret",
                 "csr_c02">>,
                       <<"rdcycleh", "csr_c80">>, <<"rdtimeh", "csr_c81">>,
                       <<"rdinstreth", "csr_c82">>, <<"frcsr", "csr_003">>, <<"frrm", "csr_002">>,
                       <<"frflags", "csr_001">>}
  <2>1. ASSUME NEW form, NEW csr, Faithful("csrrs", form, {"rs1_eq_x0", csr})
        PROVE  Good(Counter(form, csr))
    BY <1>1, <2>1 DEF Counter
  <2> HIDE DEF Good
  <2>2. \A name \in names : Good(Counter(name[1], name[2]))
    BY <2>1, CounterForms
  <2>3. ASSUME NEW table, \A k \in DOMAIN table : Good(table[k])
        PROVE  AllFaithful("csrrs", table)
    BY <2>3 DEF AllFaithful, Good
  <2> QED
    BY <2>2, <2>3
<1>7. /\ AllFaithful("jal",  <<<<"j", {"rd_eq_x0"}>>, <<"jal", {"rd_eq_ra"}>>>>)
      /\ AllFaithful("jalr", <<<<"ret", {"rd_eq_x0", "rs1_eq_ra"}>>, <<"jr", {"rd_eq_x0",
             "imm_eq_zero"}>>,
                               <<"jalr", {"rd_eq_ra", "imm_eq_zero"}>>>>)
  BY <1>1, <1>2, <1>4, <1>5, JumpForms
<1>8. /\ AllFaithful("addi", <<<<"nop", {"rd_eq_x0", "rs1_eq_x0", "imm_eq_zero"}>>,
                               <<"mv", {"imm_eq_zero"}>>>>)
      /\ AllFaithful("sltiu", <<<<"seqz", {"imm_eq_p1"}>>>>)
      /\ AllFaithful("xori", <<<<"not", {"imm_eq_n1"}>>>>)
      /\ AllFaithful("addiw", <<<<"sext.w", {"imm_eq_zero"}>>>>)
  BY <1>1, <1>3, <1>4, ImmediateForms
<1>9. /\ AllFaithful("sub",  <<<<"neg", {"rs1_eq_x0"}>>>>)
      /\ AllFaithful("sub" \o "w", <<<<"negw", {"rs1_eq_x0"}>>>>)
      /\ AllFaithful("slt",  <<<<"sltz", {"rs2_eq_x0"}>>, <<"sgtz", {"rs1_eq_x0"}>>>>)
      /\ AllFaithful("sltu", <<<<"snez", {"rs1_eq_x0"}>>>>)
  BY <1>1, <1>3, <1>4, RegisterForms
<1>10. /\ AllFaithful("beq",  <<<<"beqz", {"rs2_eq_x0"}>>>>)
       /\ AllFaithful("bne",  <<<<"bnez", {"rs2_eq_x0"}>>>>)
       /\ AllFaithful("bltu", <<<<"bgtu", {}>>>>) /\ AllFaithful("bgeu", <<<<"bleu", {}>>>>)
       /\ AllFaithful("blt",  <<<<"bltz", {"rs2_eq_x0"}>>, <<"bgtz", {"rs1_eq_x0"}>>, <<"bgt",
              {}>>>>)
       /\ AllFaithful("bge",  <<<<"blez", {"rs1_eq_x0"}>>, <<"bgez", {"rs2_eq_x0"}>>, <<"ble",
              {}>>>>)
  BY <1>1, <1>3, <1>5, BranchForms
<1>11. /\ AllFaithful("csrrw", <<<<"fscsr", {"csr_003"}>>, <<"fsrm", {"csr_002"}>>,
                                 <<"fsflags", {"csr_001"}>>>>)
       /\ AllFaithful("csrrwi", <<<<"fsrmi", {"csr_002"}>>, <<"fsflagsi", {"csr_001"}>>>>)
  BY <1>1, <1>4, <1>5, CsrForms
<1>12. \A pair \in FpAlias : AllFaithful(pair[1], <<<<pair[2], {"rs2_eq_rs1"}>>>>)
  BY <1>1, <1>3, InjectionFaithful
<1>13. \A row \in Liftings : AllFaithful(row[1], row[2])
  <2> DEFINE Good(row) == AllFaithful(row[1], row[2])
  <2>1. ASSUME NEW a, NEW table, AllFaithful(a, table) PROVE Good(Lifts(a, table))
    BY <2>1 DEF Lifts
  <2> HIDE DEF Good
  <2>2. \A row \in Liftings : Good(row)
    BY <1>6, <1>7, <1>8, <1>9, <1>10, <1>11, <1>12, <2>1 DEF Liftings
  <2> QED
    BY <2>2 DEF Good
<1> QED
  BY <1>13, TableValue DEF rvcp

(* A short jalr has no offset.                                             *)
LEMMA ShortQuadrants ==
    ASSUME NEW x \in isas, NEW i, ~ {0, 1} \subseteq i
    PROVE  decode_inst_opcode(i, x) \in Compressed \cup {"illegal"}
<1>1. i \cap 0..(2 - 1) \subseteq 0..11
  OBVIOUS
<1>2. Bits(i, 0, 2) = Value(i \cap 0..(2 - 1))
  BY <1>1, BitsValue
<1>3. Value(i \cap 0..(2 - 1)) \in {0, 1, 2}
  BY DEF Value, Digit
<1>4. Known(x) \subseteq Compressed
  BY DEF Known
<1> QED
  BY <1>2, <1>3, <1>4, QuadrantKnown DEF decode_inst_opcode

(* The codecs of the compressed jumps to a register.                       *)
LEMMA JumpCodecs == codec("c.jr") = "cr_jr" /\ codec("c.jalr") = "cr_jalr"
<1>1. /\ <<"cr_jr", rd_rs1_imm, {"c.jr"}>> \in Rows
      /\ <<"cr_jalr", rd_rs1_imm, {"c.jalr"}>> \in Rows
  BY DEF Rows, CompressedRows
<1> QED
  BY <1>1, RowFormat

(* Only they stand for a jalr.                                             *)
LEMMA ExpandsToJump ==
    ASSUME NEW op \in DOMAIN Expansion, Expansion[op] = "jalr"
    PROVE  op \in {"c.jr", "c.jalr"}
<1>1. PICK row \in Expands : op \in row[1] /\ Expansion[op] = row[2]
  BY DEF Expansion
<1>2. "sub" \o "w" # "jalr" /\ "add" \o "w" # "jalr"
  <2>1. <<"i", rd_rs1_imm, {"jalr"}>> \in Rows
    BY DEF Rows, IntegerRows
  <2>2. codec("jalr") = "i"
    BY <2>1, RowFormat
  <2> QED
    BY <2>2, NarrowNames
<1>3. \A r \in Expands : r[2] = "jalr" => r[1] = {"c.jr", "c.jalr"}
  BY <1>2 DEF Expands
<1> QED
  BY <1>1, <1>3

-----------------------------------------------------------------------------
(****************************************************************************)
(* Lifting through the phases.                                             *)
(****************************************************************************)
(* Two bytes hold a compressed instruction, and a jump among them has no   *)
(* offset.                                                                 *)
ShortOp  == stage \in {"opcode", "operands"} => dec.op \in Compressed \cup {"illegal"}
ShortJump == stage = "operands" /\ dec.op \in {"c.jr", "c.jalr"} => dec.imm = {}
ShortBase == stage \in {"plain", "lifted", "printed"} /\ plain.op = "jalr" => plain.imm = {}
ShortInv == inst_len = 2 => ShortOp /\ ShortJump /\ ShortBase

(* Two bytes decode to a compressed opcode.                                *)
LEMMA ShortDecoded ==
    ASSUME FetchInv, DecShape, DecodeOpcode, inst_len = 2
    PROVE  dec'.op \in Compressed \cup {"illegal"}
<1>1. stage = "fetched" /\ dec' = Renamed(dec, decode_inst_opcode(dec.inst, isa))
  BY DEF DecodeOpcode, Renamed
<1>2. PICK k \in 1..Len(words) : Here(k)
  BY <1>1 DEF FetchInv, Located
<1>3. isa \in isas /\ Announces(words[k])
  BY DEF FetchInv, Program
<1>4. words[k].size = 2 /\ dec.inst = words[k].inst
  BY <1>2 DEF Here
<1>5. ~ {0, 1} \subseteq dec.inst
  BY <1>3, <1>4 DEF Announces
<1>6. dec'.op = decode_inst_opcode(dec.inst, isa)
  BY <1>1, RenamedFields
<1> QED
  BY <1>3, <1>5, <1>6, ShortQuadrants

(* A compressed jump to a register has no immediate.                       *)
LEMMA ShortOperands ==
    ASSUME DecShape, DecodeOperands, dec.op \in {"c.jr", "c.jalr"}
    PROVE  dec'.imm = {}
<1>1. dec'["imm"] = decode_inst_operands(codec(dec.op), dec.inst)["imm"]
  BY OperandsDecoded DEF Operands
<1>2. codec(dec.op) \in {"cr_jr", "cr_jalr"}
  BY JumpCodecs
<1>3. \A i : imm_of("cr_jr", i) = {} /\ imm_of("cr_jalr", i) = {}
  BY DEF imm_of, cimm_of
<1> QED
  BY <1>1, <1>2, <1>3 DEF decode_inst_operands

(* So a jalr it stands for has none.                                       *)
LEMMA ShortExpanded ==
    ASSUME DecShape, OpcodeInv, ShortOp, ShortJump, Decompress, dec'.op = "jalr"
    PROVE  dec'.imm = {}
<1> DEFINE op  == Expansion[dec.op]
           has == DOMAIN Expansion \ NotIn[isa]
<1>1. stage = "operands" /\ dec' = decode_inst_decompress(dec) /\ dec'.imm = dec.imm
  BY OtherPhasesKeep DEF Decompress
<1>2. dec.op \in Compressed \cup {"illegal"}
  BY <1>1 DEF ShortOp
<1>3. CASE dec.op \notin has
  <2>1. dec.op = "jalr"
    BY <1>1, <1>3 DEF decode_inst_decompress
  <2> QED
    BY <1>2, <2>1, IntegerNames, MnemonicsApart
<1>4. CASE dec.op \in has /\ dec.op \in rvcd_imm_nz /\ dec.imm = {}
  BY <1>1, <1>4
<1>5. CASE dec.op \in has /\ ~ (dec.op \in rvcd_imm_nz /\ dec.imm = {})
  <2>1. dec' = Recoded(dec, op, codec(op))
    BY <1>1, <1>5 DEF decode_inst_decompress, Recoded
  <2> HIDE DEF op
  <2>2. op = "jalr"
    BY <2>1, RenamedFields
  <2>3. dec.op \in {"c.jr", "c.jalr"}
    BY <1>5, <2>2, ExpandsToJump DEF op
  <2> QED
    BY <1>1, <2>3 DEF ShortJump
<1> QED
  BY <1>3, <1>4, <1>5

(* The program starts between instructions.                                *)
LEMMA InitShort == Init => ShortInv
  BY DEF Init, ShortInv

(* Each phase keeps it so.                                                 *)
LEMMA ShortNext == CodecInv /\ FetchInv /\ OpcodeInv /\ ShortInv /\ [Next]_vars => ShortInv'
<1> SUFFICES ASSUME CodecInv, FetchInv, OpcodeInv, ShortInv, [Next]_vars, inst_len' = 2
             PROVE  ShortOp' /\ ShortJump' /\ ShortBase'
  BY DEF ShortInv
<1>1. DecShape
  BY DEF CodecInv
<1>2. CASE InstFetch
  <2>1. stage' = "fetched"
    BY <1>2 DEF InstFetch
  <2> QED
    BY <2>1 DEF ShortOp, ShortJump, ShortBase
<1>3. ASSUME inst_len' = inst_len PROVE ShortOp /\ ShortJump /\ ShortBase
  BY <1>3 DEF ShortInv
<1>4. CASE DecodeOpcode
  <2>1. inst_len' = inst_len /\ stage' = "opcode"
    BY <1>4 DEF DecodeOpcode
  <2>2. dec'.op \in Compressed \cup {"illegal"}
    BY <1>1, <1>4, <2>1, ShortDecoded
  <2> QED
    BY <2>1, <2>2 DEF ShortOp, ShortJump, ShortBase
<1>5. CASE DecodeOperands
  <2>1. inst_len' = inst_len /\ stage = "opcode" /\ stage' = "operands"
    BY <1>5 DEF DecodeOperands
  <2>2. dec'.op = dec.op /\ dec.op \in Compressed \cup {"illegal"}
    BY <1>1, <1>3, <1>5, <2>1, OperandsDecoded DEF ShortOp
  <2>3. dec.op \in {"c.jr", "c.jalr"} => dec'.imm = {}
    BY <1>1, <1>5, ShortOperands
  <2> QED
    BY <2>1, <2>2, <2>3 DEF ShortOp, ShortJump, ShortBase
<1>6. CASE Decompress
  <2>1. inst_len' = inst_len /\ stage' = "plain" /\ plain' = dec'
    BY <1>6 DEF Decompress
  <2>2. dec'.op = "jalr" => dec'.imm = {}
    BY <1>1, <1>3, <1>6, <2>1, ShortExpanded
  <2> QED
    BY <2>1, <2>2 DEF ShortOp, ShortJump, ShortBase
<1>7. CASE LiftPseudo \/ Format
  <2>1. /\ inst_len' = inst_len /\ plain' = plain
        /\ stage \in {"plain", "lifted"} /\ stage' \in {"lifted", "printed"}
    BY <1>7 DEF LiftPseudo, Format
  <2> QED
    BY <1>3, <2>1 DEF ShortOp, ShortJump, ShortBase
<1>8. CASE Advance \/ Return
  <2>1. stage' \in {"loop", "done"}
    BY <1>8 DEF Advance, Return
  <2> QED
    BY <2>1 DEF ShortOp, ShortJump, ShortBase
<1>9. CASE UNCHANGED vars
  <2>1. inst_len' = inst_len /\ stage' = stage /\ dec' = dec /\ plain' = plain
    BY <1>9 DEF vars
  <2> QED
    BY <1>3, <2>1 DEF ShortOp, ShortJump, ShortBase
<1> QED
  BY <1>2, <1>4, <1>5, <1>6, <1>7, <1>8, <1>9 DEF Next

-----------------------------------------------------------------------------
(* The history variable: what dec was before lifting.                      *)
PlainShape == plain = [f \in DecFields |-> plain[f]]
PlainFits  == \A f \in Registers : plain[f] \subseteq 0..4
LiftInv ==
    /\ stage \in {"plain", "lifted", "printed"} => PlainShape /\ PlainFits /\ plain.op \in BaseOps
    /\ stage = "plain" => dec = plain
    /\ stage \in {"lifted", "printed"} => dec = decode_inst_lift_pseudo(plain)

(* Nothing is lifted at the start.                                         *)
LEMMA InitLift == Init => LiftInv
  BY DEF Init, LiftInv

(* Each phase keeps the relation between dec and what it was before        *)
(* lifting.                                                                *)
LEMMA LiftNext == CodecInv /\ WidthInv /\ OpcodeInv /\ LiftInv /\ [Next]_vars => LiftInv'
<1> SUFFICES ASSUME CodecInv, WidthInv, OpcodeInv, LiftInv, [Next]_vars PROVE LiftInv'
  OBVIOUS
<1>1. DecShape /\ DecShape' 
  BY CodecNext DEF CodecInv
<1>2. CASE InstFetch \/ DecodeOpcode \/ DecodeOperands \/ Advance \/ Return
  <2>1. stage' \in {"fetched", "opcode", "operands", "loop", "done"}
    BY <1>2 DEF InstFetch, DecodeOpcode, DecodeOperands, Advance, Return
  <2> QED
    BY <2>1 DEF LiftInv
<1>3. CASE Decompress
  <2>1. stage = "operands" /\ stage' = "plain" /\ plain' = dec' /\ dec' =
            decode_inst_decompress(dec)
    BY <1>3 DEF Decompress
  <2>2. dec'.op \in BaseOps
    BY <1>1, <2>1, DecompressedBase
  <2>3. \A f \in Registers : dec'[f] \subseteq 0..4
    BY <1>1, <1>3, OtherPhasesKeep DEF WidthInv, OperandsFit
  <2>4. PlainShape' /\ PlainFits'
    BY <1>1, <2>1, <2>3 DEF PlainShape, PlainFits, DecShape
  <2> QED
    BY <2>1, <2>2, <2>4 DEF LiftInv
<1>4. CASE LiftPseudo
  <2>1. /\ stage = "plain" /\ stage' = "lifted" /\ plain' = plain
        /\ dec' = decode_inst_lift_pseudo(dec)
    BY <1>4 DEF LiftPseudo
  <2>2. dec = plain /\ PlainShape /\ PlainFits /\ plain.op \in BaseOps
    BY <2>1 DEF LiftInv
  <2>3. dec' = decode_inst_lift_pseudo(plain)'
    BY <2>1, <2>2
  <2> QED
    BY <2>1, <2>2, <2>3 DEF LiftInv, PlainShape, PlainFits
<1>5. CASE Format
  <2>1. stage = "lifted" /\ stage' = "printed" /\ plain' = plain /\ dec' = dec
    BY <1>5 DEF Format
  <2>2. dec = decode_inst_lift_pseudo(plain) /\ PlainShape /\ PlainFits /\ plain.op \in BaseOps
    BY <2>1 DEF LiftInv
  <2> QED
    BY <2>1, <2>2 DEF LiftInv, PlainShape, PlainFits
<1>6. CASE UNCHANGED vars
  <2>1. stage' = stage /\ dec' = dec /\ plain' = plain
    BY <1>6 DEF vars
  <2> QED
    BY <2>1 DEF LiftInv, PlainShape, PlainFits
<1> QED
  BY <1>2, <1>3, <1>4, <1>5, <1>6 DEF Next

(* The text of a pseudo instruction, shown with the operands of its base.  *)
PrintedAs(form, d) == [k \in DOMAIN format(form) |-> Shown(format(form)[k],
                                                           d[FieldOf(format(form)[k])])]

(* A letter shows an operand.                                              *)
LEMMA LetterFields == \A letter \in Letters : FieldOf(letter) \in Operands
  BY DEF Letters, FieldOf, Operands

(* The operands of a pseudo instruction have the width their letter shows. *)
LEMMA PseudoFit ==
    ASSUME PlainFits, NEW form \in PseudoOps, NEW k \in DOMAIN format(form)
    PROVE  /\ format(form)[k] \in Letters \ {"csr", "rm"}
           /\ Fit(format(form)[k], plain[FieldOf(format(form)[k])])
<1> DEFINE letter == format(form)[k]
<1>1. letter \in Letters /\ letter \notin {"csr", "rm", "pred", "succ"}
  BY FormatLetters, PseudoLetters, InTable
<1> HIDE DEF letter
<1>2. /\ plain["rd"] \subseteq 0..4 /\ plain["rs1"] \subseteq 0..4 /\ plain["rs2"] \subseteq 0..4
      /\ plain["rs3"] \subseteq 0..4
  BY DEF PlainFits, Registers
<1>3. Fit(letter, plain[FieldOf(letter)])
  <2>1. CASE letter \in {"rd", "frd"}
    BY <1>2, <2>1 DEF Fit, FieldOf
  <2>2. CASE letter \in {"rs1", "(rs1)", "frs1", "zimm"}
    BY <1>2, <2>2 DEF Fit, FieldOf
  <2>3. CASE letter \in {"rs2", "frs2"}
    BY <1>2, <2>3 DEF Fit, FieldOf
  <2>4. CASE letter = "frs3"
    BY <1>2, <2>4 DEF Fit, FieldOf
  <2>5. CASE letter \in {"imm", "offset", "aq", "rl"}
    BY <2>5 DEF Fit
  <2> QED
    BY <1>1, <2>1, <2>2, <2>3, <2>4, <2>5 DEF Letters
<1> QED
  BY <1>1, <1>3 DEF letter

(* Two letters whose tokens are read alike.                                *)
SameFile(a, b) ==
    \/ a \in {"rd", "rs1", "rs2"} /\ b \in {"rd", "rs1", "rs2"}
    \/ a \in {"imm", "offset"} /\ b \in {"imm", "offset"}
    \/ a = b

LEMMA ReadAlike ==
    ASSUME NEW a, NEW b, SameFile(a, b), NEW token, NEW w
    PROVE  Readings(a, token, w) = Readings(b, token, w)
<1>1. Values(a, w) = Values(b, w)
  BY DEF SameFile, Values
<1>2. \A v : Shown(a, v) = Shown(b, v)
  BY DEF SameFile, Shown
<1> QED
  BY <1>1, <1>2 DEF Readings

(* The letters of the instructions that are lifted and of what they are    *)
(* lifted to, in three groups; in each a field has one register file.      *)
Plainly  == {"rd", "rs1", "rs2", "imm", "offset"}
OnCsr    == {"rd", "rs1", "csr"}
OnCsrImm == {"rd", "zimm", "csr"}
LettersIn(op, S) == \A k \in DOMAIN format(op) : format(op)[k] \in S

LEMMA OneFile ==
    ASSUME NEW S \in {Plainly, OnCsr, OnCsrImm}, NEW a \in S, NEW b \in S,
           FieldOf(a) = FieldOf(b)
    PROVE  SameFile(a, b)
  BY DEF Plainly, OnCsr, OnCsrImm, FieldOf, SameFile

LEMMA BaseLetters ==
    /\ \A op \in {"jal", "jalr", "addi", "sltiu", "xori", "addiw", "beq", "bne", "blt", "bge",
                  "bltu", "bgeu", "sub", "slt", "sltu", "sub" \o "w"} : LettersIn(op, Plainly)
    /\ \A op \in {"csrrw", "csrrs"} : LettersIn(op, OnCsr)
    /\ LettersIn("csrrwi", OnCsrImm)
<1>1. /\ <<"uj", <<"rd", "offset">>, {"jal"}>> \in Rows
      /\ <<"i", rd_rs1_imm, {"jalr"}>> \in Rows
      /\ <<"sb", <<"rs1", "rs2", "offset">>, {"beq", "bne", "blt", "bge", "bltu", "bgeu"}>> \in Rows
      /\ <<"i", rd_rs1_imm, {"addi", "slti", "sltiu", "xori", "ori", "andi", "addiw",
                             "addid"}>> \in Rows
  BY DEF IntegerRows, Rows
<1>2. /\ <<"i_csr", <<"rd", "csr", "rs1">>, {"csrrw", "csrrs", "csrrc"}>> \in Rows
      /\ <<"i_csr", <<"rd", "csr", "zimm">>, {"csrrwi", "csrrsi", "csrrci"}>> \in Rows
  BY DEF SystemRows, Rows
<1>3. /\ format("jal") = <<"rd", "offset">>
      /\ \A op \in {"jalr", "addi", "sltiu", "xori", "addiw"} : format(op) = rd_rs1_imm
      /\ \A op \in {"beq", "bne", "blt", "bge", "bltu", "bgeu"} :
            format(op) = <<"rs1", "rs2", "offset">>
  BY <1>1, RowFormat
<1>4. /\ format("csrrw") = <<"rd", "csr", "rs1">> /\ format("csrrs") = <<"rd", "csr", "rs1">>
      /\ format("csrrwi") = <<"rd", "csr", "zimm">>
  BY <1>2, RowFormat
<1>5. \A op \in {"jal", "jalr", "addi", "sltiu", "xori", "addiw", "beq", "bne", "blt", "bge",
               "bltu", "bgeu"} : LettersIn(op, Plainly)
  BY <1>3 DEF LettersIn, Plainly, rd_rs1_imm
<1>6. \A op \in {"sub", "slt", "sltu", "sub" \o "w"} : LettersIn(op, Plainly)
  <2>1. ASSUME NEW op, format(op) = rd_rs1_rs2 PROVE LettersIn(op, Plainly)
    BY <2>1 DEF LettersIn, Plainly, rd_rs1_rs2
  <2> QED
    BY <2>1, OtherFields, Zenon
<1>7. (\A op \in {"csrrw", "csrrs"} : LettersIn(op, OnCsr)) /\ LettersIn("csrrwi", OnCsrImm)
  BY <1>4 DEF LettersIn, OnCsr, OnCsrImm
<1> QED
  BY <1>5, <1>6, <1>7

LEMMA AliasLetters ==
    /\ \A op \in {"j", "ret", "jr", "nop", "mv", "not", "seqz", "sext.w", "neg", "negw", "snez",
                  "sltz", "sgtz", "beqz", "bnez", "bltz", "bgez", "bgtz", "blez", "bgt", "ble",
                  "bgtu", "bleu"} : LettersIn(op, Plainly)
    /\ \A op \in {"rdcycle", "rdcycleh", "rdtime", "rdtimeh", "rdinstret", "rdinstreth", "frcsr",
                  "frrm", "frflags", "fscsr", "fsrm", "fsflags"} : LettersIn(op, OnCsr)
    /\ \A op \in {"fsrmi", "fsflagsi"} : LettersIn(op, OnCsrImm)
    /\ \A op \in Names({"fmv", "fabs", "fneg"}, FpSuffix) : LettersIn(op, {"rd", "rs1"})
<1> DEFINE aliases == Names({"fmv", "fabs", "fneg"}, FpSuffix)
           plainly == {"j", "ret", "jr", "nop", "mv", "not", "seqz", "sext.w", "neg", "negw",
                       "snez", "sltz", "sgtz", "beqz", "bnez", "bltz", "bgez", "bgtz", "blez",
                       "bgt", "ble", "bgtu", "bleu"}
           csrs    == {"rdcycle", "rdcycleh", "rdtime", "rdtimeh", "rdinstret", "rdinstreth",
                       "frcsr", "frrm", "frflags", "fscsr", "fsrm", "fsflags"}
           shapes  == {<< >>, <<"rd", "rs1">>, <<"rd", "rs2">>, <<"rs1", "offset">>,
                       <<"rs2", "offset">>, <<"rs2", "rs1", "offset">>, <<"offset">>, <<"rs1">>}
<1>1. ASSUME NEW row \in PseudoRows, NEW op \in row[3] PROVE format(op) = row[2]
  BY RowFormat DEF Rows
<1>2. <<"r", <<"rd", "rs1">>, aliases>> \in PseudoRows
  BY DEF PseudoRows
<1> HIDE DEF aliases
<1>3. \A op \in aliases : format(op) = <<"rd", "rs1">>
  BY <1>1, <1>2
<1>4. \A op \in plainly : format(op) \in shapes
  BY <1>1 DEF PseudoRows
<1>5. \A op \in csrs : format(op) \in {<<"rd">>, <<"rd", "rs1">>}
  BY <1>1 DEF PseudoRows
<1>6. \A op \in {"fsrmi", "fsflagsi"} : format(op) = <<"rd", "zimm">>
  BY <1>1 DEF PseudoRows
<1>7. ASSUME NEW op, format(op) \in shapes PROVE LettersIn(op, Plainly)
  BY <1>7 DEF LettersIn, Plainly
<1>8. ASSUME NEW op, format(op) \in {<<"rd">>, <<"rd", "rs1">>} PROVE LettersIn(op, OnCsr)
  BY <1>8 DEF LettersIn, OnCsr
<1>9. ASSUME NEW op, format(op) = <<"rd", "zimm">> PROVE LettersIn(op, OnCsrImm)
  BY <1>9 DEF LettersIn, OnCsrImm
<1>10. ASSUME NEW op, format(op) = <<"rd", "rs1">> PROVE LettersIn(op, {"rd", "rs1"})
  BY <1>10 DEF LettersIn
<1> HIDE DEF plainly, csrs, shapes
<1>11. (\A op \in plainly : LettersIn(op, Plainly)) /\ (\A op \in csrs : LettersIn(op, OnCsr))
  BY <1>4, <1>5, <1>7, <1>8
<1>12. /\ \A op \in {"fsrmi", "fsflagsi"} : LettersIn(op, OnCsrImm)
       /\ \A op \in aliases : LettersIn(op, {"rd", "rs1"})
  BY <1>3, <1>6, <1>9, <1>10
<1> QED
  BY <1>11, <1>12 DEF plainly, csrs, aliases

(* A pseudo instruction names an operand in the register file its base     *)
(* instruction does, unless it is a floating point move.                   *)
LEMMA FilesAgree ==
    ASSUME NEW form \in DOMAIN Manual, form \notin FpMoves
    PROVE  /\ Manual[form].base \notin Injections
           /\ \E S \in {Plainly, OnCsr, OnCsrImm} :
                 LettersIn(form, S) /\ LettersIn(Manual[form].base, S)
<1>1. PICK row \in ManualRows : row[1] = form /\ row[2] = Manual[form]
  BY TableValue DEF Manual
<1>2. ~ \E pair \in FpAlias : row[1] = pair[2]
  BY <1>1 DEF FpMoves
<1>3. \/ /\ row[1] \in {"j", "ret", "jr", "nop", "mv", "not", "seqz", "sext.w", "neg", "negw",
                        "snez", "sltz", "sgtz", "beqz", "bnez", "bltz", "bgez", "bgtz", "blez",
                        "bgt", "ble", "bgtu", "bleu"}
         /\ row[2].base \in {"jal", "jalr", "addi", "sltiu", "xori", "addiw", "beq", "bne", "blt",
                             "bge", "bltu", "bgeu", "sub", "slt", "sltu", "sub" \o "w"}
      \/ /\ row[1] \in {"rdcycle", "rdcycleh", "rdtime", "rdtimeh", "rdinstret", "rdinstreth",
                        "frcsr", "frrm", "frflags", "fscsr", "fsrm", "fsflags"}
         /\ row[2].base \in {"csrrw", "csrrs"}
      \/ row[1] \in {"fsrmi", "fsflagsi"} /\ row[2].base = "csrrwi"
  BY <1>2 DEF ManualRows, Alias, Counted
<1>4. \E S \in {Plainly, OnCsr, OnCsrImm} : LettersIn(row[1], S) /\ LettersIn(row[2].base, S)
  BY <1>3, BaseLetters, AliasLetters
<1>5. row[2].base \notin Injections
  BY <1>3, NotInjection
<1> QED
  BY <1>1, <1>4, <1>5

(* What a text that is faithful to the manual reads back as, by a letter   *)
(* of the register file the text names the operand in.                     *)
LEMMA OperandReadBack ==
    ASSUME PlainFits, text.op \in PseudoOps, text.shown = PrintedAs(text.op, plain),
           NEW cs, Holds(plain, cs), Faithful(plain.op, text.op, cs),
           NEW base, NEW k \in DOMAIN Fields(plain.op), FieldOf(base) = Fields(plain.op)[k],
           \A j \in DOMAIN format(text.op) :
              FieldOf(format(text.op)[j]) = Given(plain.op, FieldOf(base)) =>
                 SameFile(base, format(text.op)[j]),
           text.op = "ret" => plain.imm = {}
    PROVE  ReadBack(base) = {plain[FieldOf(base)]}
<1> DEFINE f     == FieldOf(base)
           form  == text.op
           alias == Manual[form]
           given == Given(plain.op, f)
           at    == {j \in DOMAIN alias.args : alias.args[j] = given}
           j     == Min(at)
<1>1. /\ alias.base = plain.op /\ Fields(form) = alias.args /\ Recovered(plain.op, form, cs, f)
  BY DEF Faithful
<1>2. ReadBack(base) = IF at = {} THEN {alias.implied[f]}
                       ELSE Readings(base, text.shown[j], plain[f])
  BY <1>1 DEF ReadBack, Given, Injections
<1>3. CASE at = {}
  <2>1. ~ \E i \in DOMAIN alias.args : alias.args[i] = given
    BY <1>3
  <2>2. Fixed(cs, form, f, alias.implied[f])
    BY <1>1, <2>1 DEF Recovered
  <2> HIDE DEF f, form, alias, given, at, j
  <2>3. plain[f] = alias.implied[f]
    BY <2>2 DEF Fixed, form
  <2>4. ReadBack(base) = {alias.implied[f]}
    BY <1>2, <1>3
  <2> QED
    BY <2>3, <2>4 DEF f
<1>4. CASE at # {}
  <2>1. \E i \in DOMAIN alias.args : alias.args[i] = given
    BY <1>4
  <2>2. plain[f] = plain[given]
    BY <1>1, <2>1 DEF Recovered
  <2>3. DOMAIN alias.args = DOMAIN format(form) /\ DOMAIN alias.args \subseteq Nat
        /\ \A i \in DOMAIN format(form) : alias.args[i] = FieldOf(format(form)[i])
    <3>1. DOMAIN format(form) \subseteq Nat
      BY PseudoLetters
    <3> QED
      BY <1>1, <3>1 DEF Fields
  <2>4. at \subseteq Nat /\ at \subseteq DOMAIN format(form)
    BY <2>3
  <2> HIDE DEF f, form, alias, given
  <2>5. j \in at
    <3> HIDE DEF at
    <3>1. \E n \in at : \A m \in at : n <= m
      BY <1>4, <2>4, LeastNatural
    <3> QED
      BY <3>1 DEF Min
  <2> HIDE DEF j
  <2>6. j \in DOMAIN format(form) /\ FieldOf(format(form)[j]) = given
    BY <2>3, <2>5
  <2> HIDE DEF at
  <2> DEFINE letter == format(form)[j]
  <2>7. letter \in Letters \ {"csr", "rm"} /\ Fit(letter, plain[FieldOf(letter)])
    BY <2>6, PseudoFit DEF form
  <2>8. text.shown[j] = Shown(letter, plain[f])
    BY <2>2, <2>6 DEF PrintedAs, form
  <2> HIDE DEF letter
  <2>9. Fit(letter, plain[f])
    BY <2>2, <2>6, <2>7 DEF letter
  <2>10. Readings(letter, Shown(letter, plain[f]), plain[f]) = {plain[f]}
    BY <2>7, <2>9, ReadsBack
  <2>11. SameFile(base, letter)
    BY <2>6 DEF letter, form, given, f
  <2>12. ReadBack(base) = Readings(letter, text.shown[j], plain[f])
    BY <1>2, <1>4, <2>11, ReadAlike
  <2> QED
    BY <2>8, <2>10, <2>12 DEF f
<1> QED
  BY <1>3, <1>4

(* A text of the manual was printed for a faithful form that holds.        *)
LEMMA LiftedText ==
    ASSUME LiftInv, ShowInv, stage = "printed", text.op \in DOMAIN Manual
    PROVE  \E cs : /\ Holds(plain, cs) /\ Faithful(plain.op, text.op, cs)
                   /\ text.shown = PrintedAs(text.op, plain)
<1>1. PlainShape /\ plain.op \in BaseOps /\ dec = decode_inst_lift_pseudo(plain)
  BY DEF LiftInv
<1>2. text = decode_inst_format(dec)
  BY DEF ShowInv, Printed
<1>3. text.op = dec.op /\ text.op \in PseudoOps
  BY <1>2, ManualPseudo DEF decode_inst_format
<1>4. dec # plain
  BY <1>1, <1>3, MnemonicsApart
<1>5. PICK k \in DOMAIN Candidates(plain.op) :
         LET form == Candidates(plain.op)[k]
         IN  /\ form[1] \in Lifted /\ plain.op \in DOMAIN rvcp
             /\ \A c \in form[2] : check_constraint(plain, c)
             /\ dec = Recoded(plain, form[1], codec(form[1]))
  BY <1>1, <1>4, LiftCases
<1> DEFINE form == Candidates(plain.op)[k]
           new  == codec(form[1])
<1>6. plain.op \in DOMAIN rvcp /\ dec = Recoded(plain, form[1], new) /\ Holds(plain, form[2])
  BY <1>5 DEF Holds
<1>7. Candidates(plain.op) = rvcp[plain.op]
  BY <1>6 DEF Candidates
<1>8. Meant(plain.op, form[1], form[2])
  BY <1>6, <1>7, LiftingsFaithful DEF AllFaithful
<1> HIDE DEF form, new
<1>9. dec.op = form[1] /\ \A f \in Operands : dec[f] = plain[f]
  <2>1. "op" \in DecFields /\ "codec" \in DecFields /\ Operands \subseteq DecFields \ {"op",
            "codec"}
    BY DEF DecFields, Operands
  <2> QED
    BY <1>1, <1>6, <2>1 DEF PlainShape, Recoded
<1>10. Faithful(plain.op, text.op, form[2])
  BY <1>3, <1>8, <1>9 DEF Meant
<1>11. text.shown = PrintedAs(text.op, plain)
  <2>1. text.shown = [i \in DOMAIN format(text.op) |->
                         Shown(format(text.op)[i], dec[FieldOf(format(text.op)[i])])]
    BY <1>2, <1>3 DEF decode_inst_format, Fields
  <2>2. \A i \in DOMAIN format(text.op) : FieldOf(format(text.op)[i]) \in Operands
    BY <1>3, FormatLetters, LetterFields, InTable
  <2>3. \A i \in DOMAIN format(text.op) :
           dec[FieldOf(format(text.op)[i])] = plain[FieldOf(format(text.op)[i])]
    BY <1>9, <2>2
  <2> QED
    BY <2>1, <2>3 DEF PrintedAs
<1> QED
  BY <1>6, <1>10, <1>11

(* A ret is a jalr.                                                        *)
LEMMA RetIsJump == Manual["ret"].base = "jalr"
<1>1. <<"ret", Alias("jalr", << >>, [rd |-> x0, rs1 |-> ra, imm |-> {}])>> \in ManualRows
  BY DEF ManualRows
<1> QED
  BY <1>1, ManualValue DEF Alias

-----------------------------------------------------------------------------
(***************************************************************************)
(* What the operands tell about the word.                                  *)
(***************************************************************************)
(* The bits each codec keeps.                                              *)
Source ==
    [u |-> 7..31, uj |-> 7..31, i |-> (7..11) \cup (15..31), i_csr |-> (7..11) \cup (15..31),
     s |-> (7..11) \cup (15..31), sb |-> (7..11) \cup (15..31),
     i_sh5 |-> (7..11) \cup (15..24), i_sh6 |-> (7..11) \cup (15..25),
     i_sh7 |-> (7..11) \cup (15..26), r |-> (7..11) \cup (15..24), r_m |-> 7..24,
     r4_m |-> (7..24) \cup (27..31), r_a |-> (7..11) \cup (15..26),
     r_l |-> (7..11) \cup (15..19) \cup (25..26),
     cb_imm |-> (2..9) \cup (12..12), cb_sh6 |-> (2..9) \cup (12..12),
     cs |-> (2..4) \cup (7..9), cb |-> 2..12, ci |-> 2..12, ci_sh6 |-> 2..12,
     ci_li |-> 2..12, ci_lui |-> 2..12, ci_lwsp |-> 2..12, ci_ldsp |-> 2..12,
     ci_lqsp |-> 2..12, ci_16sp |-> (2..6) \cup (12..12), cr |-> 2..11, cr_mv |-> 2..11,
     cr_jr |-> 7..11, cr_jalr |-> 7..11, ciw_4spn |-> 2..12, cl_lw |-> 2..12,
     cl_ld |-> 2..12, cl_lq |-> 2..12, cs_sw |-> 2..12, cs_sd |-> 2..12, cs_sq |-> 2..12,
     css_swsp |-> 2..12, css_sdsp |-> 2..12, css_sqsp |-> 2..12, cj |-> 2..12,
     cj_jal |-> 2..12, none |-> {}, ci_none |-> {}]

(* The fields of three bits, kept as the numbers of x8 to x15.             *)
LEMMA WideAlike ==
    ASSUME NEW i, NEW j
    PROVE  /\ Wide(operand_crdq(i)) = Wide(operand_crdq(j)) => Alike(i, j, 2..4)
           /\ Wide(operand_crs2q(i)) = Wide(operand_crs2q(j)) => Alike(i, j, 2..4)
           /\ Wide(operand_crs1q(i)) = Wide(operand_crs1q(j)) => Alike(i, j, 7..9)
           /\ Wide(operand_crs1rdq(i)) = Wide(operand_crs1rdq(j)) => Alike(i, j, 7..9)
<1>1. ASSUME NEW v, NEW w, v \subseteq 0..2, w \subseteq 0..2, Wide(v) = Wide(w) PROVE v = w
  <2>1. 3 \notin v /\ 3 \notin w
    BY <1>1
  <2> QED
    BY <1>1, <2>1 DEF Wide
<1>2. \A w : /\ operand_crdq(w) \subseteq 0..2 /\ operand_crs2q(w) \subseteq 0..2
             /\ operand_crs1q(w) \subseteq 0..2 /\ operand_crs1rdq(w) \subseteq 0..2
  BY RegisterFields DEF Within
<1>3. /\ Wide(operand_crdq(i)) = Wide(operand_crdq(j)) => operand_crdq(i) = operand_crdq(j)
      /\ Wide(operand_crs2q(i)) = Wide(operand_crs2q(j)) => operand_crs2q(i) = operand_crs2q(j)
      /\ Wide(operand_crs1q(i)) = Wide(operand_crs1q(j)) => operand_crs1q(i) = operand_crs1q(j)
      /\ Wide(operand_crs1rdq(i)) = Wide(operand_crs1rdq(j))
            => operand_crs1rdq(i) = operand_crs1rdq(j)
  BY <1>1, <1>2
<1> QED
  BY <1>3, FieldsAlike

(* Two words with the same operands have the same bits wherever their codec*)
(* looks.                                                                  *)
LEMMA OperandsAlike ==
    ASSUME NEW c \in DOMAIN Source, NEW i, NEW j,
           decode_inst_operands(c, i) = decode_inst_operands(c, j)
    PROVE  Alike(i, j, Source[c])
<1>1. /\ rd_of(c, i) = rd_of(c, j) /\ rs1_of(c, i) = rs1_of(c, j)
      /\ rs2_of(c, i) = rs2_of(c, j) /\ imm_of(c, i) = imm_of(c, j)
      /\ c = "r4_m" => operand_rs3(i) = operand_rs3(j)
      /\ c \in {"r_m", "r4_m"} => operand_rm(i) = operand_rm(j)
      /\ c \in {"r_a", "r_l"} => operand_aq(i) = operand_aq(j) /\ operand_rl(i) = operand_rl(j)
  BY DEF decode_inst_operands
<1>2. CASE c \in {"u", "uj"}
  <2>1. Alike(i, j, 7..11)
    BY <1>1, <1>2, FieldsAlike DEF rd_of, base_rd
  <2>2. Alike(i, j, 12..31)
    BY <1>1, <1>2, ImmediatesAlike DEF imm_of
  <2> QED
    BY <1>2, <2>1, <2>2 DEF Alike, Source
<1>3. CASE c \in {"i", "i_csr"}
  <2>1. Alike(i, j, 7..11) /\ Alike(i, j, 15..19)
    BY <1>1, <1>3, FieldsAlike DEF rd_of, rs1_of, base_rd
  <2>2. Alike(i, j, 20..31)
    BY <1>1, <1>3, FieldsAlike, ImmediatesAlike DEF imm_of
  <2> QED
    BY <1>3, <2>1, <2>2 DEF Alike, Source
<1>4. CASE c \in {"s", "sb"}
  <2>1. Alike(i, j, 15..19)
    BY <1>1, <1>4, FieldsAlike DEF rs1_of, base_rd
  <2>2. Alike(i, j, 20..24)
    BY <1>1, <1>4, FieldsAlike DEF rs2_of, base_rs2
  <2>3. Alike(i, j, (7..11) \cup (25..31))
    BY <1>1, <1>4, ImmediatesAlike DEF imm_of
  <2> QED
    BY <1>4, <2>1, <2>2, <2>3 DEF Alike, Source
<1>5. CASE c \in {"i_sh5", "i_sh6", "i_sh7"}
  <2>1. Alike(i, j, 7..11) /\ Alike(i, j, 15..19)
    BY <1>1, <1>5, FieldsAlike DEF rd_of, rs1_of, base_rd
  <2>2. /\ c = "i_sh5" => Alike(i, j, 20..24)
        /\ c = "i_sh6" => Alike(i, j, 20..25)
        /\ c = "i_sh7" => Alike(i, j, 20..26)
    BY <1>1, FieldsAlike DEF imm_of
  <2> QED
    BY <1>5, <2>1, <2>2 DEF Alike, Source
<1>6. CASE c \in {"r", "r_m", "r4_m", "r_a", "r_l"}
  <2>1. Alike(i, j, 7..11) /\ Alike(i, j, 15..19)
    BY <1>1, <1>6, FieldsAlike DEF rd_of, rs1_of, base_rd
  <2>2. c # "r_l" => Alike(i, j, 20..24)
    BY <1>1, <1>6, FieldsAlike DEF rs2_of, base_rs2
  <2>3. /\ c = "r4_m" => Alike(i, j, 27..31)
        /\ c \in {"r_m", "r4_m"} => Alike(i, j, 12..14)
        /\ c \in {"r_a", "r_l"} => Alike(i, j, 26..26) /\ Alike(i, j, 25..25)
    BY <1>1, FieldsAlike
  <2> QED
    BY <1>6, <2>1, <2>2, <2>3 DEF Alike, Source
<1>7. CASE c \in {"cb_imm", "cb_sh6", "cs"}
  <2>1. Alike(i, j, 7..9)
    BY <1>1, <1>7, WideAlike DEF rd_of, base_rd
  <2>2. c = "cs" => Alike(i, j, 2..4)
    BY <1>1, WideAlike DEF rs2_of, base_rs2
  <2>3. c # "cs" => Alike(i, j, (2..6) \cup (12..12))
    BY <1>1, <1>7, ImmediatesAlike DEF imm_of, cimm_of
  <2> QED
    BY <1>7, <2>1, <2>2, <2>3 DEF Alike, Source
<1>8. CASE c \in {"cb", "cl_lw", "cl_ld", "cl_lq", "cs_sw", "cs_sd", "cs_sq"}
  <2>1. Alike(i, j, 7..9)
    BY <1>1, <1>8, WideAlike DEF rs1_of, base_rd
  <2>2. c \in {"cl_lw", "cl_ld", "cl_lq"} => Alike(i, j, 2..4)
    BY <1>1, WideAlike DEF rd_of, base_rd
  <2>3. c \in {"cs_sw", "cs_sd", "cs_sq"} => Alike(i, j, 2..4)
    BY <1>1, WideAlike DEF rs2_of, base_rs2
  <2>4. /\ c = "cb" => Alike(i, j, (2..6) \cup (10..12))
        /\ c # "cb" => Alike(i, j, (5..6) \cup (10..12))
    BY <1>1, <1>8, ImmediatesAlike DEF imm_of, cimm_of
  <2> QED
    BY <1>8, <2>1, <2>2, <2>3, <2>4 DEF Alike, Source
<1>9. CASE c \in {"ci", "ci_sh6", "ci_li", "ci_lui", "ci_lwsp", "ci_ldsp", "ci_lqsp"}
  <2>1. Alike(i, j, 7..11)
    BY <1>1, <1>9, FieldsAlike DEF rd_of, base_rd
  <2>2. Alike(i, j, (2..6) \cup (12..12))
    BY <1>1, <1>9, ImmediatesAlike DEF imm_of, cimm_of
  <2> QED
    BY <1>9, <2>1, <2>2 DEF Alike, Source
<1>10. CASE c \in {"cr", "cr_mv", "cr_jr", "cr_jalr"}
  <2>1. c \in {"cr", "cr_mv"} => Alike(i, j, 7..11)
    BY <1>1, FieldsAlike DEF rd_of, base_rd
  <2>2. c \in {"cr_jr", "cr_jalr"} => Alike(i, j, 7..11)
    BY <1>1, FieldsAlike DEF rs1_of, base_rd
  <2>3. c = "cr" => Alike(i, j, 2..6)
    BY <1>1, FieldsAlike DEF rs2_of, base_rs2
  <2>4. c = "cr_mv" => Alike(i, j, 2..6)
    BY <1>1, FieldsAlike DEF rs1_of, base_rd
  <2> QED
    BY <1>10, <2>1, <2>2, <2>3, <2>4 DEF Alike, Source
<1>11. CASE c \in {"css_swsp", "css_sdsp", "css_sqsp"}
  <2>1. Alike(i, j, 2..6)
    BY <1>1, <1>11, FieldsAlike DEF rs2_of, base_rs2
  <2>2. Alike(i, j, 7..12)
    BY <1>1, <1>11, ImmediatesAlike DEF imm_of, cimm_of
  <2> QED
    BY <1>11, <2>1, <2>2 DEF Alike, Source
<1>12. CASE c = "ciw_4spn"
  <2>1. Alike(i, j, 2..4)
    BY <1>1, <1>12, WideAlike DEF rd_of, base_rd
  <2>2. Alike(i, j, 5..12)
    BY <1>1, <1>12, ImmediatesAlike DEF imm_of, cimm_of
  <2> QED
    BY <1>12, <2>1, <2>2 DEF Alike, Source
<1>13. CASE c = "ci_16sp"
  BY <1>1, <1>13, ImmediatesAlike DEF imm_of, cimm_of, Source
<1>14. CASE c \in {"cj", "cj_jal"}
  <2>1. Alike(i, j, 2..12)
    BY <1>1, <1>14, ImmediatesAlike DEF imm_of, cimm_of
  <2> QED
    BY <1>14, <2>1 DEF Alike, Source
<1>15. CASE c \in {"none", "ci_none"}
  BY <1>15 DEF Alike, Source
<1> QED
  BY <1>2, <1>3, <1>4, <1>5, <1>6, <1>7, <1>8, <1>9, <1>10, <1>11, <1>12, <1>13, <1>14, <1>15
     DEF Source

(* Two words selected the same case of a switch.                           *)
LEMMA SwitchApart ==
    ASSUME NEW A, NEW B, NEW n \in Int, NEW m \in Int,
           \A a \in DOMAIN A, b \in DOMAIN B : A[a] = B[b] => a = b \/ A[a] = "illegal",
           Switch(A, n) = Switch(B, m), Switch(A, n) # "illegal"
    PROVE  /\ n = m /\ n + 1 \in DOMAIN A /\ m + 1 \in DOMAIN B
           /\ Switch(A, n) = A[n + 1] /\ Switch(B, m) = B[m + 1]
<1>1. n + 1 \in DOMAIN A /\ Switch(A, n) = A[n + 1]
  BY DEF Switch
<1>2. m + 1 \in DOMAIN B /\ Switch(B, m) = B[m + 1]
  BY DEF Switch
<1>3. A[n + 1] = B[m + 1] /\ A[n + 1] # "illegal"
  BY <1>1, <1>2
<1>4. n + 1 = m + 1
  BY <1>1, <1>2, <1>3
<1>5. n = m
  BY <1>4
<1> QED
  BY <1>1, <1>2, <1>5

(* Two words selected the same case of a table.                            *)
LEMMA CaseApart ==
    ASSUME NEW R, NEW S, NEW n, NEW m,
           \A a \in R, b \in S : a[2] = b[2] => a[1] = b[1] \/ a[2] = "illegal",
           Case(Table(R), n) = Case(Table(S), m), Case(Table(R), n) # "illegal"
    PROVE  /\ n = m
           /\ \E a \in R : a[1] = n /\ a[2] = Case(Table(R), n)
           /\ \E b \in S : b[1] = m /\ b[2] = Case(Table(S), m)
<1>1. \E a \in R : a[1] = n /\ a[2] = Case(Table(R), n)
  BY TableValue DEF Case
<1>2. \E b \in S : b[1] = m /\ b[2] = Case(Table(S), m)
  BY TableValue DEF Case
<1> QED
  BY <1>1, <1>2

(* The fields the switches look at are numbers,                            *)
LEMMA FieldNumbers ==
    ASSUME NEW i
    PROVE  /\ f3(i) \in 0..7 /\ f7(i) \in Nat /\ rs2(i) \in 0..31 /\ rs12(i) \in Nat
           /\ Bits(i, 27, 5) \in 0..31 /\ Bits(i, 26, 6) \in Nat /\ Bits(i, 25, 2) \in 0..3
           /\ Bits(i, 2, 5) \in 0..31 /\ Bits(i, 7, 5) \in 0..31 /\ Bits(i, 15, 5) \in 0..31
<1>1. 25 \in Nat /\ 12 \in Nat /\ 20 \in Nat /\ 15 \in Nat /\ 27 \in Nat /\ 26 \in Nat
      /\ 2 \in Nat /\ 7 \in Nat
  OBVIOUS
<1>2. 7 \in 0..12 /\ 10 \in 0..12 /\ 6 \in 0..12
  OBVIOUS
<1> QED
  BY <1>1, <1>2, BitsRange DEF f3, f7, rs2, rs12

(* and fix the bits they are taken from.                                   *)
LEMMA FieldsTell ==
    ASSUME NEW i, NEW j
    PROVE  /\ f3(i) = f3(j) => Alike(i, j, 12..14)
           /\ f7(i) = f7(j) => Alike(i, j, 25..31)
           /\ rs2(i) = rs2(j) => Alike(i, j, 20..24)
           /\ rs12(i) = rs12(j) => Alike(i, j, 15..24)
           /\ Bits(i, 27, 5) = Bits(j, 27, 5) => Alike(i, j, 27..31)
           /\ Bits(i, 26, 6) = Bits(j, 26, 6) => Alike(i, j, 26..31)
           /\ Bits(i, 25, 2) = Bits(j, 25, 2) => Alike(i, j, 25..26)
           /\ Bits(i, 2, 5) = Bits(j, 2, 5) => Alike(i, j, 2..6)
           /\ Bits(i, 7, 5) = Bits(j, 7, 5) => Alike(i, j, 7..11)
           /\ Bits(i, 15, 5) = Bits(j, 15, 5) => Alike(i, j, 15..19)
<1> DEFINE Told(at, width, last) ==
              Bits(i, at, width) = Bits(j, at, width) => Alike(i, j, at..last)
<1>1. ASSUME NEW at \in Nat, NEW width \in 0..12, NEW last, last = at + width - 1
      PROVE  Told(at, width, last)
  BY <1>1, BitsAlike
<1> HIDE DEF Told
<1>2. /\ Told(12, 3, 14) /\ Told(25, 7, 31) /\ Told(20, 5, 24) /\ Told(15, 10, 24)
      /\ Told(27, 5, 31) /\ Told(26, 6, 31) /\ Told(25, 2, 26) /\ Told(2, 5, 6)
      /\ Told(7, 5, 11) /\ Told(15, 5, 19)
  BY <1>1
<1> QED
  BY <1>2 DEF Told, f3, f7, rs2, rs12

-----------------------------------------------------------------------------
(* Codecs.                                                                 *)
LEMMA RowCodec ==
    ASSUME NEW row \in IntegerRows \cup SystemRows \cup FloatRows \cup CompressedRows,
           NEW op \in row[3]
    PROVE  codec(op) = row[1]
  BY RowFormat DEF Rows

(* The codecs of the 32 bit instructions whose name has no suffix.         *)
LEMMA WholeCodecs ==
    /\ \A op \in {"lui", "auipc"} : op \in Whole /\ codec(op) = "u"
    /\ "jal" \in Whole /\ codec("jal") = "uj" /\ "jalr" \in Whole /\ codec("jalr") = "i"
    /\ \A op \in {"beq", "bne", "blt", "bge", "bltu", "bgeu"} : op \in Whole /\ codec(op) = "sb"
    /\ \A op \in {"lb", "lh", "lw", "lbu", "lhu", "lwu", "ld", "ldu", "lq"} :
          op \in Whole /\ codec(op) = "i"
    /\ \A op \in {"sb", "sh", "sw", "sd", "sq"} : op \in Whole /\ codec(op) = "s"
    /\ \A op \in {"addi", "slti", "sltiu", "xori", "ori", "andi", "addiw", "addid"} :
          op \in Whole /\ codec(op) = "i"
    /\ \A op \in {"slli", "srli", "srai"} : op \in Whole /\ codec(op) = "i_sh7"
    /\ \A op \in {"slliw", "srliw", "sraiw"} : op \in Whole /\ codec(op) = "i_sh5"
    /\ \A op \in {"sllid", "srlid", "sraid"} : op \in Whole /\ codec(op) = "i_sh6"
    /\ \A op \in {"ecall", "ebreak", "uret", "sret", "hret", "mret", "dret", "wfi"} :
          op \in Whole /\ codec(op) = "none"
    /\ \A op \in {"sfence.vm", "sfence.vma"} : op \in Whole /\ codec(op) = "r"
    /\ \A op \in {"csrrw", "csrrs", "csrrc", "csrrwi", "csrrsi", "csrrci"} :
          op \in Whole /\ codec(op) = "i_csr"
    /\ \A op \in {"flw", "fld", "flq"} : op \in Whole /\ codec(op) = "i"
    /\ \A op \in {"fsw", "fsd", "fsq"} : op \in Whole /\ codec(op) = "s"
<1>1. ASSUME NEW row \in IntegerRows \cup SystemRows \cup FloatRows, NEW op \in row[3]
      PROVE  codec(op) = row[1]
  BY RowCodec
<1>2. ASSUME NEW row \in IntegerRows \cup SystemRows \cup FloatRows, NEW op \in row[3],
             row[1] \notin {"r", "r_l", "r_a", "r_m", "r4_m"}
      PROVE  op \in Whole /\ codec(op) = row[1]
  BY <1>1, <1>2 DEF Whole, Mnemonics
<1> DEFINE Listed(row) == \A op \in row[3] : op \in Whole /\ codec(op) = row[1]
<1>3. \A row \in IntegerRows \cup SystemRows \cup FloatRows :
         row[1] \notin {"r", "r_l", "r_a", "r_m", "r4_m"} => Listed(row)
  BY <1>2
<1> HIDE DEF Listed
<1>4. /\ Listed(<<"u", <<"rd", "imm">>, {"lui"}>>)
      /\ Listed(<<"u", <<"rd", "offset">>, {"auipc"}>>)
      /\ Listed(<<"uj", <<"rd", "offset">>, {"jal"}>>)
      /\ Listed(<<"i", rd_rs1_imm, {"jalr"}>>)
      /\ Listed(<<"sb", <<"rs1", "rs2", "offset">>, {"beq", "bne", "blt", "bge", "bltu", "bgeu"}>>)
      /\ Listed(<<"i", rd_mem, {"lb", "lh", "lw", "lbu", "lhu", "lwu", "ld", "ldu", "lq"}>>)
      /\ Listed(<<"s", rs2_mem, {"sb", "sh", "sw", "sd", "sq"}>>)
      /\ Listed(<<"i", rd_rs1_imm, {"addi", "slti", "sltiu", "xori", "ori", "andi", "addiw",
                                    "addid"}>>)
      /\ Listed(<<"i_sh7", rd_rs1_imm, {"slli", "srli", "srai"}>>)
      /\ Listed(<<"i_sh5", rd_rs1_imm, {"slliw", "srliw", "sraiw"}>>)
      /\ Listed(<<"i_sh6", rd_rs1_imm, {"sllid", "srlid", "sraid"}>>)
  BY <1>3 DEF IntegerRows
<1>5. /\ Listed(<<"none", << >>, {"ecall", "ebreak", "uret", "sret", "hret", "mret", "dret",
                                  "wfi"}>>)
      /\ Listed(<<"i_csr", <<"rd", "csr", "rs1">>, {"csrrw", "csrrs", "csrrc"}>>)
      /\ Listed(<<"i_csr", <<"rd", "csr", "zimm">>, {"csrrwi", "csrrsi", "csrrci"}>>)
  BY <1>3 DEF SystemRows
<1>6. /\ Listed(<<"i", frd_mem, {"flw", "fld", "flq"}>>)
      /\ Listed(<<"s", frs2_mem, {"fsw", "fsd", "fsq"}>>)
  BY <1>3 DEF FloatRows
<1>7. \A op \in {"sfence.vm", "sfence.vma"} : op \in Whole /\ codec(op) = "r"
  <2>1. /\ <<"r", <<"rs1">>, {"sfence.vm"}>> \in SystemRows
        /\ <<"r", <<"rs1", "rs2">>, {"sfence.vma"}>> \in SystemRows
    BY DEF SystemRows
  <2>2. codec("sfence.vm") = "r" /\ codec("sfence.vma") = "r"
    BY <1>1, <2>1
  <2> QED
    BY <2>2 DEF Whole
<1> QED
  BY <1>4, <1>5, <1>6, <1>7 DEF Listed

-----------------------------------------------------------------------------
(***************************************************************************)
(* What the opcode tells about the word.                                   *)
(***************************************************************************)
(* Together with the operands, all of it but the major opcode.             *)
Selected(op, i, j) ==
    codec(op) \in DOMAIN Source /\ Alike(i, j, (7..31) \ Source[codec(op)])

(* What the switches must look at, for each codec.                         *)
LEMMA SelectedBy ==
    ASSUME NEW op, NEW i, NEW j
    PROVE  /\ codec(op) \in {"u", "uj"} => Selected(op, i, j)
           /\ codec(op) \in {"i", "s", "sb", "i_csr"} /\ Alike(i, j, 12..14) => Selected(op, i, j)
           /\ codec(op) = "i_sh5" /\ Alike(i, j, 12..14) /\ Alike(i, j, 25..31)
                 => Selected(op, i, j)
           /\ codec(op) = "i_sh6" /\ Alike(i, j, 12..14) /\ Alike(i, j, 26..31)
                 => Selected(op, i, j)
           /\ codec(op) = "i_sh7" /\ Alike(i, j, 12..14) /\ Alike(i, j, 27..31)
                 => Selected(op, i, j)
           /\ codec(op) = "r" /\ Alike(i, j, 12..14) /\ Alike(i, j, 25..31)
                 => Selected(op, i, j)
           /\ codec(op) = "r_m" /\ Alike(i, j, 25..31) => Selected(op, i, j)
           /\ codec(op) = "r4_m" /\ Alike(i, j, 25..26) => Selected(op, i, j)
           /\ codec(op) = "r_a" /\ Alike(i, j, 12..14) /\ Alike(i, j, 27..31)
                 => Selected(op, i, j)
           /\ codec(op) = "r_l" /\ Alike(i, j, 12..14) /\ Alike(i, j, 20..24)
              /\ Alike(i, j, 27..31) => Selected(op, i, j)
           /\ codec(op) = "none" /\ Alike(i, j, 7..11) /\ Alike(i, j, 12..14)
              /\ Alike(i, j, 15..24) /\ Alike(i, j, 25..31) => Selected(op, i, j)
<1> DEFINE c == codec(op)
<1>1. c \in {"u", "uj"} => Selected(op, i, j)
  BY DEF Selected, Source, Alike
<1>2. c \in {"i", "s", "sb", "i_csr"} /\ Alike(i, j, 12..14) => Selected(op, i, j)
  BY DEF Selected, Source, Alike
<1>3. c \in {"i_sh5", "r"} /\ Alike(i, j, 12..14) /\ Alike(i, j, 25..31) => Selected(op, i, j)
  BY DEF Selected, Source, Alike
<1>4. c = "i_sh6" /\ Alike(i, j, 12..14) /\ Alike(i, j, 26..31) => Selected(op, i, j)
  BY DEF Selected, Source, Alike
<1>5. c \in {"i_sh7", "r_a"} /\ Alike(i, j, 12..14) /\ Alike(i, j, 27..31) => Selected(op, i, j)
  BY DEF Selected, Source, Alike
<1>6. c = "r_m" /\ Alike(i, j, 25..31) => Selected(op, i, j)
  BY DEF Selected, Source, Alike
<1>7. c = "r4_m" /\ Alike(i, j, 25..26) => Selected(op, i, j)
  BY DEF Selected, Source, Alike
<1>8. c = "r_l" /\ Alike(i, j, 12..14) /\ Alike(i, j, 20..24) /\ Alike(i, j, 27..31)
         => Selected(op, i, j)
  BY DEF Selected, Source, Alike
<1>9. c = "none" /\ Alike(i, j, 7..11) /\ Alike(i, j, 12..14) /\ Alike(i, j, 15..24)
      /\ Alike(i, j, 25..31) => Selected(op, i, j)
  BY DEF Selected, Source, Alike
<1> QED
  BY <1>1, <1>2, <1>3, <1>4, <1>5, <1>6, <1>7, <1>8, <1>9

(* Loads, stores and branches are selected by funct3 alone.                *)
LEMMA ByFunct3 ==
    ASSUME NEW i, NEW j, NEW A,
           \A a, b \in DOMAIN A : A[a] = A[b] => a = b \/ A[a] = "illegal",
           \A a \in DOMAIN A : A[a] # "illegal" => codec(A[a]) \in {"i", "s", "sb", "i_csr"},
           Switch(A, f3(i)) = Switch(A, f3(j)), Switch(A, f3(i)) # "illegal"
    PROVE  Selected(Switch(A, f3(i)), i, j)
<1>1. f3(i) \in Int /\ f3(j) \in Int
  BY FieldNumbers
<1>2. /\ f3(i) = f3(j) /\ f3(i) + 1 \in DOMAIN A /\ Switch(A, f3(i)) = A[f3(i) + 1]
  BY <1>1, SwitchApart
<1>3. codec(Switch(A, f3(i))) \in {"i", "s", "sb", "i_csr"}
  BY <1>2
<1> QED
  BY <1>2, <1>3, FieldsTell, SelectedBy

(* So loads, stores and branches with one opcode differ in operands only.  *)
LEMMA MemorySelected ==
    ASSUME NEW i, NEW j
    PROVE  /\ Load(i) = Load(j) /\ Load(i) # "illegal" => Selected(Load(i), i, j)
           /\ LoadFp(i) = LoadFp(j) /\ LoadFp(i) # "illegal" => Selected(LoadFp(i), i, j)
           /\ Store(i) = Store(j) /\ Store(i) # "illegal" => Selected(Store(i), i, j)
           /\ StoreFp(i) = StoreFp(j) /\ StoreFp(i) # "illegal" => Selected(StoreFp(i), i, j)
           /\ Branch(i) = Branch(j) /\ Branch(i) # "illegal" => Selected(Branch(i), i, j)
<1> DEFINE Apart(A) ==
      /\ \A a, b \in DOMAIN A : A[a] = A[b] => a = b \/ A[a] = "illegal"
      /\ \A a \in DOMAIN A : A[a] # "illegal" => codec(A[a]) \in {"i", "s", "sb", "i_csr"}
<1>1. ASSUME NEW A, Apart(A), Switch(A, f3(i)) = Switch(A, f3(j)), Switch(A, f3(i)) # "illegal"
      PROVE  Selected(Switch(A, f3(i)), i, j)
  BY <1>1, ByFunct3
<1>2. Apart(<<"lb", "lh", "lw", "ld", "lbu", "lhu", "lwu", "ldu">>)
  BY WholeCodecs
<1>3. Apart(<<"illegal", "illegal", "flw", "fld", "flq">>)
  BY WholeCodecs
<1>4. Apart(<<"sb", "sh", "sw", "sd", "sq">>)
  BY WholeCodecs
<1>5. Apart(<<"illegal", "illegal", "fsw", "fsd", "fsq">>)
  BY WholeCodecs
<1>6. Apart(<<"beq", "bne", "illegal", "illegal", "blt", "bge", "bltu", "bgeu">>)
  BY WholeCodecs
<1> HIDE DEF Apart
<1> QED
  BY <1>1, <1>2, <1>3, <1>4, <1>5, <1>6 DEF Load, LoadFp, Store, StoreFp, Branch

(* Of the fences, all that is left to tell is lq.                          *)
LEMMA FenceSelected ==
    ASSUME NEW i, NEW j, Fence(i) = Fence(j), Fence(i) \notin {"illegal", "fence", "fence.i"}
    PROVE  Selected(Fence(i), i, j)
<1> DEFINE A == <<"fence", "fence.i", "lq">>
<1>1. \A a, b \in DOMAIN A : A[a] = A[b] => a = b \/ A[a] = "illegal"
  OBVIOUS
<1>2. \A a \in DOMAIN A : A[a] \in {"fence", "fence.i", "lq"}
  OBVIOUS
<1> HIDE DEF A
<1>3. Fence(i) = Switch(A, f3(i)) /\ Fence(j) = Switch(A, f3(j))
  BY DEF Fence, A
<1>4. f3(i) \in Int /\ f3(j) \in Int
  BY FieldNumbers
<1>5. /\ Switch(A, f3(i)) = Switch(A, f3(j)) /\ Switch(A, f3(i)) # "illegal"
  BY <1>3
<1>6. /\ f3(i) = f3(j) /\ f3(i) + 1 \in DOMAIN A /\ Switch(A, f3(i)) = A[f3(i) + 1]
  BY <1>1, <1>4, <1>5, SwitchApart
<1>7. Fence(i) = "lq"
  BY <1>2, <1>3, <1>6
<1>8. codec("lq") = "i"
  BY WholeCodecs
<1> QED
  BY <1>6, <1>7, <1>8, FieldsTell, SelectedBy

(* Shifts are selected by the bits above their amount too.                 *)
RightShift(n, logical, code, arithmetic) ==
    Case(Table({<<0, logical>>, <<code, arithmetic>>}), n)

(* The two right shifts are told apart by the bits above the amount.       *)
LEMMA ShiftRight ==
    ASSUME NEW n, NEW m, NEW logical, NEW arithmetic, NEW code, logical # arithmetic,
           RightShift(n, logical, code, arithmetic) = RightShift(m, logical, code, arithmetic),
           RightShift(n, logical, code, arithmetic) # "illegal"
    PROVE  n = m
<1> DEFINE rows == {<<0, logical>>, <<code, arithmetic>>}
<1>1. \A a, b \in rows : a[2] = b[2] => a[1] = b[1] \/ a[2] = "illegal"
  OBVIOUS
<1> HIDE DEF rows
<1>2. /\ Case(Table(rows), n) = Case(Table(rows), m)
      /\ Case(Table(rows), n) # "illegal"
  BY DEF rows, RightShift
<1> QED
  BY <1>1, <1>2, CaseApart

(* There is nothing else a right shift is decoded to.                      *)
LEMMA ShiftKinds ==
    ASSUME NEW n, NEW logical, NEW arithmetic, NEW code
    PROVE  RightShift(n, logical, code, arithmetic) \in {logical, arithmetic, "illegal"}
<1> DEFINE rows == {<<0, logical>>, <<code, arithmetic>>}
           S == {logical, arithmetic, "illegal"}
<1>1. \A row \in rows : row[2] \in S
  OBVIOUS
<1>2. "illegal" \in S
  OBVIOUS
<1> HIDE DEF rows, S
<1>3. Case(Table(rows), n) \in S
  BY <1>1, <1>2, CaseIn
<1> QED
  BY <1>3 DEF rows, S, RightShift

(* So register-immediate instructions differ in operands only,             *)
LEMMA OpImmSelected ==
    ASSUME NEW i, NEW j, OpImm(i) = OpImm(j), OpImm(i) # "illegal"
    PROVE  Selected(OpImm(i), i, j)
<1> DEFINE left(w)  == When(Bits(w, 27, 5) = 0, "slli")
           right(w) == RightShift(Bits(w, 27, 5), "srli", 8, "srai")
           A(w) == <<"addi", left(w), "slti", "sltiu", "xori", right(w), "ori", "andi">>
<1>1. OpImm(i) = Switch(A(i), f3(i)) /\ OpImm(j) = Switch(A(j), f3(j))
  BY DEF OpImm, RightShift
<1>2. ASSUME NEW w PROVE left(w) \in {"slli", "illegal"} /\ right(w) \in {"srli", "srai", "illegal"}
  BY ShiftKinds DEF When
<1>3. left(i) = "slli" /\ left(j) = "slli" => Bits(i, 27, 5) = Bits(j, 27, 5)
  BY DEF When
<1>4. right(i) = right(j) /\ right(i) # "illegal" => Bits(i, 27, 5) = Bits(j, 27, 5)
  BY ShiftRight
<1> HIDE DEF left, right
<1>5. \A a \in DOMAIN A(i), b \in DOMAIN A(j) : A(i)[a] = A(j)[b] => a = b \/ A(i)[a] = "illegal"
  BY <1>2
<1>6. \A w : DOMAIN A(w) = 1..8 /\ A(w)[2] = left(w) /\ A(w)[6] = right(w)
  OBVIOUS
<1>7. \A a \in {1, 3, 4, 5, 7, 8} : codec(A(i)[a]) = "i"
  BY WholeCodecs
<1> HIDE DEF A
<1>8. f3(i) \in Int /\ f3(j) \in Int
  BY FieldNumbers
<1>9. Switch(A(i), f3(i)) = Switch(A(j), f3(j)) /\ Switch(A(i), f3(i)) # "illegal"
  BY <1>1
<1>10. /\ f3(i) = f3(j) /\ f3(i) + 1 \in 1..8
       /\ OpImm(i) = A(i)[f3(i) + 1] /\ OpImm(j) = A(j)[f3(i) + 1]
  <2>1. /\ f3(i) = f3(j) /\ f3(i) + 1 \in DOMAIN A(i)
        /\ Switch(A(i), f3(i)) = A(i)[f3(i) + 1] /\ Switch(A(j), f3(j)) = A(j)[f3(j) + 1]
    BY <1>5, <1>8, <1>9, SwitchApart
  <2> QED
    BY <1>1, <1>6, <2>1
<1>11. Alike(i, j, 12..14)
  BY <1>10, FieldsTell
<1>12. CASE f3(i) + 1 \in {1, 3, 4, 5, 7, 8}
  BY <1>7, <1>10, <1>11, <1>12, SelectedBy
<1>13. CASE f3(i) + 1 = 2
  <2>1. OpImm(i) = left(i) /\ OpImm(j) = left(j)
    BY <1>6, <1>10, <1>13
  <2>2. OpImm(i) = "slli" /\ left(j) = "slli" /\ left(i) = "slli"
    BY <1>2, <2>1
  <2>3. codec("slli") = "i_sh7" /\ Alike(i, j, 27..31)
    BY <1>3, <2>2, WholeCodecs, FieldsTell
  <2> QED
    BY <1>11, <2>2, <2>3, SelectedBy
<1>14. CASE f3(i) + 1 = 6
  <2>1. OpImm(i) = right(i) /\ OpImm(j) = right(j)
    BY <1>6, <1>10, <1>14
  <2>2. OpImm(i) \in {"srli", "srai"} /\ Alike(i, j, 27..31)
    BY <1>2, <1>4, <2>1, FieldsTell
  <2>3. codec(OpImm(i)) = "i_sh7"
    BY <2>2, WholeCodecs
  <2> QED
    BY <1>11, <2>2, <2>3, SelectedBy
<1> QED
  BY <1>10, <1>12, <1>13, <1>14

(* of 32 bits too,                                                         *)
LEMMA OpImmWSelected ==
    ASSUME NEW i, NEW j, OpImmW(i) = OpImmW(j), OpImmW(i) # "illegal"
    PROVE  Selected(OpImmW(i), i, j)
<1> DEFINE left(w)  == When(f7(w) = 0, "slliw")
           right(w) == RightShift(f7(w), "srliw", 32, "sraiw")
           R(w) == {<<0, "addiw">>, <<1, left(w)>>, <<5, right(w)>>}
<1>1. OpImmW(i) = Case(Table(R(i)), f3(i)) /\ OpImmW(j) = Case(Table(R(j)), f3(j))
  BY DEF OpImmW, RightShift
<1>2. ASSUME NEW w
      PROVE  left(w) \in {"slliw", "illegal"} /\ right(w) \in {"srliw", "sraiw", "illegal"}
  BY ShiftKinds DEF When
<1>3. left(i) = "slliw" /\ left(j) = "slliw" => f7(i) = f7(j)
  BY DEF When
<1>4. right(i) = right(j) /\ right(i) # "illegal" => f7(i) = f7(j)
  BY ShiftRight
<1> HIDE DEF left, right
<1>5. \A a \in R(i), b \in R(j) : a[2] = b[2] => a[1] = b[1] \/ a[2] = "illegal"
  BY <1>2
<1>6. \A w : \A a \in R(w) : \/ a[1] = 0 /\ a[2] = "addiw"
                             \/ a[1] = 1 /\ a[2] = left(w)
                             \/ a[1] = 5 /\ a[2] = right(w)
  OBVIOUS
<1> HIDE DEF R
<1>7. Case(Table(R(i)), f3(i)) = Case(Table(R(j)), f3(j)) /\ Case(Table(R(i)), f3(i)) # "illegal"
  BY <1>1
<1>8. /\ f3(i) = f3(j)
      /\ \E a \in R(i) : a[1] = f3(i) /\ a[2] = Case(Table(R(i)), f3(i))
      /\ \E b \in R(j) : b[1] = f3(j) /\ b[2] = Case(Table(R(j)), f3(j))
  BY <1>5, <1>7, CaseApart
<1>9. PICK a \in R(i) : a[1] = f3(i) /\ a[2] = OpImmW(i)
  BY <1>1, <1>8
<1>10. PICK b \in R(j) : b[1] = f3(i) /\ b[2] = OpImmW(i)
  BY <1>1, <1>8
<1>11. Alike(i, j, 12..14)
  BY <1>8, FieldsTell
<1>12. CASE f3(i) = 0
  <2>1. OpImmW(i) = "addiw"
    BY <1>6, <1>9, <1>12
  <2>2. codec("addiw") = "i"
    BY WholeCodecs
  <2> QED
    BY <1>11, <2>1, <2>2, SelectedBy
<1>13. CASE f3(i) = 1
  <2>1. left(i) = OpImmW(i) /\ left(j) = OpImmW(i)
    BY <1>6, <1>9, <1>10, <1>13
  <2>2. OpImmW(i) = "slliw" /\ left(i) = "slliw" /\ left(j) = "slliw"
    BY <1>2, <2>1
  <2>3. codec("slliw") = "i_sh5" /\ Alike(i, j, 25..31)
    BY <1>3, <2>2, WholeCodecs, FieldsTell
  <2> QED
    BY <1>11, <2>2, <2>3, SelectedBy
<1>14. CASE f3(i) = 5
  <2>1. right(i) = OpImmW(i) /\ right(j) = OpImmW(i)
    BY <1>6, <1>9, <1>10, <1>14
  <2>2. OpImmW(i) \in {"srliw", "sraiw"} /\ Alike(i, j, 25..31)
    BY <1>2, <1>4, <2>1, FieldsTell
  <2>3. codec(OpImmW(i)) = "i_sh5"
    BY <2>2, WholeCodecs
  <2> QED
    BY <1>11, <2>2, <2>3, SelectedBy
<1> QED
  BY <1>6, <1>9, <1>12, <1>13, <1>14

(* and of 64 bits.                                                         *)
LEMMA OpImmDSelected ==
    ASSUME NEW i, NEW j, OpImmD(i) = OpImmD(j), OpImmD(i) # "illegal"
    PROVE  Selected(OpImmD(i), i, j)
<1> DEFINE left(w)  == When(Bits(w, 26, 6) = 0, "sllid")
           right(w) == RightShift(Bits(w, 26, 6), "srlid", 16, "sraid")
           R(w) == {<<0, "addid">>, <<1, left(w)>>, <<5, right(w)>>}
<1>1. OpImmD(i) = Case(Table(R(i)), f3(i)) /\ OpImmD(j) = Case(Table(R(j)), f3(j))
  BY DEF OpImmD, RightShift
<1>2. ASSUME NEW w
      PROVE  left(w) \in {"sllid", "illegal"} /\ right(w) \in {"srlid", "sraid", "illegal"}
  BY ShiftKinds DEF When
<1>3. left(i) = "sllid" /\ left(j) = "sllid" => Bits(i, 26, 6) = Bits(j, 26, 6)
  BY DEF When
<1>4. right(i) = right(j) /\ right(i) # "illegal" => Bits(i, 26, 6) = Bits(j, 26, 6)
  BY ShiftRight
<1> HIDE DEF left, right
<1>5. \A a \in R(i), b \in R(j) : a[2] = b[2] => a[1] = b[1] \/ a[2] = "illegal"
  BY <1>2
<1>6. \A w : \A a \in R(w) : \/ a[1] = 0 /\ a[2] = "addid"
                             \/ a[1] = 1 /\ a[2] = left(w)
                             \/ a[1] = 5 /\ a[2] = right(w)
  OBVIOUS
<1> HIDE DEF R
<1>7. Case(Table(R(i)), f3(i)) = Case(Table(R(j)), f3(j)) /\ Case(Table(R(i)), f3(i)) # "illegal"
  BY <1>1
<1>8. /\ f3(i) = f3(j)
      /\ \E a \in R(i) : a[1] = f3(i) /\ a[2] = Case(Table(R(i)), f3(i))
      /\ \E b \in R(j) : b[1] = f3(j) /\ b[2] = Case(Table(R(j)), f3(j))
  BY <1>5, <1>7, CaseApart
<1>9. PICK a \in R(i) : a[1] = f3(i) /\ a[2] = OpImmD(i)
  BY <1>1, <1>8
<1>10. PICK b \in R(j) : b[1] = f3(i) /\ b[2] = OpImmD(i)
  BY <1>1, <1>8
<1>11. Alike(i, j, 12..14)
  BY <1>8, FieldsTell
<1>12. CASE f3(i) = 0
  <2>1. OpImmD(i) = "addid"
    BY <1>6, <1>9, <1>12
  <2>2. codec("addid") = "i"
    BY WholeCodecs
  <2> QED
    BY <1>11, <2>1, <2>2, SelectedBy
<1>13. CASE f3(i) = 1
  <2>1. left(i) = OpImmD(i) /\ left(j) = OpImmD(i)
    BY <1>6, <1>9, <1>10, <1>13
  <2>2. OpImmD(i) = "sllid" /\ left(i) = "sllid" /\ left(j) = "sllid"
    BY <1>2, <2>1
  <2>3. codec("sllid") = "i_sh6" /\ Alike(i, j, 26..31)
    BY <1>3, <2>2, WholeCodecs, FieldsTell
  <2> QED
    BY <1>11, <2>2, <2>3, SelectedBy
<1>14. CASE f3(i) = 5
  <2>1. right(i) = OpImmD(i) /\ right(j) = OpImmD(i)
    BY <1>6, <1>9, <1>10, <1>14
  <2>2. OpImmD(i) \in {"srlid", "sraid"} /\ Alike(i, j, 26..31)
    BY <1>2, <1>4, <2>1, FieldsTell
  <2>3. codec(OpImmD(i)) = "i_sh6"
    BY <2>2, WholeCodecs
  <2> QED
    BY <1>11, <2>2, <2>3, SelectedBy
<1> QED
  BY <1>6, <1>9, <1>12, <1>13, <1>14

(* Instructions without operands, the tables that select them, in the order*)
(* of the nested switches, and the fields they look at.                    *)
Calls      == {"ecall", "ebreak", "uret"}
Returns    == {"hret", "mret", "dret"}
CallRows   == {<<0, "ecall">>, <<32, "ebreak">>, <<64, "uret">>}
CallOp(w)  == Case(Table(CallRows), rs12(w))
SretOp(w)  == When(Bits(w, 15, 5) = 0, "sret")
WfiOp(w)   == When(Bits(w, 15, 5) = 0, "wfi")
SuperRows(w) == {<<2, SretOp(w)>>, <<4, "sfence.vm">>, <<5, WfiOp(w)>>}
SuperOp(w) == Case(Table(SuperRows(w)), rs2(w))
HretOp(w)  == When(rs12(w) = 64, "hret")
MretOp(w)  == When(rs12(w) = 64, "mret")
DretOp(w)  == When(rs12(w) = 576, "dret")
PrivRows(w) == {<<0, CallOp(w)>>, <<256, SuperOp(w)>>, <<288, "sfence.vma">>,
                <<512, HretOp(w)>>, <<768, MretOp(w)>>, <<1952, DretOp(w)>>}
PrivKey(w) == 32 * f7(w) + Bits(w, 7, 5)
PrivOps == {"ecall", "ebreak", "uret", "sret", "sfence.vm", "wfi", "sfence.vma", "hret", "mret",
            "dret"}

(* The table of the privileged instructions, with its inner tables.        *)
LEMMA PrivilegedRows ==
    ASSUME NEW w
    PROVE  /\ Privileged(w) = Case(Table(PrivRows(w)), PrivKey(w))
           /\ CallOp(w) \in {"ecall", "ebreak", "uret", "illegal"}
           /\ SretOp(w) \in {"sret", "illegal"} /\ WfiOp(w) \in {"wfi", "illegal"}
           /\ SuperOp(w) \in {"sret", "sfence.vm", "wfi", "illegal"}
           /\ HretOp(w) \in {"hret", "illegal"} /\ MretOp(w) \in {"mret", "illegal"}
           /\ DretOp(w) \in {"dret", "illegal"}
           /\ Privileged(w) \in PrivOps \cup {"illegal"}
<1>1. Privileged(w) = Case(Table(PrivRows(w)), PrivKey(w))
  BY DEF Privileged, PrivRows, PrivKey, CallRows, CallOp, SretOp, WfiOp, SuperRows, SuperOp,
         HretOp, MretOp, DretOp
<1>2. /\ SretOp(w) \in {"sret", "illegal"} /\ WfiOp(w) \in {"wfi", "illegal"}
      /\ HretOp(w) \in {"hret", "illegal"} /\ MretOp(w) \in {"mret", "illegal"}
      /\ DretOp(w) \in {"dret", "illegal"}
  BY DEF SretOp, WfiOp, HretOp, MretOp, DretOp, When
<1>3. CallOp(w) \in {"ecall", "ebreak", "uret", "illegal"}
  <2> DEFINE S == {"ecall", "ebreak", "uret", "illegal"}
  <2>1. (\A row \in CallRows : row[2] \in S) /\ "illegal" \in S
    BY DEF CallRows
  <2> HIDE DEF S
  <2>2. Case(Table(CallRows), rs12(w)) \in S
    BY <2>1, CaseIn
  <2> QED
    BY <2>2 DEF S, CallOp
<1>4. SuperOp(w) \in {"sret", "sfence.vm", "wfi", "illegal"}
  <2> DEFINE S == {"sret", "sfence.vm", "wfi", "illegal"}
  <2>1. (\A row \in SuperRows(w) : row[2] \in S) /\ "illegal" \in S
    BY <1>2 DEF SuperRows
  <2> HIDE DEF S
  <2>2. Case(Table(SuperRows(w)), rs2(w)) \in S
    BY <2>1, CaseIn
  <2> QED
    BY <2>2 DEF S, SuperOp
<1>5. Privileged(w) \in PrivOps \cup {"illegal"}
  <2> DEFINE S == PrivOps \cup {"illegal"}
  <2>1. (\A row \in PrivRows(w) : row[2] \in S) /\ "illegal" \in S
    BY <1>2, <1>3, <1>4 DEF PrivRows, PrivOps
  <2> HIDE DEF S
  <2>2. Case(Table(PrivRows(w)), PrivKey(w)) \in S
    BY <2>1, CaseIn
  <2> QED
    BY <1>1, <2>2 DEF S
<1> QED
  BY <1>1, <1>2, <1>3, <1>4, <1>5

(* The case of an instruction without operands fixes all of the word.      *)
LEMMA PrivilegedSelected ==
    ASSUME NEW i, NEW j, Privileged(i) = Privileged(j), Privileged(i) # "illegal",
           Alike(i, j, 12..14)
    PROVE  Selected(Privileged(i), i, j)
<1> DEFINE op == Privileged(i)
<1>1. \A a \in PrivRows(i), b \in PrivRows(j) : a[2] = b[2] => a[1] = b[1] \/ a[2] = "illegal"
  <2>1. \A w : /\ CallOp(w) \in {"ecall", "ebreak", "uret", "illegal"}
               /\ SuperOp(w) \in {"sret", "sfence.vm", "wfi", "illegal"}
               /\ HretOp(w) \in {"hret", "illegal"} /\ MretOp(w) \in {"mret", "illegal"}
               /\ DretOp(w) \in {"dret", "illegal"}
    BY PrivilegedRows
  <2> QED
    BY <2>1 DEF PrivRows
<1>2. /\ Case(Table(PrivRows(i)), PrivKey(i)) = Case(Table(PrivRows(j)), PrivKey(j))
      /\ Case(Table(PrivRows(i)), PrivKey(i)) # "illegal"
  BY PrivilegedRows
<1>3. /\ PrivKey(i) = PrivKey(j)
      /\ \E a \in PrivRows(i) : a[1] = PrivKey(i) /\ a[2] = op
      /\ \E b \in PrivRows(j) : b[1] = PrivKey(i) /\ b[2] = op
  <2>1. /\ PrivKey(i) = PrivKey(j)
        /\ \E a \in PrivRows(i) : /\ a[1] = PrivKey(i)
                                  /\ a[2] = Case(Table(PrivRows(i)), PrivKey(i))
        /\ \E b \in PrivRows(j) : /\ b[1] = PrivKey(j)
                                  /\ b[2] = Case(Table(PrivRows(j)), PrivKey(j))
    BY <1>1, <1>2, CaseApart
  <2> QED
    BY <2>1, PrivilegedRows
<1>4. Alike(i, j, 7..11) /\ Alike(i, j, 25..31)
  <2>1. /\ f7(i) \in Nat /\ f7(j) \in Nat /\ Bits(i, 7, 5) \in 0..31 /\ Bits(j, 7, 5) \in 0..31
    BY FieldNumbers
  <2>2. f7(i) = f7(j) /\ Bits(i, 7, 5) = Bits(j, 7, 5)
    BY <1>3, <2>1 DEF PrivKey
  <2> QED
    BY <2>2, FieldsTell
<1>5. \/ PrivKey(i) = 0 /\ op = CallOp(i) /\ op = CallOp(j)
      \/ PrivKey(i) = 256 /\ op = SuperOp(i) /\ op = SuperOp(j)
      \/ op = "sfence.vma"
      \/ op = HretOp(i) /\ op = HretOp(j)
      \/ op = MretOp(i) /\ op = MretOp(j)
      \/ op = DretOp(i) /\ op = DretOp(j)
  BY <1>3 DEF PrivRows
<1>6. ASSUME codec(op) = "none", Alike(i, j, 15..24) PROVE Selected(op, i, j)
  BY <1>4, <1>6, SelectedBy
<1>7. op # "illegal"
  OBVIOUS
<1> SUFFICES Selected(op, i, j)
  OBVIOUS
<1> HIDE DEF op
<1>8. CASE op = CallOp(i) /\ op = CallOp(j)
  <2>1. op \in {"ecall", "ebreak", "uret"}
    BY <1>7, <1>8, PrivilegedRows
  <2>2. codec(op) = "none"
    BY <2>1, WholeCodecs
  <2>3. \A a, b \in CallRows : a[2] = b[2] => a[1] = b[1] \/ a[2] = "illegal"
    BY DEF CallRows
  <2>4. /\ Case(Table(CallRows), rs12(i)) = Case(Table(CallRows), rs12(j))
        /\ Case(Table(CallRows), rs12(i)) # "illegal"
    BY <1>7, <1>8 DEF CallOp
  <2>5. rs12(i) = rs12(j)
    BY <2>3, <2>4, CaseApart
  <2> QED
    BY <1>6, <2>2, <2>5, FieldsTell
<1>9. CASE op = SuperOp(i) /\ op = SuperOp(j)
  <2>1. op \in {"sret", "sfence.vm", "wfi"}
    BY <1>7, <1>9, PrivilegedRows
  <2>2. CASE op = "sfence.vm"
    <3>1. codec(op) = "r"
      BY <2>2, WholeCodecs
    <3> QED
      BY <1>4, <3>1, SelectedBy
  <2>3. CASE op # "sfence.vm"
    <3>1. \A a \in SuperRows(i), b \in SuperRows(j) :
             a[2] = b[2] => a[1] = b[1] \/ a[2] = "illegal"
      BY PrivilegedRows DEF SuperRows
    <3>8. /\ Case(Table(SuperRows(i)), rs2(i)) = Case(Table(SuperRows(j)), rs2(j))
          /\ Case(Table(SuperRows(i)), rs2(i)) # "illegal"
      BY <1>7, <1>9 DEF SuperOp
    <3>2. /\ rs2(i) = rs2(j)
          /\ \E a \in SuperRows(i) : a[2] = op
          /\ \E b \in SuperRows(j) : b[2] = op
      <4>1. /\ rs2(i) = rs2(j)
            /\ \E a \in SuperRows(i) : a[1] = rs2(i) /\ a[2] = Case(Table(SuperRows(i)), rs2(i))
            /\ \E b \in SuperRows(j) : b[1] = rs2(j) /\ b[2] = Case(Table(SuperRows(j)), rs2(j))
        BY <3>1, <3>8, CaseApart
      <4> QED
        BY <1>9, <4>1 DEF SuperOp
    <3>3. /\ SretOp(i) = op \/ WfiOp(i) = op
          /\ SretOp(j) = op \/ WfiOp(j) = op
      BY <2>3, <3>2 DEF SuperRows
    <3>4. Bits(i, 15, 5) = 0 /\ Bits(j, 15, 5) = 0
      BY <1>7, <3>3 DEF SretOp, WfiOp, When
    <3>5. Alike(i, j, 20..24) /\ Alike(i, j, 15..19)
      BY <3>2, <3>4, FieldsTell
    <3>6. Alike(i, j, 15..24)
      BY <3>5 DEF Alike
    <3>7. codec(op) = "none"
      BY <2>1, <2>3, WholeCodecs
    <3> QED
      BY <1>6, <3>6, <3>7
  <2> QED
    BY <2>2, <2>3
<1>10. CASE op = "sfence.vma"
  <2>1. codec(op) = "r"
    BY <1>10, WholeCodecs
  <2> QED
    BY <1>4, <2>1, SelectedBy
<1>11. CASE \/ op = HretOp(i) /\ op = HretOp(j)
            \/ op = MretOp(i) /\ op = MretOp(j)
            \/ op = DretOp(i) /\ op = DretOp(j)
  <2>1. op \in {"hret", "mret", "dret"}
    BY <1>7, <1>11, PrivilegedRows
  <2>2. codec(op) = "none"
    BY <2>1, WholeCodecs
  <2>3. rs12(i) = rs12(j)
    BY <1>7, <1>11 DEF HretOp, MretOp, DretOp, When
  <2> QED
    BY <1>6, <2>2, <2>3, FieldsTell
<1> QED
  BY <1>5, <1>8, <1>9, <1>10, <1>11

(* So SYSTEM instructions with one opcode differ in operands only.         *)
LEMMA SystemSelected ==
    ASSUME NEW i, NEW j, System(i) = System(j), System(i) # "illegal"
    PROVE  Selected(System(i), i, j)
<1> DEFINE private(w) == Privileged(w)
           A(w) == <<private(w), "csrrw", "csrrs", "csrrc", "illegal", "csrrwi", "csrrsi",
                     "csrrci">>
<1>1. System(i) = Switch(A(i), f3(i)) /\ System(j) = Switch(A(j), f3(j))
  BY DEF System
<1>2. \A w : private(w) \in PrivOps \cup {"illegal"}
  BY PrivilegedRows
<1> HIDE DEF private
<1>3. \A a \in DOMAIN A(i), b \in DOMAIN A(j) : A(i)[a] = A(j)[b] => a = b \/ A(i)[a] = "illegal"
  BY <1>2 DEF PrivOps
<1>4. \A w : DOMAIN A(w) = 1..8 /\ A(w)[1] = private(w) /\ A(w)[5] = "illegal"
  OBVIOUS
<1>5. \A a \in {2, 3, 4, 6, 7, 8} : codec(A(i)[a]) = "i_csr"
  BY WholeCodecs
<1> HIDE DEF A
<1>6. f3(i) \in Int /\ f3(j) \in Int
  BY FieldNumbers
<1>7. Switch(A(i), f3(i)) = Switch(A(j), f3(j)) /\ Switch(A(i), f3(i)) # "illegal"
  BY <1>1
<1>8. /\ f3(i) = f3(j) /\ f3(i) + 1 \in 1..8
      /\ System(i) = A(i)[f3(i) + 1] /\ System(j) = A(j)[f3(i) + 1]
  <2>1. /\ f3(i) = f3(j) /\ f3(i) + 1 \in DOMAIN A(i)
        /\ Switch(A(i), f3(i)) = A(i)[f3(i) + 1] /\ Switch(A(j), f3(j)) = A(j)[f3(j) + 1]
    BY <1>3, <1>6, <1>7, SwitchApart
  <2> QED
    BY <1>1, <1>4, <2>1
<1>9. Alike(i, j, 12..14)
  BY <1>8, FieldsTell
<1>10. CASE f3(i) + 1 = 1
  <2>1. System(i) = Privileged(i) /\ System(j) = Privileged(j)
    BY <1>4, <1>8, <1>10 DEF private
  <2> QED
    BY <1>9, <2>1, PrivilegedSelected
<1>11. CASE f3(i) + 1 \in {2, 3, 4, 6, 7, 8}
  BY <1>5, <1>8, <1>9, <1>11, SelectedBy
<1>12. f3(i) + 1 # 5
  BY <1>4, <1>8
<1> QED
  BY <1>8, <1>10, <1>11, <1>12

-----------------------------------------------------------------------------
(***************************************************************************)
(* Names put together from a stem and a suffix.                            *)
(***************************************************************************)
(* A stem and a suffix that give the name.                                 *)
Made(op, stem, suffix) == <<stem, suffix>> \in Parts /\ op = stem \o suffix

(* No name has two stems, and a whole name has none.                       *)
LEMMA MadeOnce ==
    ASSUME NEW op, NEW a, NEW b, Made(op, a, b)
    PROVE  /\ op \notin Whole
           /\ \A c, d : Made(op, c, d) => a = c /\ b = d
<1> DEFINE p == <<a, b>>
<1>1. p \in Parts /\ p[1] = a /\ p[2] = b /\ op = a \o b
  BY DEF Made
<1>2. p[1] \o p[2] \notin Whole /\ \A q \in Parts : p[1] \o p[2] = q[1] \o q[2] => p = q
  BY <1>1, NamesApart
<1>3. ASSUME NEW c, NEW d, Made(op, c, d) PROVE a = c /\ b = d
  <2> DEFINE q == <<c, d>>
  <2>1. q \in Parts /\ q[1] = c /\ q[2] = d /\ op = c \o d
    BY <1>3 DEF Made
  <2> HIDE DEF p, q
  <2>2. p[1] \o p[2] = q[1] \o q[2]
    BY <1>1, <2>1
  <2>3. p = q
    BY <1>2, <2>1, <2>2
  <2> QED
    BY <1>1, <2>1, <2>3
<1> QED
  BY <1>1, <1>2, <1>3

(* The pairs of stem and suffix that the switches put together.            *)
LEMMA PartsListed ==
    /\ \A n \in NarrowAlu : \A s \in {"w", "d"} : <<RegAlu[n], s>> \in Parts
    /\ \A n \in DOMAIN AmoStem : \A s \in {".w", ".d", ".q"} : <<AmoStem[n], s>> \in Parts
    /\ \A a \in FloatStems : \A s \in FpSuffix : <<a, s>> \in Parts
    /\ \A s \in IntSuffix : <<"fcvt", s>> \in Parts
    /\ \A a \in FpSuffix : \A s \in FpSuffix \cup IntSuffix : <<"fcvt" \o a, s>> \in Parts
    /\ \A a \in IntSuffix : \A s \in FpSuffix : <<"fcvt" \o a, s>> \in Parts
    /\ \A a \in FpSuffix : <<"fmv" \o a, ".x">> \in Parts
<1>1. \A n \in NarrowAlu : \A s \in {"w", "d"} : <<RegAlu[n], s>> \in Parts
  BY DEF Parts
<1>2. \A n \in DOMAIN AmoStem : \A s \in {".w", ".d", ".q"} : <<AmoStem[n], s>> \in Parts
  BY DEF Parts
<1>3. \A a \in FloatStems : \A s \in FpSuffix : <<a, s>> \in Parts
  BY DEF Parts
<1>4. \A s \in IntSuffix : <<"fcvt", s>> \in Parts
  BY DEF Parts
<1>5. \A a \in FpSuffix : "fcvt" \o a \in Names({"fcvt"}, FpSuffix)
  BY DEF Names
<1>6. \A a \in IntSuffix : "fcvt" \o a \in Names({"fcvt"}, IntSuffix)
  BY DEF Names
<1>7. \A a \in FpSuffix : "fmv" \o a \in Names({"fmv"}, FpSuffix)
  BY DEF Names
<1>8. \A a \in FpSuffix : \A s \in FpSuffix \cup IntSuffix : <<"fcvt" \o a, s>> \in Parts
  BY <1>5 DEF Parts
<1>9. \A a \in IntSuffix : \A s \in FpSuffix : <<"fcvt" \o a, s>> \in Parts
  BY <1>6 DEF Parts
<1>10. \A a \in FpSuffix : <<"fmv" \o a, ".x">> \in Parts
  BY <1>7 DEF Parts
<1> QED
  BY <1>1, <1>2, <1>3, <1>4, <1>8, <1>9, <1>10

(* Stems are whole names.                                                  *)
LEMMA StemsWhole ==
    /\ FloatStems \subseteq Whole
    /\ \A n \in DOMAIN RegAlu : RegAlu[n] \in Whole
    /\ \A n \in DOMAIN AmoStem : AmoStem[n] \in Whole
  BY DEF Whole

(* The codecs of the names put together.                                   *)
LEMMA PartCodecs ==
    /\ \A n \in DOMAIN RegAlu : codec(RegAlu[n]) = "r"
    /\ \A n \in NarrowAlu : \A s \in {"w", "d"} : codec(RegAlu[n] \o s) = "r"
    /\ \A s \in {".w", ".d", ".q"} : codec("lr" \o s) = "r_l"
    /\ \A n \in DOMAIN AmoStem \ {2} : \A s \in {".w", ".d", ".q"} : codec(AmoStem[n] \o s) = "r_a"
    /\ \A a \in {"fmadd", "fmsub", "fnmsub", "fnmadd"} : \A s \in FpSuffix : codec(a \o s) = "r4_m"
    /\ \A a \in {"fadd", "fsub", "fmul", "fdiv", "fsqrt"} : \A s \in FpSuffix :
          codec(a \o s) = "r_m"
    /\ \A a \in {"fsgnj", "fsgnjn", "fsgnjx", "fmin", "fmax", "fle", "flt", "feq", "fmv.x",
                 "fclass"} : \A s \in FpSuffix : codec(a \o s) = "r"
    /\ \A a, s \in FpSuffix : a # s => codec(("fcvt" \o a) \o s) = "r_m"
    /\ \A a \in IntSuffix : \A s \in FpSuffix : codec(("fcvt" \o a) \o s) = "r_m"
    /\ \A a \in FpSuffix : \A s \in IntSuffix : codec(("fcvt" \o a) \o s) = "r_m"
    /\ \A a \in FpSuffix : codec(("fmv" \o a) \o ".x") = "r"
<1> DEFINE Coded(names, c) == \A op \in names : codec(op) = c
<1>1. ASSUME NEW row \in IntegerRows \cup SystemRows \cup FloatRows PROVE Coded(row[3], row[1])
  BY RowCodec
<1>2. ASSUME NEW S, NEW T, NEW c, Coded(Names(S, T), c)
      PROVE  \A a \in S : \A s \in T : codec(a \o s) = c
  BY <1>2, Suffixed
<1> DEFINE alu == {RegAlu[n] : n \in DOMAIN RegAlu}
           narrow == {RegAlu[n] : n \in NarrowAlu}
           amo == {AmoStem[n] : n \in DOMAIN AmoStem \ {2}}
           wide == {"fcvt" \o s[1] \o s[2] : s \in {p \in FpSuffix \X FpSuffix : p[1] # p[2]}}
<1> HIDE DEF Coded
<1>3. Coded(alu \cup Names(narrow, {"w", "d"}), "r")
  <2> DEFINE row == <<"r", rd_rs1_rs2, alu \cup Names(narrow, {"w", "d"})>>
  <2>1. row \in IntegerRows /\ row[1] = "r" /\ row[3] = alu \cup Names(narrow, {"w", "d"})
    BY DEF IntegerRows
  <2> HIDE DEF row
  <2>2. Coded(row[3], row[1])
    BY <1>1, <2>1
  <2> HIDE DEF alu, narrow
  <2> QED
    BY <2>1, <2>2
<1>4. /\ Coded(Names({"lr"}, {".w", ".d", ".q"}), "r_l")
      /\ Coded(Names(amo, {".w", ".d", ".q"}), "r_a")
  <2> DEFINE lr == Names({"lr"}, {".w", ".d", ".q"})
             all == Names(amo, {".w", ".d", ".q"})
             row == <<"r_l", <<"aq", "rl", "rd", "(rs1)">>, lr>>
             ram == <<"r_a", <<"aq", "rl", "rd", "rs2", "(rs1)">>, all>>
  <2>1. row \in SystemRows /\ ram \in SystemRows
    BY DEF SystemRows
  <2> HIDE DEF lr, all
  <2>2. row[1] = "r_l" /\ row[3] = lr /\ ram[1] = "r_a" /\ ram[3] = all
    OBVIOUS
  <2> HIDE DEF row, ram
  <2>3. Coded(row[3], row[1]) /\ Coded(ram[3], ram[1])
    BY <1>1, <2>1
  <2>4. Coded(lr, "r_l") /\ Coded(all, "r_a")
    BY <2>2, <2>3
  <2> QED
    BY <2>4 DEF lr, all
<1>5. /\ Coded(Names({"fmadd", "fmsub", "fnmsub", "fnmadd"}, FpSuffix), "r4_m")
      /\ Coded(Names({"fadd", "fsub", "fmul", "fdiv"}, FpSuffix), "r_m")
      /\ Coded(Names({"fsgnj", "fsgnjn", "fsgnjx", "fmin", "fmax"}, FpSuffix), "r")
      /\ Coded(Names({"fsqrt"}, FpSuffix) \cup wide, "r_m")
      /\ Coded(Names({"fle", "flt", "feq"}, FpSuffix), "r")
      /\ Coded(Names(Names({"fcvt"}, {".w", ".wu", ".l", ".lu"}), FpSuffix), "r_m")
      /\ Coded(Names(Names({"fcvt"}, FpSuffix), {".w", ".wu", ".l", ".lu"}), "r_m")
      /\ Coded(Names({"fmv.x", "fclass"}, FpSuffix), "r")
      /\ Coded(Names(Names({"fmv"}, FpSuffix), {".x"}), "r")
  <2> DEFINE fused   == Names({"fmadd", "fmsub", "fnmsub", "fnmadd"}, FpSuffix)
             rounded == Names({"fadd", "fsub", "fmul", "fdiv"}, FpSuffix)
             exact   == Names({"fsgnj", "fsgnjn", "fsgnjx", "fmin", "fmax"}, FpSuffix)
             unary   == Names({"fsqrt"}, FpSuffix) \cup wide
             tests   == Names({"fle", "flt", "feq"}, FpSuffix)
             toInt   == Names(Names({"fcvt"}, {".w", ".wu", ".l", ".lu"}), FpSuffix)
             fromInt == Names(Names({"fcvt"}, FpSuffix), {".w", ".wu", ".l", ".lu"})
             toBits  == Names({"fmv.x", "fclass"}, FpSuffix)
             ofBits  == Names(Names({"fmv"}, FpSuffix), {".x"})
             goal == /\ Coded(fused, "r4_m") /\ Coded(rounded, "r_m") /\ Coded(exact, "r")
                     /\ Coded(unary, "r_m") /\ Coded(tests, "r") /\ Coded(toInt, "r_m")
                     /\ Coded(fromInt, "r_m") /\ Coded(toBits, "r") /\ Coded(ofBits, "r")
  <2>1. /\ <<"r4_m", <<"rm", "frd", "frs1", "frs2", "frs3">>, fused>> \in FloatRows
        /\ <<"r_m", <<"rm", "frd", "frs1", "frs2">>, rounded>> \in FloatRows
        /\ <<"r", fp3, exact>> \in FloatRows
        /\ <<"r_m", <<"rm", "frd", "frs1">>, unary>> \in FloatRows
        /\ <<"r", <<"rd", "frs1", "frs2">>, tests>> \in FloatRows
        /\ <<"r_m", <<"rm", "rd", "frs1">>, toInt>> \in FloatRows
        /\ <<"r_m", <<"rm", "frd", "rs1">>, fromInt>> \in FloatRows
        /\ <<"r", <<"rd", "frs1">>, toBits>> \in FloatRows
        /\ <<"r", <<"frd", "rs1">>, ofBits>> \in FloatRows
    BY DEF FloatRows
  <2> SUFFICES goal
    OBVIOUS
  <2> HIDE DEF fused, rounded, exact, unary, tests, toInt, fromInt, toBits, ofBits
  <2>2. ASSUME NEW c, NEW form, NEW names, <<c, form, names>> \in FloatRows PROVE Coded(names, c)
    <3> DEFINE row == <<c, form, names>>
    <3>1. row \in FloatRows /\ row[1] = c /\ row[3] = names
      BY <2>2
    <3> HIDE DEF row
    <3> QED
      BY <1>1, <3>1
  <2> QED
    BY <2>1, <2>2
<1>6. /\ Coded(alu, "r") /\ Coded(Names(narrow, {"w", "d"}), "r")
      /\ Coded(Names({"fsqrt"}, FpSuffix), "r_m") /\ Coded(wide, "r_m")
  BY <1>3, <1>5 DEF Coded
<1>7. \A n \in DOMAIN RegAlu : codec(RegAlu[n]) = "r"
  BY <1>6 DEF Coded
<1>8. \A n \in NarrowAlu : \A s \in {"w", "d"} : codec(RegAlu[n] \o s) = "r"
  <2>1. \A a \in narrow : \A s \in {"w", "d"} : codec(a \o s) = "r"
    BY <1>2, <1>6, SMTT(60)
  <2> QED
    BY <2>1
<1>9. \A s \in {".w", ".d", ".q"} : codec("lr" \o s) = "r_l"
  <2>1. \A a \in {"lr"} : \A s \in {".w", ".d", ".q"} : codec(a \o s) = "r_l"
    BY <1>2, <1>4
  <2> QED
    BY <2>1
<1>10. \A n \in DOMAIN AmoStem \ {2} : \A s \in {".w", ".d", ".q"} : codec(AmoStem[n] \o s) = "r_a"
  <2>1. \A a \in amo : \A s \in {".w", ".d", ".q"} : codec(a \o s) = "r_a"
    BY <1>2, <1>4
  <2> QED
    BY <2>1
<1>11. \A a \in {"fmadd", "fmsub", "fnmsub", "fnmadd"} : \A s \in FpSuffix : codec(a \o s) = "r4_m"
  BY <1>2, <1>5
<1>12. \A a \in {"fadd", "fsub", "fmul", "fdiv", "fsqrt"} : \A s \in FpSuffix :
          codec(a \o s) = "r_m"
  <2>1. \A a \in {"fadd", "fsub", "fmul", "fdiv"} : \A s \in FpSuffix : codec(a \o s) = "r_m"
    BY <1>2, <1>5
  <2>2. \A a \in {"fsqrt"} : \A s \in FpSuffix : codec(a \o s) = "r_m"
    BY <1>2, <1>6
  <2> QED
    BY <2>1, <2>2
<1>13. \A a \in {"fsgnj", "fsgnjn", "fsgnjx", "fmin", "fmax", "fle", "flt", "feq", "fmv.x",
                 "fclass"} : \A s \in FpSuffix : codec(a \o s) = "r"
  <2>1. \A a \in {"fsgnj", "fsgnjn", "fsgnjx", "fmin", "fmax"} :
           \A s \in FpSuffix : codec(a \o s) = "r"
    BY <1>2, <1>5
  <2>2. \A a \in {"fle", "flt", "feq"} : \A s \in FpSuffix : codec(a \o s) = "r"
    BY <1>2, <1>5
  <2>3. \A a \in {"fmv.x", "fclass"} : \A s \in FpSuffix : codec(a \o s) = "r"
    BY <1>2, <1>5
  <2> QED
    BY <2>1, <2>2, <2>3
<1>14. \A a, s \in FpSuffix : a # s => codec(("fcvt" \o a) \o s) = "r_m"
  <2> SUFFICES ASSUME NEW a \in FpSuffix, NEW s \in FpSuffix, a # s
               PROVE  codec(("fcvt" \o a) \o s) = "r_m"
    OBVIOUS
  <2> DEFINE q == <<a, s>>
  <2>1. q \in {p \in FpSuffix \X FpSuffix : p[1] # p[2]} /\ q[1] = a /\ q[2] = s
    OBVIOUS
  <2> HIDE DEF q
  <2>2. ("fcvt" \o a) \o s \in wide
    BY <2>1
  <2> QED
    BY <1>6, <2>2 DEF Coded
<1>15. \A a \in IntSuffix : \A s \in FpSuffix : codec(("fcvt" \o a) \o s) = "r_m"
  <2>1. \A b \in Names({"fcvt"}, IntSuffix) : \A s \in FpSuffix : codec(b \o s) = "r_m"
    BY <1>2, <1>5 DEF IntSuffix
  <2>2. \A a \in IntSuffix : "fcvt" \o a \in Names({"fcvt"}, IntSuffix)
    BY DEF Names
  <2> QED
    BY <2>1, <2>2
<1>16. \A a \in FpSuffix : \A s \in IntSuffix : codec(("fcvt" \o a) \o s) = "r_m"
  <2>1. \A b \in Names({"fcvt"}, FpSuffix) : \A s \in IntSuffix : codec(b \o s) = "r_m"
    BY <1>2, <1>5 DEF IntSuffix
  <2>2. \A a \in FpSuffix : "fcvt" \o a \in Names({"fcvt"}, FpSuffix)
    BY DEF Names
  <2> QED
    BY <2>1, <2>2
<1>17. \A a \in FpSuffix : codec(("fmv" \o a) \o ".x") = "r"
  <2>1. \A b \in Names({"fmv"}, FpSuffix) : \A s \in {".x"} : codec(b \o s) = "r"
    BY <1>2, <1>5
  <2>2. \A a \in FpSuffix : "fmv" \o a \in Names({"fmv"}, FpSuffix)
    BY DEF Names
  <2> QED
    BY <2>1, <2>2
<1> QED
  BY <1>7, <1>8, <1>9, <1>10, <1>11, <1>12, <1>13, <1>14, <1>15, <1>16, <1>17

(* The tables name each case differently.                                  *)
LEMMA TableApart ==
    ASSUME NEW R, \A a, b \in R : a[2] = b[2] => a[1] = b[1],
           NEW n \in DOMAIN Table(R), NEW m \in DOMAIN Table(R), Table(R)[n] = Table(R)[m]
    PROVE  n = m
<1>1. \E a \in R : a[1] = n /\ a[2] = Table(R)[n]
  BY TableValue
<1>2. \E b \in R : b[1] = m /\ b[2] = Table(R)[m]
  BY TableValue
<1> QED
  BY <1>1, <1>2

(* No two codes stand for one name.                                        *)
LEMMA NamesOnce ==
    /\ \A n, m \in DOMAIN RegAlu : RegAlu[n] = RegAlu[m] => n = m
    /\ \A n, m \in DOMAIN AmoStem : AmoStem[n] = AmoStem[m] => n = m
    /\ \A n, m \in DOMAIN AmoWidth : AmoWidth[n] = AmoWidth[m] => n = m
    /\ \A n, m \in DOMAIN FpWidth : FpWidth[n] = FpWidth[m] => n = m
    /\ \A n, m \in 1..4 : IntType[n] = IntType[m] => n = m
<1>1. \A n, m \in DOMAIN RegAlu : RegAlu[n] = RegAlu[m] => n = m
  <2> DEFINE R == {<<0, "add">>, <<1, "sll">>, <<2, "slt">>, <<3, "sltu">>, <<4, "xor">>,
                 <<5, "srl">>, <<6, "or">>, <<7, "and">>, <<8, "mul">>, <<9, "mulh">>,
                 <<10, "mulhsu">>, <<11, "mulhu">>, <<12, "div">>, <<13, "divu">>,
                 <<14, "rem">>, <<15, "remu">>, <<256, "sub">>, <<261, "sra">>}
  <2>1. RegAlu = Table(R)
    BY DEF RegAlu
  <2>2. \A a, b \in R : a[2] = b[2] => a[1] = b[1]
    OBVIOUS
  <2> HIDE DEF R
  <2> QED
    BY <2>1, <2>2, TableApart
<1>2. \A n, m \in DOMAIN AmoStem : AmoStem[n] = AmoStem[m] => n = m
  <2> DEFINE R == {<<0, "amoadd">>, <<1, "amoswap">>, <<2, "lr">>, <<3, "sc">>, <<4, "amoxor">>,
                  <<8, "amoor">>, <<12, "amoand">>, <<16, "amomin">>, <<20, "amomax">>,
                  <<24, "amominu">>, <<28, "amomaxu">>}
  <2>1. AmoStem = Table(R)
    BY DEF AmoStem
  <2>2. \A a, b \in R : a[2] = b[2] => a[1] = b[1]
    OBVIOUS
  <2> HIDE DEF R
  <2> QED
    BY <2>1, <2>2, TableApart
<1>3. \A n, m \in DOMAIN AmoWidth : AmoWidth[n] = AmoWidth[m] => n = m
  <2> DEFINE R == {<<2, ".w">>, <<3, ".d">>, <<4, ".q">>}
  <2>1. AmoWidth = Table(R)
    BY DEF AmoWidth
  <2>2. \A a, b \in R : a[2] = b[2] => a[1] = b[1]
    OBVIOUS
  <2> HIDE DEF R
  <2> QED
    BY <2>1, <2>2, TableApart
<1>4. \A n, m \in DOMAIN FpWidth : FpWidth[n] = FpWidth[m] => n = m
  BY Widths DEF Case
<1>5. \A n, m \in 1..4 : IntType[n] = IntType[m] => n = m
  BY DEF IntType
<1> QED
  BY <1>1, <1>2, <1>3, <1>4, <1>5

(* OP is selected by funct7 and funct3.                                    *)
LEMMA OpSelected ==
    ASSUME NEW i, NEW j, Op(i) = Op(j), Op(i) # "illegal"
    PROVE  Selected(Op(i), i, j)
<1> DEFINE n(w) == 8 * f7(w) + f3(w)
<1>1. n(i) \in DOMAIN RegAlu /\ Op(i) = RegAlu[n(i)]
  BY DEF Op, Case
<1>2. n(j) \in DOMAIN RegAlu /\ Op(j) = RegAlu[n(j)]
  BY DEF Op, Case
<1>3. n(i) = n(j)
  <2> HIDE DEF n
  <2> QED
    BY <1>1, <1>2, NamesOnce
<1>4. f3(i) = f3(j) /\ f7(i) = f7(j)
  BY <1>3, FieldNumbers
<1>5. codec(Op(i)) = "r"
  BY <1>1, PartCodecs
<1> QED
  BY <1>4, <1>5, FieldsTell, SelectedBy

(* The narrow operations are those of OP with a suffix.                    *)
LEMMA AluParts ==
    ASSUME NEW w, NEW suffix \in {"w", "d"}, OpNarrow(w, suffix) # "illegal"
    PROVE  /\ 8 * f7(w) + f3(w) \in NarrowAlu
           /\ 8 * f7(w) + f3(w) \in DOMAIN RegAlu
           /\ Made(OpNarrow(w, suffix), RegAlu[8 * f7(w) + f3(w)], suffix)
<1> DEFINE n == 8 * f7(w) + f3(w)
<1>1. n \in NarrowAlu /\ OpNarrow(w, suffix) = Case(RegAlu, n) \o suffix
  BY DEF OpNarrow, When
<1>2. NarrowAlu \subseteq DOMAIN RegAlu
  BY DEF NarrowAlu, RegAlu, Table
<1>3. n \in DOMAIN RegAlu
  BY <1>1, <1>2
<1>4. Case(RegAlu, n) = RegAlu[n]
  BY <1>3 DEF Case
<1> HIDE DEF n
<1>5. Made(OpNarrow(w, suffix), RegAlu[n], suffix)
  BY <1>1, <1>4, PartsListed DEF Made
<1> QED
  BY <1>1, <1>3, <1>5 DEF n

(* So they too are selected by funct7 and funct3.                          *)
LEMMA NarrowSelected ==
    ASSUME NEW i, NEW j, NEW suffix \in {"w", "d"},
           OpNarrow(i, suffix) = OpNarrow(j, suffix), OpNarrow(i, suffix) # "illegal"
    PROVE  Selected(OpNarrow(i, suffix), i, j)
<1> DEFINE n(w) == 8 * f7(w) + f3(w)
           op == OpNarrow(i, suffix)
<1>1. n(i) \in NarrowAlu /\ n(i) \in DOMAIN RegAlu /\ Made(op, RegAlu[n(i)], suffix)
  BY AluParts
<1>2. n(j) \in DOMAIN RegAlu /\ Made(op, RegAlu[n(j)], suffix)
  BY AluParts
<1> HIDE DEF n, op
<1>3. RegAlu[n(i)] = RegAlu[n(j)]
  BY <1>1, <1>2, MadeOnce
<1>4. n(i) = n(j)
  BY <1>1, <1>2, <1>3, NamesOnce
<1>5. f3(i) = f3(j) /\ f7(i) = f7(j)
  BY <1>4, FieldNumbers DEF n
<1>6. codec(op) = "r"
  BY <1>1, PartCodecs DEF Made
<1> QED
  BY <1>5, <1>6, FieldsTell, SelectedBy DEF op

(* An atomic instruction is its stem with the suffix of its width.         *)
LEMMA AmoParts ==
    ASSUME NEW w, Amo(w) # "illegal"
    PROVE  /\ Bits(w, 27, 5) \in DOMAIN AmoStem /\ f3(w) \in DOMAIN AmoWidth
           /\ Bits(w, 27, 5) = 2 => rs2(w) = 0
           /\ AmoWidth[f3(w)] \in {".w", ".d", ".q"}
           /\ Made(Amo(w), AmoStem[Bits(w, 27, 5)], AmoWidth[f3(w)])
<1>1. /\ Bits(w, 27, 5) \in DOMAIN AmoStem /\ f3(w) \in DOMAIN AmoWidth
      /\ Bits(w, 27, 5) = 2 => rs2(w) = 0
      /\ Amo(w) = Case(AmoStem, Bits(w, 27, 5)) \o Case(AmoWidth, f3(w))
  BY DEF Amo, When
<1>2. /\ Case(AmoStem, Bits(w, 27, 5)) = AmoStem[Bits(w, 27, 5)]
      /\ Case(AmoWidth, f3(w)) = AmoWidth[f3(w)]
  BY <1>1 DEF Case
<1>3. AmoWidth[f3(w)] \in {".w", ".d", ".q"}
  <2> DEFINE R == {<<2, ".w">>, <<3, ".d">>, <<4, ".q">>}
  <2>1. AmoWidth = Table(R)
    BY DEF AmoWidth
  <2>2. \A row \in R : row[2] \in {".w", ".d", ".q"}
    OBVIOUS
  <2> HIDE DEF R
  <2> QED
    BY <1>1, <2>1, <2>2, TableValue
<1>4. Made(Amo(w), AmoStem[Bits(w, 27, 5)], AmoWidth[f3(w)])
  BY <1>1, <1>2, <1>3, PartsListed DEF Made
<1> QED
  BY <1>1, <1>3, <1>4

(* It is selected by funct5 and funct3, and lr by rs2 as well.             *)
LEMMA AmoSelected ==
    ASSUME NEW i, NEW j, Amo(i) = Amo(j), Amo(i) # "illegal"
    PROVE  Selected(Amo(i), i, j)
<1> DEFINE op == Amo(i)
           n(w) == Bits(w, 27, 5)
<1>1. /\ n(i) \in DOMAIN AmoStem /\ f3(i) \in DOMAIN AmoWidth /\ (n(i) = 2 => rs2(i) = 0)
      /\ AmoWidth[f3(i)] \in {".w", ".d", ".q"} /\ Made(op, AmoStem[n(i)], AmoWidth[f3(i)])
  BY AmoParts
<1>2. /\ n(j) \in DOMAIN AmoStem /\ f3(j) \in DOMAIN AmoWidth /\ (n(j) = 2 => rs2(j) = 0)
      /\ Made(op, AmoStem[n(j)], AmoWidth[f3(j)])
  BY AmoParts
<1> SUFFICES Selected(op, i, j)
  OBVIOUS
<1> HIDE DEF op, n
<1>3. AmoStem[n(i)] = AmoStem[n(j)] /\ AmoWidth[f3(i)] = AmoWidth[f3(j)]
  BY <1>1, <1>2, MadeOnce
<1>4. n(i) = n(j) /\ f3(i) = f3(j)
  BY <1>1, <1>2, <1>3, NamesOnce
<1>5. Alike(i, j, 12..14) /\ Alike(i, j, 27..31)
  BY <1>4, FieldsTell DEF n
<1>6. CASE n(i) = 2
  <2>1. Alike(i, j, 20..24)
    BY <1>1, <1>2, <1>4, <1>6, FieldsTell
  <2>2. AmoStem[2] = "lr"
    BY <1>1, <1>6, TableValue DEF AmoStem
  <2>3. codec(op) = "r_l"
    BY <1>1, <1>6, <2>2, PartCodecs DEF Made
  <2> QED
    BY <1>5, <2>1, <2>3, SelectedBy
<1>7. CASE n(i) # 2
  <2>1. codec(op) = "r_a"
    BY <1>1, <1>7, PartCodecs DEF Made
  <2> QED
    BY <1>5, <2>1, SelectedBy
<1> QED
  BY <1>6, <1>7

(* A floating point stem with the suffix of its width.                     *)
LEMMA FpParts ==
    ASSUME NEW stem \in FloatStems, NEW w, FpName(stem, w) # "illegal"
    PROVE  /\ Bits(w, 25, 2) \in DOMAIN FpWidth /\ FpWidth[Bits(w, 25, 2)] \in FpSuffix
           /\ Made(FpName(stem, w), stem, FpWidth[Bits(w, 25, 2)])
<1>1. Bits(w, 25, 2) \in DOMAIN FpWidth /\ FpName(stem, w) = stem \o Case(FpWidth, Bits(w, 25, 2))
  BY DEF FpName, When
<1>2. Case(FpWidth, Bits(w, 25, 2)) = FpWidth[Bits(w, 25, 2)]
  BY <1>1 DEF Case
<1>3. FpWidth[Bits(w, 25, 2)] \in FpSuffix
  BY <1>1, <1>2, Widths
<1> QED
  BY <1>1, <1>2, <1>3, PartsListed DEF Made

(* The fused operations are selected by their width.                       *)
LEMMA FusedSelected ==
    ASSUME NEW i, NEW j, NEW stem \in {"fmadd", "fmsub", "fnmsub", "fnmadd"},
           FpName(stem, i) = FpName(stem, j), FpName(stem, i) # "illegal"
    PROVE  Selected(FpName(stem, i), i, j)
<1> DEFINE op == FpName(stem, i)
<1>1. stem \in FloatStems
  BY DEF FloatStems
<1>2. /\ Bits(i, 25, 2) \in DOMAIN FpWidth /\ FpWidth[Bits(i, 25, 2)] \in FpSuffix
      /\ Made(op, stem, FpWidth[Bits(i, 25, 2)])
  BY <1>1, FpParts
<1>3. Bits(j, 25, 2) \in DOMAIN FpWidth /\ Made(op, stem, FpWidth[Bits(j, 25, 2)])
  BY <1>1, FpParts
<1> SUFFICES Selected(op, i, j)
  OBVIOUS
<1> HIDE DEF op
<1>4. FpWidth[Bits(i, 25, 2)] = FpWidth[Bits(j, 25, 2)]
  BY <1>2, <1>3, MadeOnce
<1>5. Alike(i, j, 25..26)
  BY <1>2, <1>3, <1>4, NamesOnce, FieldsTell
<1>6. codec(op) = "r4_m"
  BY <1>2, PartCodecs DEF Made
<1> QED
  BY <1>5, <1>6, SelectedBy

-----------------------------------------------------------------------------
(***************************************************************************)
(* OP-FP: what the name says of the word.                                  *)
(***************************************************************************)
(* Operation (funct5) and width of a word of OP-FP.                        *)
Kind(w)  == Bits(w, 27, 5)
Width(w) == Bits(w, 25, 2)
BitMove  == <<"fmv.x", "fclass">>

(* The word is decoded to this stem and suffix, by the case it selects.    *)
IsConversion(w, stem, suffix) ==
    /\ Kind(w) = 8 /\ rs2(w) \in DOMAIN FpWidth /\ rs2(w) # Width(w)
    /\ stem = "fcvt" \o FpWidth[Width(w)] /\ suffix = FpWidth[rs2(w)]
IsToInt(w, stem, suffix) ==
    /\ Kind(w) = 24 /\ rs2(w) \in 0..3
    /\ stem = "fcvt" \o IntType[rs2(w) + 1] /\ suffix = FpWidth[Width(w)]
IsFromInt(w, stem, suffix) ==
    /\ Kind(w) = 26 /\ rs2(w) \in 0..3
    /\ stem = "fcvt" \o FpWidth[Width(w)] /\ suffix = IntType[rs2(w) + 1]
IsToBits(w, stem, suffix) ==
    /\ Kind(w) = 28 /\ f3(w) + 1 \in 1..2
    /\ stem = BitMove[f3(w) + 1] /\ suffix = FpWidth[Width(w)]
IsFromBits(w, stem, suffix) ==
    /\ Kind(w) = 30 /\ f3(w) = 0 /\ stem = "fmv" \o FpWidth[Width(w)] /\ suffix = ".x"
IsArithmetic(w, stem, suffix) ==
    /\ Kind(w) \notin {8, 24, 26, 28, 30} /\ stem = FpStem(w) /\ stem \in Stems
    /\ suffix = FpWidth[Width(w)]

FpCase(w, stem, suffix) ==
    /\ Width(w) \in DOMAIN FpWidth
    /\ \/ IsConversion(w, stem, suffix) \/ IsToInt(w, stem, suffix)
       \/ IsFromInt(w, stem, suffix)    \/ IsToBits(w, stem, suffix)
       \/ IsFromBits(w, stem, suffix)   \/ IsArithmetic(w, stem, suffix)

(* The stems of OP-FP are among the floating point stems.                  *)
LEMMA FloatStemsListed == Stems \subseteq FloatStems /\ \A k \in 1..2 : BitMove[k] \in FloatStems
  BY DEF Stems, FloatStems, BitMove

(* The integer types a conversion is from or to.                           *)
LEMMA IntSuffixes == \A n \in 0..3 : /\ Switch(IntType, n) = IntType[n + 1]
                                     /\ IntType[n + 1] \in IntSuffix
  BY DEF IntType, IntSuffix, Switch

(* The widths of floating point numbers.                                   *)
LEMMA WidthSuffixes == \A n \in DOMAIN FpWidth : /\ Case(FpWidth, n) = FpWidth[n]
                                                 /\ FpWidth[n] \in FpSuffix
  BY Widths DEF Case

(* Every opcode of OP-FP is one of these cases.                            *)
LEMMA OpFpParts ==
    ASSUME NEW w, OpFp(w) # "illegal"
    PROVE  \E stem, suffix : Made(OpFp(w), stem, suffix) /\ FpCase(w, stem, suffix)
<1>1. CASE Kind(w) = 8
  <2> DEFINE stem == "fcvt" \o FpWidth[Width(w)]
             suffix == FpWidth[rs2(w)]
  <2>1. OpFp(w) = FcvtWidth(w)
    BY <1>1 DEF OpFp, Kind
  <2>2. /\ Width(w) \in DOMAIN FpWidth /\ rs2(w) \in DOMAIN FpWidth /\ rs2(w) # Width(w)
        /\ OpFp(w) = "fcvt" \o Case(FpWidth, Width(w)) \o Case(FpWidth, rs2(w))
    BY <2>1 DEF FcvtWidth, When, Width
  <2>3. OpFp(w) = stem \o suffix
    BY <2>2, WidthSuffixes
  <2>4. <<stem, suffix>> \in Parts
    BY <2>2, WidthSuffixes, PartsListed
  <2> QED
    BY <1>1, <2>2, <2>3, <2>4 DEF Made, FpCase, IsConversion
<1>2. CASE Kind(w) = 24
  <2> DEFINE stem == "fcvt" \o IntType[rs2(w) + 1]
             suffix == FpWidth[Width(w)]
  <2>1. OpFp(w) = FpToInt(w)
    BY <1>2 DEF OpFp, Kind
  <2>2. /\ Width(w) \in DOMAIN FpWidth /\ rs2(w) \in 0..3
        /\ OpFp(w) = "fcvt" \o Switch(IntType, rs2(w)) \o Case(FpWidth, Width(w))
    BY <2>1 DEF FpToInt, When, Width
  <2>3. OpFp(w) = stem \o suffix
    BY <2>2, WidthSuffixes, IntSuffixes
  <2>4. <<stem, suffix>> \in Parts
    BY <2>2, WidthSuffixes, IntSuffixes, PartsListed
  <2> QED
    BY <1>2, <2>2, <2>3, <2>4 DEF Made, FpCase, IsToInt
<1>3. CASE Kind(w) = 26
  <2> DEFINE stem == "fcvt" \o FpWidth[Width(w)]
             suffix == IntType[rs2(w) + 1]
  <2>1. OpFp(w) = IntToFp(w)
    BY <1>3 DEF OpFp, Kind
  <2>2. /\ Width(w) \in DOMAIN FpWidth /\ rs2(w) \in 0..3
        /\ OpFp(w) = "fcvt" \o Case(FpWidth, Width(w)) \o Switch(IntType, rs2(w))
    BY <2>1 DEF IntToFp, When, Width
  <2>3. OpFp(w) = stem \o suffix
    BY <2>2, WidthSuffixes, IntSuffixes
  <2>4. <<stem, suffix>> \in Parts
    BY <2>2, WidthSuffixes, IntSuffixes, PartsListed
  <2> QED
    BY <1>3, <2>2, <2>3, <2>4 DEF Made, FpCase, IsFromInt
<1>4. CASE Kind(w) = 28
  <2> DEFINE stem == When(rs2(w) = 0, Switch(BitMove, f3(w)))
             suffix == FpWidth[Width(w)]
  <2>1. OpFp(w) = FpName(stem, w)
    BY <1>4 DEF OpFp, Kind, FpToBits, BitMove
  <2>2. stem # "illegal"
    <3> HIDE DEF stem
    <3> QED
      BY <2>1 DEF FpName, When
  <2>3. f3(w) + 1 \in DOMAIN BitMove /\ stem = BitMove[f3(w) + 1]
    BY <2>2 DEF When, Switch
  <2>4. f3(w) + 1 \in 1..2 /\ stem \in FloatStems
    BY <2>3, FloatStemsListed DEF BitMove
  <2> HIDE DEF stem
  <2>5. /\ Width(w) \in DOMAIN FpWidth /\ Made(OpFp(w), stem, suffix)
    BY <2>1, <2>4, FpParts DEF Width
  <2> QED
    BY <1>4, <2>3, <2>4, <2>5 DEF FpCase, IsToBits
<1>5. CASE Kind(w) = 30
  <2> DEFINE move == FpName(When(rs2(w) = 0 /\ f3(w) = 0, "fmv"), w)
             stem == "fmv" \o FpWidth[Width(w)]
  <2>1. OpFp(w) = When(move # "illegal", move \o ".x")
    BY <1>5 DEF OpFp, Kind, BitsToFp
  <2>2. move # "illegal" /\ OpFp(w) = move \o ".x"
    <3> HIDE DEF move
    <3> QED
      BY <2>1 DEF When
  <2>3. /\ f3(w) = 0 /\ Width(w) \in DOMAIN FpWidth /\ move = "fmv" \o Case(FpWidth, Width(w))
    BY <2>2 DEF FpName, When, Width
  <2>4. OpFp(w) = stem \o ".x" /\ FpWidth[Width(w)] \in FpSuffix
    BY <2>2, <2>3, WidthSuffixes
  <2>5. <<stem, ".x">> \in Parts
    BY <2>4, PartsListed
  <2> QED
    BY <1>5, <2>3, <2>4, <2>5 DEF Made, FpCase, IsFromBits
<1>6. CASE Kind(w) \notin {8, 24, 26, 28, 30}
  <2> DEFINE stem == FpStem(w)
             suffix == FpWidth[Width(w)]
  <2>1. OpFp(w) = FpName(stem, w)
    BY <1>6 DEF OpFp, Kind
  <2>2. stem # "illegal"
    BY <2>1 DEF FpName, When
  <2>3. stem \in Stems
    BY <2>2, FpStems
  <2>4. stem \in FloatStems
    BY <2>3, FloatStemsListed
  <2> HIDE DEF stem
  <2>5. /\ Width(w) \in DOMAIN FpWidth /\ Made(OpFp(w), stem, suffix)
    BY <2>1, <2>4, FpParts DEF Width
  <2> QED
    BY <1>6, <2>3, <2>5 DEF FpCase, IsArithmetic, stem
<1> QED
  BY <1>1, <1>2, <1>3, <1>4, <1>5, <1>6

(* The case a stem and a suffix come from.                                 *)
FpTag(stem, suffix) ==
    IF suffix = ".x" THEN 30 ELSE IF suffix \in IntSuffix THEN 26
    ELSE IF stem \in {"fmv.x", "fclass"} THEN 28 ELSE IF stem \in Stems THEN 0
    ELSE IF stem \in Names({"fcvt"}, FpSuffix) THEN 8 ELSE 24
(* The case a word is in.                                                  *)
FpBranch(w) == IF Kind(w) \in {8, 24, 26, 28, 30} THEN Kind(w) ELSE 0

(* The first part of a conversion or a move is put together itself,        *)
LEMMA StemsMade ==
    /\ \A a \in FpSuffix \cup IntSuffix : Made("fcvt" \o a, "fcvt", a)
    /\ \A a \in FpSuffix : Made("fmv" \o a, "fmv", a)
<1>1. {"fcvt", "fmv"} \subseteq FloatStems
  BY DEF FloatStems
<1> QED
  BY <1>1, PartsListed DEF Made

(* so it is none of the other stems.                                       *)
LEMMA StemsNotWhole ==
    /\ \A a \in FpSuffix \cup IntSuffix : "fcvt" \o a \notin {"fmv.x", "fclass"} \cup Stems
    /\ \A a \in FpSuffix : "fmv" \o a \notin {"fmv.x", "fclass"} \cup Stems
    /\ \A a \in IntSuffix : "fcvt" \o a \notin Names({"fcvt"}, FpSuffix)
<1>1. {"fmv.x", "fclass"} \cup Stems \subseteq Whole
  <2>1. {"fmv.x", "fclass"} \subseteq FloatStems
    BY DEF FloatStems
  <2> QED
    BY <2>1, FloatStemsListed, StemsWhole
<1>2. \A a \in FpSuffix \cup IntSuffix : "fcvt" \o a \notin Whole
  BY StemsMade, MadeOnce
<1>3. \A a \in FpSuffix : "fmv" \o a \notin Whole
  BY StemsMade, MadeOnce
<1>4. FpSuffix \cap IntSuffix = {}
  BY DEF FpSuffix, IntSuffix
<1>5. ASSUME NEW a \in IntSuffix, "fcvt" \o a \in Names({"fcvt"}, FpSuffix) PROVE FALSE
  <2>1. PICK b \in FpSuffix : "fcvt" \o a = "fcvt" \o b
    BY <1>5 DEF Names
  <2>2. Made("fcvt" \o a, "fcvt", a) /\ Made("fcvt" \o a, "fcvt", b)
    BY <2>1, StemsMade
  <2>3. a = b
    BY <2>2, MadeOnce
  <2> QED
    BY <1>4, <2>3
<1> QED
  BY <1>1, <1>2, <1>3, <1>5

(* Stem and suffix say which case it was.                                  *)
LEMMA FpTags ==
    ASSUME NEW w, NEW stem, NEW suffix, FpCase(w, stem, suffix)
    PROVE  FpTag(stem, suffix) = FpBranch(w)
<1>1. Width(w) \in DOMAIN FpWidth
  BY DEF FpCase
<1>2. \A a \in FpSuffix : a # ".x" /\ a \notin IntSuffix
  BY DEF FpSuffix, IntSuffix
<1>3. ".x" \notin IntSuffix
  BY DEF IntSuffix
<1>4. FpWidth[Width(w)] \in FpSuffix
  BY <1>1, WidthSuffixes
<1>5. CASE IsConversion(w, stem, suffix)
  <2>1. suffix \in FpSuffix /\ stem = "fcvt" \o FpWidth[Width(w)] /\ Kind(w) = 8
    BY <1>5, WidthSuffixes DEF IsConversion
  <2>2. stem \notin {"fmv.x", "fclass"} \cup Stems
    BY <1>4, <2>1, StemsNotWhole
  <2>3. stem \in Names({"fcvt"}, FpSuffix)
    BY <1>4, <2>1, Suffixed
  <2> QED
    BY <1>2, <2>1, <2>2, <2>3 DEF FpTag, FpBranch
<1>6. CASE IsToInt(w, stem, suffix)
  <2>1. suffix \in FpSuffix /\ stem = "fcvt" \o IntType[rs2(w) + 1] /\ Kind(w) = 24
        /\ IntType[rs2(w) + 1] \in IntSuffix
    BY <1>4, <1>6, IntSuffixes DEF IsToInt
  <2>2. stem \notin {"fmv.x", "fclass"} \cup Stems /\ stem \notin Names({"fcvt"}, FpSuffix)
    BY <2>1, StemsNotWhole
  <2> QED
    BY <1>2, <2>1, <2>2 DEF FpTag, FpBranch
<1>7. CASE IsFromInt(w, stem, suffix)
  <2>1. suffix \in IntSuffix /\ Kind(w) = 26
    BY <1>7, IntSuffixes DEF IsFromInt
  <2> QED
    BY <1>3, <2>1 DEF FpTag, FpBranch
<1>8. CASE IsToBits(w, stem, suffix)
  <2>1. suffix \in FpSuffix /\ stem \in {"fmv.x", "fclass"} /\ Kind(w) = 28
    BY <1>4, <1>8 DEF IsToBits, BitMove
  <2> QED
    BY <1>2, <2>1 DEF FpTag, FpBranch
<1>9. CASE IsFromBits(w, stem, suffix)
  BY <1>9 DEF IsFromBits, FpTag, FpBranch
<1>10. CASE IsArithmetic(w, stem, suffix)
  <2>1. suffix \in FpSuffix /\ stem \in Stems /\ FpBranch(w) = 0
    BY <1>4, <1>10 DEF IsArithmetic, FpBranch
  <2>2. stem \notin {"fmv.x", "fclass"}
    BY <2>1 DEF Stems
  <2> QED
    BY <1>2, <2>1, <2>2 DEF FpTag
<1> QED
  BY <1>5, <1>6, <1>7, <1>8, <1>9, <1>10 DEF FpCase

(* What the stem of an arithmetic name fixes.                              *)
SignStem(w)  == Switch(<<"fsgnj", "fsgnjn", "fsgnjx">>, f3(w))
OrderStem(w) == Switch(<<"fmin", "fmax">>, f3(w))
RootStem(w)   == When(rs2(w) = 0, "fsqrt")
TestStem(w)  == Switch(<<"fle", "flt", "feq">>, f3(w))
StemRows(w) == {<<0, "fadd">>, <<1, "fsub">>, <<2, "fmul">>, <<3, "fdiv">>, <<4, SignStem(w)>>,
                <<5, OrderStem(w)>>, <<11, RootStem(w)>>, <<20, TestStem(w)>>}

(* The table of the arithmetic stems, with its inner tables.               *)
LEMMA StemKinds ==
    ASSUME NEW w
    PROVE  /\ FpStem(w) = Case(Table(StemRows(w)), Kind(w))
           /\ SignStem(w) \in {"fsgnj", "fsgnjn", "fsgnjx", "illegal"}
           /\ OrderStem(w) \in {"fmin", "fmax", "illegal"} /\ RootStem(w) \in {"fsqrt", "illegal"}
           /\ TestStem(w) \in {"fle", "flt", "feq", "illegal"}
<1>1. FpStem(w) = Case(Table(StemRows(w)), Kind(w))
  BY DEF FpStem, StemRows, SignStem, OrderStem, RootStem, TestStem, Kind
<1>2. ASSUME NEW A, NEW S, \A k \in DOMAIN A : A[k] \in S, "illegal" \in S
      PROVE  Switch(A, f3(w)) \in S
  BY <1>2, SwitchIn
<1>3. SignStem(w) \in {"fsgnj", "fsgnjn", "fsgnjx", "illegal"}
  <2> DEFINE A == <<"fsgnj", "fsgnjn", "fsgnjx">>
             S == {"fsgnj", "fsgnjn", "fsgnjx", "illegal"}
  <2>1. (\A k \in DOMAIN A : A[k] \in S) /\ "illegal" \in S
    OBVIOUS
  <2>2. Switch(A, f3(w)) = SignStem(w)
    BY DEF SignStem
  <2> SUFFICES SignStem(w) \in S
    OBVIOUS
  <2> HIDE DEF A, S
  <2> QED
    BY <1>2, <2>1, <2>2
<1>4. OrderStem(w) \in {"fmin", "fmax", "illegal"}
  <2> DEFINE A == <<"fmin", "fmax">>
             S == {"fmin", "fmax", "illegal"}
  <2>1. (\A k \in DOMAIN A : A[k] \in S) /\ "illegal" \in S
    OBVIOUS
  <2>2. Switch(A, f3(w)) = OrderStem(w)
    BY DEF OrderStem
  <2> SUFFICES OrderStem(w) \in S
    OBVIOUS
  <2> HIDE DEF A, S
  <2> QED
    BY <1>2, <2>1, <2>2
<1>5. TestStem(w) \in {"fle", "flt", "feq", "illegal"}
  <2> DEFINE A == <<"fle", "flt", "feq">>
             S == {"fle", "flt", "feq", "illegal"}
  <2>1. (\A k \in DOMAIN A : A[k] \in S) /\ "illegal" \in S
    OBVIOUS
  <2>2. Switch(A, f3(w)) = TestStem(w)
    BY DEF TestStem
  <2> SUFFICES TestStem(w) \in S
    OBVIOUS
  <2> HIDE DEF A, S
  <2> QED
    BY <1>2, <2>1, <2>2
<1>6. RootStem(w) \in {"fsqrt", "illegal"}
  BY DEF RootStem, When
<1> QED
  BY <1>1, <1>3, <1>4, <1>5, <1>6

(* A switch on funct3 fixes it.                                            *)
LEMMA SameFunct3 ==
    ASSUME NEW i, NEW j, NEW A, \A a, b \in DOMAIN A : A[a] = A[b] => a = b \/ A[a] = "illegal",
           Switch(A, f3(i)) = Switch(A, f3(j)), Switch(A, f3(i)) # "illegal"
    PROVE  f3(i) = f3(j)
<1>1. f3(i) \in Int /\ f3(j) \in Int
  BY FieldNumbers
<1> QED
  BY <1>1, SwitchApart

(* The stem fixes funct5 and, where it depends on funct3, that.            *)
LEMMA StemTells ==
    ASSUME NEW i, NEW j, FpStem(i) = FpStem(j), FpStem(i) # "illegal"
    PROVE  /\ Kind(i) = Kind(j)
           /\ \/ FpStem(i) \in {"fadd", "fsub", "fmul", "fdiv", "fsqrt"}
              \/ /\ FpStem(i) \in {"fsgnj", "fsgnjn", "fsgnjx", "fmin", "fmax", "fle", "flt", "feq"}
                 /\ f3(i) = f3(j)
<1> DEFINE op == FpStem(i)
<1>1. \A a \in StemRows(i), b \in StemRows(j) : a[2] = b[2] => a[1] = b[1] \/ a[2] = "illegal"
  <2>1. \A w : /\ SignStem(w) \in {"fsgnj", "fsgnjn", "fsgnjx", "illegal"}
               /\ OrderStem(w) \in {"fmin", "fmax", "illegal"}
               /\ RootStem(w) \in {"fsqrt", "illegal"}
               /\ TestStem(w) \in {"fle", "flt", "feq", "illegal"}
    BY StemKinds
  <2> QED
    BY <2>1 DEF StemRows
<1>2. /\ Case(Table(StemRows(i)), Kind(i)) = Case(Table(StemRows(j)), Kind(j))
      /\ Case(Table(StemRows(i)), Kind(i)) # "illegal"
  BY StemKinds
<1>3. /\ Kind(i) = Kind(j)
      /\ \E a \in StemRows(i) : a[1] = Kind(i) /\ a[2] = op
      /\ \E b \in StemRows(j) : b[1] = Kind(i) /\ b[2] = op
  <2>1. /\ Kind(i) = Kind(j)
        /\ \E a \in StemRows(i) : a[1] = Kind(i) /\ a[2] = Case(Table(StemRows(i)), Kind(i))
        /\ \E b \in StemRows(j) : b[1] = Kind(j) /\ b[2] = Case(Table(StemRows(j)), Kind(j))
    BY <1>1, <1>2, CaseApart
  <2> QED
    BY <2>1, StemKinds
<1>4. \/ op \in {"fadd", "fsub", "fmul", "fdiv"}
      \/ op = RootStem(i)
      \/ op = SignStem(i) /\ op = SignStem(j)
      \/ op = OrderStem(i) /\ op = OrderStem(j)
      \/ op = TestStem(i) /\ op = TestStem(j)
  BY <1>3 DEF StemRows
<1>5. op # "illegal"
  OBVIOUS
<1> DEFINE three == {"fsgnj", "fsgnjn", "fsgnjx", "fmin", "fmax", "fle", "flt", "feq"}
<1> SUFFICES \/ op \in {"fadd", "fsub", "fmul", "fdiv", "fsqrt"}
             \/ op \in three /\ f3(i) = f3(j)
  BY <1>3
<1> HIDE DEF op
<1>6. CASE op = RootStem(i)
  BY <1>5, <1>6, StemKinds
<1>7. CASE op = SignStem(i) /\ op = SignStem(j)
  <2>1. op \in {"fsgnj", "fsgnjn", "fsgnjx"}
    BY <1>5, <1>7, StemKinds
  <2> DEFINE A == <<"fsgnj", "fsgnjn", "fsgnjx">>
  <2>2. \A a, b \in DOMAIN A : A[a] = A[b] => a = b \/ A[a] = "illegal"
    OBVIOUS
  <2>3. Switch(A, f3(i)) = op /\ Switch(A, f3(j)) = op
    BY <1>7 DEF SignStem
  <2> HIDE DEF A
  <2>4. f3(i) = f3(j)
    BY <1>5, <2>2, <2>3, SameFunct3
  <2> QED
    BY <2>1, <2>4
<1>8. CASE op = OrderStem(i) /\ op = OrderStem(j)
  <2>1. op \in {"fmin", "fmax"}
    BY <1>5, <1>8, StemKinds
  <2> DEFINE A == <<"fmin", "fmax">>
  <2>2. \A a, b \in DOMAIN A : A[a] = A[b] => a = b \/ A[a] = "illegal"
    OBVIOUS
  <2>3. Switch(A, f3(i)) = op /\ Switch(A, f3(j)) = op
    BY <1>8 DEF OrderStem
  <2> HIDE DEF A
  <2>4. f3(i) = f3(j)
    BY <1>5, <2>2, <2>3, SameFunct3
  <2> QED
    BY <2>1, <2>4
<1>9. CASE op = TestStem(i) /\ op = TestStem(j)
  <2>1. op \in {"fle", "flt", "feq"}
    BY <1>5, <1>9, StemKinds
  <2> DEFINE A == <<"fle", "flt", "feq">>
  <2>2. \A a, b \in DOMAIN A : A[a] = A[b] => a = b \/ A[a] = "illegal"
    OBVIOUS
  <2>3. Switch(A, f3(i)) = op /\ Switch(A, f3(j)) = op
    BY <1>9 DEF TestStem
  <2> HIDE DEF A
  <2>4. f3(i) = f3(j)
    BY <1>5, <2>2, <2>3, SameFunct3
  <2> QED
    BY <2>1, <2>4
<1> QED
  BY <1>4, <1>6, <1>7, <1>8, <1>9

(* Two words of OP-FP with the same name.                                  *)
LEMMA ArithmeticSelected ==
    ASSUME NEW i, NEW j, NEW stem, NEW suffix, NEW op, Made(op, stem, suffix),
           IsArithmetic(i, stem, suffix), IsArithmetic(j, stem, suffix),
           suffix \in FpSuffix, Width(i) = Width(j)
    PROVE  Selected(op, i, j)
<1>1. /\ stem = FpStem(i) /\ stem = FpStem(j) /\ stem # "illegal"
  BY DEF IsArithmetic, Stems
<1>2. /\ Kind(i) = Kind(j)
      /\ \/ stem \in {"fadd", "fsub", "fmul", "fdiv", "fsqrt"}
         \/ /\ stem \in {"fsgnj", "fsgnjn", "fsgnjx", "fmin", "fmax", "fle", "flt", "feq"}
            /\ f3(i) = f3(j)
  BY <1>1, StemTells
<1>3. Alike(i, j, 25..31)
  <2>1. Alike(i, j, 27..31) /\ Alike(i, j, 25..26)
    BY <1>2, FieldsTell DEF Kind, Width
  <2> QED
    BY <2>1 DEF Alike
<1>4. CASE stem \in {"fadd", "fsub", "fmul", "fdiv", "fsqrt"}
  <2>1. codec(op) = "r_m"
    BY <1>4, PartCodecs DEF Made
  <2> QED
    BY <1>3, <2>1, SelectedBy
<1>5. CASE /\ stem \in {"fsgnj", "fsgnjn", "fsgnjx", "fmin", "fmax", "fle", "flt", "feq"}
           /\ f3(i) = f3(j)
  <2>1. codec(op) = "r"
    BY <1>5, PartCodecs DEF Made
  <2>2. Alike(i, j, 12..14)
    BY <1>5, FieldsTell
  <2> QED
    BY <1>3, <2>1, <2>2, SelectedBy
<1> QED
  BY <1>2, <1>4, <1>5

(* So all of OP-FP with one opcode differs in operands only.               *)
LEMMA OpFpSelected ==
    ASSUME NEW i, NEW j, OpFp(i) = OpFp(j), OpFp(i) # "illegal"
    PROVE  Selected(OpFp(i), i, j)
<1> DEFINE op == OpFp(i)
<1>1. PICK stem, suffix : Made(op, stem, suffix) /\ FpCase(i, stem, suffix)
  BY OpFpParts
<1>2. FpCase(j, stem, suffix)
  <2>1. PICK s, x : Made(op, s, x) /\ FpCase(j, s, x)
    BY OpFpParts
  <2>2. s = stem /\ x = suffix
    BY <1>1, <2>1, MadeOnce
  <2> QED
    BY <2>1, <2>2
<1> SUFFICES Selected(op, i, j)
  OBVIOUS
<1> HIDE DEF op
<1>3. FpBranch(i) = FpBranch(j)
  BY <1>1, <1>2, FpTags
<1>4. /\ Width(i) \in DOMAIN FpWidth /\ Width(j) \in DOMAIN FpWidth
      /\ FpWidth[Width(i)] \in FpSuffix /\ FpWidth[Width(j)] \in FpSuffix
  BY <1>1, <1>2, WidthSuffixes DEF FpCase
<1>5. ASSUME Kind(i) = Kind(j), FpWidth[Width(i)] = FpWidth[Width(j)] PROVE Alike(i, j, 25..31)
  <2>1. Width(i) = Width(j)
    BY <1>4, <1>5, NamesOnce
  <2>2. Alike(i, j, 27..31) /\ Alike(i, j, 25..26)
    BY <1>5, <2>1, FieldsTell DEF Kind, Width
  <2> QED
    BY <2>2 DEF Alike
<1>6. ASSUME NEW a \in FpSuffix, NEW b \in FpSuffix,
             "fcvt" \o a = "fcvt" \o b \/ "fmv" \o a = "fmv" \o b
      PROVE  a = b
  <2>1. /\ Made("fcvt" \o a, "fcvt", a) /\ Made("fcvt" \o b, "fcvt", b)
        /\ Made("fmv" \o a, "fmv", a) /\ Made("fmv" \o b, "fmv", b)
    BY StemsMade
  <2>2. CASE "fcvt" \o a = "fcvt" \o b
    <3>1. Made("fcvt" \o a, "fcvt", b)
      BY <2>1, <2>2
    <3> QED
      BY <2>1, <3>1, MadeOnce
  <2>3. CASE "fmv" \o a = "fmv" \o b
    <3>1. Made("fmv" \o a, "fmv", b)
      BY <2>1, <2>3
    <3> QED
      BY <2>1, <3>1, MadeOnce
  <2> QED
    BY <1>6, <2>2, <2>3
<1>7. CASE FpBranch(i) = 8
  <2>1. IsConversion(i, stem, suffix) /\ IsConversion(j, stem, suffix)
    BY <1>1, <1>2, <1>3, <1>7 DEF FpCase, FpBranch, IsConversion, IsToInt, IsFromInt, IsToBits,
       IsFromBits, IsArithmetic
  <2>2. Alike(i, j, 25..31)
    BY <1>4, <1>5, <1>6, <2>1 DEF IsConversion
  <2>3. FpWidth[Width(i)] # FpWidth[rs2(i)] /\ FpWidth[rs2(i)] \in FpSuffix
    BY <1>4, <2>1, NamesOnce, WidthSuffixes DEF IsConversion
  <2>4. codec(op) = "r_m"
    BY <1>1, <1>4, <2>1, <2>3, PartCodecs DEF Made, IsConversion
  <2> QED
    BY <2>2, <2>4, SelectedBy
<1>8. CASE FpBranch(i) = 24
  <2>1. IsToInt(i, stem, suffix) /\ IsToInt(j, stem, suffix)
    BY <1>1, <1>2, <1>3, <1>8 DEF FpCase, FpBranch, IsConversion, IsToInt, IsFromInt, IsToBits,
       IsFromBits, IsArithmetic
  <2>2. Alike(i, j, 25..31)
    BY <1>5, <2>1 DEF IsToInt
  <2>3. codec(op) = "r_m"
    BY <1>1, <1>4, <2>1, IntSuffixes, PartCodecs DEF Made, IsToInt
  <2> QED
    BY <2>2, <2>3, SelectedBy
<1>9. CASE FpBranch(i) = 26
  <2>1. IsFromInt(i, stem, suffix) /\ IsFromInt(j, stem, suffix)
    BY <1>1, <1>2, <1>3, <1>9 DEF FpCase, FpBranch, IsConversion, IsToInt, IsFromInt, IsToBits,
       IsFromBits, IsArithmetic
  <2>2. Alike(i, j, 25..31)
    BY <1>4, <1>5, <1>6, <2>1 DEF IsFromInt
  <2>3. codec(op) = "r_m"
    BY <1>1, <1>4, <2>1, IntSuffixes, PartCodecs DEF Made, IsFromInt
  <2> QED
    BY <2>2, <2>3, SelectedBy
<1>10. CASE FpBranch(i) = 28
  <2>1. IsToBits(i, stem, suffix) /\ IsToBits(j, stem, suffix)
    BY <1>1, <1>2, <1>3, <1>10 DEF FpCase, FpBranch, IsConversion, IsToInt, IsFromInt, IsToBits,
       IsFromBits, IsArithmetic
  <2>2. Alike(i, j, 25..31)
    BY <1>5, <2>1 DEF IsToBits
  <2>3. f3(i) = f3(j) /\ stem \in {"fmv.x", "fclass"}
    <3>1. f3(i) \in Int /\ f3(j) \in Int
      BY FieldNumbers
    <3> QED
      BY <2>1, <3>1 DEF IsToBits, BitMove
  <2>4. Alike(i, j, 12..14)
    BY <2>3, FieldsTell
  <2>5. codec(op) = "r"
    BY <1>1, <1>4, <2>1, <2>3, PartCodecs DEF Made, IsToBits
  <2> QED
    BY <2>2, <2>4, <2>5, SelectedBy
<1>11. CASE FpBranch(i) = 30
  <2>1. IsFromBits(i, stem, suffix) /\ IsFromBits(j, stem, suffix)
    BY <1>1, <1>2, <1>3, <1>11 DEF FpCase, FpBranch, IsConversion, IsToInt, IsFromInt, IsToBits,
       IsFromBits, IsArithmetic
  <2>2. Alike(i, j, 25..31)
    BY <1>4, <1>5, <1>6, <2>1 DEF IsFromBits
  <2>3. Alike(i, j, 12..14)
    BY <2>1, FieldsTell DEF IsFromBits
  <2>4. codec(op) = "r"
    BY <1>1, <1>4, <2>1, PartCodecs DEF Made, IsFromBits
  <2> QED
    BY <2>2, <2>3, <2>4, SelectedBy
<1>12. CASE FpBranch(i) = 0
  <2>1. IsArithmetic(i, stem, suffix) /\ IsArithmetic(j, stem, suffix)
    BY <1>1, <1>2, <1>3, <1>12 DEF FpCase, FpBranch, IsConversion, IsToInt, IsFromInt, IsToBits,
       IsFromBits, IsArithmetic
  <2>2. suffix \in FpSuffix /\ Width(i) = Width(j)
    BY <1>4, <2>1, NamesOnce DEF IsArithmetic
  <2> QED
    BY <1>1, <2>1, <2>2, ArithmeticSelected
<1> QED
  BY <1>7, <1>8, <1>9, <1>10, <1>11, <1>12 DEF FpBranch

-----------------------------------------------------------------------------
(***************************************************************************)
(* The major opcode.                                                       *)
(***************************************************************************)
(* The opcodes of each major opcode.                                       *)
AluOps  == {"add", "sll", "slt", "sltu", "xor", "srl", "or", "and", "mul", "mulh", "mulhsu",
            "mulhu", "div", "divu", "rem", "remu", "sub", "sra"}
AmoOps  == {"amoadd", "amoswap", "lr", "sc", "amoxor", "amoor", "amoand", "amomin", "amomax",
            "amominu", "amomaxu"}
ImmOps  == {"addi", "slli", "slti", "sltiu", "xori", "srli", "srai", "ori", "andi"}
ImmWOps == {"addiw", "slliw", "srliw", "sraiw"}
ImmDOps == {"addid", "sllid", "srlid", "sraid"}
LoadOps == {"lb", "lh", "lw", "ld", "lbu", "lhu", "lwu", "ldu"}
StoreOps  == {"sb", "sh", "sw", "sd", "sq"}
BranchOps == {"beq", "bne", "blt", "bge", "bltu", "bgeu"}
SysOps    == PrivOps \cup CsrOps

(* The groups are tried in this order.                                     *)
PlainMajor(op) ==
    IF op \in LoadOps THEN 0 ELSE IF op \in {"flw", "fld", "flq"} THEN 1 ELSE IF op = "lq" THEN 3
    ELSE IF op \in ImmOps THEN 4 ELSE IF op = "auipc" THEN 5 ELSE IF op \in ImmWOps THEN 6
    ELSE IF op \in StoreOps THEN 8 ELSE IF op \in {"fsw", "fsd", "fsq"} THEN 9
    ELSE IF op \in AluOps THEN 12 ELSE IF op = "lui" THEN 13 ELSE IF op \in ImmDOps THEN 22
    ELSE IF op \in BranchOps THEN 24 ELSE IF op = "jalr" THEN 25 ELSE IF op = "jal" THEN 27
    ELSE 28
PartMajor(stem, suffix) ==
    IF suffix = "w" THEN 14 ELSE IF suffix = "d" THEN 30 ELSE IF stem \in AmoOps THEN 11
    ELSE IF stem = "fmadd" THEN 16 ELSE IF stem = "fmsub" THEN 17
    ELSE IF stem = "fnmsub" THEN 18 ELSE IF stem = "fnmadd" THEN 19 ELSE 20

(* The name says which major opcode it was decoded under.                  *)
HasMajor(op, m) ==
    \/ op \in Whole /\ m = PlainMajor(op)
    \/ \E stem, suffix : Made(op, stem, suffix) /\ m = PartMajor(stem, suffix)

(* An opcode has one major opcode.                                         *)
LEMMA MajorOnce ==
    ASSUME NEW op, NEW m, NEW n, HasMajor(op, m), HasMajor(op, n)
    PROVE  m = n
<1>1. CASE op \in Whole
  <2>1. \A stem, suffix : ~ Made(op, stem, suffix)
    BY <1>1, MadeOnce
  <2> QED
    BY <2>1 DEF HasMajor
<1>2. CASE op \notin Whole
  <2>1. PICK a, b : Made(op, a, b) /\ m = PartMajor(a, b)
    BY <1>2 DEF HasMajor
  <2>2. PICK c, d : Made(op, c, d) /\ n = PartMajor(c, d)
    BY <1>2 DEF HasMajor
  <2>3. a = c /\ b = d
    BY <2>1, <2>2, MadeOnce
  <2> QED
    BY <2>1, <2>2, <2>3
<1> QED
  BY <1>1, <1>2

(* None of the groups has a name that is put together.                     *)
LEMMA WholeListed ==
    /\ LoadOps \cup {"flw", "fld", "flq"} \cup {"lq"} \subseteq Whole
    /\ ImmOps \cup {"auipc"} \cup ImmWOps \cup ImmDOps \subseteq Whole
    /\ StoreOps \cup {"fsw", "fsd", "fsq"} \cup {"lui"} \subseteq Whole
    /\ BranchOps \cup {"jalr"} \cup {"jal"} \cup SysOps \subseteq Whole
<1>1. LoadOps \cup {"flw", "fld", "flq"} \cup {"lq"} \subseteq Whole
  BY WholeCodecs DEF LoadOps
<1>2. ImmOps \cup {"auipc"} \cup ImmWOps \cup ImmDOps \subseteq Whole
  BY WholeCodecs DEF ImmOps, ImmWOps, ImmDOps
<1>3. StoreOps \cup {"fsw", "fsd", "fsq"} \cup {"lui"} \subseteq Whole
  BY WholeCodecs DEF StoreOps
<1>4. BranchOps \cup {"jalr"} \cup {"jal"} \cup SysOps \subseteq Whole
  BY WholeCodecs DEF BranchOps, SysOps, PrivOps, CsrOps
<1> QED
  BY <1>1, <1>2, <1>3, <1>4

(* The major opcode of each group.                                         *)
LEMMA PlainMajors ==
    /\ \A op \in LoadOps : HasMajor(op, 0)
    /\ \A op \in {"flw", "fld", "flq"} : HasMajor(op, 1)
    /\ \A op \in {"lq"} : HasMajor(op, 3)
    /\ \A op \in ImmOps : HasMajor(op, 4)
    /\ \A op \in {"auipc"} : HasMajor(op, 5)
    /\ \A op \in ImmWOps : HasMajor(op, 6)
    /\ \A op \in StoreOps : HasMajor(op, 8)
    /\ \A op \in {"fsw", "fsd", "fsq"} : HasMajor(op, 9)
    /\ \A op \in {"lui"} : HasMajor(op, 13)
    /\ \A op \in ImmDOps : HasMajor(op, 22)
    /\ \A op \in BranchOps : HasMajor(op, 24)
    /\ \A op \in {"jalr"} : HasMajor(op, 25)
    /\ \A op \in {"jal"} : HasMajor(op, 27)
    /\ \A op \in SysOps : HasMajor(op, 28)
<1>1. ASSUME NEW S, NEW m, S \subseteq Whole, \A op \in S : PlainMajor(op) = m
      PROVE  \A op \in S : HasMajor(op, m)
  BY <1>1 DEF HasMajor
<1>2. \A op \in LoadOps : PlainMajor(op) = 0
  BY DEF PlainMajor
<1>3. \A op \in {"flw", "fld", "flq"} : PlainMajor(op) = 1
  BY DEF PlainMajor, LoadOps
<1>4. \A op \in {"lq"} : PlainMajor(op) = 3
  BY DEF PlainMajor, LoadOps
<1>5. \A op \in ImmOps : PlainMajor(op) = 4
  BY DEF PlainMajor, LoadOps, ImmOps
<1>6. \A op \in {"auipc"} : PlainMajor(op) = 5
  BY DEF PlainMajor, LoadOps, ImmOps
<1>7. \A op \in ImmWOps : PlainMajor(op) = 6
  BY DEF PlainMajor, LoadOps, ImmOps, ImmWOps
<1>8. \A op \in StoreOps : PlainMajor(op) = 8
  BY DEF PlainMajor, LoadOps, ImmOps, ImmWOps, StoreOps
<1>9. \A op \in {"fsw", "fsd", "fsq"} : PlainMajor(op) = 9
  BY DEF PlainMajor, LoadOps, ImmOps, ImmWOps, StoreOps
<1>10. \A op \in {"lui"} : PlainMajor(op) = 13
  BY DEF PlainMajor, LoadOps, ImmOps, ImmWOps, StoreOps, AluOps
<1>11. \A op \in ImmDOps : PlainMajor(op) = 22
  BY DEF PlainMajor, LoadOps, ImmOps, ImmWOps, StoreOps, AluOps, ImmDOps
<1>12. \A op \in BranchOps : PlainMajor(op) = 24
  BY DEF PlainMajor, LoadOps, ImmOps, ImmWOps, StoreOps, AluOps, ImmDOps, BranchOps
<1>13. \A op \in {"jalr"} : PlainMajor(op) = 25
  BY DEF PlainMajor, LoadOps, ImmOps, ImmWOps, StoreOps, AluOps, ImmDOps, BranchOps
<1>14. \A op \in {"jal"} : PlainMajor(op) = 27
  BY DEF PlainMajor, LoadOps, ImmOps, ImmWOps, StoreOps, AluOps, ImmDOps, BranchOps
<1>15. \A op \in SysOps : PlainMajor(op) = 28
  BY DEF PlainMajor, LoadOps, ImmOps, ImmWOps, StoreOps, AluOps, ImmDOps, BranchOps, SysOps,
         PrivOps, CsrOps
<1> HIDE DEF LoadOps, ImmOps, ImmWOps, ImmDOps, StoreOps, BranchOps, SysOps
<1> QED
  BY <1>1, <1>2, <1>3, <1>4, <1>5, <1>6, <1>7, <1>8, <1>9, <1>10, <1>11, <1>12, <1>13, <1>14,
     <1>15, WholeListed

(* The stems of the operations and of the atomics.                         *)
LEMMA StemSets ==
    /\ \A n \in DOMAIN RegAlu : RegAlu[n] \in AluOps
    /\ \A n \in DOMAIN AmoStem : AmoStem[n] \in AmoOps
<1>1. \A n \in DOMAIN RegAlu : RegAlu[n] \in AluOps
  <2> DEFINE R == {<<0, "add">>, <<1, "sll">>, <<2, "slt">>, <<3, "sltu">>, <<4, "xor">>,
                 <<5, "srl">>, <<6, "or">>, <<7, "and">>, <<8, "mul">>, <<9, "mulh">>,
                 <<10, "mulhsu">>, <<11, "mulhu">>, <<12, "div">>, <<13, "divu">>,
                 <<14, "rem">>, <<15, "remu">>, <<256, "sub">>, <<261, "sra">>}
  <2>1. RegAlu = Table(R)
    BY DEF RegAlu
  <2>2. \A row \in R : row[2] \in AluOps
    BY DEF AluOps
  <2> HIDE DEF R
  <2> QED
    BY <2>1, <2>2, TableValue
<1>2. \A n \in DOMAIN AmoStem : AmoStem[n] \in AmoOps
  <2> DEFINE R == {<<0, "amoadd">>, <<1, "amoswap">>, <<2, "lr">>, <<3, "sc">>, <<4, "amoxor">>,
                  <<8, "amoor">>, <<12, "amoand">>, <<16, "amomin">>, <<20, "amomax">>,
                  <<24, "amominu">>, <<28, "amomaxu">>}
  <2>1. AmoStem = Table(R)
    BY DEF AmoStem
  <2>2. \A row \in R : row[2] \in AmoOps
    BY DEF AmoOps
  <2> HIDE DEF R
  <2> QED
    BY <2>1, <2>2, TableValue
<1> QED
  BY <1>1, <1>2

(* The instructions whose names have parts.                                *)
LEMMA PartMajors ==
    ASSUME NEW w
    PROVE  /\ Op(w) # "illegal" => HasMajor(Op(w), 12)
           /\ OpNarrow(w, "w") # "illegal" => HasMajor(OpNarrow(w, "w"), 14)
           /\ OpNarrow(w, "d") # "illegal" => HasMajor(OpNarrow(w, "d"), 30)
           /\ Amo(w) # "illegal" => HasMajor(Amo(w), 11)
           /\ FpName("fmadd", w) # "illegal" => HasMajor(FpName("fmadd", w), 16)
           /\ FpName("fmsub", w) # "illegal" => HasMajor(FpName("fmsub", w), 17)
           /\ FpName("fnmsub", w) # "illegal" => HasMajor(FpName("fnmsub", w), 18)
           /\ FpName("fnmadd", w) # "illegal" => HasMajor(FpName("fnmadd", w), 19)
<1>1. ASSUME Op(w) # "illegal" PROVE HasMajor(Op(w), 12)
  <2>1. Op(w) \in Whole /\ Op(w) \in AluOps
    BY <1>1, StemsWhole, StemSets DEF Op, Case
  <2>2. PlainMajor(Op(w)) = 12
    BY <2>1 DEF PlainMajor, LoadOps, ImmOps, ImmWOps, StoreOps, AluOps
  <2> QED
    BY <2>1, <2>2 DEF HasMajor
<1>2. ASSUME OpNarrow(w, "w") # "illegal" PROVE HasMajor(OpNarrow(w, "w"), 14)
  <2>1. PICK stem : Made(OpNarrow(w, "w"), stem, "w")
    BY <1>2, AluParts
  <2> QED
    BY <2>1 DEF HasMajor, PartMajor
<1>3. ASSUME OpNarrow(w, "d") # "illegal" PROVE HasMajor(OpNarrow(w, "d"), 30)
  <2>1. PICK stem : Made(OpNarrow(w, "d"), stem, "d")
    BY <1>3, AluParts
  <2> QED
    BY <2>1 DEF HasMajor, PartMajor
<1>4. ASSUME Amo(w) # "illegal" PROVE HasMajor(Amo(w), 11)
  <2>1. PICK stem \in AmoOps, suffix \in {".w", ".d", ".q"} : Made(Amo(w), stem, suffix)
    BY <1>4, AmoParts, StemSets
  <2>2. PartMajor(stem, suffix) = 11
    BY <2>1 DEF PartMajor
  <2> QED
    BY <2>1, <2>2 DEF HasMajor
<1>5. ASSUME NEW stem \in {"fmadd", "fmsub", "fnmsub", "fnmadd"}, FpName(stem, w) # "illegal"
      PROVE  HasMajor(FpName(stem, w), PartMajor(stem, ".s"))
  <2>1. stem \in FloatStems
    BY <1>5 DEF FloatStems
  <2>2. PICK suffix \in FpSuffix : Made(FpName(stem, w), stem, suffix)
    BY <1>5, <2>1, FpParts
  <2>3. PartMajor(stem, suffix) = PartMajor(stem, ".s")
    BY <2>2 DEF PartMajor, FpSuffix
  <2> QED
    BY <2>2, <2>3 DEF HasMajor
<1>6. /\ PartMajor("fmadd", ".s") = 16 /\ PartMajor("fmsub", ".s") = 17
      /\ PartMajor("fnmsub", ".s") = 18 /\ PartMajor("fnmadd", ".s") = 19
  BY DEF PartMajor, AmoOps
<1> QED
  BY <1>1, <1>2, <1>3, <1>4, <1>5, <1>6

(* OP-FP has its own.                                                      *)
LEMMA OpFpMajor ==
    ASSUME NEW w, OpFp(w) # "illegal"
    PROVE  HasMajor(OpFp(w), 20)
<1>1. PICK stem, suffix : Made(OpFp(w), stem, suffix) /\ FpCase(w, stem, suffix)
  BY OpFpParts
<1>2. FpWidth[Width(w)] \in FpSuffix
  BY <1>1, WidthSuffixes DEF FpCase
<1>3. suffix \in FpSuffix \cup IntSuffix \cup {".x"}
  BY <1>1, <1>2, WidthSuffixes, IntSuffixes DEF FpCase, IsConversion, IsToInt, IsFromInt,
     IsToBits, IsFromBits, IsArithmetic
<1>4. stem \notin AmoOps \cup {"fmadd", "fmsub", "fnmsub", "fnmadd"}
  <2> DEFINE S == AmoOps \cup {"fmadd", "fmsub", "fnmsub", "fnmadd"}
  <2>1. S \subseteq Whole
    <3>1. AmoOps \subseteq Whole
      <4> DEFINE R == {<<0, "amoadd">>, <<1, "amoswap">>, <<2, "lr">>, <<3, "sc">>,
                  <<4, "amoxor">>, <<8, "amoor">>, <<12, "amoand">>, <<16, "amomin">>,
                  <<20, "amomax">>, <<24, "amominu">>, <<28, "amomaxu">>}
      <4>1. \A row \in R : row[1] \in DOMAIN AmoStem
        BY DEF AmoStem, Table
      <4>2. \A a, b \in R : a[1] = b[1] => a = b
        OBVIOUS
      <4>3. \A op \in AmoOps : \E row \in R : row[2] = op
        BY DEF AmoOps
      <4>4. AmoStem = Table(R)
        BY DEF AmoStem
      <4> HIDE DEF R
      <4>5. \A row \in R : AmoStem[row[1]] = row[2]
        BY <4>1, <4>2, <4>4, TableValue
      <4> QED
        BY <4>1, <4>3, <4>5, StemsWhole
    <3>2. {"fmadd", "fmsub", "fnmsub", "fnmadd"} \subseteq FloatStems
      BY DEF FloatStems
    <3> QED
      BY <3>1, <3>2, StemsWhole
  <2>2. \A a \in FpSuffix \cup IntSuffix : "fcvt" \o a \notin Whole
    BY StemsMade, MadeOnce
  <2>3. \A a \in FpSuffix : "fmv" \o a \notin Whole
    BY StemsMade, MadeOnce
  <2>4. stem \notin Whole \/ stem \in Stems \cup {"fmv.x", "fclass"}
    <3>1. IsToBits(w, stem, suffix) => stem \in {"fmv.x", "fclass"}
      BY DEF IsToBits, BitMove
    <3> QED
      BY <1>1, <1>2, <2>2, <2>3, <3>1, IntSuffixes
         DEF FpCase, IsConversion, IsToInt, IsFromInt, IsFromBits, IsArithmetic
  <2>5. \A s \in Stems \cup {"fmv.x", "fclass"} : s \notin S
    BY DEF Stems, AmoOps
  <2> QED
    BY <2>1, <2>4, <2>5
<1>5. PartMajor(stem, suffix) = 20
  BY <1>3, <1>4 DEF PartMajor, FpSuffix, IntSuffix
<1> QED
  BY <1>1, <1>5 DEF HasMajor

(* Each group of opcodes, by the value of its switches.                    *)
LEMMA GroupOps ==
    ASSUME NEW w
    PROVE  /\ Load(w) \in LoadOps \cup {"illegal"}
           /\ LoadFp(w) \in {"flw", "fld", "flq"} \cup {"illegal"}
           /\ Fence(w) \in {"fence", "fence.i", "lq"} \cup {"illegal"}
           /\ OpImm(w) \in ImmOps \cup {"illegal"}
           /\ OpImmW(w) \in ImmWOps \cup {"illegal"}
           /\ OpImmD(w) \in ImmDOps \cup {"illegal"}
           /\ Store(w) \in StoreOps \cup {"illegal"}
           /\ StoreFp(w) \in {"fsw", "fsd", "fsq"} \cup {"illegal"}
           /\ Branch(w) \in BranchOps \cup {"illegal"}
           /\ System(w) \in SysOps \cup {"illegal"}
<1> DEFINE Cases(A, S) == \A k \in DOMAIN A : A[k] \in S \cup {"illegal"}
           Listed(R, S) == \A row \in R : row[2] \in S \cup {"illegal"}
<1>1. ASSUME NEW A, NEW S, NEW n, Cases(A, S) PROVE Switch(A, n) \in S \cup {"illegal"}
  <2> DEFINE T == S \cup {"illegal"}
  <2>1. (\A k \in DOMAIN A : A[k] \in T) /\ "illegal" \in T
    BY <1>1
  <2> HIDE DEF T
  <2>2. Switch(A, n) \in T
    BY <2>1, SwitchIn
  <2> QED
    BY <2>2 DEF T
<1>2. ASSUME NEW R, NEW S, NEW n, Listed(R, S) PROVE Case(Table(R), n) \in S \cup {"illegal"}
  <2> DEFINE T == S \cup {"illegal"}
  <2>1. (\A row \in R : row[2] \in T) /\ "illegal" \in T
    BY <1>2
  <2> HIDE DEF T
  <2>2. Case(Table(R), n) \in T
    BY <2>1, CaseIn
  <2> QED
    BY <2>2 DEF T
<1>3. Cases(<<"lb", "lh", "lw", "ld", "lbu", "lhu", "lwu", "ldu">>, LoadOps)
  BY DEF LoadOps
<1>4. Cases(<<"illegal", "illegal", "flw", "fld", "flq">>, {"flw", "fld", "flq"})
  OBVIOUS
<1>5. Cases(<<"fence", "fence.i", "lq">>, {"fence", "fence.i", "lq"})
  OBVIOUS
<1>6. Cases(<<"sb", "sh", "sw", "sd", "sq">>, StoreOps)
  BY DEF StoreOps
<1>7. Cases(<<"illegal", "illegal", "fsw", "fsd", "fsq">>, {"fsw", "fsd", "fsq"})
  OBVIOUS
<1>8. Cases(<<"beq", "bne", "illegal", "illegal", "blt", "bge", "bltu", "bgeu">>, BranchOps)
  BY DEF BranchOps
<1> DEFINE shift == RightShift(Bits(w, 27, 5), "srli", 8, "srai")
           shiftW == RightShift(f7(w), "srliw", 32, "sraiw")
           shiftD == RightShift(Bits(w, 26, 6), "srlid", 16, "sraid")
           left == When(Bits(w, 27, 5) = 0, "slli")
           leftW == When(f7(w) = 0, "slliw")
           leftD == When(Bits(w, 26, 6) = 0, "sllid")
<1>9. /\ OpImm(w) = Switch(<<"addi", left, "slti", "sltiu", "xori", shift, "ori", "andi">>, f3(w))
      /\ OpImmW(w) = Case(Table({<<0, "addiw">>, <<1, leftW>>, <<5, shiftW>>}), f3(w))
      /\ OpImmD(w) = Case(Table({<<0, "addid">>, <<1, leftD>>, <<5, shiftD>>}), f3(w))
  BY DEF OpImm, OpImmW, OpImmD, RightShift
<1>10. /\ shift \in {"srli", "srai", "illegal"} /\ shiftW \in {"srliw", "sraiw", "illegal"}
       /\ shiftD \in {"srlid", "sraid", "illegal"}
  BY ShiftKinds
<1>11. /\ left \in {"slli", "illegal"} /\ leftW \in {"slliw", "illegal"}
       /\ leftD \in {"sllid", "illegal"}
  BY DEF When
<1> HIDE DEF shift, shiftW, shiftD, left, leftW, leftD
<1>12. Cases(<<"addi", left, "slti", "sltiu", "xori", shift, "ori", "andi">>, ImmOps)
  BY <1>10, <1>11 DEF ImmOps
<1>13. Listed({<<0, "addiw">>, <<1, leftW>>, <<5, shiftW>>}, ImmWOps)
  BY <1>10, <1>11 DEF ImmWOps
<1>14. Listed({<<0, "addid">>, <<1, leftD>>, <<5, shiftD>>}, ImmDOps)
  BY <1>10, <1>11 DEF ImmDOps
<1>15. Cases(<<Privileged(w), "csrrw", "csrrs", "csrrc", "illegal", "csrrwi", "csrrsi",
               "csrrci">>, SysOps)
  <2> DEFINE op == Privileged(w)
  <2>1. op \in PrivOps \cup {"illegal"}
    BY PrivilegedRows
  <2> HIDE DEF op
  <2>2. Cases(<<op, "csrrw", "csrrs", "csrrc", "illegal", "csrrwi", "csrrsi", "csrrci">>, SysOps)
    BY <2>1 DEF SysOps, CsrOps
  <2> QED
    BY <2>2 DEF op
<1> HIDE DEF Cases, Listed
<1>16. /\ Load(w) \in LoadOps \cup {"illegal"}
       /\ LoadFp(w) \in {"flw", "fld", "flq"} \cup {"illegal"}
       /\ Fence(w) \in {"fence", "fence.i", "lq"} \cup {"illegal"}
       /\ Store(w) \in StoreOps \cup {"illegal"}
       /\ StoreFp(w) \in {"fsw", "fsd", "fsq"} \cup {"illegal"}
       /\ Branch(w) \in BranchOps \cup {"illegal"}
       /\ System(w) \in SysOps \cup {"illegal"}
  BY <1>1, <1>3, <1>4, <1>5, <1>6, <1>7, <1>8, <1>15
     DEF Load, LoadFp, Fence, Store, StoreFp, Branch, System
<1>17. OpImm(w) \in ImmOps \cup {"illegal"}
  BY <1>1, <1>9, <1>12
<1>18. OpImmW(w) \in ImmWOps \cup {"illegal"} /\ OpImmD(w) \in ImmDOps \cup {"illegal"}
  BY <1>2, <1>9, <1>13, <1>14
<1> QED
  BY <1>16, <1>17, <1>18

(* The switch on the major opcode, case by case.                           *)
LEMMA Quadrant3Cases ==
    ASSUME NEW w, NEW m, m = Bits(w, 2, 5)
    PROVE  /\ m = 0  => Quadrant3(w) = Load(w)
           /\ m = 1  => Quadrant3(w) = LoadFp(w)
           /\ m = 3  => Quadrant3(w) = Fence(w)
           /\ m = 4  => Quadrant3(w) = OpImm(w)
           /\ m = 5  => Quadrant3(w) = "auipc"
           /\ m = 6  => Quadrant3(w) = OpImmW(w)
           /\ m = 8  => Quadrant3(w) = Store(w)
           /\ m = 9  => Quadrant3(w) = StoreFp(w)
           /\ m = 11 => Quadrant3(w) = Amo(w)
           /\ m = 12 => Quadrant3(w) = Op(w)
           /\ m = 13 => Quadrant3(w) = "lui"
           /\ m = 14 => Quadrant3(w) = OpNarrow(w, "w")
           /\ m = 16 => Quadrant3(w) = FpName("fmadd", w)
           /\ m = 17 => Quadrant3(w) = FpName("fmsub", w)
           /\ m = 18 => Quadrant3(w) = FpName("fnmsub", w)
           /\ m = 19 => Quadrant3(w) = FpName("fnmadd", w)
           /\ m = 20 => Quadrant3(w) = OpFp(w)
           /\ m = 22 => Quadrant3(w) = OpImmD(w)
           /\ m = 24 => Quadrant3(w) = Branch(w)
           /\ m = 25 => Quadrant3(w) = When(f3(w) = 0, "jalr")
           /\ m = 27 => Quadrant3(w) = "jal"
           /\ m = 28 => Quadrant3(w) = System(w)
           /\ m = 30 => Quadrant3(w) = OpNarrow(w, "d")
           /\ m \notin {0, 1, 3, 4, 5, 6, 8, 9, 11, 12, 13, 14, 16, 17, 18, 19, 20, 22, 24, 25,
                        27, 28, 30} => Quadrant3(w) = "illegal"
  BY DEF Quadrant3

(* The 32 bit opcodes whose words have no bit to spare.                    *)
NoSpareBits(op) == op \notin {"illegal", "fence", "fence.i"}

(* A 32 bit word is decoded to an opcode that has its major opcode,        *)
LEMMA Quadrant3Major ==
    ASSUME NEW w, NoSpareBits(Quadrant3(w))
    PROVE  HasMajor(Quadrant3(w), Bits(w, 2, 5))
<1> DEFINE m == Bits(w, 2, 5)
           op == Quadrant3(w)
<1>1. op # "illegal" /\ op \notin {"fence", "fence.i"}
  BY DEF NoSpareBits
<1>2. m = Bits(w, 2, 5)
  OBVIOUS
<1>3. /\ m = 0  => op = Load(w)
      /\ m = 1  => op = LoadFp(w)
      /\ m = 3  => op = Fence(w)
      /\ m = 4  => op = OpImm(w)
      /\ m = 5  => op = "auipc"
      /\ m = 6  => op = OpImmW(w)
      /\ m = 8  => op = Store(w)
      /\ m = 9  => op = StoreFp(w)
      /\ m = 11 => op = Amo(w)
      /\ m = 12 => op = Op(w)
      /\ m = 13 => op = "lui"
      /\ m = 14 => op = OpNarrow(w, "w")
      /\ m = 16 => op = FpName("fmadd", w)
      /\ m = 17 => op = FpName("fmsub", w)
      /\ m = 18 => op = FpName("fnmsub", w)
      /\ m = 19 => op = FpName("fnmadd", w)
      /\ m = 20 => op = OpFp(w)
      /\ m = 22 => op = OpImmD(w)
      /\ m = 24 => op = Branch(w)
      /\ m = 25 => op = When(f3(w) = 0, "jalr")
      /\ m = 27 => op = "jal"
      /\ m = 28 => op = System(w)
      /\ m = 30 => op = OpNarrow(w, "d")
      /\ m \notin {0, 1, 3, 4, 5, 6, 8, 9, 11, 12, 13, 14, 16, 17, 18, 19, 20, 22, 24, 25,
                   27, 28, 30} => op = "illegal"
  BY <1>2, Quadrant3Cases
<1> SUFFICES HasMajor(op, m)
  OBVIOUS
<1> HIDE DEF op, m
<1>4. m \in {0, 1, 3, 4, 5, 6, 8, 9, 11, 12, 13, 14, 16, 17, 18, 19, 20, 22, 24, 25, 27, 28, 30}
  BY <1>1, <1>3
<1>5. CASE m \in {0, 1, 3, 4, 6, 8, 9}
  BY <1>1, <1>3, <1>5, GroupOps, PlainMajors
<1>6. CASE m \in {22, 24, 28}
  BY <1>1, <1>3, <1>6, GroupOps, PlainMajors
<1>7. CASE m \in {5, 13, 25, 27}
  <2>1. m = 25 => op = "jalr"
    BY <1>1, <1>3 DEF When
  <2> QED
    BY <1>3, <1>7, <2>1, PlainMajors
<1>8. CASE m \in {11, 12, 14, 16, 17, 18, 19, 30}
  BY <1>1, <1>3, <1>8, PartMajors
<1>9. CASE m = 20
  BY <1>1, <1>3, <1>9, OpFpMajor
<1> QED
  BY <1>4, <1>5, <1>6, <1>7, <1>8, <1>9

(* so two words with one opcode differ in its operands only.               *)
LEMMA Quadrant3Selected ==
    ASSUME NEW i, NEW j, Quadrant3(i) = Quadrant3(j), NoSpareBits(Quadrant3(i))
    PROVE  /\ Alike(i, j, 2..6)
           /\ Selected(Quadrant3(i), i, j)
<1> DEFINE m == Bits(i, 2, 5)
           op == Quadrant3(i)
<1>1. Bits(j, 2, 5) = m
  <2>1. HasMajor(Quadrant3(i), Bits(i, 2, 5)) /\ HasMajor(Quadrant3(i), Bits(j, 2, 5))
    BY Quadrant3Major
  <2> QED
    BY <2>1, MajorOnce
<1>2. Alike(i, j, 2..6)
  BY <1>1, FieldsTell
<1>3. op # "illegal" /\ op \notin {"fence", "fence.i"} /\ Quadrant3(j) = op
  BY DEF NoSpareBits
<1>4. ASSUME NEW w, Bits(w, 2, 5) = m, Quadrant3(w) = op
      PROVE  /\ m = 0  => op = Load(w)
             /\ m = 1  => op = LoadFp(w)
             /\ m = 3  => op = Fence(w)
             /\ m = 4  => op = OpImm(w)
             /\ m = 5  => op = "auipc"
             /\ m = 6  => op = OpImmW(w)
             /\ m = 8  => op = Store(w)
             /\ m = 9  => op = StoreFp(w)
             /\ m = 11 => op = Amo(w)
             /\ m = 12 => op = Op(w)
             /\ m = 13 => op = "lui"
             /\ m = 14 => op = OpNarrow(w, "w")
             /\ m = 16 => op = FpName("fmadd", w)
             /\ m = 17 => op = FpName("fmsub", w)
             /\ m = 18 => op = FpName("fnmsub", w)
             /\ m = 19 => op = FpName("fnmadd", w)
             /\ m = 20 => op = OpFp(w)
             /\ m = 22 => op = OpImmD(w)
             /\ m = 24 => op = Branch(w)
             /\ m = 25 => op = When(f3(w) = 0, "jalr")
             /\ m = 27 => op = "jal"
             /\ m = 28 => op = System(w)
             /\ m = 30 => op = OpNarrow(w, "d")
             /\ m \notin {0, 1, 3, 4, 5, 6, 8, 9, 11, 12, 13, 14, 16, 17, 18, 19, 20, 22, 24, 25,
                          27, 28, 30} => op = "illegal"
  <2> HIDE DEF op, m
  <2> QED
    BY <1>4, Quadrant3Cases
<1>5. Bits(i, 2, 5) = m /\ Quadrant3(i) = op
  OBVIOUS
<1> SUFFICES Alike(i, j, 2..6) /\ Selected(op, i, j)
  OBVIOUS
<1> HIDE DEF op, m
<1>6. m \in {0, 1, 3, 4, 5, 6, 8, 9, 11, 12, 13, 14, 16, 17, 18, 19, 20, 22, 24, 25, 27, 28, 30}
  BY <1>3, <1>4, <1>5
<1>7. CASE m \in {0, 1, 8, 9, 24}
  BY <1>1, <1>2, <1>3, <1>4, <1>5, <1>7, MemorySelected
<1>8. CASE m = 3
  <2>1. op = Fence(i) /\ op = Fence(j)
    BY <1>1, <1>3, <1>4, <1>5, <1>8
  <2> QED
    BY <1>2, <1>3, <2>1, FenceSelected
<1>9. CASE m \in {4, 6, 22}
  BY <1>1, <1>2, <1>3, <1>4, <1>5, <1>9, OpImmSelected, OpImmWSelected, OpImmDSelected
<1>10. CASE m \in {5, 13, 27}
  <2>1. op \in {"auipc", "lui", "jal"}
    BY <1>4, <1>5, <1>10
  <2>2. codec(op) \in {"u", "uj"}
    BY <2>1, WholeCodecs
  <2> QED
    BY <1>2, <2>2, SelectedBy
<1>11. CASE m = 25
  <2>1. op = When(f3(i) = 0, "jalr") /\ op = When(f3(j) = 0, "jalr")
    BY <1>1, <1>3, <1>4, <1>5, <1>11
  <2>2. op = "jalr" /\ f3(i) = 0 /\ f3(j) = 0
    BY <1>3, <2>1 DEF When
  <2>3. codec(op) = "i" /\ Alike(i, j, 12..14)
    BY <2>2, WholeCodecs, FieldsTell
  <2> QED
    BY <1>2, <2>3, SelectedBy
<1>12. CASE m \in {11, 12, 20, 28}
  BY <1>1, <1>2, <1>3, <1>4, <1>5, <1>12, AmoSelected, OpSelected, OpFpSelected, SystemSelected
<1>13. CASE m \in {14, 30}
  <2>1. "w" \in {"w", "d"} /\ "d" \in {"w", "d"}
    OBVIOUS
  <2>2. \/ op = OpNarrow(i, "w") /\ op = OpNarrow(j, "w")
        \/ op = OpNarrow(i, "d") /\ op = OpNarrow(j, "d")
    BY <1>1, <1>3, <1>4, <1>5, <1>13
  <2> QED
    BY <1>2, <1>3, <2>1, <2>2, NarrowSelected
<1>14. CASE m \in {16, 17, 18, 19}
  <2> DEFINE fused == {"fmadd", "fmsub", "fnmsub", "fnmadd"}
  <2>1. \E stem \in fused : op = FpName(stem, i) /\ op = FpName(stem, j)
    BY <1>1, <1>3, <1>4, <1>5, <1>14
  <2>2. PICK stem \in fused : op = FpName(stem, i) /\ op = FpName(stem, j)
    BY <2>1
  <2>3. Selected(FpName(stem, i), i, j)
    BY <1>3, <2>2, FusedSelected
  <2> QED
    BY <1>2, <2>2, <2>3
<1> QED
  BY <1>6, <1>7, <1>8, <1>9, <1>10, <1>11, <1>12, <1>13, <1>14

(* Opcode and operands fix the word.                                       *)
LEMMA WideApart ==
    ASSUME NEW i, NEW j, Quadrant3(i) = Quadrant3(j), NoSpareBits(Quadrant3(i)),
           decode_inst_operands(codec(Quadrant3(i)), i)
             = decode_inst_operands(codec(Quadrant3(i)), j)
    PROVE  Alike(i, j, 2..31)
<1> DEFINE c == codec(Quadrant3(i))
<1>1. /\ Alike(i, j, 2..6) /\ c \in DOMAIN Source /\ Alike(i, j, (7..31) \ Source[c])
  BY Quadrant3Selected DEF Selected
<1>2. decode_inst_operands(c, i) = decode_inst_operands(c, j)
  OBVIOUS
<1> HIDE DEF c
<1>3. Alike(i, j, Source[c])
  BY <1>1, <1>2, OperandsAlike
<1> QED
  BY <1>1, <1>3 DEF Alike

-----------------------------------------------------------------------------
(***************************************************************************)
(* The same for the 16 bit quadrants.                                      *)
(***************************************************************************)
(* What the opcode tells about a short word.                               *)
Selected16(op, i, j) ==
    codec(op) \in DOMAIN Source /\ Alike(i, j, (2..15) \ Source[codec(op)])

(* The compressed instructions whose operands keep bits 2 to 12.           *)
FullOps == {"c.addi4spn", "c.fld", "c.ld", "c.lw", "c.flw", "c.lq", "c.sq", "c.fsd", "c.sd", "c.sw",
            "c.fsw", "c.addi", "c.addiw", "c.jal", "c.li", "c.lui", "c.j", "c.beqz", "c.bnez",
            "c.slli", "c.fldsp", "c.ldsp", "c.lwsp", "c.flwsp", "c.lqsp", "c.sqsp", "c.fsdsp",
            "c.sdsp", "c.swsp", "c.fswsp"}

(* The codecs of the compressed instructions.                              *)
LEMMA CompressedCodecs ==
    /\ \A op \in FullOps : codec(op) \in DOMAIN Source /\ Source[codec(op)] = 2..12
    /\ \A op \in {"c.nop", "c.ebreak"} : codec(op) = "ci_none"
    /\ \A op \in {"c.addi16sp"} : codec(op) = "ci_16sp"
    /\ \A op \in {"c.srli", "c.srai"} : codec(op) = "cb_sh6"
    /\ \A op \in {"c.andi"} : codec(op) = "cb_imm"
    /\ \A op \in {"c.sub", "c.xor", "c.or", "c.and", "c.subw", "c.addw"} : codec(op) = "cs"
    /\ \A op \in {"c.jr"} : codec(op) = "cr_jr"
    /\ \A op \in {"c.mv"} : codec(op) = "cr_mv"
    /\ \A op \in {"c.jalr"} : codec(op) = "cr_jalr"
    /\ \A op \in {"c.add"} : codec(op) = "cr"
<1> DEFINE Coded(row) == \A op \in row[3] : codec(op) = row[1]
<1>1. \A row \in CompressedRows : Coded(row)
  BY RowCodec
<1>2. \A op \in FullOps : \E row \in CompressedRows : op \in row[3] /\ row[1] \in
        {"ciw_4spn", "cl_ld", "cl_lw", "cl_lq", "cs_sq", "cs_sd", "cs_sw", "ci", "cj_jal", "ci_li",
         "ci_lui", "cj", "cb", "ci_sh6", "ci_ldsp", "ci_lwsp", "ci_lqsp", "css_sqsp", "css_sdsp",
         "css_swsp"}
  BY DEF FullOps, CompressedRows
<1>3. \A c \in {"ciw_4spn", "cl_ld", "cl_lw", "cl_lq", "cs_sq", "cs_sd", "cs_sw", "ci", "cj_jal",
         "ci_li", "ci_lui", "cj", "cb", "ci_sh6", "ci_ldsp", "ci_lwsp", "ci_lqsp", "css_sqsp",
         "css_sdsp", "css_swsp"} : c \in DOMAIN Source /\ Source[c] = 2..12
  BY DEF Source
<1>4. \A op \in FullOps : codec(op) \in DOMAIN Source /\ Source[codec(op)] = 2..12
  BY <1>1, <1>2, <1>3
<1> HIDE DEF Coded
<1>5. /\ Coded(<<"ci_none", << >>, {"c.nop", "c.ebreak"}>>)
      /\ Coded(<<"ci_16sp", rd_rs1_imm, {"c.addi16sp"}>>)
      /\ Coded(<<"cb_sh6", rd_rs1_imm, {"c.srli", "c.srai"}>>)
      /\ Coded(<<"cb_imm", rd_rs1_imm, {"c.andi"}>>)
      /\ Coded(<<"cs", rd_rs1_rs2, {"c.sub", "c.xor", "c.or", "c.and", "c.subw", "c.addw"}>>)
      /\ Coded(<<"cr_jr", rd_rs1_imm, {"c.jr"}>>)
      /\ Coded(<<"cr_mv", rd_rs1_rs2, {"c.mv"}>>)
      /\ Coded(<<"cr_jalr", rd_rs1_imm, {"c.jalr"}>>)
      /\ Coded(<<"cr", rd_rs1_rs2, {"c.add"}>>)
  BY <1>1 DEF CompressedRows
<1> QED
  BY <1>4, <1>5 DEF Coded

(* The fields of a short word the switches look at.                        *)
LEMMA ShortFields ==
    ASSUME NEW i, NEW j
    PROVE  /\ Bits(i, 13, 3) \in 0..7 /\ Bits(i, 10, 2) \in 0..3 /\ Bits(i, 12, 1) \in 0..1
           /\ Bits(i, 5, 2) \in 0..3 /\ Bits(i, 2, 11) \in Nat
           /\ Bits(i, 13, 3) = Bits(j, 13, 3) => Alike(i, j, 13..15)
           /\ Bits(i, 10, 2) = Bits(j, 10, 2) => Alike(i, j, 10..11)
           /\ Bits(i, 12, 1) = Bits(j, 12, 1) => Alike(i, j, 12..12)
           /\ Bits(i, 5, 2) = Bits(j, 5, 2) => Alike(i, j, 5..6)
           /\ Bits(i, 2, 11) = Bits(j, 2, 11) => Alike(i, j, 2..12)
<1> DEFINE Told(at, width, last) ==
              Bits(i, at, width) = Bits(j, at, width) => Alike(i, j, at..last)
<1>1. ASSUME NEW at \in Nat, NEW width \in 0..12, NEW last, last = at + width - 1
      PROVE  Told(at, width, last)
  BY <1>1, BitsAlike
<1>2. ASSUME NEW at \in Nat, NEW width \in 0..12
      PROVE  /\ Bits(i, at, width) \in Nat
             /\ width = 1 => Bits(i, at, width) \in 0..1
             /\ width = 2 => Bits(i, at, width) \in 0..3
             /\ width = 3 => Bits(i, at, width) \in 0..7
  BY BitsRange
<1> HIDE DEF Told
<1>3. Told(13, 3, 15) /\ Told(10, 2, 11) /\ Told(12, 1, 12) /\ Told(5, 2, 6) /\ Told(2, 11, 12)
  BY <1>1
<1> QED
  BY <1>2, <1>3 DEF Told

(* What the switches must look at, for each codec.                         *)
LEMMA Selected16By ==
    ASSUME NEW op, NEW i, NEW j, Alike(i, j, 13..15)
    PROVE  /\ codec(op) \in DOMAIN Source /\ Source[codec(op)] = 2..12 => Selected16(op, i, j)
           /\ codec(op) = "ci_none" /\ Alike(i, j, 2..12) => Selected16(op, i, j)
           /\ codec(op) = "ci_16sp" /\ Alike(i, j, 7..11) => Selected16(op, i, j)
           /\ codec(op) \in {"cb_sh6", "cb_imm"} /\ Alike(i, j, 10..11) => Selected16(op, i, j)
           /\ codec(op) = "cs" /\ Alike(i, j, 5..6) /\ Alike(i, j, 10..11) /\ Alike(i, j, 12..12)
                 => Selected16(op, i, j)
           /\ codec(op) \in {"cr", "cr_mv"} /\ Alike(i, j, 12..12) => Selected16(op, i, j)
           /\ codec(op) \in {"cr_jr", "cr_jalr"} /\ Alike(i, j, 12..12) /\ Alike(i, j, 2..6)
                 => Selected16(op, i, j)
<1>1. codec(op) \in DOMAIN Source /\ Source[codec(op)] = 2..12 => Selected16(op, i, j)
  BY DEF Selected16, Alike
<1>2. codec(op) = "ci_none" /\ Alike(i, j, 2..12) => Selected16(op, i, j)
  BY DEF Selected16, Source, Alike
<1>3. codec(op) = "ci_16sp" /\ Alike(i, j, 7..11) => Selected16(op, i, j)
  BY DEF Selected16, Source, Alike
<1>4. codec(op) \in {"cb_sh6", "cb_imm"} /\ Alike(i, j, 10..11) => Selected16(op, i, j)
  BY DEF Selected16, Source, Alike
<1>5. codec(op) = "cs" /\ Alike(i, j, 5..6) /\ Alike(i, j, 10..11) /\ Alike(i, j, 12..12)
         => Selected16(op, i, j)
  BY DEF Selected16, Source, Alike
<1>6. codec(op) \in {"cr", "cr_mv"} /\ Alike(i, j, 12..12) => Selected16(op, i, j)
  BY DEF Selected16, Source, Alike
<1>7. codec(op) \in {"cr_jr", "cr_jalr"} /\ Alike(i, j, 12..12) /\ Alike(i, j, 2..6)
         => Selected16(op, i, j)
  BY DEF Selected16, Source, Alike
<1> QED
  BY <1>1, <1>2, <1>3, <1>4, <1>5, <1>6, <1>7

(* Quadrant 0 looks at it, for every isa.                                  *)
LEMMA Quadrant0Selected ==
    ASSUME NEW x, NEW i, NEW j, Quadrant0(i, x) = Quadrant0(j, x), Quadrant0(i, x) # "illegal"
    PROVE  Selected16(Quadrant0(i, x), i, j)
<1> DEFINE fld == IF x = "rv128" THEN "c.lq" ELSE "c.fld"
           flw == IF x = "rv32" THEN "c.flw" ELSE "c.ld"
           fsd == IF x = "rv128" THEN "c.sq" ELSE "c.fsd"
           fsw == IF x = "rv32" THEN "c.fsw" ELSE "c.sd"
           A == <<"c.addi4spn", fld, "c.lw", flw, "illegal", fsd, "c.sw", fsw>>
           n(w) == Bits(w, 13, 3)
<1>1. Quadrant0(i, x) = Switch(A, n(i)) /\ Quadrant0(j, x) = Switch(A, n(j))
  BY DEF Quadrant0
<1>2. /\ fld \in {"c.lq", "c.fld"} /\ flw \in {"c.flw", "c.ld"}
      /\ fsd \in {"c.sq", "c.fsd"} /\ fsw \in {"c.fsw", "c.sd"}
  OBVIOUS
<1> HIDE DEF fld, flw, fsd, fsw
<1>3. \A a, b \in DOMAIN A : A[a] = A[b] => a = b \/ A[a] = "illegal"
  BY <1>2
<1>4. \A a \in DOMAIN A : A[a] # "illegal" => A[a] \in FullOps
  BY <1>2 DEF FullOps
<1> HIDE DEF A
<1>5. n(i) \in Int /\ n(j) \in Int
  BY ShortFields
<1>6. Switch(A, n(i)) = Switch(A, n(j)) /\ Switch(A, n(i)) # "illegal"
  BY <1>1
<1> HIDE DEF n
<1>7. /\ n(i) = n(j) /\ n(i) + 1 \in DOMAIN A /\ Switch(A, n(i)) = A[n(i) + 1]
  BY <1>3, <1>5, <1>6, SwitchApart
<1>8. Quadrant0(i, x) \in FullOps
  BY <1>1, <1>4, <1>7
<1>9. Alike(i, j, 13..15)
  BY <1>7, ShortFields DEF n
<1> QED
  BY <1>8, <1>9, CompressedCodecs, Selected16By

(* The compressed operations with a register and with an immediate.        *)
ShortAlu == {"c.sub", "c.xor", "c.or", "c.and", "c.subw", "c.addw"}
ShortImm == {"c.srli", "c.srai", "c.andi"}

(* The operations of quadrant 1, and the bits that select them.            *)
LEMMA CompressedAluKinds ==
    ASSUME NEW w
    PROVE  /\ CompressedAlu(w) \in ShortImm \cup ShortAlu \cup {"illegal"}
           /\ CompressedAlu(w) \in ShortImm =>
                 /\ Bits(w, 10, 2) < 3
                 /\ CompressedAlu(w) = Switch(<<"c.srli", "c.srai", "c.andi">>, Bits(w, 10, 2))
           /\ CompressedAlu(w) \in ShortAlu =>
                 /\ Bits(w, 10, 2) = 3
                 /\ CompressedAlu(w) = Switch(<<"c.sub", "c.xor", "c.or", "c.and", "c.subw",
                                                "c.addw">>, 4 * Bits(w, 12, 1) + Bits(w, 5, 2))
<1> DEFINE kind == Bits(w, 10, 2)
           n == 4 * Bits(w, 12, 1) + Bits(w, 5, 2)
           imm == <<"c.srli", "c.srai", "c.andi">>
           alu == <<"c.sub", "c.xor", "c.or", "c.and", "c.subw", "c.addw">>
<1>1. kind \in 0..3
  BY ShortFields
<1>2. CompressedAlu(w) = IF kind < 3 THEN Switch(imm, kind) ELSE Switch(alu, n)
  BY DEF CompressedAlu
<1>3. \A k : Switch(imm, k) \in ShortImm \cup {"illegal"}
  BY DEF Switch, ShortImm
<1>4. \A k : Switch(alu, k) \in ShortAlu \cup {"illegal"}
  BY DEF Switch, ShortAlu
<1>5. ShortImm \cap ShortAlu = {} /\ "illegal" \notin ShortImm /\ "illegal" \notin ShortAlu
  BY DEF ShortImm, ShortAlu
<1>6. /\ CompressedAlu(w) \in ShortImm \cup ShortAlu \cup {"illegal"}
      /\ CompressedAlu(w) \in ShortImm => kind < 3 /\ CompressedAlu(w) = Switch(imm, kind)
      /\ CompressedAlu(w) \in ShortAlu => kind = 3 /\ CompressedAlu(w) = Switch(alu, n)
  <2> HIDE DEF kind, n, imm, alu
  <2> QED
    BY <1>1, <1>2, <1>3, <1>4, <1>5
<1> QED
  BY <1>6

(* So those with one opcode differ in operands only,                       *)
LEMMA CompressedAluSelected ==
    ASSUME NEW i, NEW j, CompressedAlu(i) = CompressedAlu(j), CompressedAlu(i) # "illegal",
           Alike(i, j, 13..15)
    PROVE  Selected16(CompressedAlu(i), i, j)
<1> DEFINE op == CompressedAlu(i)
           kind(w) == Bits(w, 10, 2)
           n(w) == 4 * Bits(w, 12, 1) + Bits(w, 5, 2)
<1>1. op \in ShortImm \cup ShortAlu
  BY CompressedAluKinds
<1>2. CASE op \in ShortImm
  <2> DEFINE A == <<"c.srli", "c.srai", "c.andi">>
  <2>1. Switch(A, kind(i)) = op /\ Switch(A, kind(j)) = op
    BY <1>2, CompressedAluKinds
  <2>2. \A a, b \in DOMAIN A : A[a] = A[b] => a = b \/ A[a] = "illegal"
    OBVIOUS
  <2>3. kind(i) \in Int /\ kind(j) \in Int
    BY ShortFields
  <2>4. op # "illegal"
    OBVIOUS
  <2> HIDE DEF A, kind, op
  <2>5. kind(i) = kind(j)
    BY <2>1, <2>2, <2>3, <2>4, SwitchApart
  <2>6. Alike(i, j, 10..11)
    BY <2>5, ShortFields DEF kind
  <2>7. codec(op) \in {"cb_sh6", "cb_imm"}
    BY <1>2, CompressedCodecs DEF ShortImm
  <2> QED
    BY <2>6, <2>7, Selected16By DEF op
<1>3. CASE op \in ShortAlu
  <2> DEFINE A == <<"c.sub", "c.xor", "c.or", "c.and", "c.subw", "c.addw">>
  <2>1. Switch(A, n(i)) = op /\ Switch(A, n(j)) = op /\ kind(i) = 3 /\ kind(j) = 3
    BY <1>3, CompressedAluKinds
  <2>2. \A a, b \in DOMAIN A : A[a] = A[b] => a = b \/ A[a] = "illegal"
    OBVIOUS
  <2>3. n(i) \in Int /\ n(j) \in Int
    BY ShortFields
  <2>4. op # "illegal"
    OBVIOUS
  <2>5. Alike(i, j, 10..11)
    BY <2>1, ShortFields
  <2> HIDE DEF A, n, kind, op
  <2>6. n(i) = n(j)
    BY <2>1, <2>2, <2>3, <2>4, SwitchApart
  <2>7. Bits(i, 12, 1) = Bits(j, 12, 1) /\ Bits(i, 5, 2) = Bits(j, 5, 2)
    <3>1. /\ Bits(i, 12, 1) \in 0..1 /\ Bits(j, 12, 1) \in 0..1
          /\ Bits(i, 5, 2) \in 0..3 /\ Bits(j, 5, 2) \in 0..3
      BY ShortFields
    <3> QED
      BY <2>6, <3>1 DEF n
  <2>8. Alike(i, j, 12..12) /\ Alike(i, j, 5..6)
    BY <2>7, ShortFields
  <2>9. codec(op) = "cs"
    BY <1>3, CompressedCodecs DEF ShortAlu
  <2> QED
    BY <2>5, <2>8, <2>9, Selected16By DEF op
<1> QED
  BY <1>1, <1>2, <1>3

(* and all of quadrant 1.                                                  *)
LEMMA Quadrant1Selected ==
    ASSUME NEW x, NEW i, NEW j, Quadrant1(i, x) = Quadrant1(j, x), Quadrant1(i, x) # "illegal"
    PROVE  Selected16(Quadrant1(i, x), i, j)
<1> DEFINE nop(w) == IF Bits(w, 2, 11) = 0 THEN "c.nop" ELSE "c.addi"
           jal == JalOrAddiw(i, x)
           lui(w) == IF Bits(w, 7, 5) = 2 THEN "c.addi16sp" ELSE "c.lui"
           alu(w) == CompressedAlu(w)
           A(w) == <<nop(w), jal, "c.li", lui(w), alu(w), "c.j", "c.beqz", "c.bnez">>
           n(w) == Bits(w, 13, 3)
           op == Quadrant1(i, x)
<1>1. op = Switch(A(i), n(i)) /\ op = Switch(A(j), n(j)) /\ op # "illegal"
  BY DEF Quadrant1, JalOrAddiw
<1>2. \A w : /\ nop(w) \in {"c.nop", "c.addi"} /\ lui(w) \in {"c.addi16sp", "c.lui"}
             /\ alu(w) \in ShortImm \cup ShortAlu \cup {"illegal"}
  BY CompressedAluKinds
<1>3. jal \in {"c.jal", "c.addiw"}
  BY DEF JalOrAddiw
<1>4. /\ nop(i) = "c.nop" /\ nop(j) = "c.nop" => Alike(i, j, 2..12)
      /\ lui(i) = "c.addi16sp" /\ lui(j) = "c.addi16sp" => Alike(i, j, 7..11)
  BY ShortFields, FieldsTell
<1>5. alu(i) = alu(j) /\ alu(i) # "illegal" /\ Alike(i, j, 13..15) => Selected16(alu(i), i, j)
  BY CompressedAluSelected
<1> SUFFICES Selected16(op, i, j)
  OBVIOUS
<1>6. n(i) \in Int /\ n(j) \in Int
  BY ShortFields
<1>7. n(i) = n(j) => Alike(i, j, 13..15)
  BY ShortFields
<1> HIDE DEF op, nop, jal, lui, alu, n
<1>8. \A a \in DOMAIN A(i), b \in DOMAIN A(j) : A(i)[a] = A(j)[b] => a = b \/ A(i)[a] = "illegal"
  BY <1>2, <1>3 DEF ShortImm, ShortAlu
<1>9. /\ n(i) = n(j) /\ n(i) + 1 \in DOMAIN A(i)
      /\ op = A(i)[n(i) + 1] /\ op = A(j)[n(j) + 1]
  <2> DEFINE B == A(i)
             C == A(j)
  <2>1. \A a \in DOMAIN B, b \in DOMAIN C : B[a] = C[b] => a = b \/ B[a] = "illegal"
    BY <1>8
  <2>2. Switch(B, n(i)) = op /\ Switch(C, n(j)) = op /\ op # "illegal"
    BY <1>1
  <2> HIDE DEF A, B, C
  <2>3. Switch(B, n(i)) = Switch(C, n(j)) /\ Switch(B, n(i)) # "illegal"
    BY <2>2
  <2>4. /\ n(i) = n(j) /\ n(i) + 1 \in DOMAIN B
        /\ Switch(B, n(i)) = B[n(i) + 1] /\ Switch(C, n(j)) = C[n(j) + 1]
    BY <1>6, <2>1, <2>3, SwitchApart
  <2> QED
    BY <2>2, <2>4 DEF B, C
<1>10. Alike(i, j, 13..15)
  BY <1>7, <1>9
<1>11. n(i) + 1 \in 1..8
  BY <1>9
<1>12. CASE n(i) + 1 = 1
  <2>1. op = nop(i) /\ op = nop(j)
    BY <1>9, <1>12
  <2>2. CASE op = "c.nop"
    BY <1>4, <1>10, <2>1, <2>2, CompressedCodecs, Selected16By
  <2>3. CASE op = "c.addi"
    BY <1>10, <2>3, CompressedCodecs, Selected16By DEF FullOps
  <2> QED
    BY <1>2, <2>1, <2>2, <2>3
<1>13. CASE n(i) + 1 = 4
  <2>1. op = lui(i) /\ op = lui(j)
    BY <1>9, <1>13
  <2>2. CASE op = "c.addi16sp"
    BY <1>4, <1>10, <2>1, <2>2, CompressedCodecs, Selected16By
  <2>3. CASE op = "c.lui"
    BY <1>10, <2>3, CompressedCodecs, Selected16By DEF FullOps
  <2> QED
    BY <1>2, <2>1, <2>2, <2>3
<1>14. CASE n(i) + 1 = 5
  <2>1. op = alu(i) /\ op = alu(j)
    BY <1>9, <1>14
  <2> QED
    BY <1>1, <1>5, <1>10, <2>1
<1>15. CASE n(i) + 1 \in {2, 3, 6, 7, 8}
  <2>1. op \in {"c.jal", "c.addiw", "c.li", "c.j", "c.beqz", "c.bnez"}
    BY <1>3, <1>9, <1>15
  <2>2. op \in FullOps
    BY <2>1 DEF FullOps
  <2> QED
    BY <1>10, <2>2, CompressedCodecs, Selected16By
<1> QED
  BY <1>11, <1>12, <1>13, <1>14, <1>15

(* Jumps and moves of quadrant 2 are told by which registers are 0.        *)
LEMMA JumpOrMoveSelected ==
    ASSUME NEW i, NEW j, JumpOrMove(i) = JumpOrMove(j), Alike(i, j, 13..15)
    PROVE  Selected16(JumpOrMove(i), i, j)
<1> DEFINE op == JumpOrMove(i)
<1>1. ASSUME NEW w
      PROVE  /\ JumpOrMove(w) \in {"c.jr", "c.mv", "c.add", "c.ebreak", "c.jalr"}
             /\ JumpOrMove(w) \in {"c.jr", "c.mv"} => Bits(w, 12, 1) = 0
             /\ JumpOrMove(w) \in {"c.add", "c.ebreak", "c.jalr"} => Bits(w, 12, 1) = 1
             /\ JumpOrMove(w) \in {"c.jr", "c.jalr", "c.ebreak"} => Bits(w, 2, 5) = 0
             /\ JumpOrMove(w) = "c.ebreak" => Bits(w, 7, 5) = 0
  <2>1. Bits(w, 12, 1) \in 0..1
    BY ShortFields
  <2> QED
    BY <2>1 DEF JumpOrMove
<1>2. op = JumpOrMove(j)
  OBVIOUS
<1>3. /\ op \in {"c.jr", "c.mv", "c.add", "c.ebreak", "c.jalr"} /\ Bits(i, 12, 1) = Bits(j, 12, 1)
      /\ op \in {"c.jr", "c.jalr", "c.ebreak"} => Bits(i, 2, 5) = Bits(j, 2, 5)
      /\ op = "c.ebreak" => Bits(i, 7, 5) = Bits(j, 7, 5)
  <2>1. op = JumpOrMove(i)
    OBVIOUS
  <2> HIDE DEF op
  <2> QED
    BY <1>1, <1>2, <2>1
<1> HIDE DEF op
<1>4. /\ Alike(i, j, 12..12)
      /\ op \in {"c.jr", "c.jalr", "c.ebreak"} => Alike(i, j, 2..6)
      /\ op = "c.ebreak" => Alike(i, j, 7..11)
  BY <1>3, ShortFields, FieldsTell
<1>5. CASE op = "c.ebreak"
  <2>1. Alike(i, j, 2..12)
    BY <1>4, <1>5 DEF Alike
  <2> QED
    BY <1>5, <2>1, CompressedCodecs, Selected16By DEF op
<1>6. CASE op \in {"c.jr", "c.jalr"}
  <2>1. codec(op) \in {"cr_jr", "cr_jalr"}
    BY <1>6, CompressedCodecs
  <2> QED
    BY <1>4, <1>6, <2>1, Selected16By DEF op
<1>7. CASE op \in {"c.mv", "c.add"}
  <2>1. codec(op) \in {"cr", "cr_mv"}
    BY <1>7, CompressedCodecs
  <2> QED
    BY <1>4, <2>1, Selected16By DEF op
<1> QED
  BY <1>3, <1>5, <1>6, <1>7

(* So quadrant 2 looks at what it must too.                                *)
LEMMA Quadrant2Selected ==
    ASSUME NEW x, NEW i, NEW j, Quadrant2(i, x) = Quadrant2(j, x), Quadrant2(i, x) # "illegal"
    PROVE  Selected16(Quadrant2(i, x), i, j)
<1> DEFINE fld == IF x = "rv128" THEN "c.lqsp" ELSE "c.fldsp"
           flw == IF x = "rv32" THEN "c.flwsp" ELSE "c.ldsp"
           fsd == IF x = "rv128" THEN "c.sqsp" ELSE "c.fsdsp"
           fsw == IF x = "rv32" THEN "c.fswsp" ELSE "c.sdsp"
           move(w) == JumpOrMove(w)
           A(w) == <<"c.slli", fld, "c.lwsp", flw, move(w), fsd, "c.swsp", fsw>>
           n(w) == Bits(w, 13, 3)
           op == Quadrant2(i, x)
<1>1. op = Switch(A(i), n(i)) /\ op = Switch(A(j), n(j)) /\ op # "illegal"
  BY DEF Quadrant2
<1>2. /\ fld \in {"c.lqsp", "c.fldsp"} /\ flw \in {"c.flwsp", "c.ldsp"}
      /\ fsd \in {"c.sqsp", "c.fsdsp"} /\ fsw \in {"c.fswsp", "c.sdsp"}
  OBVIOUS
<1>3. \A w : move(w) \in {"c.jr", "c.mv", "c.add", "c.ebreak", "c.jalr"}
  BY DEF JumpOrMove
<1>4. move(i) = move(j) /\ Alike(i, j, 13..15) => Selected16(move(i), i, j)
  BY JumpOrMoveSelected
<1> SUFFICES Selected16(op, i, j)
  OBVIOUS
<1>5. n(i) \in Int /\ n(j) \in Int
  BY ShortFields
<1>6. n(i) = n(j) => Alike(i, j, 13..15)
  BY ShortFields
<1> HIDE DEF op, fld, flw, fsd, fsw, move, n
<1>7. \A a \in DOMAIN A(i), b \in DOMAIN A(j) : A(i)[a] = A(j)[b] => a = b \/ A(i)[a] = "illegal"
  BY <1>2, <1>3
<1>8. /\ n(i) = n(j) /\ n(i) + 1 \in DOMAIN A(i)
      /\ op = A(i)[n(i) + 1] /\ op = A(j)[n(j) + 1]
  <2> DEFINE B == A(i)
             C == A(j)
  <2>1. \A a \in DOMAIN B, b \in DOMAIN C : B[a] = C[b] => a = b \/ B[a] = "illegal"
    BY <1>7
  <2>2. Switch(B, n(i)) = op /\ Switch(C, n(j)) = op /\ op # "illegal"
    BY <1>1
  <2> HIDE DEF A, B, C
  <2>3. Switch(B, n(i)) = Switch(C, n(j)) /\ Switch(B, n(i)) # "illegal"
    BY <2>2
  <2>4. /\ n(i) = n(j) /\ n(i) + 1 \in DOMAIN B
        /\ Switch(B, n(i)) = B[n(i) + 1] /\ Switch(C, n(j)) = C[n(j) + 1]
    BY <1>5, <2>1, <2>3, SwitchApart
  <2> QED
    BY <2>2, <2>4 DEF B, C
<1>9. Alike(i, j, 13..15)
  BY <1>6, <1>8
<1>10. n(i) + 1 \in 1..8
  BY <1>8
<1>11. CASE n(i) + 1 = 5
  <2>1. op = move(i) /\ op = move(j)
    BY <1>8, <1>11
  <2> QED
    BY <1>4, <1>9, <2>1
<1>12. CASE n(i) + 1 \in {1, 2, 3, 4, 6, 7, 8}
  <2>1. op \in {"c.slli", "c.lqsp", "c.fldsp", "c.lwsp", "c.flwsp", "c.ldsp", "c.sqsp", "c.fsdsp",
                "c.swsp", "c.fswsp", "c.sdsp"}
    BY <1>2, <1>8, <1>12
  <2>2. op \in FullOps
    BY <2>1 DEF FullOps
  <2> QED
    BY <1>9, <2>2, CompressedCodecs, Selected16By
<1> QED
  BY <1>10, <1>11, <1>12

-----------------------------------------------------------------------------
(***************************************************************************)
(* The whole word.                                                         *)
(***************************************************************************)
LEMMA LowBits ==
    ASSUME NEW i
    PROVE  /\ Bits(i, 0, 2) \in 0..3
           /\ Bits(i, 0, 2) = 3 <=> {0, 1} \subseteq i
           /\ \A j : Alike(i, j, 0..1) => Bits(i, 0, 2) = Bits(j, 0, 2)
<1>1. ASSUME NEW w PROVE Bits(w, 0, 2) = Value(w \cap 0..1)
  <2>1. w \cap 0..(2 - 1) \subseteq 0..11 /\ 0..(2 - 1) = 0..1
    OBVIOUS
  <2> QED
    BY <2>1, BitsValue
<1>2. Value(i \cap 0..1) \in 0..3 /\ (Value(i \cap 0..1) = 3 <=> {0, 1} \subseteq i)
  BY DEF Value, Digit
<1>3. \A j : Alike(i, j, 0..1) => i \cap 0..1 = j \cap 0..1
  BY DEF Alike
<1> QED
  BY <1>1, <1>2, <1>3

(* Words of more than 32 bits have no opcode.                              *)
LEMMA LongIllegal ==
    ASSUME NEW i, {2, 3, 4} \subseteq i
    PROVE  Quadrant3(i) = "illegal"
<1> DEFINE low == Lowered(i, 2, 5)
<1>1. low \subseteq 0..4 /\ {0, 1, 2} \subseteq low
  BY DEF Lowered
<1>2. Bits(i, 2, 5) = Value(low)
  <2>1. low \subseteq 0..11
    BY <1>1
  <2> QED
    BY <2>1, BitsAt
<1> HIDE DEF low
<1>3. Value(low) \in {7, 15, 23, 31}
  BY <1>1 DEF Value, Digit
<1> QED
  BY <1>2, <1>3, Quadrant3Cases

(* Opcode and operands fix a short word.                                   *)
LEMMA ShortApart ==
    ASSUME NEW x, NEW i, NEW j, ~ {0, 1} \subseteq i, Alike(i, j, 0..1),
           decode_inst_opcode(i, x) = decode_inst_opcode(j, x),
           decode_inst_opcode(i, x) # "illegal",
           decode_inst_operands(codec(decode_inst_opcode(i, x)), i)
             = decode_inst_operands(codec(decode_inst_opcode(i, x)), j)
    PROVE  Alike(i, j, 2..15)
<1> DEFINE op == decode_inst_opcode(i, x)
           c == codec(op)
<1>1. Bits(i, 0, 2) \in {0, 1, 2} /\ Bits(j, 0, 2) = Bits(i, 0, 2)
  BY LowBits
<1>2. Selected16(op, i, j)
  <2>1. CASE Bits(i, 0, 2) = 0
    <3>1. op = Quadrant0(i, x) /\ op = Quadrant0(j, x) /\ op # "illegal"
      BY <1>1, <2>1 DEF decode_inst_opcode
    <3> HIDE DEF op
    <3> QED
      BY <3>1, Quadrant0Selected
  <2>2. CASE Bits(i, 0, 2) = 1
    <3>1. op = Quadrant1(i, x) /\ op = Quadrant1(j, x) /\ op # "illegal"
      BY <1>1, <2>2 DEF decode_inst_opcode
    <3> HIDE DEF op
    <3> QED
      BY <3>1, Quadrant1Selected
  <2>3. CASE Bits(i, 0, 2) = 2
    <3>1. op = Quadrant2(i, x) /\ op = Quadrant2(j, x) /\ op # "illegal"
      BY <1>1, <2>3 DEF decode_inst_opcode
    <3> HIDE DEF op
    <3> QED
      BY <3>1, Quadrant2Selected
  <2> QED
    BY <1>1, <2>1, <2>2, <2>3
<1>3. decode_inst_operands(c, i) = decode_inst_operands(c, j)
  OBVIOUS
<1>4. c \in DOMAIN Source /\ Alike(i, j, (2..15) \ Source[c])
  BY <1>2 DEF Selected16
<1> HIDE DEF op, c
<1>5. Alike(i, j, Source[c])
  BY <1>3, <1>4, OperandsAlike
<1> QED
  BY <1>4, <1>5 DEF Alike

(* A word with a bit changed differs in that bit, and in no other.         *)
LEMMA FlipApart ==
    ASSUME NEW i, NEW b
    PROVE  /\ ~ (b \in i <=> b \in Flip(i, b))
           /\ b \notin 0..1 => Alike(i, Flip(i, b), 0..1)
  BY DEF Flip, Alike

(* So no bit of a word of any length may be changed without a trace.       *)
LEMMA WordApart ==
    ASSUME NEW x, NEW i, NEW n \in {2, 4, 6, 8}, inst_length(i) = n,
           decode_inst_opcode(i, x) \notin {"illegal", "fence", "fence.i"},
           NEW b \in 2..(8 * n - 1),
           decode_inst_opcode(Flip(i, b), x) = decode_inst_opcode(i, x),
           decode_inst_operands(codec(decode_inst_opcode(Flip(i, b), x)), Flip(i, b))
             = decode_inst_operands(codec(decode_inst_opcode(i, x)), i)
    PROVE  FALSE
<1> DEFINE j == Flip(i, b)
           op == decode_inst_opcode(i, x)
<1>1. Alike(i, j, 0..1) /\ ~ (b \in i <=> b \in j)
  BY FlipApart
<1>2. /\ op # "illegal" /\ op \notin {"fence", "fence.i"}
      /\ op = decode_inst_opcode(i, x) /\ op = decode_inst_opcode(j, x)
      /\ decode_inst_operands(codec(op), i) = decode_inst_operands(codec(op), j)
  OBVIOUS
<1> HIDE DEF j, op
<1>3. CASE n = 2
  <2>1. ~ {0, 1} \subseteq i
    BY <1>3 DEF inst_length
  <2>2. Alike(i, j, 2..15)
    BY <1>1, <1>2, <2>1, ShortApart
  <2> QED
    BY <1>1, <1>3, <2>2 DEF Alike
<1>4. CASE n # 2
  <2>1. {0, 1} \subseteq i
    BY <1>4 DEF inst_length
  <2>2. Bits(i, 0, 2) = 3 /\ Bits(j, 0, 2) = 3
    BY <1>1, <2>1, LowBits
  <2>3. op = Quadrant3(i) /\ op = Quadrant3(j)
    BY <1>2, <2>2 DEF decode_inst_opcode
  <2>4. ~ {2, 3, 4} \subseteq i
    BY <1>2, <2>3, LongIllegal
  <2>5. n = 4
    BY <2>1, <2>4 DEF inst_length
  <2>6. NoSpareBits(Quadrant3(i)) /\ Quadrant3(i) = Quadrant3(j)
    BY <1>2, <2>3 DEF NoSpareBits
  <2>7. decode_inst_operands(codec(Quadrant3(i)), i) = decode_inst_operands(codec(Quadrant3(i)), j)
    BY <1>2, <2>3
  <2>8. Alike(i, j, 2..31)
    BY <2>6, <2>7, WideApart
  <2> QED
    BY <1>1, <2>5, <2>8 DEF Alike
<1> QED
  BY <1>3, <1>4

-----------------------------------------------------------------------------
(* What is decoded is the fetched word.                                    *)
DecodedInv == stage \in {"opcode", "operands"} => dec.op = decode_inst_opcode(dec.inst, isa)

(* Nothing is decoded at first,                                            *)
LEMMA InitDecoded == Init => DecodedInv
  BY DEF Init, DecodedInv

(* and what is decoded is not changed before it is lifted or decompressed. *)
LEMMA DecodedNext == CodecInv /\ DecodedInv /\ [Next]_vars => DecodedInv'
<1> SUFFICES ASSUME CodecInv, DecodedInv, [Next]_vars PROVE DecodedInv'
  OBVIOUS
<1>1. DecShape
  BY DEF CodecInv
<1>2. CASE DecodeOpcode
  <2>1. dec' = Renamed(dec, decode_inst_opcode(dec.inst, isa)) /\ isa' = isa
    BY <1>2 DEF DecodeOpcode, Renamed
  <2>2. dec'.op = decode_inst_opcode(dec.inst, isa)
    BY <1>1, <2>1, RenamedFields
  <2>3. dec'.inst = dec.inst
    BY <1>1, <2>1 DEF DecShape, DecFields, Renamed
  <2> QED
    BY <2>1, <2>2, <2>3 DEF DecodedInv
<1>3. CASE DecodeOperands
  <2>1. stage = "opcode" /\ isa' = isa
    BY <1>3 DEF DecodeOperands
  <2>2. dec'.op = dec.op /\ dec'.inst = dec.inst
    BY <1>1, <1>3, OperandsDecoded
  <2> QED
    BY <2>1, <2>2 DEF DecodedInv
<1>4. CASE InstFetch \/ Decompress \/ LiftPseudo \/ Format \/ Advance \/ Return
  <2>1. stage' \notin {"opcode", "operands"}
    BY <1>4 DEF InstFetch, Decompress, LiftPseudo, Format, Advance, Return
  <2> QED
    BY <2>1 DEF DecodedInv
<1>5. CASE UNCHANGED vars
  BY <1>5 DEF vars, DecodedInv
<1> QED
  BY <1>2, <1>3, <1>4, <1>5 DEF Next

-----------------------------------------------------------------------------
(***************************************************************************)
(* How long a text is.                                                     *)
(***************************************************************************)
(* A loop over the list s from base on.                                    *)
AddsTo(g, base, s)    == /\ g \in [0..Len(s) -> Nat] /\ g[0] = base
                         /\ \A k \in 1..Len(s) : g[k] = g[k - 1] + s[k]
AppendsTo(g, base, s) == /\ g \in [0..Len(s) -> Nat] /\ g[0] = base
                         /\ \A k \in 1..Len(s) : g[k] = append(g[k - 1], s[k], BufLen)

Summed(base, s) == FoldLeft(+, base, s)

(* A fold that adds is such a loop, from any number on.                    *)
LEMMA AddLoop ==
    ASSUME NEW s \in Seq(Nat), NEW base \in Nat
    PROVE  \E f : AddsTo(f, base, s) /\ Summed(base, s) = f[Len(s)]
<1> DEFINE n == Len(s)
           step == [k \in 1..n |-> [m \in Nat |-> m + s[k]]]
           Rec(g) == g = [R \in SUBSET (DOMAIN s) |->
                             IF R = {} THEN base ELSE g[R \ {Max(R)}] + s[Max(R)]]
           g == CHOOSE h : Rec(h)
<1>1. n \in Nat /\ DOMAIN s = 1..n /\ \A k \in 1..n : s[k] \in Nat
  BY LenProperties, ElementOfSeq
<1>2. IsStep(step, Nat, n)
  BY <1>1 DEF IsStep
<1>3. PICK h : IsFold(h, Nat, n, base, step)
  <2> HIDE DEF step, n
  <2> QED
    BY <1>1, <1>2, FoldExists
<1>4. Rec(h)
  <2>1. h \in [SUBSET (1..n) -> Nat] /\ h[{}] = base
    BY <1>3 DEF IsFold
  <2>2. ASSUME NEW R \in SUBSET (1..n), R # {}
        PROVE  h[R] = h[R \ {Max(R)}] + s[Max(R)]
    <3>1. Max(R) \in R /\ h[R] = step[Max(R)][h[R \ {Max(R)}]]
      BY <1>3, <2>2 DEF IsFold
    <3>2. Max(R) \in 1..n /\ R \ {Max(R)} \in SUBSET (1..n)
      BY <3>1
    <3>3. h[R \ {Max(R)}] \in Nat
      BY <2>1, <3>2
    <3> QED
      BY <3>1, <3>2, <3>3
  <2> QED
    BY <1>1, <2>1, <2>2
<1>5. Rec(g)
  <2> HIDE DEF Rec
  <2> QED
    BY <1>4
<1>6. Follows(g, Nat, n, base, step)
  <2>1. g = [R \in SUBSET (1..n) |->
                IF R = {} THEN base ELSE g[R \ {Max(R)}] + s[Max(R)]]
    BY <1>1, <1>5
  <2> HIDE DEF g
  <2>2. g[1..0] = base
    <3>1. 1..0 = {} /\ {} \in SUBSET (1..n)
      OBVIOUS
    <3> QED
      BY <2>1, <3>1
  <2>3. ASSUME NEW k \in 1..n, g[1..(k - 1)] \in Nat
        PROVE  g[1..k] = step[k][g[1..(k - 1)]]
    <3>1. 1..k \in SUBSET (1..n) /\ 1..k # {} /\ k \in Nat \ {0}
      <4>1. n \in Nat /\ k \in Nat /\ 1 <= k /\ k <= n
        BY <1>1
      <4> HIDE DEF n
      <4> QED
        BY <4>1, SegmentMax
    <3>2. g[1..k] = g[(1..k) \ {Max(1..k)}] + s[Max(1..k)]
      BY <2>1, <3>1
    <3>3. Max(1..k) = k /\ (1..k) \ {k} = 1..(k - 1)
      BY <3>1, SegmentMax
    <3> QED
      BY <2>3, <3>2, <3>3
  <2> QED
    BY <2>2, <2>3 DEF Follows
<1>7. Summed(base, s) = g[DOMAIN s]
  BY DEF Summed, FoldLeft, MapThenFoldSet
<1> DEFINE f == [k \in 0..n |-> g[1..k]]
<1>8. IsLoop(f, Nat, n, base, step)
  <2> HIDE DEF g, step, n
  <2> QED
    BY <1>1, <1>2, <1>6, FoldIsLoop
<1>9. f[n] = g[DOMAIN s]
  BY <1>1
<1> HIDE DEF f, g
<1>10. AddsTo(f, base, s)
  <2>1. ASSUME NEW k \in 1..n PROVE f[k] = f[k - 1] + s[k]
    <3>1. k - 1 \in 0..n /\ f \in [0..n -> Nat]
      BY <1>1, <1>8 DEF IsLoop
    <3>2. f[k - 1] \in Nat /\ f[k] = step[k][f[k - 1]]
      BY <1>8, <3>1 DEF IsLoop
    <3> QED
      BY <3>2
  <2> QED
    BY <1>8, <2>1 DEF AddsTo, IsLoop
<1> QED
  BY <1>7, <1>9, <1>10

(* append to a text: as long as there is room it adds all characters.      *)
LEMMA AppendNat ==
    ASSUME NEW l \in Nat, NEW w \in Nat
    PROVE  /\ append(l, w, BufLen) \in Nat
           /\ l + w < BufLen => append(l, w, BufLen) = l + w
<1>1. \A a, b \in Int : Min({a, b}) \in {a, b} /\ Min({a, b}) <= a /\ Min({a, b}) <= b
  <2> SUFFICES ASSUME NEW a \in Int, NEW b \in Int
               PROVE  Min({a, b}) \in {a, b} /\ Min({a, b}) <= a /\ Min({a, b}) <= b
    OBVIOUS
  <2>1. \E x \in {a, b} : \A y \in {a, b} : x <= y
    <3>1. CASE a <= b
      BY <3>1
    <3>2. CASE b <= a
      BY <3>2
    <3> QED
      BY <3>1, <3>2
  <2> QED
    BY <2>1 DEF Min
<1>2. BufLen - l \in Int /\ w \in Int
  BY DEF BufLen
<1>3. /\ Min({w, BufLen - l}) \in {w, BufLen - l} /\ Min({w, BufLen - l}) <= w
      /\ Min({w, BufLen - l}) <= BufLen - l
  BY <1>1, <1>2
<1> DEFINE m == Min({w, BufLen - l})
<1> HIDE DEF m
<1>4. m \in {w, BufLen - l} /\ m <= w /\ m <= BufLen - l
  BY <1>3 DEF m
<1>5. append(l, w, BufLen) = IF BufLen - l - 1 > 0 THEN l + m ELSE l
  BY DEF append, m
<1> QED
  BY <1>4, <1>5 DEF BufLen

Appended(base, s) == FoldLeft(LAMBDA l, w : append(l, w, BufLen), base, s)

(* A fold that appends is a loop too.                                      *)
LEMMA AppendLoop ==
    ASSUME NEW s \in Seq(Nat), NEW base \in Nat
    PROVE  \E f : /\ AppendsTo(f, base, s)
                  /\ Appended(base, s) = f[Len(s)]
<1> DEFINE n == Len(s)
           put(l, w) == append(l, w, BufLen)
           step == [k \in 1..n |-> [m \in Nat |-> put(m, s[k])]]
           Rec(g) == g = [R \in SUBSET (DOMAIN s) |->
                             IF R = {} THEN base ELSE put(g[R \ {Max(R)}], s[Max(R)])]
           g == CHOOSE h : Rec(h)
<1>1. n \in Nat /\ DOMAIN s = 1..n /\ \A k \in 1..n : s[k] \in Nat
  BY LenProperties, ElementOfSeq
<1>a. \A l, w \in Nat : put(l, w) \in Nat
  BY AppendNat
<1>b. Appended(base, s) = g[DOMAIN s]
  BY DEF Appended, FoldLeft, MapThenFoldSet
<1> HIDE DEF put
<1>2. IsStep(step, Nat, n)
  BY <1>1, <1>a DEF IsStep
<1>3. PICK h : IsFold(h, Nat, n, base, step)
  <2> HIDE DEF step, n
  <2> QED
    BY <1>1, <1>2, FoldExists
<1>4. Rec(h)
  <2>1. h \in [SUBSET (1..n) -> Nat] /\ h[{}] = base
    BY <1>3 DEF IsFold
  <2>2. ASSUME NEW R \in SUBSET (1..n), R # {}
        PROVE  h[R] = put(h[R \ {Max(R)}], s[Max(R)])
    <3>1. Max(R) \in R /\ h[R] = step[Max(R)][h[R \ {Max(R)}]]
      BY <1>3, <2>2 DEF IsFold
    <3>2. Max(R) \in 1..n /\ R \ {Max(R)} \in SUBSET (1..n)
      BY <3>1
    <3>3. h[R \ {Max(R)}] \in Nat
      BY <2>1, <3>2
    <3> QED
      BY <3>1, <3>2, <3>3
  <2> QED
    BY <1>1, <2>1, <2>2
<1>5. Rec(g)
  <2> HIDE DEF Rec
  <2> QED
    BY <1>4
<1>6. Follows(g, Nat, n, base, step)
  <2>1. g = [R \in SUBSET (1..n) |->
                IF R = {} THEN base ELSE put(g[R \ {Max(R)}], s[Max(R)])]
    BY <1>1, <1>5
  <2> HIDE DEF g
  <2>2. g[1..0] = base
    <3>1. 1..0 = {} /\ {} \in SUBSET (1..n)
      OBVIOUS
    <3> QED
      BY <2>1, <3>1
  <2>3. ASSUME NEW k \in 1..n, g[1..(k - 1)] \in Nat
        PROVE  g[1..k] = step[k][g[1..(k - 1)]]
    <3>1. 1..k \in SUBSET (1..n) /\ 1..k # {} /\ k \in Nat \ {0}
      <4>1. n \in Nat /\ k \in Nat /\ 1 <= k /\ k <= n
        BY <1>1
      <4> HIDE DEF n
      <4> QED
        BY <4>1, SegmentMax
    <3>2. g[1..k] = put(g[(1..k) \ {Max(1..k)}], s[Max(1..k)])
      BY <2>1, <3>1
    <3>3. Max(1..k) = k /\ (1..k) \ {k} = 1..(k - 1)
      BY <3>1, SegmentMax
    <3> QED
      BY <2>3, <3>2, <3>3
  <2> QED
    BY <2>2, <2>3 DEF Follows
<1> DEFINE f == [k \in 0..n |-> g[1..k]]
<1>8. IsLoop(f, Nat, n, base, step)
  <2> HIDE DEF g, step, n
  <2> QED
    BY <1>1, <1>2, <1>6, FoldIsLoop
<1>9. f[n] = g[DOMAIN s]
  BY <1>1
<1> HIDE DEF f, g
<1>10. AppendsTo(f, base, s)
  <2>1. ASSUME NEW k \in 1..n PROVE f[k] = put(f[k - 1], s[k])
    <3>1. k - 1 \in 0..n /\ f \in [0..n -> Nat]
      BY <1>1, <1>8 DEF IsLoop
    <3>2. f[k - 1] \in Nat /\ f[k] = step[k][f[k - 1]]
      BY <1>8, <3>1 DEF IsLoop
    <3> QED
      BY <3>2
  <2> QED
    BY <1>8, <2>1 DEF AppendsTo, IsLoop, put
<1> QED
  BY <1>b, <1>9, <1>10

(* A loop that adds never goes down.                                       *)
LEMMA AddsUp ==
    ASSUME NEW s \in Seq(Nat), NEW base \in Nat, NEW f, AddsTo(f, base, s)
    PROVE  \A k \in 0..Len(s) : f[k] \in Nat /\ f[k] <= f[Len(s)]
<1> DEFINE n == Len(s)
           S == {j \in 0..n : f[n - j] <= f[n]}
<1>1. n \in Nat /\ \A k \in 1..n : s[k] \in Nat
  BY LenProperties, ElementOfSeq
<1>2. \A k \in 0..n : f[k] \in Nat
  BY DEF AddsTo
<1>3. 0 \in S
  BY <1>1, <1>2
<1>4. ASSUME NEW j \in 0..(n - 1), j \in S PROVE j + 1 \in S
  <2>1. n - j \in 1..n /\ n - (j + 1) \in 0..n /\ (n - j) - 1 = n - (j + 1)
    BY <1>1
  <2>2. f[n - j] = f[n - (j + 1)] + s[n - j]
    BY <2>1 DEF AddsTo
  <2>3. f[n - (j + 1)] \in Nat /\ s[n - j] \in Nat /\ f[n - j] <= f[n]
    BY <1>1, <1>2, <1>4, <2>1
  <2>4. f[n] \in Nat
    BY <1>1, <1>2
  <2> QED
    BY <2>1, <2>2, <2>3, <2>4, <1>1
<1>5. 0..n \subseteq S
  <2> HIDE DEF S, n
  <2> QED
    BY <1>1, <1>3, <1>4, UpTo
<1>6. ASSUME NEW k \in 0..n PROVE f[k] <= f[n]
  <2>1. n - k \in S
    <3>1. n - k \in 0..n
      <4> HIDE DEF n, S
      <4> QED
        BY <1>1
    <3> HIDE DEF n, S
    <3> QED
      BY <1>5, <3>1
  <2>2. n - (n - k) = k
    <3> HIDE DEF n
    <3> QED
      BY <1>1
  <2> QED
    BY <2>1, <2>2
<1> QED
  BY <1>2, <1>6

(* Pieces that fit together are appended whole.                            *)
LEMMA AppendsAll ==
    ASSUME NEW s \in Seq(Nat), NEW base \in Nat, Summed(base, s) < BufLen
    PROVE  Appended(base, s) = Summed(base, s)
<1> DEFINE n == Len(s)
<1>1. n \in Nat /\ \A k \in 1..n : s[k] \in Nat
  BY LenProperties, ElementOfSeq
<1>2. PICK f : AddsTo(f, base, s) /\ Summed(base, s) = f[n]
  BY AddLoop
<1>3. PICK g : /\ AppendsTo(g, base, s)
               /\ Appended(base, s) = g[n]
  BY AppendLoop
<1> DEFINE S == {k \in 0..n : g[k] = f[k]}
<1>4. 0 \in S
  <2>1. g[0] = f[0]
    BY <1>2, <1>3 DEF AddsTo, AppendsTo
  <2>2. 0 \in 0..n
    <3> HIDE DEF n
    <3> QED
      BY <1>1
  <2> QED
    BY <2>1, <2>2
<1>5. ASSUME NEW k \in 0..(n - 1), k \in S PROVE k + 1 \in S
  <2>1. k + 1 \in 1..n /\ (k + 1) - 1 = k /\ k + 1 \in 0..n /\ k \in 0..n /\ n \in 0..n
    <3> HIDE DEF n, S
    <3> QED
      BY <1>1
  <2>2. f[k + 1] = f[k] + s[k + 1] /\ g[k + 1] = append(g[k], s[k + 1], BufLen)
    BY <1>2, <1>3, <2>1 DEF AddsTo, AppendsTo
  <2>3. f[k] \in Nat /\ f[k + 1] \in Nat /\ f[k + 1] <= f[n] /\ s[k + 1] \in Nat /\ f[n] \in Nat
    <3>1. \A j \in 0..n : f[j] \in Nat /\ f[j] <= f[n]
      BY <1>2, AddsUp
    <3> HIDE DEF n, S
    <3> QED
      BY <1>1, <2>1, <3>1
  <2>4. f[k] + s[k + 1] < BufLen
    BY <1>2, <2>2, <2>3 DEF BufLen
  <2>5. append(f[k], s[k + 1], BufLen) = f[k] + s[k + 1]
    BY <2>3, <2>4, AppendNat
  <2> QED
    BY <1>5, <2>1, <2>2, <2>5
<1>6. 0..n \subseteq S
  <2> HIDE DEF S, n
  <2> QED
    BY <1>1, <1>4, <1>5, UpTo
<1>7. g[n] = f[n]
  <2>1. n \in 0..n
    <3> HIDE DEF n, S
    <3> QED
      BY <1>1
  <2> QED
    BY <1>6, <2>1
<1> QED
  BY <1>2, <1>3, <1>7

(* All pieces together.                                                    *)
Total(s) == Summed(0, s)

LEMMA TotalFrom ==
    ASSUME NEW s \in Seq(Nat), NEW base \in Nat
    PROVE  Total(s) \in Nat /\ Summed(base, s) = base + Total(s)
<1> DEFINE n == Len(s)
<1>1. n \in Nat /\ \A k \in 1..n : s[k] \in Nat
  BY LenProperties, ElementOfSeq
<1>2. PICK f : AddsTo(f, base, s) /\ Summed(base, s) = f[n]
  BY AddLoop
<1>3. PICK g : AddsTo(g, 0, s) /\ Total(s) = g[n]
  BY AddLoop DEF Total
<1> DEFINE S == {k \in 0..n : f[k] = base + g[k]}
<1>4. /\ f[0] = base /\ \A k \in 1..n : f[k] = f[k - 1] + s[k]
      /\ g \in [0..n -> Nat] /\ g[0] = 0 /\ \A k \in 1..n : g[k] = g[k - 1] + s[k]
  BY <1>2, <1>3 DEF AddsTo
<1> HIDE DEF n
<1>5. 0 \in S
  BY <1>1, <1>4
<1>6. ASSUME NEW k \in 0..(n - 1), k \in S PROVE k + 1 \in S
  <2>1. k + 1 \in 1..n /\ (k + 1) - 1 = k /\ k \in 0..n
    BY <1>1
  <2>2. f[k + 1] = f[k] + s[k + 1] /\ g[k + 1] = g[k] + s[k + 1] /\ g[k] \in Nat
        /\ s[k + 1] \in Nat
    BY <1>1, <1>4, <2>1
  <2> QED
    BY <1>6, <2>1, <2>2
<1>7. 0..n \subseteq S
  <2> HIDE DEF S
  <2> QED
    BY <1>1, <1>5, <1>6, UpTo
<1>8. f[n] = base + g[n] /\ g[n] \in Nat
  BY <1>1, <1>4, <1>7
<1> QED
  BY <1>2, <1>3, <1>8

(* A list and one after it.                                                *)
LEMMA TotalJoin ==
    ASSUME NEW u \in Seq(Nat), NEW v \in Seq(Nat)
    PROVE  u \o v \in Seq(Nat) /\ Total(u \o v) = Total(u) + Total(v)
<1> DEFINE w == u \o v
           m == Len(u)
           n == Len(v)
<1>1. m \in Nat /\ n \in Nat /\ w \in Seq(Nat) /\ Len(w) = m + n
  BY LenProperties, ConcatProperties
<1>2. /\ \A k \in 1..m : w[k] = u[k] /\ u[k] \in Nat
      /\ \A k \in 1..n : w[m + k] = v[k] /\ v[k] \in Nat
  <2>1. Joins(u, v, w)
    BY DEF Joins
  <2>2. Starts(u, w) /\ \A j \in 1..n : w[m + j] = v[j]
    BY <2>1, JoinProperties
  <2>3. (\A k \in 1..m : u[k] \in Nat) /\ \A k \in 1..n : v[k] \in Nat
    BY ElementOfSeq
  <2> QED
    BY <2>2, <2>3 DEF Starts
<1>3. PICK f : AddsTo(f, 0, u) /\ Total(u) = f[m]
  BY AddLoop DEF Total
<1>4. PICK h : AddsTo(h, 0, w) /\ Total(w) = h[Len(w)]
  <2> HIDE DEF w
  <2> QED
    BY <1>1, AddLoop DEF Total
<1>5. PICK g : AddsTo(g, Total(u), v) /\ Summed(Total(u), v) = g[n]
  <2>1. Total(u) \in Nat
    BY TotalFrom
  <2> QED
    BY <2>1, AddLoop
<1>6. /\ f[0] = 0 /\ \A k \in 1..m : f[k] = f[k - 1] + u[k]
      /\ g[0] = f[m] /\ \A k \in 1..n : g[k] = g[k - 1] + v[k]
      /\ h[0] = 0 /\ \A k \in 1..(m + n) : h[k] = h[k - 1] + w[k]
  BY <1>1, <1>3, <1>4, <1>5 DEF AddsTo
<1> HIDE DEF w, m, n
<1> DEFINE S == {k \in 0..m : h[k] = f[k]}
           T == {k \in 0..n : h[m + k] = g[k]}
<1>7. m \in S
  <2>1. 0 \in S
    BY <1>1, <1>6
  <2>2. ASSUME NEW k \in 0..(m - 1), k \in S PROVE k + 1 \in S
    <3>1. k + 1 \in 1..m /\ (k + 1) - 1 = k /\ k + 1 \in 1..(m + n)
      BY <1>1
    <3>2. f[k + 1] = f[k] + u[k + 1] /\ h[k + 1] = h[k] + w[k + 1] /\ w[k + 1] = u[k + 1]
      BY <1>2, <1>6, <3>1
    <3> QED
      BY <1>1, <2>2, <3>1, <3>2
  <2> HIDE DEF S
  <2>3. 0..m \subseteq S
    BY <1>1, <2>1, <2>2, UpTo
  <2> QED
    BY <1>1, <2>3
<1>8. n \in T
  <2>1. 0 \in T
    BY <1>1, <1>6, <1>7
  <2>2. ASSUME NEW k \in 0..(n - 1), k \in T PROVE k + 1 \in T
    <3>1. /\ k + 1 \in 1..n /\ (k + 1) - 1 = k /\ m + (k + 1) \in 1..(m + n)
          /\ (m + (k + 1)) - 1 = m + k
      BY <1>1
    <3>2. /\ g[k + 1] = g[k] + v[k + 1] /\ h[m + (k + 1)] = h[m + k] + w[m + (k + 1)]
          /\ w[m + (k + 1)] = v[k + 1]
      BY <1>2, <1>6, <3>1
    <3> QED
      BY <1>1, <2>2, <3>1, <3>2
  <2> HIDE DEF T
  <2>3. 0..n \subseteq T
    BY <1>1, <2>1, <2>2, UpTo
  <2> QED
    BY <1>1, <2>3
<1>9. Total(w) = Summed(Total(u), v)
  BY <1>1, <1>4, <1>5, <1>8
<1>10. Summed(Total(u), v) = Total(u) + Total(v)
  BY TotalFrom
<1> QED
  BY <1>1, <1>9, <1>10 DEF w

(* Short lists.                                                            *)
LEMMA TotalShort ==
    /\ << >> \in Seq(Nat) /\ Total(<< >>) = 0
    /\ \A a \in Nat : <<a>> \in Seq(Nat) /\ Total(<<a>>) = a
    /\ \A a, b, c \in Nat : <<a, b, c>> \in Seq(Nat) /\ Total(<<a, b, c>>) = a + b + c
<1>1. << >> \in Seq(Nat) /\ Total(<< >>) = 0
  <2>1. << >> \in Seq(Nat) /\ Len(<< >>) = 0
    BY EmptySeq
  <2>2. PICK f : AddsTo(f, 0, << >>) /\ Total(<< >>) = f[0]
    BY <2>1, AddLoop DEF Total
  <2> QED
    BY <2>1, <2>2 DEF AddsTo
<1>2. ASSUME NEW a \in Nat PROVE <<a>> \in Seq(Nat) /\ Total(<<a>>) = a
  <2> DEFINE s == <<a>>
  <2>1. s \in Seq(Nat) /\ Len(s) = 1 /\ s[1] = a
    OBVIOUS
  <2> HIDE DEF s
  <2>2. PICK f : AddsTo(f, 0, s) /\ Total(s) = f[1]
    BY <2>1, AddLoop DEF Total
  <2>3. f[0] = 0 /\ f[1] = f[0] + s[1]
    BY <2>1, <2>2 DEF AddsTo
  <2>4. Total(s) = a
    BY <2>1, <2>2, <2>3
  <2> QED
    BY <2>1, <2>4 DEF s
<1>3. ASSUME NEW a \in Nat, NEW b \in Nat, NEW c \in Nat
      PROVE  <<a, b, c>> \in Seq(Nat) /\ Total(<<a, b, c>>) = a + b + c
  <2> DEFINE s == <<a, b, c>>
  <2>1. s \in Seq(Nat) /\ Len(s) = 3 /\ s[1] = a /\ s[2] = b /\ s[3] = c
    OBVIOUS
  <2> HIDE DEF s
  <2>2. PICK f : AddsTo(f, 0, s) /\ Total(s) = f[3]
    BY <2>1, AddLoop DEF Total
  <2>3. f[0] = 0 /\ f[1] = f[0] + s[1] /\ f[2] = f[1] + s[2] /\ f[3] = f[2] + s[3]
    BY <2>1, <2>2 DEF AddsTo
  <2>4. Total(s) = a + b + c
    BY <2>1, <2>2, <2>3
  <2> QED
    BY <2>1, <2>4 DEF s
<1> QED
  BY <1>1, <1>2, <1>3

(* The first m lists of a flattened list take at most m times what each    *)
(* of them does.                                                           *)
LEMMA FlattenAtMost ==
    ASSUME NEW s, NEW f, IsFlattening(f, s, Nat), NEW m \in 0..Len(s), NEW most \in Nat,
           \A k \in 1..m : Total(s[k]) <= most
    PROVE  Total(f[m]) <= m * most
<1>1. Len(s) \in Nat /\ m \in Nat
  BY FlattenTypes
<1> DEFINE S == {k \in 0..m : Total(f[k]) <= k * most}
<1>2. 0 \in S
  BY <1>1, TotalShort DEF IsFlattening
<1>3. ASSUME NEW k \in 0..(m - 1), k \in S PROVE k + 1 \in S
  <2>1. k + 1 \in 1..m /\ k + 1 \in 1..Len(s) /\ (k + 1) - 1 = k /\ k \in 0..Len(s) /\ k \in Nat
    BY <1>1
  <2>2. f[k + 1] = f[k] \o s[k + 1]
    BY <2>1 DEF IsFlattening
  <2>3. f[k] \in Seq(Nat) /\ s[k + 1] \in Seq(Nat)
    BY <2>1, FlattenState, FlattenPiece
  <2>4. Total(f[k + 1]) = Total(f[k]) + Total(s[k + 1])
    BY <2>2, <2>3, TotalJoin
  <2>5. Total(f[k]) \in Nat /\ Total(s[k + 1]) \in Nat /\ Total(s[k + 1]) <= most
        /\ Total(f[k]) <= k * most
    BY <1>3, <2>1, <2>3, TotalFrom
  <2>6. (k + 1) * most = k * most + most /\ k * most \in Nat
    BY <2>1
  <2> DEFINE a == k * most
  <2> HIDE DEF a
  <2>7. Total(f[k + 1]) <= a + most
    BY <2>4, <2>5, <2>6 DEF a
  <2> QED
    BY <1>1, <2>1, <2>6, <2>7 DEF a
<1>4. 0..m \subseteq S
  <2> HIDE DEF S
  <2> QED
    BY <1>1, <1>2, <1>3, UpTo
<1> QED
  BY <1>1, <1>4

(* The greatest number of a set is one of it.                              *)
LEMMA MaxBelow ==
    ASSUME NEW n \in Nat, NEW S, S \subseteq 0..n, S # {}
    PROVE  Max(S) \in S
<1> DEFINE T == {m \in Nat : \A x \in S : x <= m}
<1>1. PICK m \in T : \A t \in T : m <= t
  <2>1. n \in T
    OBVIOUS
  <2> HIDE DEF T
  <2> QED
    BY <2>1, LeastNatural DEF T
<1>2. m \in S
  <2> SUFFICES ASSUME m \notin S PROVE FALSE
    OBVIOUS
  <2>1. PICK x \in S : TRUE
    OBVIOUS
  <2>2. m \in Nat /\ x \in Nat /\ x <= m /\ x # m
    BY <2>1
  <2>3. m - 1 \in T
    BY <2>2
  <2> QED
    BY <1>1, <2>2, <2>3
<1>3. \E x \in S : \A y \in S : x >= y
  BY <1>2
<1> QED
  BY <1>3 DEF Max

(* The width of a number.                                                  *)
LEMMA HexShort == ASSUME NEW w, w \subseteq 0..63 PROVE HexWidth(w) \in 1..16
<1>1. CASE w = {}
  BY <1>1 DEF HexWidth
<1>2. CASE w # {}
  <2>1. Max(w) \in 0..63
    BY <1>2, MaxBelow
  <2> QED
    BY <1>2, <2>1 DEF HexWidth
<1> QED
  BY <1>1, <1>2

(* A set of the powers below 10^10.                                        *)
LEMMA NineAtMost == ASSUME NEW S, S \subseteq 1..9 PROVE Cardinality(S) \in 0..9
<1>1. IsFiniteSet(1..9) /\ Cardinality(1..9) = 9
  <2> DEFINE last == 9
  <2>1. last \in Int /\ 1 \in Int /\ ~ (1 > last)
    OBVIOUS
  <2> HIDE DEF last
  <2>2. IsFiniteSet(1..last) /\ Cardinality(1..last) = last - 1 + 1
    BY <2>1, FS_Interval
  <2>3. last - 1 + 1 = last
    BY <2>1
  <2> QED
    BY <2>2, <2>3 DEF last
<1>2. IsFiniteSet(S) /\ Cardinality(S) <= 9
  BY <1>1, FS_Subset
<1> QED
  BY <1>2, FS_CardinalityType

(* A 32 bit number has at most ten digits and a sign; an address sixteen   *)
(* hexadecimal digits.                                                     *)
LEMMA DecimalShort == ASSUME NEW n PROVE DecimalWidth(n) \in 1..11
<1> DEFINE up   == {k \in 1..9 : n >= 10^k}
           down == {k \in 1..9 : n <= -(10^k)}
<1>1. up \subseteq 1..9 /\ down \subseteq 1..9
  OBVIOUS
<1>2. DecimalWidth(n) = IF n >= 0 THEN 1 + Cardinality(up) ELSE 2 + Cardinality(down)
  BY DEF DecimalWidth
<1> HIDE DEF up, down
<1>3. Cardinality(up) \in 0..9 /\ Cardinality(down) \in 0..9
  BY <1>1, NineAtMost
<1>4. 1 + Cardinality(up) \in 1..11 /\ 2 + Cardinality(down) \in 1..11
  BY <1>3
<1> QED
  BY <1>2, <1>4, Zenon

LEMMA TargetShort == ASSUME NEW w PROVE TargetWidth(w) \in 1..16
<1> DEFINE target == pc + Signed32(w)
           powers == {k \in 1..7 : target >= 16^k}
<1>1. powers \subseteq 1..9
  OBVIOUS
<1>2. TargetWidth(w) = IF target < 0 THEN 16 ELSE 1 + Cardinality(powers)
  BY DEF TargetWidth
<1> HIDE DEF target, powers
<1>3. Cardinality(powers) \in 0..9
  BY <1>1, NineAtMost
<1>4. 16 \in 1..16 /\ 1 + Cardinality(powers) \in 1..16
  BY <1>3
<1> QED
  BY <1>2, <1>4, Zenon

-----------------------------------------------------------------------------
(* The most characters an operand takes.                                   *)
Longest(letter) ==
    CASE letter \in {"aq", "rl"}   -> 3
      [] letter = "(rs1)"          -> 6
      [] letter \in {"imm", "zimm"} -> 11
      [] letter = "csr"            -> 14
      [] letter = "offset"         -> 32
      [] OTHER                     -> 4

(* A list of ones is as long as its total.                                 *)
LEMMA FenceShort ==
    ASSUME NEW w
    PROVE  LET ones == [k \in 1..Cardinality(FenceLetters(w)) |-> 1]
           IN  ones \in Seq(Nat) /\ Total(ones) <= 4
<1> DEFINE c == Cardinality(FenceLetters(w))
           ones == [k \in 1..c |-> 1]
<1>1. c \in 0..4
  <2>1. FenceLetters(w) \subseteq {"i", "o", "r", "w"}
    BY DEF FenceLetters, rv_fence
  <2>2. IsFiniteSet({"i", "o", "r", "w"}) /\ Cardinality({"i", "o", "r", "w"}) <= 4
    <3>1. \A S, x : \A n \in Nat : IsFiniteSet(S) /\ Cardinality(S) <= n
                        => IsFiniteSet(S \cup {x}) /\ Cardinality(S \cup {x}) <= n + 1
      <4> SUFFICES ASSUME NEW S, NEW x, NEW n \in Nat, IsFiniteSet(S), Cardinality(S) <= n
                   PROVE  IsFiniteSet(S \cup {x}) /\ Cardinality(S \cup {x}) <= n + 1
        OBVIOUS
      <4>1. /\ IsFiniteSet(S \cup {x})
            /\ Cardinality(S \cup {x}) = Cardinality(S)
               \/ Cardinality(S \cup {x}) = Cardinality(S) + 1
        BY FS_AddElement
      <4>2. Cardinality(S) \in Nat
        BY FS_CardinalityType
      <4> QED
        BY <4>1, <4>2
    <3>2. IsFiniteSet({"i"}) /\ Cardinality({"i"}) <= 1
      BY FS_Singleton
    <3>7. 1 \in Nat /\ 2 \in Nat /\ 3 \in Nat /\ 1 + 1 = 2 /\ 2 + 1 = 3 /\ 3 + 1 = 4
      OBVIOUS
    <3>3. IsFiniteSet({"i"} \cup {"o"}) /\ Cardinality({"i"} \cup {"o"}) <= 2
      BY <3>1, <3>2, <3>7, Zenon
    <3>6. /\ IsFiniteSet({"i"} \cup {"o"} \cup {"r"})
          /\ Cardinality({"i"} \cup {"o"} \cup {"r"}) <= 3
      BY <3>1, <3>3, <3>7, Zenon
    <3>4. /\ IsFiniteSet({"i"} \cup {"o"} \cup {"r"} \cup {"w"})
          /\ Cardinality({"i"} \cup {"o"} \cup {"r"} \cup {"w"}) <= 4
      <4> DEFINE U == {"i"} \cup {"o"} \cup {"r"}
      <4>1. IsFiniteSet(U) /\ Cardinality(U) <= 3
        BY <3>6
      <4> HIDE DEF U
      <4>2. IsFiniteSet(U \cup {"w"}) /\ Cardinality(U \cup {"w"}) <= 3 + 1
        BY <3>1, <3>7, <4>1, Zenon
      <4> QED
        BY <3>7, <4>2, Zenon DEF U
    <3>5. {"i"} \cup {"o"} \cup {"r"} \cup {"w"} = {"i", "o", "r", "w"}
      OBVIOUS
    <3> QED
      BY <3>4, <3>5
  <2> QED
    BY <2>1, <2>2, FS_Subset, FS_CardinalityType
<1> HIDE DEF c
<1>2. ones \in Seq(Nat) /\ Len(ones) = c /\ \A k \in 1..c : ones[k] = 1
  BY <1>1
<1> HIDE DEF ones
<1>3. PICK f : AddsTo(f, 0, ones) /\ Total(ones) = f[c]
  BY <1>2, AddLoop DEF Total
<1> DEFINE S == {k \in 0..c : f[k] = k}
<1>4. f[0] = 0 /\ \A k \in 1..c : f[k] = f[k - 1] + 1
  BY <1>2, <1>3 DEF AddsTo
<1>5. 0 \in S
  BY <1>1, <1>4
<1>6. ASSUME NEW k \in 0..(c - 1), k \in S PROVE k + 1 \in S
  <2>1. k + 1 \in 1..c /\ (k + 1) - 1 = k
    BY <1>1
  <2> QED
    BY <1>4, <1>6, <2>1
<1>7. 0..c \subseteq S
  <2> HIDE DEF S
  <2> QED
    BY <1>1, <1>5, <1>6, UpTo
<1>8. Total(ones) = c
  BY <1>1, <1>3, <1>7
<1> QED
  BY <1>1, <1>2, <1>8 DEF ones, c

(* The longest names, as NamesShort gives them.                            *)
LEMMA RegistersShort ==
    /\ \A n \in 0..31 : /\ Len(rv_ireg_name_sym[n]) \in 0..4
                        /\ Len(rv_freg_name_sym[n]) \in 0..4
    /\ \A w \in SUBSET (0..2) : Len(RoundingName(w)) \in 0..4
  BY NamesShort

LEMMA OpcodesShort == \A op \in rv_op : Len(op) \in Nat /\ Len(op) <= 10
<1> SUFFICES ASSUME NEW op \in rv_op PROVE Len(op) \in Nat /\ Len(op) <= 10
  OBVIOUS
<1> DEFINE l == Len(op)
<1>1. l \in 0..10
  BY NamesShort
<1> HIDE DEF l
<1>2. l \in Nat /\ l <= 10
  BY <1>1
<1> QED
  BY <1>2 DEF l

LEMMA CsrShort == \A n \in CsrNumbers : Len(CsrText(n)) \in 0..14
<1>1. \A name \in {CsrText(n) : n \in CsrNumbers} : Len(name) \in 0..14
  BY NamesShort DEF CsrLast, CsrNumbers
<1> QED
  BY <1>1

(* No operand takes more.                                                  *)
LEMMA AppendsShort ==
    ASSUME NEW letter \in Letters, NEW w, Fit(letter, w)
    PROVE  /\ Appends(letter, w) \in Seq(Nat)
           /\ Total(Appends(letter, w)) <= Longest(letter)
<1>1. CASE letter = "(rs1)"
  <2>1. w \in SUBSET (0..4)
    BY <1>1 DEF Fit
  <2> DEFINE l == Len(rv_ireg_name_sym[Number(w)])
  <2>2. l \in 0..4
    <3>1. Number(w) \in 0..31
      BY <2>1, RegisterNumber
    <3> QED
      BY <3>1, RegistersShort, Zenon
  <2>3. Appends(letter, w) = <<1, l, 1>>
    BY <1>1 DEF Appends, Shown
  <2> HIDE DEF l
  <2>4. <<1, l, 1>> \in Seq(Nat) /\ Total(<<1, l, 1>>) = 1 + l + 1
    BY <2>2, TotalShort
  <2>5. Longest(letter) = 6
    BY <1>1 DEF Longest
  <2> QED
    BY <2>2, <2>3, <2>4, <2>5
<1>2. CASE letter \in {"pred", "succ"}
  <2>1. Appends(letter, w) = [k \in 1..Cardinality(FenceLetters(w)) |-> 1]
    BY <1>2 DEF Appends
  <2>2. Longest(letter) = 4
    BY <1>2 DEF Longest
  <2> QED
    BY <2>1, <2>2, FenceShort
<1>3. CASE letter \in {"imm", "zimm"}
  <2> DEFINE l == DecimalWidth(Signed32(w))
  <2>1. l \in 1..11
    BY DecimalShort
  <2>2. Appends(letter, w) = <<l>>
    BY <1>3 DEF Appends
  <2> HIDE DEF l
  <2>3. <<l>> \in Seq(Nat) /\ Total(<<l>>) = l
    BY <2>1, TotalShort
  <2>4. Longest(letter) = 11
    BY <1>3 DEF Longest
  <2> QED
    BY <2>1, <2>2, <2>3, <2>4
<1>4. CASE letter = "offset"
  <2> DEFINE l == DecimalWidth(Signed32(w))
             t == 4 + TargetWidth(w)
  <2>1. l \in Nat /\ l <= 11
    BY DecimalShort
  <2>5. t \in Nat /\ t <= 20
    BY TargetShort
  <2>2. Appends(letter, w) = <<l, 1, t>>
    BY <1>4 DEF Appends, WithTarget
  <2> HIDE DEF l, t
  <2>3. <<l, 1, t>> \in Seq(Nat) /\ Total(<<l, 1, t>>) = l + 1 + t
    BY <2>1, <2>5, TotalShort
  <2>4. Longest(letter) = 32
    BY <1>4 DEF Longest
  <2> QED
    BY <2>1, <2>5, <2>2, <2>3, <2>4
<1>5. CASE letter \in {"aq", "rl"}
  <2>1. Appends(letter, w) = << >> \/ Appends(letter, w) = <<3>>
    BY <1>5 DEF Appends
  <2>2. /\ << >> \in Seq(Nat) /\ Total(<< >>) = 0
        /\ <<3>> \in Seq(Nat) /\ Total(<<3>>) = 3
    BY TotalShort
  <2>3. Longest(letter) = 3 /\ 0 <= 3 /\ 3 <= 3
    BY <1>5 DEF Longest
  <2> QED
    BY <2>1, <2>2, <2>3, Zenon
<1>6. CASE letter \in {"rd", "rs1", "rs2", "frd", "frs1", "frs2", "frs3", "csr", "rm"}
  <2> DEFINE l == Len(Shown(letter, w))
  <2>1. Appends(letter, w) = <<l>>
    BY <1>6 DEF Appends
  <2>2. l \in 0..Longest(letter)
    <3>1. CASE letter \in {"rd", "rs1", "rs2"}
      <4>1. w \in SUBSET (0..4) /\ Shown(letter, w) = rv_ireg_name_sym[Number(w)]
        BY <3>1 DEF Fit, Shown
      <4>2. Longest(letter) = 4
        BY <3>1 DEF Longest
      <4>3. Number(w) \in 0..31
        BY <4>1, RegisterNumber
      <4> QED
        BY <4>1, <4>2, <4>3, RegistersShort, Zenon
    <3>2. CASE letter \in {"frd", "frs1", "frs2", "frs3"}
      <4>1. w \in SUBSET (0..4) /\ Shown(letter, w) = rv_freg_name_sym[Number(w)]
        BY <3>2 DEF Fit, Shown
      <4>2. Longest(letter) = 4
        BY <3>2 DEF Longest
      <4>3. Number(w) \in 0..31
        BY <4>1, RegisterNumber
      <4> QED
        BY <4>1, <4>2, <4>3, RegistersShort, Zenon
    <3>3. CASE letter = "csr"
      <4>1. w \cap 0..11 \in SUBSET (0..11) /\ Shown(letter, w) = CsrText(Number(w \cap 0..11))
        BY <3>3 DEF Shown
      <4>2. Number(w \cap 0..11) \in CsrNumbers
        BY <4>1, CsrNumber
      <4>3. Longest(letter) = 14
        BY <3>3 DEF Longest
      <4> QED
        BY <4>1, <4>2, <4>3, CsrShort
    <3>4. CASE letter = "rm"
      <4>1. w \in SUBSET (0..2) /\ Shown(letter, w) = RoundingName(w)
        BY <3>4 DEF Fit, Shown
      <4>2. Longest(letter) = 4
        BY <3>4 DEF Longest
      <4> QED
        BY <4>1, <4>2, RegistersShort, Zenon
    <3> QED
      BY <1>6, <3>1, <3>2, <3>3, <3>4
  <2> HIDE DEF l
  <2>3. Longest(letter) \in Nat
    BY <1>6 DEF Longest
  <2>4. l \in Nat /\ l <= Longest(letter)
    BY <2>2, <2>3
  <2>5. <<l>> \in Seq(Nat) /\ Total(<<l>>) = l
    BY <2>4, TotalShort
  <2> QED
    BY <2>1, <2>4, <2>5
<1> QED
  BY <1>1, <1>2, <1>3, <1>4, <1>5, <1>6 DEF Letters

(* How the formats are made: five letters that show little; three that     *)
(* show no address; an address after registers.                            *)
LittleFormats ==
    {<< >>, rd_rs1_rs2, fp3, <<"pred", "succ">>, <<"aq", "rl", "rd", "(rs1)">>,
     <<"aq", "rl", "rd", "rs2", "(rs1)">>, <<"rs1">>, <<"rs1", "rs2">>,
     <<"rm", "frd", "frs1", "frs2", "frs3">>, <<"rm", "frd", "frs1", "frs2">>,
     <<"rm", "frd", "frs1">>, <<"rd", "frs1", "frs2">>, <<"rm", "rd", "frs1">>,
     <<"rm", "frd", "rs1">>, <<"rd", "frs1">>, <<"frd", "rs1">>, <<"rd", "rs1">>,
     <<"rd", "rs2">>, <<"rd">>}
NumberFormats ==
    {rd_rs1_imm, rd_mem, frd_mem, rs2_mem, frs2_mem, <<"rd", "imm">>, <<"rd", "csr", "rs1">>,
     <<"rd", "csr", "zimm">>, <<"rd", "zimm">>}
TargetFormats ==
    {<<"offset">>, <<"rd", "offset">>, <<"rs1", "offset">>, <<"rs2", "offset">>,
     <<"rs1", "rs2", "offset">>, <<"rs2", "rs1", "offset">>}
Formats == LittleFormats \cup NumberFormats \cup TargetFormats

(* Every format is one of these.                                           *)
LEMMA FloatShape == \A row \in FloatRows : row[2] \in Formats
<1> DEFINE fused   == Names({"fmadd", "fmsub", "fnmsub", "fnmadd"}, FpSuffix)
           rounded == Names({"fadd", "fsub", "fmul", "fdiv"}, FpSuffix)
           exact   == Names({"fsgnj", "fsgnjn", "fsgnjx", "fmin", "fmax"}, FpSuffix)
           unary   == Names({"fsqrt"}, FpSuffix)
              \cup {"fcvt" \o s[1] \o s[2] : s \in {p \in FpSuffix \X FpSuffix : p[1] # p[2]}}
           tests   == Names({"fle", "flt", "feq"}, FpSuffix)
           toInt   == Names(Names({"fcvt"}, {".w", ".wu", ".l", ".lu"}), FpSuffix)
           fromInt == Names(Names({"fcvt"}, FpSuffix), {".w", ".wu", ".l", ".lu"})
           toBits  == Names({"fmv.x", "fclass"}, FpSuffix)
           ofBits  == Names(Names({"fmv"}, FpSuffix), {".x"})
           rows == {
              <<"i", frd_mem, {"flw", "fld", "flq"}>>, <<"s", frs2_mem, {"fsw", "fsd", "fsq"}>>,
              <<"r4_m", <<"rm", "frd", "frs1", "frs2", "frs3">>, fused>>,
              <<"r_m", <<"rm", "frd", "frs1", "frs2">>, rounded>>,
              <<"r", fp3, exact>>, <<"r_m", <<"rm", "frd", "frs1">>, unary>>,
              <<"r", <<"rd", "frs1", "frs2">>, tests>>, <<"r_m", <<"rm", "rd", "frs1">>, toInt>>,
              <<"r_m", <<"rm", "frd", "rs1">>, fromInt>>, <<"r", <<"rd", "frs1">>, toBits>>,
              <<"r", <<"frd", "rs1">>, ofBits>>}
<1>1. FloatRows = rows
  BY DEF FloatRows
<1> HIDE DEF fused, rounded, exact, unary, tests, toInt, fromInt, toBits, ofBits
<1>2. \A row \in rows : row[2] \in Formats
  BY DEF Formats, LittleFormats, NumberFormats
<1> QED
  BY <1>1, <1>2

LEMMA FormatShape == \A op \in rv_op : format(op) \in Formats
<1>1. \A row \in IntegerRows : row[2] \in Formats
  BY DEF IntegerRows, Formats, LittleFormats, NumberFormats, TargetFormats
<1>2. \A row \in SystemRows : row[2] \in Formats
  BY DEF SystemRows, Formats, LittleFormats, NumberFormats
<1>3. \A row \in CompressedRows : row[2] \in Formats
  BY DEF CompressedRows, Formats, LittleFormats, NumberFormats, TargetFormats
<1>4. \A row \in PseudoRows : row[2] \in Formats
  BY DEF PseudoRows, Formats, LittleFormats, NumberFormats, TargetFormats
<1>5. ASSUME NEW op \in rv_op PROVE format(op) \in Formats
  <2>1. PICK row \in Rows : op \in row[3] /\ format(op) = row[2]
    BY RowOf
  <2>2. row[2] \in Formats
    <3>1. << >> \in Formats
      BY DEF Formats, LittleFormats
    <3> QED
      BY <1>1, <1>2, <1>3, <1>4, <3>1, FloatShape DEF Rows
  <2> QED
    BY <2>1, <2>2
<1> QED
  BY <1>5

(* What the letters of each kind take.                                     *)
Little == {"rd", "rs1", "rs2", "(rs1)", "frd", "frs1", "frs2", "frs3", "rm", "pred", "succ",
           "aq", "rl"}

LEMMA LittleShape ==
    ASSUME NEW s \in LittleFormats
    PROVE  Len(s) \in 0..5 /\ DOMAIN s = 1..Len(s) /\ \A k \in 1..Len(s) : s[k] \in Little
  BY DEF LittleFormats, Little, rd_rs1_rs2, fp3

LEMMA NumberShape ==
    ASSUME NEW s \in NumberFormats
    PROVE  Len(s) \in 0..3 /\ DOMAIN s = 1..Len(s) /\ \A k \in 1..Len(s) : s[k] # "offset"
  BY DEF NumberFormats, rd_rs1_imm, rd_mem, frd_mem, rs2_mem, frs2_mem

LEMMA TargetShape ==
    ASSUME NEW s \in TargetFormats
    PROVE  /\ Len(s) \in 1..3 /\ DOMAIN s = 1..Len(s) /\ s[Len(s)] = "offset"
           /\ \A k \in 1..(Len(s) - 1) : s[k] \in {"rd", "rs1", "rs2"}
<1> DEFINE Ends(n) == /\ Len(s) = n /\ DOMAIN s = 1..n /\ s[n] = "offset"
                      /\ \A k \in 1..(n - 1) : s[k] \in {"rd", "rs1", "rs2"}
<1>1. Ends(1) \/ Ends(2) \/ Ends(3)
  <2>1. CASE s = <<"offset">>
    <3>1. Ends(1)
      BY <2>1
    <3> QED
      BY <3>1
  <2>2. CASE s \in {<<"rd", "offset">>, <<"rs1", "offset">>, <<"rs2", "offset">>}
    <3>1. Ends(2)
      BY <2>2
    <3> QED
      BY <3>1
  <2>3. CASE s \in {<<"rs1", "rs2", "offset">>, <<"rs2", "rs1", "offset">>}
    <3>1. Ends(3)
      BY <2>3
    <3> QED
      BY <3>1
  <2> HIDE DEF Ends
  <2> QED
    BY <2>1, <2>2, <2>3 DEF TargetFormats
<1>2. 1 \in 1..3 /\ 2 \in 1..3 /\ 3 \in 1..3
  OBVIOUS
<1> QED
  BY <1>1, <1>2, Zenon

LEMMA LongestLetters ==
    /\ \A letter \in Little : Longest(letter) \in Nat /\ Longest(letter) <= 6
    /\ \A letter \in Letters \ {"offset"} : Longest(letter) \in Nat /\ Longest(letter) <= 14
    /\ \A letter \in {"rd", "rs1", "rs2"} : Longest(letter) = 4
    /\ Longest("offset") = 32
  BY DEF Longest, Little, Letters

(* A list of lists, put one after the other.                               *)
LEMMA LaidShort ==
    ASSUME NEW s \in Seq(Seq(Nat)), NEW most \in Nat, \A k \in 1..Len(s) : Total(s[k]) <= most
    PROVE  /\ FlattenSeq(s) \in Seq(Nat) /\ Total(FlattenSeq(s)) \in Nat
           /\ Total(FlattenSeq(s)) <= Len(s) * most
<1>1. PICK f : IsFlattening(f, s, Nat) /\ FlattenSeq(s) = f[Len(s)]
  BY FlattenLoop
<1>2. Len(s) \in Nat /\ Len(s) \in 0..Len(s)
  BY LenProperties
<1>3. f[Len(s)] \in Seq(Nat)
  BY <1>1, <1>2, FlattenState
<1>4. Total(f[Len(s)]) <= Len(s) * most
  BY <1>1, <1>2, FlattenAtMost
<1> QED
  BY <1>1, <1>3, <1>4, TotalFrom

LEMMA LaidLast ==
    ASSUME NEW s \in Seq(Seq(Nat)), NEW most \in Nat, NEW last \in Nat, Len(s) > 0,
           \A k \in 1..(Len(s) - 1) : Total(s[k]) <= most, Total(s[Len(s)]) <= last
    PROVE  /\ FlattenSeq(s) \in Seq(Nat) /\ Total(FlattenSeq(s)) \in Nat
           /\ Total(FlattenSeq(s)) <= (Len(s) - 1) * most + last
<1> DEFINE n == Len(s)
<1>1. PICK f : IsFlattening(f, s, Nat) /\ FlattenSeq(s) = f[n]
  BY FlattenLoop
<1>2. n \in Nat /\ n \in 0..n /\ n \in 1..n /\ n - 1 \in 0..n
  BY LenProperties
<1>3. f[n] \in Seq(Nat) /\ f[n - 1] \in Seq(Nat) /\ s[n] \in Seq(Nat)
  BY <1>1, <1>2, FlattenState, FlattenPiece
<1>4. Total(f[n - 1]) <= (n - 1) * most
  BY <1>1, <1>2, FlattenAtMost
<1>5. Total(f[n]) = Total(f[n - 1]) + Total(s[n])
  <2>1. f[n] = f[n - 1] \o s[n]
    BY <1>1, <1>2 DEF IsFlattening
  <2> QED
    BY <1>3, <2>1, TotalJoin
<1>6. Total(f[n]) \in Nat /\ Total(f[n - 1]) \in Nat /\ Total(s[n]) \in Nat
  BY <1>3, TotalFrom
<1>7. (n - 1) * most \in Nat
  BY <1>2
<1> DEFINE a == (n - 1) * most
<1> HIDE DEF a
<1>8. Total(f[n]) <= a + last
  BY <1>4, <1>5, <1>6, <1>7 DEF a
<1> QED
  BY <1>1, <1>3, <1>6, <1>8 DEF a

(* The pieces of a text take at most 62 characters: a name of ten, a space *)
(* and 51 for the operands.                                                *)
LEMMA PiecesShort ==
    ASSUME NEW d, d.op \in rv_op,
           \A k \in DOMAIN format(d.op) : /\ format(d.op)[k] \in Letters
                                          /\ Fit(format(d.op)[k], d[FieldOf(format(d.op)[k])])
    PROVE  Pieces(d) \in Seq(Nat) /\ Total(Pieces(d)) \in Nat /\ Total(Pieces(d)) <= 62
<1> DEFINE letters == format(d.op)
           n       == Len(letters)
           flags   == {k \in DOMAIN letters : letters[k] \in {"aq", "rl"}}
           c       == Cardinality(flags)
           Token(k) == Appends(letters[k], d[FieldOf(letters[k])])
           Lead(k)  == IF Comma(letters, k) THEN <<1>> ELSE << >>
           Rest(k)  == Lead(k + c) \o Token(k + c)
           head    == [k \in 1..c |-> Token(k)]
           tail    == [k \in 1..(n - c) |-> Rest(k)]
<1>1. letters \in Formats
  BY FormatShape
<1>2. n \in Nat /\ DOMAIN letters = 1..n
  BY <1>1, LittleShape, NumberShape, TargetShape DEF Formats
<1>3. c \in Nat /\ c <= n
  <2>1. flags \subseteq 1..n
    BY <1>2
  <2> HIDE DEF flags, letters
  <2>2. IsFiniteSet(1..n) /\ Cardinality(1..n) = n
    <3>1. 1 \in Int /\ n \in Int /\ (1 > n => n = 0)
      BY <1>2
    <3> HIDE DEF n
    <3>2. IsFiniteSet(1..n) /\ Cardinality(1..n) = IF 1 > n THEN 0 ELSE n - 1 + 1
      BY <3>1, FS_Interval
    <3> QED
      BY <3>1, <3>2
  <2> HIDE DEF n
  <2> QED
    BY <2>1, <2>2, FS_Subset, FS_CardinalityType
<1>4. \A k \in 1..n : Token(k) \in Seq(Nat) /\ Total(Token(k)) <= Longest(letters[k])
  BY <1>2, AppendsShort
<1>5. \A k \in 1..n : Total(Token(k)) \in Nat
  BY <1>4, TotalFrom
<1>6. \A k \in 1..n : Lead(k) \in Seq(Nat) /\ Total(Lead(k)) \in Nat /\ Total(Lead(k)) <= 1
  <2>1. /\ <<1>> \in Seq(Nat) /\ Total(<<1>>) = 1 /\ 1 \in Nat /\ 1 <= 1
        /\ << >> \in Seq(Nat) /\ Total(<< >>) = 0 /\ 0 \in Nat /\ 0 <= 1
    BY TotalShort
  <2> QED
    BY <2>1, Zenon
<1>7. Pieces(d) = <<Len(d.op)>> \o FlattenSeq(head) \o <<1>> \o FlattenSeq(tail)
  BY Zenon DEF Pieces
<1> HIDE DEF letters, n, flags, c, Token, Lead
<1>8. \A k \in 1..(n - c) :
         /\ k + c \in 1..n /\ Rest(k) \in Seq(Nat) /\ Total(Rest(k)) \in Nat
         /\ Total(Rest(k)) <= 1 + Total(Token(k + c))
  <2> SUFFICES ASSUME NEW k \in 1..(n - c)
               PROVE  /\ k + c \in 1..n /\ Rest(k) \in Seq(Nat) /\ Total(Rest(k)) \in Nat
                      /\ Total(Rest(k)) <= 1 + Total(Token(k + c))
    OBVIOUS
  <2>1. k + c \in 1..n
    BY <1>2, <1>3
  <2>2. Rest(k) \in Seq(Nat) /\ Total(Rest(k)) = Total(Lead(k + c)) + Total(Token(k + c))
    BY <1>4, <1>6, <2>1, TotalJoin
  <2> QED
    BY <1>5, <1>6, <2>1, <2>2
<1> HIDE DEF Rest
<1>9. head \in Seq(Seq(Nat)) /\ Len(head) = c /\ \A k \in 1..c : head[k] = Token(k)
  <2>1. \A k \in 1..c : Token(k) \in Seq(Nat)
    BY <1>2, <1>3, <1>4
  <2> QED
    BY <1>3, <2>1
<1>10. /\ tail \in Seq(Seq(Nat)) /\ Len(tail) = n - c
       /\ \A k \in 1..(n - c) : tail[k] = Rest(k)
  BY <1>2, <1>3, <1>8
<1> HIDE DEF head, tail
<1>11. ASSUME NEW most \in Nat, \A k \in 1..n : Total(Token(k)) + 1 <= most
       PROVE  /\ FlattenSeq(head) \in Seq(Nat) /\ FlattenSeq(tail) \in Seq(Nat)
              /\ Total(FlattenSeq(head)) \in Nat /\ Total(FlattenSeq(tail)) \in Nat
              /\ Total(FlattenSeq(head)) <= c * most
              /\ Total(FlattenSeq(tail)) <= (n - c) * most
  <2>1. \A k \in 1..c : Total(head[k]) <= most
    BY <1>2, <1>3, <1>5, <1>9, <1>11
  <2>2. \A k \in 1..(n - c) : Total(tail[k]) <= most
    BY <1>5, <1>8, <1>10, <1>11
  <2> QED
    BY <1>9, <1>10, <2>1, <2>2, LaidShort
<1>12. /\ FlattenSeq(head) \in Seq(Nat) /\ FlattenSeq(tail) \in Seq(Nat)
       /\ Total(FlattenSeq(head)) \in Nat /\ Total(FlattenSeq(tail)) \in Nat
       /\ Total(FlattenSeq(head)) + Total(FlattenSeq(tail)) <= 51
  <2>1. CASE letters \in LittleFormats
    <3>1. n <= 5 /\ \A k \in 1..n : letters[k] \in Little
      BY <1>2, <2>1, LittleShape DEF n
    <3>2. \A k \in 1..n : Total(Token(k)) + 1 <= 7
      BY <1>4, <1>5, <3>1, LongestLetters
    <3>3. /\ Total(FlattenSeq(head)) <= c * 7 /\ Total(FlattenSeq(tail)) <= (n - c) * 7
      BY <1>11, <3>2
    <3> QED
      BY <1>2, <1>3, <1>11, <3>1, <3>2, <3>3
  <2>2. CASE letters \in NumberFormats
    <3>1. n <= 3 /\ \A k \in 1..n : letters[k] \in Letters \ {"offset"}
      BY <1>2, <2>2, NumberShape DEF n, letters
    <3>2. \A k \in 1..n : Total(Token(k)) + 1 <= 15
      BY <1>4, <1>5, <3>1, LongestLetters
    <3>3. /\ Total(FlattenSeq(head)) <= c * 15 /\ Total(FlattenSeq(tail)) <= (n - c) * 15
      BY <1>11, <3>2
    <3> QED
      BY <1>2, <1>3, <1>11, <3>1, <3>2, <3>3
  <2>3. CASE letters \in TargetFormats
    <3>1. /\ n \in 1..3 /\ letters[n] = "offset"
          /\ \A k \in 1..(n - 1) : letters[k] \in {"rd", "rs1", "rs2"}
      BY <2>3, TargetShape DEF n
    <3>2. c = 0
      <4>1. \A k \in 1..n : letters[k] \notin {"aq", "rl"}
        <5> SUFFICES ASSUME NEW k \in 1..n PROVE letters[k] \notin {"aq", "rl"}
          OBVIOUS
        <5>1. k = n \/ k \in 1..(n - 1)
          BY <1>2
        <5> QED
          BY <3>1, <5>1
      <4>2. flags = {}
        BY <1>2, <4>1 DEF flags
      <4> QED
        BY <4>2, FS_EmptySet DEF c
    <3>3. Len(head) = 0 /\ Len(tail) = n /\ \A k \in 1..n : tail[k] = Rest(k)
      BY <1>2, <1>9, <1>10, <3>2
    <3>4. /\ FlattenSeq(head) \in Seq(Nat) /\ Total(FlattenSeq(head)) \in Nat
          /\ Total(FlattenSeq(head)) <= 0
      <4>1. \A k \in 1..Len(head) : Total(head[k]) <= 0
        BY <3>3
      <4>2. 0 \in Nat /\ Len(head) * 0 = 0
        BY <3>3
      <4>3. FlattenSeq(head) \in Seq(Nat) /\ Total(FlattenSeq(head)) \in Nat
            /\ Total(FlattenSeq(head)) <= Len(head) * 0
        BY <1>9, <4>1, <4>2, LaidShort, Zenon
      <4> QED
        BY <4>2, <4>3
    <3>5. \A k \in 1..n : Total(tail[k]) <= 1 + Longest(letters[k])
      <4> SUFFICES ASSUME NEW k \in 1..n PROVE Total(tail[k]) <= 1 + Longest(letters[k])
        OBVIOUS
      <4>1. k \in 1..(n - c) /\ k + c = k
        BY <1>2, <3>2
      <4>2. Total(Rest(k)) \in Nat /\ Total(Rest(k)) <= 1 + Total(Token(k))
        BY <1>8, <4>1
      <4>3. Total(Token(k)) <= Longest(letters[k]) /\ Longest(letters[k]) \in Nat
        <5>1. k = n \/ k \in 1..(n - 1)
          BY <1>2
        <5>2. Longest(letters[k]) \in {4, 32}
          BY <3>1, <5>1, LongestLetters, Zenon
        <5> QED
          BY <1>4, <5>2
      <4> QED
        BY <1>5, <3>3, <4>2, <4>3
    <3>6. (\A k \in 1..(n - 1) : Total(tail[k]) <= 5) /\ Total(tail[n]) <= 33
      BY <1>2, <3>1, <3>5, LongestLetters
    <3>7. /\ FlattenSeq(tail) \in Seq(Nat) /\ Total(FlattenSeq(tail)) \in Nat
          /\ Total(FlattenSeq(tail)) <= (n - 1) * 5 + 33
      <4>1. 5 \in Nat /\ 33 \in Nat /\ Len(tail) > 0
        BY <3>1, <3>3
      <4>2. (\A k \in 1..(Len(tail) - 1) : Total(tail[k]) <= 5) /\ Total(tail[Len(tail)]) <= 33
        BY <3>3, <3>6
      <4>3. FlattenSeq(tail) \in Seq(Nat) /\ Total(FlattenSeq(tail)) \in Nat
            /\ Total(FlattenSeq(tail)) <= (Len(tail) - 1) * 5 + 33
        BY <1>10, <4>1, <4>2, LaidLast, Zenon
      <4> QED
        BY <3>3, <4>3
    <3> QED
      BY <3>1, <3>4, <3>7
  <2> QED
    BY <1>1, <2>1, <2>2, <2>3 DEF Formats
<1>13. Len(d.op) \in Nat /\ Len(d.op) <= 10
  BY OpcodesShort
<1> DEFINE name  == <<Len(d.op)>>
           front == name \o FlattenSeq(head)
           most  == front \o <<1>>
<1>14. front \in Seq(Nat) /\ Total(front) = Len(d.op) + Total(FlattenSeq(head))
  <2>1. name \in Seq(Nat) /\ Total(name) = Len(d.op)
    BY <1>13, TotalShort
  <2> HIDE DEF name
  <2> QED
    BY <1>12, <2>1, TotalJoin
<1> HIDE DEF front
<1>15. most \in Seq(Nat) /\ Total(most) = Total(front) + 1
  <2> DEFINE gap == <<1>>
  <2>1. gap \in Seq(Nat) /\ Total(gap) = 1
    BY TotalShort
  <2> HIDE DEF gap
  <2>2. front \o gap \in Seq(Nat) /\ Total(front \o gap) = Total(front) + Total(gap)
    BY <1>14, <2>1, TotalJoin
  <2> QED
    BY <2>1, <2>2 DEF gap
<1>16. Pieces(d) = most \o FlattenSeq(tail)
  BY <1>7 DEF front
<1> HIDE DEF most
<1>17. Pieces(d) \in Seq(Nat) /\ Total(Pieces(d)) = Total(most) + Total(FlattenSeq(tail))
  BY <1>12, <1>15, <1>16, TotalJoin
<1> QED
  <2>1. Total(Pieces(d)) = Len(d.op) + Total(FlattenSeq(head)) + 1 + Total(FlattenSeq(tail))
    BY <1>14, <1>15, <1>17
  <2> DEFINE a == Len(d.op)
             b == Total(FlattenSeq(head))
             e == Total(FlattenSeq(tail))
  <2>3. a \in Nat /\ b \in Nat /\ e \in Nat /\ a <= 10 /\ b + e <= 51
    BY <1>12, <1>13
  <2> HIDE DEF a, b, e
  <2>4. a + b + 1 + e \in Nat /\ a + b + 1 + e <= 62
    BY <2>3
  <2>2. Total(Pieces(d)) \in Nat /\ Total(Pieces(d)) <= 62
    BY <2>1, <2>4 DEF a, b, e
  <2> QED
    BY <1>17, <2>2

(* The greater and the lesser of two numbers.                              *)
LEMMA OfTwo ==
    ASSUME NEW a \in Int, NEW b \in Int
    PROVE  /\ Max({a, b}) \in {a, b} /\ Max({a, b}) >= a
           /\ Min({a, b}) \in {a, b} /\ Min({a, b}) <= b
<1>1. (\E x \in {a, b} : \A y \in {a, b} : x >= y) /\ \E x \in {a, b} : \A y \in {a, b} : x <= y
  <2>1. CASE a <= b
    BY <2>1
  <2>2. CASE b <= a
    BY <2>2
  <2> QED
    BY <2>1, <2>2
<1> QED
  BY <1>1 DEF Max, Min

(* The word before it takes at most sixteen digits and a tab.              *)
LEMMA PrefixShort ==
    ASSUME NEW d, d.inst \subseteq 0..63
    PROVE  Prefix(d) \in Nat /\ Prefix(d) <= 17
<1> DEFINE len  == inst_length(d.inst)
           zero == 2 * (IF len = 0 THEN 8 ELSE len)
           hex  == HexWidth(d.inst)
           wide == Max({zero, hex})
<1>1. hex \in 1..16
  BY HexShort, Zenon
<1>2. len \in {0, 2, 4, 6, 8}
  BY DEF inst_length
<1> HIDE DEF len, hex
<1>3. zero \in Nat /\ zero <= 16 /\ hex \in Nat /\ hex <= 16
  BY <1>1, <1>2
<1>4. Prefix(d) = Min({BufLen - 1, wide + 1})
  BY Zenon DEF Prefix, len, hex
<1> HIDE DEF zero
<1>5. wide \in {zero, hex}
  <2>1. zero \in Int /\ hex \in Int
    BY <1>3
  <2> QED
    BY <2>1, OfTwo, Zenon
<1> HIDE DEF wide
<1>6. wide + 1 \in Nat /\ wide + 1 <= 17 /\ BufLen - 1 \in Nat
  BY <1>3, <1>5 DEF BufLen
<1> DEFINE room == BufLen - 1
           need == wide + 1
<1> HIDE DEF room, need
<1>8. room \in Int /\ need \in Int
  BY <1>6 DEF room, need
<1>7. Min({room, need}) \in {room, need} /\ Min({room, need}) <= need
  BY <1>8, OfTwo, Zenon
<1> QED
  BY <1>4, <1>6, <1>7 DEF room, need

-----------------------------------------------------------------------------
(***************************************************************************)
(* The theorems.                                                           *)
(***************************************************************************)
(* At every instruction of every program the operands of a branch, a jump  *)
(* and a register-immediate instruction encode back to the fetched word.   *)
THEOREM AlwaysReencodes == Spec => []Reencodes
<1>1. CodecInv => Reencodes
  BY DEF CodecInv
<1> QED
  BY InitCodec, CodecNext, <1>1, PTL DEF Spec

(* The loop of t2.c sees every word of the program at its own offset and   *)
(* with its own length, however many words there are and whatever lengths  *)
(* are mixed: inst_fetch never joins parcels of two instructions.          *)
THEOREM FetchesProgram == Spec => []FetchesWords
<1>1. FetchInv => FetchesWords
  <2> SUFFICES ASSUME FetchInv, stage = "fetched" PROVE FetchesWords
    BY DEF FetchesWords
  <2>1. PICK k \in 1..Len(words) : Here(k)
    BY DEF FetchInv, Located
  <2>2. words \in Seq(Word)
    BY DEF FetchInv, Program
  <2>3. k \in DOMAIN words
    BY <2>1, <2>2, LenProperties
  <2> QED
    BY <2>1, <2>3 DEF FetchesWords, Here
<1> QED
  BY InitCodec, CodecNext, InitFetch, FetchNext, <1>1, PTL DEF Spec

(* For all 2^64 words and every codec: an unsigned immediate has only the  *)
(* bits of its scale, a signed one repeats its sign bit upwards.           *)
THEOREM ImmediatesInRange == Spec => []ImmediatesScaled
<1>1. WidthInv => ImmediatesScaled
  BY DEF WidthInv
<1> QED
  BY InitCodec, CodecNext, InitWidth, WidthNext, <1>1, PTL DEF Spec

(* After decompression no compressed opcode is left on any isa, whatever   *)
(* the word: the opcodes a 16 bit quadrant gives for an isa all have an    *)
(* entry in that isa's decompression column.                               *)
THEOREM NothingCompressed == Spec => []NoCompressedLeft
<1>1. OpcodeInv => NoCompressedLeft
  BY DEF OpcodeInv
<1> QED
  BY InitCodec, CodecNext, InitOpcode, OpcodeNext, <1>1, PTL DEF Spec

(* The types: besides the widths, every opcode and codec in every phase is *)
(* a row of the table, the offset stays within the program, and the length *)
(* is one of the four.                                                     *)
THEOREM DisassemblerTypes == Spec => []TypeOK
<1>1. FetchInv /\ FetchedInv /\ WidthInv /\ OpcodeInv => TypeOK
  <2> SUFFICES ASSUME FetchInv, FetchedInv, WidthInv, OpcodeInv PROVE TypeOK
    OBVIOUS
  <2>1. offset \in 0..Len(data)
    BY OffsetInside
  <2>2. OperandsFit
    BY DEF WidthInv
  <2> QED
    BY <2>1, <2>2 DEF TypeOK, FetchedInv, OperandsFit, Registers, OpcodeInv, Phases, rv_inst
<1> QED
  BY InitCodec, CodecNext, InitFetch, FetchNext, InitFetched, FetchedNext, InitWidth, WidthNext,
     InitOpcode, OpcodeNext, <1>1, PTL DEF Spec

(* Whatever is printed, each operand is the only value its token stands    *)
(* for.                                                                    *)
THEOREM ShownUnambiguous == Spec => []ShownReadsBack
<1>1. OpcodeInv /\ WidthInv /\ ShowInv => ShownReadsBack
  <2> SUFFICES ASSUME OpcodeInv, WidthInv, ShowInv, stage = "printed",
          NEW k \in DOMAIN format(dec.op)
               PROVE  LET letter == format(dec.op)[k]  w == dec[FieldOf(letter)]
                      IN  ~ (letter = "rm" /\ text.shown[k] = "inv") =>
                              Readings(letter, text.shown[k], w) = {w}
    BY DEF ShownReadsBack
  <2> DEFINE letter == format(dec.op)[k]
             w == dec[FieldOf(letter)]
  <2>1. text.shown[k] = Shown(letter, w)
    <3>1. text = decode_inst_format(dec)
      BY DEF ShowInv, Printed
    <3> QED
      BY <3>1 DEF decode_inst_format, Fields
  <2>2. letter \in Letters /\ Fit(letter, w)
    BY OperandsShown
  <2> HIDE DEF letter, w
  <2>3. ~ (letter = "rm" /\ text.shown[k] = "inv") => Readings(letter, text.shown[k], w) = {w}
    BY <2>1, <2>2, ReadsBack
  <2> QED
    BY <2>3 DEF letter, w
<1> QED
  BY InitCodec, CodecNext, InitWidth, WidthNext, InitOpcode, OpcodeNext, InitShow, ShowNext, <1>1,
     PTL DEF Spec

(* For every word of every program: a pseudo instruction that is printed   *)
(* determines every operand its base form would have shown and the         *)
(* register file it is in, through the names, the order of the operands    *)
(* and the constraints it was chosen for.  The exceptions are an           *)
(* uncompressed jalr shown as ret, and the floating point moves, of whose  *)
(* operands the text determines the numbers only.                          *)
THEOREM LiftingKeeps == Spec => []OthersKeepOperands
<1>1. LiftInv /\ ShowInv /\ ShortInv => OthersKeepOperands
  <2> DEFINE letters == IF text.op \in FpMoves THEN Fields(plain.op) ELSE format(plain.op)
  <2> SUFFICES ASSUME LiftInv, ShowInv, ShortInv, stage = "printed", text.op \in DOMAIN Manual,
                      text.op = "ret" => inst_len = 2
               PROVE  KeepsOperands(letters)
    BY DEF OthersKeepOperands
  <2>1. PICK cs : /\ Holds(plain, cs) /\ Faithful(plain.op, text.op, cs)
                  /\ text.shown = PrintedAs(text.op, plain)
    BY LiftedText
  <2>2. plain.op = Manual[text.op].base /\ Fields(text.op) = Manual[text.op].args
    BY <2>1 DEF Faithful
  <2>3. text.op = "ret" => plain.imm = {}
    BY <2>2, RetIsJump DEF ShortInv, ShortBase
  <2>4. text.op \in PseudoOps /\ PlainFits
    BY ManualPseudo DEF LiftInv
  <2>5. Len(text.shown) = Len(Manual[text.op].args)
    <3>1. DOMAIN text.shown = DOMAIN Manual[text.op].args
      BY <2>1, <2>2 DEF PrintedAs, Fields
    <3> QED
      BY <3>1
  <2>6. ASSUME NEW k \in DOMAIN letters
        PROVE  /\ k \in DOMAIN Fields(plain.op) /\ FieldOf(letters[k]) = Fields(plain.op)[k]
               /\ \A j \in DOMAIN format(text.op) :
                     FieldOf(format(text.op)[j]) = Given(plain.op, FieldOf(letters[k])) =>
                        SameFile(letters[k], format(text.op)[j])
    <3>1. CASE text.op \in FpMoves
      <4>1. PICK pair \in FpAlias : text.op = pair[2]
        BY <3>1 DEF FpMoves
      <4>2. <<text.op, Alias(pair[1], <<"rd", "rs1">>, << >>)>> \in ManualRows
        BY <4>1 DEF ManualRows
      <4>3. Manual[text.op].base = pair[1]
        BY <4>2, ManualValue DEF Alias
      <4>4. Fields(plain.op) = <<"rd", "rs1", "rs2">> /\ LettersIn(text.op, {"rd", "rs1"})
        BY <2>2, <4>1, <4>3, AliasNames, InjectionShape, AliasLetters
      <4>5. letters = <<"rd", "rs1", "rs2">>
        BY <3>1, <4>4
      <4> HIDE DEF letters
      <4>6. k \in DOMAIN Fields(plain.op) /\ letters[k] = Fields(plain.op)[k]
            /\ letters[k] \in {"rd", "rs1", "rs2"}
        BY <4>4, <4>5
      <4>7. FieldOf(letters[k]) = letters[k]
        BY <4>6, FieldNames
      <4>8. \A j \in DOMAIN format(text.op) : SameFile(letters[k], format(text.op)[j])
        BY <4>4, <4>6 DEF LettersIn, SameFile
      <4> QED
        BY <4>6, <4>7, <4>8
    <3>2. CASE text.op \notin FpMoves
      <4>1. letters = format(plain.op)
        BY <3>2
      <4>2. PICK S \in {Plainly, OnCsr, OnCsrImm} :
               LettersIn(text.op, S) /\ LettersIn(plain.op, S)
        BY <2>2, <3>2, FilesAgree
      <4> HIDE DEF letters
      <4>3. k \in DOMAIN Fields(plain.op) /\ FieldOf(letters[k]) = Fields(plain.op)[k]
        BY <4>1 DEF Fields
      <4>4. Given(plain.op, FieldOf(letters[k])) = FieldOf(letters[k])
        BY <2>2, <3>2, FilesAgree DEF Given
      <4>5. letters[k] \in S /\ \A j \in DOMAIN format(text.op) : format(text.op)[j] \in S
        BY <4>1, <4>2 DEF LettersIn
      <4> QED
        BY <4>3, <4>4, <4>5, OneFile
    <3> QED
      BY <3>1, <3>2
  <2> HIDE DEF letters
  <2>7. \A k \in DOMAIN letters : ReadBack(letters[k]) = {plain[FieldOf(letters[k])]}
    BY <2>1, <2>3, <2>4, <2>6, OperandReadBack
  <2> QED
    BY <2>2, <2>5, <2>7 DEF KeepsOperands
<1> QED
  BY InitCodec, CodecNext, InitFetch, FetchNext, InitWidth, WidthNext, InitOpcode, OpcodeNext,
     InitShow, ShowNext, InitShort, ShortNext, InitLift, LiftNext, <1>1, PTL DEF Spec

(* Nothing of a word is lost: as soon as disasm_inst has decoded the       *)
(* opcode and the operands of an instruction (other than illegal, fence    *)
(* and fence.i, which ignore fields on purpose), changing any one bit of   *)
(* the word above its two lowest would have changed the opcode or an       *)
(* operand, so no bit of a scattered immediate is dropped or merged with   *)
(* another, in any of the codecs and for any isa.                          *)
THEOREM EveryBitDecoded == Spec => []EveryBitCounts
<1>1. FetchInv /\ DecodedInv => EveryBitCounts
  <2> SUFFICES ASSUME FetchInv, DecodedInv, stage = "operands",
                      dec.op \notin {"illegal", "fence", "fence.i"},
                      NEW b \in 2..(8 * inst_len - 1),
                      Decoded(Flip(dec.inst, b)) = Decoded(dec.inst)
               PROVE  FALSE
    BY DEF EveryBitCounts
  <2>1. PICK k \in 1..Len(words) : Here(k)
    BY DEF FetchInv, Located
  <2>2. words[k] \in Word /\ Announces(words[k])
    BY DEF FetchInv, Program
  <2>3. inst_len \in {2, 4, 6, 8} /\ inst_length(dec.inst) = inst_len
    <3> DEFINE p == words[k]
    <3>1. p.size \in {2, 4, 6, 8} /\ inst_len = p.size /\ dec.inst = p.inst
      BY <2>1, <2>2 DEF Word, Here
    <3>2. inst_length(p.inst \cap 0..15) = p.size
      BY <2>2, LengthOf
    <3>3. inst_length(p.inst \cap 0..15) = inst_length(p.inst)
      <4>1. /\ {0, 1} \subseteq p.inst \cap 0..15 <=> {0, 1} \subseteq p.inst
            /\ {2, 3, 4} \subseteq p.inst \cap 0..15 <=> {2, 3, 4} \subseteq p.inst
            /\ 5 \in p.inst \cap 0..15 <=> 5 \in p.inst
            /\ 6 \in p.inst \cap 0..15 <=> 6 \in p.inst
        OBVIOUS
      <4> HIDE DEF p
      <4> QED
        BY <4>1 DEF inst_length
    <3> QED
      BY <3>1, <3>2, <3>3
  <2> DEFINE i == dec.inst
             j == Flip(i, b)
  <2>4. decode_inst_opcode(i, isa) = dec.op
    BY DEF DecodedInv
  <2>5. /\ decode_inst_opcode(j, isa) = decode_inst_opcode(i, isa)
        /\ decode_inst_operands(codec(decode_inst_opcode(j, isa)), j)
             = decode_inst_operands(codec(decode_inst_opcode(i, isa)), i)
    BY DEF Decoded
  <2> QED
    BY <2>3, <2>4, <2>5, WordApart
<1> QED
  BY InitCodec, CodecNext, InitFetch, FetchNext, InitDecoded, DecodedNext, <1>1, PTL DEF Spec

(* For every word of every program: the text is the word, the name and all *)
(* operands, appended whole; it leaves room for the terminator in the      *)
(* smallest buffer, so append's bound, one too large, is never met.        *)
THEOREM TextAlwaysFits == Spec => []TextFits
<1>1. OpcodeInv /\ WidthInv /\ ShowInv /\ FetchedInv => TextFits
  <2> SUFFICES ASSUME OpcodeInv, WidthInv, ShowInv, FetchedInv, stage = "printed" PROVE TextFits
    BY DEF TextFits
  <2>1. Pieces(dec) \in Seq(Nat) /\ Total(Pieces(dec)) \in Nat /\ Total(Pieces(dec)) <= 62
    <3>1. dec.op \in rv_op
      BY DEF OpcodeInv
    <3> QED
      BY <3>1, OperandsShown, PiecesShort
  <2>2. Prefix(dec) \in Nat /\ Prefix(dec) <= 17
    <3>1. dec.inst \subseteq 0..63
      BY DEF FetchedInv, rv_inst
    <3> QED
      BY <3>1, PrefixShort
  <2>3. Summed(Prefix(dec), Pieces(dec)) = Prefix(dec) + Total(Pieces(dec))
    BY <2>1, <2>2, TotalFrom
  <2>4. Summed(Prefix(dec), Pieces(dec)) < BufLen
    BY <2>1, <2>2, <2>3 DEF BufLen
  <2>5. Appended(Prefix(dec), Pieces(dec)) = Summed(Prefix(dec), Pieces(dec))
    BY <2>1, <2>2, <2>4, AppendsAll
  <2>6. TextLength(dec) = Appended(Prefix(dec), Pieces(dec))
    BY DEF TextLength, Appended
  <2>7. TextLength(dec) = FoldLeft(+, Prefix(dec), Pieces(dec))
    BY <2>5, <2>6 DEF Summed
  <2> QED
    BY <2>4, <2>5, <2>6, <2>7 DEF TextFits
<1> QED
  BY InitCodec, CodecNext, InitFetch, FetchNext, InitFetched, FetchedNext, InitWidth, WidthNext,
     InitOpcode, OpcodeNext, InitShow, ShowNext, <1>1, PTL DEF Spec
=============================================================================
