---------------------------- MODULE RvBitsProofs ----------------------------
(***************************************************************************)
(* The encoders of t1.c and the extractors of riscv-disas.c are inverse to *)
(* each other for every word, not only for the ones the runs enumerate.    *)
(***************************************************************************)
EXTENDS RvBits, TLAPS

LEMMA ShlMember == ASSUME NEW w, NEW n \in 0..63, NEW b
                   PROVE  b \in Shl(w, n) <=> b \in n..63 /\ b - n \in w
  BY SMT DEF Shl

LEMMA ShrMember == ASSUME NEW w, NEW n \in 0..63, NEW b
                   PROVE  b \in Shr(w, n) <=> b \in 0..(63 - n) /\ b + n \in w
  BY SMT DEF Shr

LEMMA FieldMember ==
    ASSUME NEW w, NEW l \in 0..63, NEW r \in l..63, NEW b
    PROVE  b \in Field(w, l, r) <=> b \in 0..(63 - r) /\ b + r - l \in w
<1>0. r \in 0..63
  OBVIOUS
<1>1. b \in Field(w, l, r) <=> b \in 0..(63 - r) /\ b + r \in Shl(w, l)
  BY <1>0, ShrMember DEF Field
<1>2. b \in Int => (b + r \in Shl(w, l) <=> b + r \in l..63 /\ b + r - l \in w)
  BY ShlMember
<1> QED
  BY <1>1, <1>2

LEMMA SFieldMember ==
    ASSUME NEW w, NEW l \in 0..63, NEW r \in l..63, NEW b
    PROVE  b \in SField(w, l, r) <=>
              b \in 0..63 /\ (IF b <= 63 - r THEN b + r - l ELSE 63 - l) \in w
<1> DEFINE v == Shl(w, l)
<1>0. r \in 0..63
  OBVIOUS
<1>1. b \in Shr(v, r) <=> b \in 0..(63 - r) /\ b + r \in v
  BY <1>0, ShrMember
<1>2. b \in Int => (b + r \in v <=> b + r \in l..63 /\ b + r - l \in w)
  <2> HAVE b \in Int
  <2> QED BY ShlMember, b + r \in Int
<1>3. 63 \in v <=> 63 - l \in w
  BY ShlMember
<1>4. SField(w, l, r) = Shr(v, r) \cup (IF 63 \in v THEN (63 - r)..63 ELSE {})
  BY DEF SField, Sar
<1> HIDE DEF v
<1>5. CASE b \in 0..(63 - r)
  BY <1>1, <1>2, <1>3, <1>4, <1>5, SMT
<1>6. CASE b \notin 0..(63 - r)
  BY <1>1, <1>3, <1>4, <1>6, SMT
<1> QED
  BY <1>5, <1>6

LEMMA Shl32Member == ASSUME NEW w, NEW n \in 0..31, NEW b
                     PROVE  b \in Shl32(w, n) <=> b \in n..31 /\ b - n \in w
  BY SMT DEF Shl32

LEMMA Field32Member ==
    ASSUME NEW w, NEW l \in 0..31, NEW r \in l..31, NEW b
    PROVE  b \in Field32(w, l, r) <=> b \in 0..(31 - r) /\ b + r - l \in w
<1> DEFINE v == Shl32(w, l)
<1>0. r \in 0..63
  OBVIOUS
<1>1. b \in Field32(w, l, r) <=> b \in 0..(63 - r) /\ b + r \in v
  BY <1>0, ShrMember DEF Field32
<1>2. b \in Int => (b + r \in v <=> b + r \in l..31 /\ b + r - l \in w)
  BY Shl32Member
<1> HIDE DEF v
<1> QED
  BY <1>1, <1>2

(***************************************************************************)
(* Every piece of an operand or of a word is a range of bits of the other, *)
(* moved down by d.                                                        *)
(***************************************************************************)
Moved(w, lo, hi, d) == {b \in lo..hi : b + d \in w}
(* The bits from lo up, all equal to the sign bit of the word.             *)
Signs(w, bit, lo)   == {b \in lo..63 : bit \in w}
Extended(w, lo, hi, d, bit) == Moved(w, lo, hi, d) \cup Signs(w, bit, hi)

LEMMA Piece ==
    ASSUME NEW w, NEW l \in 0..63, NEW r \in l..63, NEW n \in 0..r
    PROVE  Shl(Field(w, l, r), n) = Moved(w, n, n + 63 - r, r - l - n)
<1> SUFFICES ASSUME NEW b
             PROVE  b \in Shl(Field(w, l, r), n) <=> b \in Moved(w, n, n + 63 - r, r - l - n)
  OBVIOUS
<1>1. b \in Shl(Field(w, l, r), n) <=> b \in n..63 /\ b - n \in Field(w, l, r)
  BY n \in 0..63, ShlMember
<1>2. b \in n..63 => (b - n \in Field(w, l, r) <=>
                        b - n \in 0..(63 - r) /\ b - n + r - l \in w)
  BY FieldMember
<1>3. b \in Int => b - n + r - l = b + (r - l - n)
  OBVIOUS
<1> QED
  BY <1>1, <1>2, <1>3 DEF Moved

LEMMA SignedPiece ==
    ASSUME NEW w, NEW l \in 0..63, NEW r \in l..63, NEW n \in 0..r
    PROVE  Shl(SField(w, l, r), n) = Extended(w, n, n + 63 - r, r - l - n, 63 - l)
<1> DEFINE sign == Signs(w, 63 - l, n + 63 - r)
<1> SUFFICES ASSUME NEW b
             PROVE  b \in Shl(SField(w, l, r), n) <=>
                       b \in Moved(w, n, n + 63 - r, r - l - n) \/ b \in sign
  BY DEF Extended
<1>0. b \in sign <=> b \in (n + 63 - r)..63 /\ 63 - l \in w
  BY DEF Signs
<1> HIDE DEF sign
<1>1. b \in Shl(SField(w, l, r), n) <=> b \in n..63 /\ b - n \in SField(w, l, r)
  BY n \in 0..63, ShlMember
<1>2. b - n \in SField(w, l, r) <=>
        b - n \in 0..63 /\ (IF b - n <= 63 - r THEN b - n + r - l ELSE 63 - l) \in w
  BY SFieldMember
<1>3. b \in Int => b - n + r - l = b + (r - l - n)
  OBVIOUS
<1>4. CASE b \in n..(n + 63 - r)
  <2>1. b \in Moved(w, n, n + 63 - r, r - l - n) <=> b + (r - l - n) \in w
    BY <1>4 DEF Moved
  <2>2. b \in n..63 /\ b - n \in 0..63 /\ b - n <= 63 - r
    BY <1>4
  <2>3. b \in sign => b + (r - l - n) = 63 - l /\ 63 - l \in w
    BY <1>0, <1>4
  <2>4. b \in sign => b + (r - l - n) \in w
    BY <2>3
  <2> QED
    BY <1>1, <1>2, <1>3, <2>1, <2>2, <2>4
<1>5. CASE b \notin n..(n + 63 - r)
  <2>1. b \notin Moved(w, n, n + 63 - r, r - l - n)
    BY <1>5 DEF Moved
  <2>2. b \in sign <=> b \in n..63 /\ 63 - l \in w
    BY <1>0, <1>5
  <2>3. b \in n..63 => b - n \in 0..63 /\ ~ (b - n <= 63 - r)
    BY <1>5
  <2> QED
    BY <1>1, <1>2, <2>1, <2>2, <2>3
<1> QED
  BY <1>4, <1>5

LEMMA Piece32 ==
    ASSUME NEW w, NEW l \in 0..31, NEW r \in l..31, NEW n \in 0..r
    PROVE  Shl32(Field32(w, l, r), n) = Moved(w, n, n + 31 - r, r - l - n)
<1> SUFFICES ASSUME NEW b
             PROVE  b \in Shl32(Field32(w, l, r), n) <=> b \in Moved(w, n, n + 31 - r, r - l - n)
  OBVIOUS
<1>1. b \in Shl32(Field32(w, l, r), n) <=> b \in n..31 /\ b - n \in Field32(w, l, r)
  BY n \in 0..31, Shl32Member
<1>2. b \in n..31 => (b - n \in Field32(w, l, r) <=>
                        b - n \in 0..(31 - r) /\ b - n + r - l \in w)
  BY Field32Member
<1>3. b \in Int => b - n + r - l = b + (r - l - n)
  OBVIOUS
<1> QED
  BY <1>1, <1>2, <1>3 DEF Moved

(***************************************************************************)
(* Branches.                                                               *)
(***************************************************************************)
LEMMA BranchImm ==
    ASSUME NEW w
    PROVE  operand_sbimm12(w) = (IF 31 \in w THEN 12..31 ELSE {}) \cup Moved(w, 5, 10, 20)
                                \cup Moved(w, 1, 4, 7) \cup Moved(w, 11, 11, -4)
<1>1. Shl(SField(w, 32, 63), 12) = Extended(w, 12, 12, 19, 31)
  <2>1. Shl(SField(w, 32, 63), 12) = Extended(w, 12, 12 + 63 - 63, 63 - 32 - 12, 63 - 32)
    BY 32 \in 0..63, 63 \in 32..63, 12 \in 0..63, SignedPiece
  <2>2. 12 + 63 - 63 = 12 /\ 63 - 32 - 12 = 19 /\ 63 - 32 = 31
    OBVIOUS
  <2> QED
    BY <2>1, <2>2
<1>2. Shl(Field(w, 33, 58), 5) = Moved(w, 5, 10, 20)
  <2>1. Shl(Field(w, 33, 58), 5) = Moved(w, 5, 5 + 63 - 58, 58 - 33 - 5)
    BY 33 \in 0..63, 58 \in 33..63, 5 \in 0..58, Piece
  <2>2. 5 + 63 - 58 = 10 /\ 58 - 33 - 5 = 20
    OBVIOUS
  <2> QED
    BY <2>1, <2>2
<1>3. Shl(Field(w, 52, 60), 1) = Moved(w, 1, 4, 7)
  <2>1. Shl(Field(w, 52, 60), 1) = Moved(w, 1, 1 + 63 - 60, 60 - 52 - 1)
    BY 52 \in 0..63, 60 \in 52..63, 1 \in 0..60, Piece
  <2>2. 1 + 63 - 60 = 4 /\ 60 - 52 - 1 = 7
    OBVIOUS
  <2> QED
    BY <2>1, <2>2
<1>4. Shl(Field(w, 56, 63), 11) = Moved(w, 11, 11, -4)
  <2>1. Shl(Field(w, 56, 63), 11) = Moved(w, 11, 11 + 63 - 63, 63 - 56 - 11)
    BY 56 \in 0..63, 63 \in 56..63, 11 \in 0..63, Piece
  <2>2. 11 + 63 - 63 = 11 /\ 63 - 56 - 11 = -4
    OBVIOUS
  <2> QED
    BY <2>1, <2>2
<1>5. Moved(w, 12, 12, 19) \subseteq Signs(w, 31, 12)
  BY DEF Moved, Signs
<1> QED
  BY <1>1, <1>2, <1>3, <1>4, <1>5 DEF operand_sbimm12, Int32, Moved, Signs, Extended

LEMMA BranchWord ==
    ASSUME NEW imm
    PROVE  encode_sbimm12(imm) = Moved(imm, 31, 31, -19) \cup Moved(imm, 25, 30, -20)
                                 \cup Moved(imm, 8, 11, -7) \cup Moved(imm, 7, 7, 4)
<1>1. Shl32(Field32(imm, 19, 31), 31) = Moved(imm, 31, 31, -19)
  <2>1. Shl32(Field32(imm, 19, 31), 31) = Moved(imm, 31, 31 + 31 - 31, 31 - 19 - 31)
    BY 19 \in 0..31, 31 \in 19..31, 31 \in 0..31, Piece32
  <2>2. 31 + 31 - 31 = 31 /\ 31 - 19 - 31 = -19
    OBVIOUS
  <2> QED
    BY <2>1, <2>2
<1>2. Shl32(Field32(imm, 21, 26), 25) = Moved(imm, 25, 30, -20)
  <2>1. Shl32(Field32(imm, 21, 26), 25) = Moved(imm, 25, 25 + 31 - 26, 26 - 21 - 25)
    BY 21 \in 0..31, 26 \in 21..31, 25 \in 0..26, Piece32
  <2>2. 25 + 31 - 26 = 30 /\ 26 - 21 - 25 = -20
    OBVIOUS
  <2> QED
    BY <2>1, <2>2
<1>3. Shl32(Field32(imm, 27, 28), 8) = Moved(imm, 8, 11, -7)
  <2>1. Shl32(Field32(imm, 27, 28), 8) = Moved(imm, 8, 8 + 31 - 28, 28 - 27 - 8)
    BY 27 \in 0..31, 28 \in 27..31, 8 \in 0..28, Piece32
  <2>2. 8 + 31 - 28 = 11 /\ 28 - 27 - 8 = -7
    OBVIOUS
  <2> QED
    BY <2>1, <2>2
<1>4. Shl32(Field32(imm, 20, 31), 7) = Moved(imm, 7, 7, 4)
  <2>1. Shl32(Field32(imm, 20, 31), 7) = Moved(imm, 7, 7 + 31 - 31, 31 - 20 - 7)
    BY 20 \in 0..31, 31 \in 20..31, 7 \in 0..31, Piece32
  <2>2. 7 + 31 - 31 = 7 /\ 31 - 20 - 7 = 4
    OBVIOUS
  <2> QED
    BY <2>1, <2>2
<1> QED
  BY <1>1, <1>2, <1>3, <1>4 DEF encode_sbimm12

(* encode_sbimm12 undoes operand_sbimm12 on every word.                    *)
THEOREM BranchReencoded ==
    ASSUME NEW w
    PROVE  encode_sbimm12(operand_sbimm12(w)) = w \cap (7..11 \cup 25..31)
  BY BranchImm, BranchWord DEF Moved

(* operand_sbimm12 undoes encode_sbimm12 on every even offset of 13 bits.  *)
THEOREM BranchOffsetKept ==
    ASSUME NEW imm, imm \subseteq 1..31, imm \cap 12..31 \in {{}, 12..31}
    PROVE  operand_sbimm12(encode_sbimm12(imm)) = imm
<1> DEFINE w == encode_sbimm12(imm)
<1>1. 31 \in w <=> 12 \in imm
  BY BranchWord DEF Moved
<1>2. Moved(w, 5, 10, 20) = imm \cap 5..10
  BY BranchWord DEF Moved
<1>3. Moved(w, 1, 4, 7) = imm \cap 1..4
  BY BranchWord DEF Moved
<1>4. Moved(w, 11, 11, -4) = imm \cap {11}
  BY BranchWord DEF Moved
<1>5. imm \cap 12..31 = IF 12 \in imm THEN 12..31 ELSE {}
  OBVIOUS
<1>6. operand_sbimm12(w) = (imm \cap 12..31) \cup (imm \cap 5..10)
                           \cup (imm \cap 1..4) \cup (imm \cap {11})
  <2> HIDE DEF w
  <2> QED
    BY <1>1, <1>2, <1>3, <1>4, <1>5, BranchImm
<1>7. imm = (imm \cap 12..31) \cup (imm \cap 5..10) \cup (imm \cap 1..4) \cup (imm \cap {11})
  <2> SUFFICES ASSUME NEW b \in imm PROVE b \in 12..31 \/ b \in 5..10 \/ b \in 1..4 \/ b = 11
    OBVIOUS
  <2>1. b \in 1..31
    OBVIOUS
  <2> QED
    BY <2>1
<1> QED
  BY <1>6, <1>7

(***************************************************************************)
(* Jumps.                                                                  *)
(***************************************************************************)
LEMMA JumpImm ==
    ASSUME NEW w
    PROVE  operand_jimm20(w) = (IF 31 \in w THEN 20..31 ELSE {}) \cup Moved(w, 1, 10, 20)
                               \cup Moved(w, 11, 11, 9) \cup Moved(w, 12, 19, 0)
<1>1. Shl(SField(w, 32, 63), 20) = Extended(w, 20, 20, 11, 31)
  <2>1. Shl(SField(w, 32, 63), 20) = Extended(w, 20, 20 + 63 - 63, 63 - 32 - 20, 63 - 32)
    BY 32 \in 0..63, 63 \in 32..63, 20 \in 0..63, SignedPiece
  <2>2. 20 + 63 - 63 = 20 /\ 63 - 32 - 20 = 11 /\ 63 - 32 = 31
    OBVIOUS
  <2> QED
    BY <2>1, <2>2
<1>2. Shl(Field(w, 33, 54), 1) = Moved(w, 1, 10, 20)
  <2>1. Shl(Field(w, 33, 54), 1) = Moved(w, 1, 1 + 63 - 54, 54 - 33 - 1)
    BY 33 \in 0..63, 54 \in 33..63, 1 \in 0..54, Piece
  <2>2. 1 + 63 - 54 = 10 /\ 54 - 33 - 1 = 20
    OBVIOUS
  <2> QED
    BY <2>1, <2>2
<1>3. Shl(Field(w, 43, 63), 11) = Moved(w, 11, 11, 9)
  <2>1. Shl(Field(w, 43, 63), 11) = Moved(w, 11, 11 + 63 - 63, 63 - 43 - 11)
    BY 43 \in 0..63, 63 \in 43..63, 11 \in 0..63, Piece
  <2>2. 11 + 63 - 63 = 11 /\ 63 - 43 - 11 = 9
    OBVIOUS
  <2> QED
    BY <2>1, <2>2
<1>4. Shl(Field(w, 44, 56), 12) = Moved(w, 12, 19, 0)
  <2>1. Shl(Field(w, 44, 56), 12) = Moved(w, 12, 12 + 63 - 56, 56 - 44 - 12)
    BY 44 \in 0..63, 56 \in 44..63, 12 \in 0..56, Piece
  <2>2. 12 + 63 - 56 = 19 /\ 56 - 44 - 12 = 0
    OBVIOUS
  <2> QED
    BY <2>1, <2>2
<1>5. Moved(w, 20, 20, 11) \subseteq Signs(w, 31, 20)
  BY DEF Moved, Signs
<1> QED
  BY <1>1, <1>2, <1>3, <1>4, <1>5 DEF operand_jimm20, Int32, Moved, Signs, Extended

LEMMA JumpWord ==
    ASSUME NEW rd, NEW imm
    PROVE  encode_r_jimm20(rd, imm) = Shl32(Low5(rd), 7)
               \cup Moved(imm, 31, 31, -11) \cup Moved(imm, 21, 30, -20)
               \cup Moved(imm, 20, 20, -9) \cup Moved(imm, 12, 19, 0)
<1>1. Shl32(Field32(imm, 11, 31), 31) = Moved(imm, 31, 31, -11)
  <2>1. Shl32(Field32(imm, 11, 31), 31) = Moved(imm, 31, 31 + 31 - 31, 31 - 11 - 31)
    BY 11 \in 0..31, 31 \in 11..31, 31 \in 0..31, Piece32
  <2>2. 31 + 31 - 31 = 31 /\ 31 - 11 - 31 = -11
    OBVIOUS
  <2> QED
    BY <2>1, <2>2
<1>2. Shl32(Field32(imm, 21, 22), 21) = Moved(imm, 21, 30, -20)
  <2>1. Shl32(Field32(imm, 21, 22), 21) = Moved(imm, 21, 21 + 31 - 22, 22 - 21 - 21)
    BY 21 \in 0..31, 22 \in 21..31, 21 \in 0..22, Piece32
  <2>2. 21 + 31 - 22 = 30 /\ 22 - 21 - 21 = -20
    OBVIOUS
  <2> QED
    BY <2>1, <2>2
<1>3. Shl32(Field32(imm, 20, 31), 20) = Moved(imm, 20, 20, -9)
  <2>1. Shl32(Field32(imm, 20, 31), 20) = Moved(imm, 20, 20 + 31 - 31, 31 - 20 - 20)
    BY 20 \in 0..31, 31 \in 20..31, 20 \in 0..31, Piece32
  <2>2. 20 + 31 - 31 = 20 /\ 31 - 20 - 20 = -9
    OBVIOUS
  <2> QED
    BY <2>1, <2>2
<1>4. Shl32(Field32(imm, 12, 24), 12) = Moved(imm, 12, 19, 0)
  <2>1. Shl32(Field32(imm, 12, 24), 12) = Moved(imm, 12, 12 + 31 - 24, 24 - 12 - 12)
    BY 12 \in 0..31, 24 \in 12..31, 12 \in 0..24, Piece32
  <2>2. 12 + 31 - 24 = 19 /\ 24 - 12 - 12 = 0
    OBVIOUS
  <2> QED
    BY <2>1, <2>2
<1> QED
  BY <1>1, <1>2, <1>3, <1>4 DEF encode_r_jimm20

(* A register number goes back to the bits it came from.                   *)
LEMMA RdWord == ASSUME NEW w PROVE Shl32(Low5(operand_rd(w)), 7) = w \cap 7..11
<1> SUFFICES ASSUME NEW b PROVE b \in Shl32(Low5(operand_rd(w)), 7) <=> b \in w \cap 7..11
  OBVIOUS
<1>1. b \in Shl32(Low5(operand_rd(w)), 7) <=> b \in 7..31 /\ b - 7 \in Low5(operand_rd(w))
  BY 7 \in 0..31, Shl32Member
<1>2. b - 7 \in operand_rd(w) <=> b - 7 \in 0..(63 - 59) /\ b - 7 + 59 - 52 \in w
  BY 52 \in 0..63, 59 \in 52..63, FieldMember DEF operand_rd
<1>3. b \in Int => b - 7 + 59 - 52 = b
  OBVIOUS
<1> QED
  BY <1>1, <1>2, <1>3 DEF Low5

LEMMA Rs1Word == ASSUME NEW w PROVE Shl32(Low5(operand_rs1(w)), 15) = w \cap 15..19
<1> SUFFICES ASSUME NEW b PROVE b \in Shl32(Low5(operand_rs1(w)), 15) <=> b \in w \cap 15..19
  OBVIOUS
<1>1. b \in Shl32(Low5(operand_rs1(w)), 15) <=> b \in 15..31 /\ b - 15 \in Low5(operand_rs1(w))
  BY 15 \in 0..31, Shl32Member
<1>2. b - 15 \in operand_rs1(w) <=> b - 15 \in 0..(63 - 59) /\ b - 15 + 59 - 44 \in w
  BY 44 \in 0..63, 59 \in 44..63, FieldMember DEF operand_rs1
<1>3. b \in Int => b - 15 + 59 - 44 = b
  OBVIOUS
<1> QED
  BY <1>1, <1>2, <1>3 DEF Low5

(* encode_r_jimm20 undoes operand_rd and operand_jimm20 on every word.     *)
THEOREM JumpReencoded ==
    ASSUME NEW w
    PROVE  encode_r_jimm20(operand_rd(w), operand_jimm20(w)) = w \cap 7..31
<1>1. Moved(operand_jimm20(w), 31, 31, -11) = w \cap {31}
  BY JumpImm DEF Moved
<1>2. Moved(operand_jimm20(w), 21, 30, -20) = w \cap 21..30
  BY JumpImm DEF Moved
<1>3. Moved(operand_jimm20(w), 20, 20, -9) = w \cap {20}
  BY JumpImm DEF Moved
<1>4. Moved(operand_jimm20(w), 12, 19, 0) = w \cap 12..19
  BY JumpImm DEF Moved
<1> QED
  BY <1>1, <1>2, <1>3, <1>4, JumpWord, RdWord

(***************************************************************************)
(* Register and immediate.                                                 *)
(***************************************************************************)
(* encode_rr_simm12 undoes operand_rd, operand_rs1 and operand_imm12 on    *)
(* every word.                                                             *)
THEOREM ImmediateReencoded ==
    ASSUME NEW w
    PROVE  encode_rr_simm12(operand_rd(w), operand_rs1(w), operand_imm12(w))
             = w \cap (7..11 \cup 15..31)
<1> DEFINE low == operand_imm12(w) \cap 0..11
<1>1. Shl32(low, 20) = w \cap 20..31
  <2> SUFFICES ASSUME NEW b PROVE b \in Shl32(low, 20) <=> b \in w \cap 20..31
    OBVIOUS
  <2>1. b \in Shl32(low, 20) <=> b \in 20..31 /\ b - 20 \in low
    BY 20 \in 0..31, Shl32Member
  <2>2. b - 20 \in SField(w, 32, 52) <=>
          b - 20 \in 0..63 /\ (IF b - 20 <= 63 - 52 THEN b - 20 + 52 - 32 ELSE 63 - 32) \in w
    BY 32 \in 0..63, 52 \in 32..63, SFieldMember
  <2>3. b \in Int => b - 20 + 52 - 32 = b
    OBVIOUS
  <2>4. b \in 20..31 => (b - 20 \in low <=> b \in w)
    BY <2>2, <2>3 DEF operand_imm12, Int32
  <2> QED
    BY <2>1, <2>4
<1> QED
  BY <1>1, RdWord, Rs1Word DEF encode_rr_simm12

(***************************************************************************)
(* Where the bits of an operand lie.  An unsigned piece fills the width of *)
(* its field from the bit it is moved to; a signed one repeats the sign    *)
(* bit of the word from the top of its field up.                           *)
(***************************************************************************)
Within(v, lo, hi) == v \subseteq lo..hi
(* A field moved to n lies in lo..hi.                                      *)
Fits(l, r, n, lo, hi) == /\ l \in 0..63 /\ r \in l..63 /\ n \in 0..r
                         /\ lo \in 0..n /\ hi \in (n + 63 - r)..63

LEMMA PieceWithin ==
    ASSUME NEW w, NEW l, NEW r, NEW n, NEW lo, NEW hi, Fits(l, r, n, lo, hi)
    PROVE  Within(Shl(Field(w, l, r), n), lo, hi)
<1>1. Shl(Field(w, l, r), n) = Moved(w, n, n + 63 - r, r - l - n)
  BY Piece DEF Fits
<1> QED
  BY <1>1 DEF Moved, Within, Fits

LEMMA Joined ==
    ASSUME NEW u, NEW v, NEW lo, NEW hi, Within(u, lo, hi), Within(v, lo, hi)
    PROVE  Within(u \cup v, lo, hi)
  BY DEF Within

LEMMA FieldWithin ==
    ASSUME NEW w, NEW l, NEW r, NEW hi, Fits(l, r, 0, 0, hi)
    PROVE  Within(Field(w, l, r), 0, hi)
<1> SUFFICES ASSUME NEW b \in Field(w, l, r) PROVE b \in 0..hi
  BY DEF Within
<1>1. l \in 0..63 /\ r \in l..63 /\ hi \in (63 - r)..63
  BY DEF Fits
<1>2. b \in 0..(63 - r)
  BY <1>1, FieldMember
<1> QED
  BY <1>1, <1>2

(* A 32 bit word from lo on whose bits from sign up are all alike.         *)
IsSigned(v, lo, sign) == v \subseteq lo..31 /\ v \cap sign..31 \in {{}, sign..31}

(* A signed field moved to n has its sign at bit `sign', the pieces below  *)
(* it lie in lo..top.                                                      *)
SignFits(l, r, n, lo, top, sign) ==
    /\ l \in 0..63 /\ r \in l..63 /\ n \in 0..r /\ lo \in 0..n
    /\ sign = n + 63 - r /\ sign <= 31 /\ top = sign - 1

LEMMA SignedWithin ==
    ASSUME NEW w, NEW l, NEW r, NEW n, NEW lo, NEW top, NEW sign,
           SignFits(l, r, n, lo, top, sign), NEW rest, Within(rest, lo, top)
    PROVE  IsSigned(Int32(Shl(SField(w, l, r), n) \cup rest), lo, sign)
<1> DEFINE v == Shl(SField(w, l, r), n)
<1>0. /\ l \in 0..63 /\ r \in l..63 /\ n \in 0..r /\ lo \in 0..n
      /\ sign = n + 63 - r /\ sign \in 0..31 /\ top = sign - 1
  BY DEF SignFits
<1>1. v = Extended(w, n, sign, r - l - n, 63 - l)
  BY <1>0, SignedPiece
<1>2. \A b \in v : b \in lo..63
  BY <1>0, <1>1 DEF Extended, Moved, Signs
<1>3. ASSUME NEW b \in sign..31 PROVE b \in v <=> 63 - l \in w
  <2>1. b \in v <=> (b = sign /\ b + (r - l - n) \in w) \/ 63 - l \in w
    BY <1>0, <1>1 DEF Extended, Moved, Signs
  <2>2. sign + (r - l - n) = 63 - l
    BY <1>0
  <2> QED
    BY <2>1, <2>2
<1>4. \A b \in rest : b \in Int /\ lo <= b /\ b < sign
  BY <1>0 DEF Within
<1> HIDE DEF v
<1>5. Int32(v \cup rest) \subseteq lo..31
  BY <1>0, <1>2, <1>4 DEF Int32
<1>6. CASE 63 - l \in w
  <2>1. Int32(v \cup rest) \cap sign..31 = sign..31
    BY <1>0, <1>3, <1>6 DEF Int32
  <2> QED
    BY <1>5, <2>1 DEF IsSigned, v
<1>7. CASE 63 - l \notin w
  <2>1. Int32(v \cup rest) \cap sign..31 = {}
    BY <1>0, <1>3, <1>4, <1>7 DEF Int32
  <2> QED
    BY <1>5, <2>1 DEF IsSigned, v
<1> QED
  BY <1>6, <1>7

LEMMA SignedFieldWithin ==
    ASSUME NEW w, NEW l, NEW r, NEW top, NEW sign, SignFits(l, r, 0, 0, top, sign)
    PROVE  IsSigned(Int32(SField(w, l, r)), 0, sign)
<1> DEFINE v == SField(w, l, r)
<1>1. l \in 0..63 /\ r \in l..63 /\ sign = 63 - r /\ sign \in 0..31
  BY DEF SignFits
<1>2. \A b : b \in v <=> b \in 0..63 /\ (IF b <= sign THEN b + r - l ELSE 63 - l) \in w
  BY <1>1, SFieldMember
<1> HIDE DEF v
<1>3. \A b \in sign..31 : b \in v <=> 63 - l \in w
  <2>1. sign + r - l = 63 - l
    BY <1>1
  <2> QED
    BY <1>1, <1>2, <2>1
<1>4. Int32(v) \subseteq 0..31
  BY DEF Int32
<1>5. CASE 63 - l \in w
  <2>1. Int32(v) \cap sign..31 = sign..31
    BY <1>1, <1>3, <1>5 DEF Int32
  <2> QED
    BY <1>4, <2>1 DEF IsSigned, v
<1>6. CASE 63 - l \notin w
  <2>1. Int32(v) \cap sign..31 = {}
    BY <1>1, <1>3, <1>6 DEF Int32
  <2> QED
    BY <1>4, <2>1 DEF IsSigned, v
<1> QED
  BY <1>5, <1>6

(* The immediates that are zero extended, and the bits each may have.      *)
LEMMA UnsignedImmediates ==
    ASSUME NEW w
    PROVE  /\ Within(operand_cimm4spn(w), 2, 9)
           /\ Within(operand_cimmw(w), 2, 6)
           /\ Within(operand_cimmd(w), 3, 7)
           /\ Within(operand_cimmq(w), 4, 8)
           /\ Within(operand_cimmlwsp(w), 2, 7)
           /\ Within(operand_cimmldsp(w), 3, 8)
           /\ Within(operand_cimmlqsp(w), 4, 9)
           /\ Within(operand_cimmswsp(w), 2, 7)
           /\ Within(operand_cimmsdsp(w), 3, 8)
           /\ Within(operand_cimmsqsp(w), 4, 9)
           /\ Within(operand_cimmsh6(w), 0, 5)
           /\ Within(operand_shamt5(w), 0, 4)
           /\ Within(operand_shamt6(w), 0, 5)
           /\ Within(operand_shamt7(w), 0, 6)
           /\ Within(operand_csr12(w), 0, 11)
<1>1. Within(operand_cimm4spn(w), 2, 9)
  <2>1. /\ Fits(51, 62, 4, 2, 9) /\ Fits(53, 60, 6, 2, 9)
        /\ Fits(57, 63, 2, 2, 9) /\ Fits(58, 63, 3, 2, 9)
    BY DEF Fits
  <2> QED
    BY <2>1, PieceWithin, Joined DEF operand_cimm4spn
<1>2. Within(operand_cimmw(w), 2, 6)
  <2>1. /\ Fits(51, 61, 3, 2, 6) /\ Fits(57, 63, 2, 2, 6)
        /\ Fits(58, 63, 6, 2, 6)
    BY DEF Fits
  <2> QED
    BY <2>1, PieceWithin, Joined DEF operand_cimmw
<1>3. Within(operand_cimmd(w), 3, 7)
  <2>1. Fits(51, 61, 3, 3, 7) /\ Fits(57, 62, 6, 3, 7)
    BY DEF Fits
  <2> QED
    BY <2>1, PieceWithin, Joined DEF operand_cimmd
<1>4. Within(operand_cimmq(w), 4, 8)
  <2>1. /\ Fits(51, 62, 4, 4, 8) /\ Fits(53, 63, 8, 4, 8)
        /\ Fits(57, 62, 6, 4, 8)
    BY DEF Fits
  <2> QED
    BY <2>1, PieceWithin, Joined DEF operand_cimmq
<1>5. Within(operand_cimmlwsp(w), 2, 7)
  <2>1. /\ Fits(51, 63, 5, 2, 7) /\ Fits(57, 61, 2, 2, 7)
        /\ Fits(60, 62, 6, 2, 7)
    BY DEF Fits
  <2> QED
    BY <2>1, PieceWithin, Joined DEF operand_cimmlwsp
<1>6. Within(operand_cimmldsp(w), 3, 8)
  <2>1. /\ Fits(51, 63, 5, 3, 8) /\ Fits(57, 62, 3, 3, 8)
        /\ Fits(59, 61, 6, 3, 8)
    BY DEF Fits
  <2> QED
    BY <2>1, PieceWithin, Joined DEF operand_cimmldsp
<1>7. Within(operand_cimmlqsp(w), 4, 9)
  <2>1. /\ Fits(51, 63, 5, 4, 9) /\ Fits(57, 63, 4, 4, 9)
        /\ Fits(58, 60, 6, 4, 9)
    BY DEF Fits
  <2> QED
    BY <2>1, PieceWithin, Joined DEF operand_cimmlqsp
<1>8. Within(operand_cimmswsp(w), 2, 7)
  <2>1. Fits(51, 60, 2, 2, 7) /\ Fits(55, 62, 6, 2, 7)
    BY DEF Fits
  <2> QED
    BY <2>1, PieceWithin, Joined DEF operand_cimmswsp
<1>9. Within(operand_cimmsdsp(w), 3, 8)
  <2>1. Fits(51, 61, 3, 3, 8) /\ Fits(54, 61, 6, 3, 8)
    BY DEF Fits
  <2> QED
    BY <2>1, PieceWithin, Joined DEF operand_cimmsdsp
<1>10. Within(operand_cimmsqsp(w), 4, 9)
  <2>1. Fits(51, 62, 4, 4, 9) /\ Fits(53, 60, 6, 4, 9)
    BY DEF Fits
  <2> QED
    BY <2>1, PieceWithin, Joined DEF operand_cimmsqsp
<1>11. Within(operand_cimmsh6(w), 0, 5)
  <2>1. Fits(51, 63, 5, 0, 5) /\ Fits(57, 59, 0, 0, 5)
    BY DEF Fits
  <2> QED
    BY <2>1, PieceWithin, FieldWithin, Joined DEF operand_cimmsh6
<1>12. Within(operand_shamt5(w), 0, 4)
  <2>1. Fits(39, 59, 0, 0, 4)
    BY DEF Fits
  <2> QED
    BY <2>1, FieldWithin DEF operand_shamt5
<1>13. Within(operand_shamt6(w), 0, 5)
  <2>1. Fits(38, 58, 0, 0, 5)
    BY DEF Fits
  <2> QED
    BY <2>1, FieldWithin DEF operand_shamt6
<1>14. Within(operand_shamt7(w), 0, 6)
  <2>1. Fits(37, 57, 0, 0, 6)
    BY DEF Fits
  <2> QED
    BY <2>1, FieldWithin DEF operand_shamt7
<1>15. Within(operand_csr12(w), 0, 11)
  <2>1. Fits(32, 52, 0, 0, 11)
    BY DEF Fits
  <2> QED
    BY <2>1, FieldWithin DEF operand_csr12
<1> QED
  BY <1>1, <1>2, <1>3, <1>4, <1>5, <1>6, <1>7, <1>8, <1>9, <1>10, <1>11, <1>12, <1>13, <1>14, <1>15

(* The immediates that are sign extended.                                  *)
LEMMA SignedImmediates ==
    ASSUME NEW w
    PROVE  /\ IsSigned(operand_cimmj(w), 1, 11)
           /\ IsSigned(operand_cimmb(w), 1, 8)
           /\ IsSigned(operand_cimmi(w), 0, 5)
           /\ IsSigned(operand_cimm16sp(w), 4, 9)
           /\ IsSigned(operand_cimmui(w), 12, 17)
           /\ IsSigned(operand_imm12(w), 0, 11)
           /\ IsSigned(operand_simm12(w), 0, 11)
           /\ IsSigned(operand_sbimm12(w), 1, 12)
           /\ IsSigned(operand_jimm20(w), 1, 20)
           /\ IsSigned(operand_imm20(w), 12, 31)
<1>1. IsSigned(operand_cimmj(w), 1, 11)
  <2> DEFINE rest == Shl(Field(w, 52, 63), 4) \cup Shl(Field(w, 53, 62), 8)
                   \cup Shl(Field(w, 55, 63), 10) \cup Shl(Field(w, 56, 63), 6)
                   \cup Shl(Field(w, 57, 63), 7) \cup Shl(Field(w, 58, 61), 1)
                   \cup Shl(Field(w, 61, 63), 5)
  <2>1. SignFits(51, 63, 11, 1, 10, 11)
    BY DEF SignFits
  <2>2. Within(rest, 1, 10)
    <3>1. /\ Fits(52, 63, 4, 1, 10) /\ Fits(53, 62, 8, 1, 10)
          /\ Fits(55, 63, 10, 1, 10) /\ Fits(56, 63, 6, 1, 10)
          /\ Fits(57, 63, 7, 1, 10) /\ Fits(58, 61, 1, 1, 10)
          /\ Fits(61, 63, 5, 1, 10)
      BY DEF Fits
    <3>2. Within(Shl(Field(w, 52, 63), 4) \cup Shl(Field(w, 53, 62), 8)
                 \cup Shl(Field(w, 55, 63), 10) \cup Shl(Field(w, 56, 63), 6), 1, 10)
      BY <3>1, PieceWithin, Joined
    <3>3. /\ Within(Shl(Field(w, 57, 63), 7), 1, 10)
          /\ Within(Shl(Field(w, 58, 61), 1), 1, 10)
          /\ Within(Shl(Field(w, 61, 63), 5), 1, 10)
      BY <3>1, PieceWithin
    <3> QED
      BY <3>2, <3>3, Joined
  <2>3. operand_cimmj(w) = Int32(Shl(SField(w, 51, 63), 11) \cup rest)
    BY DEF operand_cimmj
  <2> HIDE DEF rest
  <2> QED
    BY <2>1, <2>2, <2>3, SignedWithin
<1>2. IsSigned(operand_cimmb(w), 1, 8)
  <2> DEFINE rest == Shl(Field(w, 52, 62), 3) \cup Shl(Field(w, 57, 62), 6)
                   \cup Shl(Field(w, 59, 62), 1) \cup Shl(Field(w, 61, 63), 5)
  <2>1. SignFits(51, 63, 8, 1, 7, 8)
    BY DEF SignFits
  <2>2. Within(rest, 1, 7)
    <3>1. /\ Fits(52, 62, 3, 1, 7) /\ Fits(57, 62, 6, 1, 7)
          /\ Fits(59, 62, 1, 1, 7) /\ Fits(61, 63, 5, 1, 7)
      BY DEF Fits
    <3> QED
      BY <3>1, PieceWithin, Joined
  <2>3. operand_cimmb(w) = Int32(Shl(SField(w, 51, 63), 8) \cup rest)
    BY DEF operand_cimmb
  <2> HIDE DEF rest
  <2> QED
    BY <2>1, <2>2, <2>3, SignedWithin
<1>3. IsSigned(operand_cimmi(w), 0, 5)
  <2> DEFINE rest == Field(w, 57, 59)
  <2>1. SignFits(51, 63, 5, 0, 4, 5)
    BY DEF SignFits
  <2>2. Within(rest, 0, 4)
    <3>1. Fits(57, 59, 0, 0, 4)
      BY DEF Fits
    <3> QED
      BY <3>1, FieldWithin
  <2>3. operand_cimmi(w) = Int32(Shl(SField(w, 51, 63), 5) \cup rest)
    BY DEF operand_cimmi
  <2> HIDE DEF rest
  <2> QED
    BY <2>1, <2>2, <2>3, SignedWithin
<1>4. IsSigned(operand_cimm16sp(w), 4, 9)
  <2> DEFINE rest == Shl(Field(w, 57, 63), 4) \cup Shl(Field(w, 58, 63), 6)
                   \cup Shl(Field(w, 59, 62), 7) \cup Shl(Field(w, 61, 63), 5)
  <2>1. SignFits(51, 63, 9, 4, 8, 9)
    BY DEF SignFits
  <2>2. Within(rest, 4, 8)
    <3>1. /\ Fits(57, 63, 4, 4, 8) /\ Fits(58, 63, 6, 4, 8)
          /\ Fits(59, 62, 7, 4, 8) /\ Fits(61, 63, 5, 4, 8)
      BY DEF Fits
    <3> QED
      BY <3>1, PieceWithin, Joined
  <2>3. operand_cimm16sp(w) = Int32(Shl(SField(w, 51, 63), 9) \cup rest)
    BY DEF operand_cimm16sp
  <2> HIDE DEF rest
  <2> QED
    BY <2>1, <2>2, <2>3, SignedWithin
<1>5. IsSigned(operand_cimmui(w), 12, 17)
  <2> DEFINE rest == Shl(Field(w, 57, 59), 12)
  <2>1. SignFits(51, 63, 17, 12, 16, 17)
    BY DEF SignFits
  <2>2. Within(rest, 12, 16)
    <3>1. Fits(57, 59, 12, 12, 16)
      BY DEF Fits
    <3> QED
      BY <3>1, PieceWithin
  <2>3. operand_cimmui(w) = Int32(Shl(SField(w, 51, 63), 17) \cup rest)
    BY DEF operand_cimmui
  <2> HIDE DEF rest
  <2> QED
    BY <2>1, <2>2, <2>3, SignedWithin
<1>6. IsSigned(operand_imm12(w), 0, 11)
  <2>1. SignFits(32, 52, 0, 0, 10, 11)
    BY DEF SignFits
  <2> QED
    BY <2>1, SignedFieldWithin DEF operand_imm12
<1>7. IsSigned(operand_simm12(w), 0, 11)
  <2> DEFINE rest == Field(w, 52, 59)
  <2>1. SignFits(32, 57, 5, 0, 10, 11)
    BY DEF SignFits
  <2>2. Within(rest, 0, 10)
    <3>1. Fits(52, 59, 0, 0, 10)
      BY DEF Fits
    <3> QED
      BY <3>1, FieldWithin
  <2>3. operand_simm12(w) = Int32(Shl(SField(w, 32, 57), 5) \cup rest)
    BY DEF operand_simm12
  <2> HIDE DEF rest
  <2> QED
    BY <2>1, <2>2, <2>3, SignedWithin
<1>8. IsSigned(operand_sbimm12(w), 1, 12)
  <2> DEFINE rest == Shl(Field(w, 33, 58), 5) \cup Shl(Field(w, 52, 60), 1)
                   \cup Shl(Field(w, 56, 63), 11)
  <2>1. SignFits(32, 63, 12, 1, 11, 12)
    BY DEF SignFits
  <2>2. Within(rest, 1, 11)
    <3>1. /\ Fits(33, 58, 5, 1, 11) /\ Fits(52, 60, 1, 1, 11)
          /\ Fits(56, 63, 11, 1, 11)
      BY DEF Fits
    <3> QED
      BY <3>1, PieceWithin, Joined
  <2>3. operand_sbimm12(w) = Int32(Shl(SField(w, 32, 63), 12) \cup rest)
    BY DEF operand_sbimm12
  <2> HIDE DEF rest
  <2> QED
    BY <2>1, <2>2, <2>3, SignedWithin
<1>9. IsSigned(operand_jimm20(w), 1, 20)
  <2> DEFINE rest == Shl(Field(w, 33, 54), 1) \cup Shl(Field(w, 43, 63), 11)
                   \cup Shl(Field(w, 44, 56), 12)
  <2>1. SignFits(32, 63, 20, 1, 19, 20)
    BY DEF SignFits
  <2>2. Within(rest, 1, 19)
    <3>1. /\ Fits(33, 54, 1, 1, 19) /\ Fits(43, 63, 11, 1, 19)
          /\ Fits(44, 56, 12, 1, 19)
      BY DEF Fits
    <3> QED
      BY <3>1, PieceWithin, Joined
  <2>3. operand_jimm20(w) = Int32(Shl(SField(w, 32, 63), 20) \cup rest)
    BY DEF operand_jimm20
  <2> HIDE DEF rest
  <2> QED
    BY <2>1, <2>2, <2>3, SignedWithin
<1>10. IsSigned(operand_imm20(w), 12, 31)
  <2> DEFINE rest == {}
  <2>1. SignFits(32, 44, 12, 12, 30, 31)
    BY DEF SignFits
  <2>2. Within(rest, 12, 30)
    BY DEF Within
  <2>3. operand_imm20(w) = Int32(Shl(SField(w, 32, 44), 12) \cup rest)
    BY DEF operand_imm20
  <2> HIDE DEF rest
  <2> QED
    BY <2>1, <2>2, <2>3, SignedWithin
<1> QED
  BY <1>1, <1>2, <1>3, <1>4, <1>5, <1>6, <1>7, <1>8, <1>9, <1>10

(* The registers: five bits, or three of a compressed instruction.         *)
LEMMA RegisterFields ==
    ASSUME NEW w
    PROVE  /\ Within(operand_rd(w), 0, 4)
           /\ Within(operand_rs1(w), 0, 4)
           /\ Within(operand_rs2(w), 0, 4)
           /\ Within(operand_rs3(w), 0, 4)
           /\ Within(operand_crd(w), 0, 4)
           /\ Within(operand_crs1(w), 0, 4)
           /\ Within(operand_crs1rd(w), 0, 4)
           /\ Within(operand_crs2(w), 0, 4)
           /\ Within(operand_crdq(w), 0, 2)
           /\ Within(operand_crs1q(w), 0, 2)
           /\ Within(operand_crs1rdq(w), 0, 2)
           /\ Within(operand_crs2q(w), 0, 2)
<1>1. /\ Fits(32, 59, 0, 0, 4) /\ Fits(39, 59, 0, 0, 4)
      /\ Fits(44, 59, 0, 0, 4) /\ Fits(52, 59, 0, 0, 4)
      /\ Fits(54, 61, 0, 0, 2) /\ Fits(57, 59, 0, 0, 4)
      /\ Fits(59, 61, 0, 0, 2)
  BY DEF Fits
<1> QED
  BY <1>1, FieldWithin DEF operand_rd, operand_rs1, operand_rs2, operand_rs3, operand_crd, operand_crs1,
          operand_crs1rd, operand_crs2, operand_crdq, operand_crs1q, operand_crs1rdq, operand_crs2q

-----------------------------------------------------------------------------
(***************************************************************************)
(* What an operand tells about the word it was taken from.                 *)
(***************************************************************************)
(* Two words have the same bits at these places.                           *)
Alike(i, j, places) == \A b \in places : b \in i <=> b \in j
(* Bits from..to of the word w stand at `at' and above in the operand v.   *)
Carries(v, w, from, to, at) == \A k \in 0..(to - from) : at + k \in v <=> from + k \in w

(* A field is those bits moved to `at'.                                    *)
Takes(l, r, n, lo, hi, d) == /\ l \in 0..63 /\ r \in l..63 /\ n \in 0..r
                             /\ lo = n /\ hi = n + 63 - r /\ d = r - l - n
TakesSigned(l, r, n, lo, hi, d, bit) == Takes(l, r, n, lo, hi, d) /\ bit = 63 - l

(* A piece shifted into place.                                             *)
LEMMA PieceAt ==
    ASSUME NEW w, NEW l, NEW r, NEW n, NEW lo, NEW hi, NEW d, Takes(l, r, n, lo, hi, d)
    PROVE  Shl(Field(w, l, r), n) = Moved(w, lo, hi, d)
  BY Piece DEF Takes

(* A signed one.                                                           *)
LEMMA SignedAt ==
    ASSUME NEW w, NEW l, NEW r, NEW n, NEW lo, NEW hi, NEW d, NEW bit,
           TakesSigned(l, r, n, lo, hi, d, bit)
    PROVE  Shl(SField(w, l, r), n) = Extended(w, lo, hi, d, bit)
  BY SignedPiece DEF Takes, TakesSigned

(* Two words with the same field have the same bits there.                 *)
LEMMA FieldAlike ==
    ASSUME NEW i, NEW j, NEW l \in 0..63, NEW r \in l..63, Field(i, l, r) = Field(j, l, r)
    PROVE  Alike(i, j, (r - l)..(63 - l))
<1> SUFFICES ASSUME NEW b \in (r - l)..(63 - l) PROVE b \in i <=> b \in j
  BY DEF Alike
<1>1. b - (r - l) \in 0..(63 - r) /\ b - (r - l) + r - l = b
  OBVIOUS
<1>2. /\ b - (r - l) \in Field(i, l, r) <=> b - (r - l) + r - l \in i
      /\ b - (r - l) \in Field(j, l, r) <=> b - (r - l) + r - l \in j
  BY <1>1, FieldMember
<1> QED
  BY <1>1, <1>2

(* So registers, shift amounts and flags tell the bits they were taken from.*)
LEMMA FieldsAlike ==
    ASSUME NEW i, NEW j
    PROVE  /\ operand_rd(i) = operand_rd(j) => Alike(i, j, 7..11)
           /\ operand_rs1(i) = operand_rs1(j) => Alike(i, j, 15..19)
           /\ operand_rs2(i) = operand_rs2(j) => Alike(i, j, 20..24)
           /\ operand_rs3(i) = operand_rs3(j) => Alike(i, j, 27..31)
           /\ operand_aq(i) = operand_aq(j) => Alike(i, j, 26..26)
           /\ operand_rl(i) = operand_rl(j) => Alike(i, j, 25..25)
           /\ operand_rm(i) = operand_rm(j) => Alike(i, j, 12..14)
           /\ operand_shamt5(i) = operand_shamt5(j) => Alike(i, j, 20..24)
           /\ operand_shamt6(i) = operand_shamt6(j) => Alike(i, j, 20..25)
           /\ operand_shamt7(i) = operand_shamt7(j) => Alike(i, j, 20..26)
           /\ operand_csr12(i) = operand_csr12(j) => Alike(i, j, 20..31)
           /\ operand_crdq(i) = operand_crdq(j) => Alike(i, j, 2..4)
           /\ operand_crs1q(i) = operand_crs1q(j) => Alike(i, j, 7..9)
           /\ operand_crs1rdq(i) = operand_crs1rdq(j) => Alike(i, j, 7..9)
           /\ operand_crs2q(i) = operand_crs2q(j) => Alike(i, j, 2..4)
           /\ operand_crd(i) = operand_crd(j) => Alike(i, j, 7..11)
           /\ operand_crs1(i) = operand_crs1(j) => Alike(i, j, 7..11)
           /\ operand_crs1rd(i) = operand_crs1rd(j) => Alike(i, j, 7..11)
           /\ operand_crs2(i) = operand_crs2(j) => Alike(i, j, 2..6)
<1> DEFINE Taken(l, r, lo, hi) == Field(i, l, r) = Field(j, l, r) => Alike(i, j, lo..hi)
<1>1. ASSUME NEW l \in 0..63, NEW r \in l..63, NEW lo, NEW hi, lo = r - l, hi = 63 - l
      PROVE  Taken(l, r, lo, hi)
  BY <1>1, FieldAlike
<1> HIDE DEF Taken
<1>2. /\ Taken(52, 59, 7, 11) /\ Taken(44, 59, 15, 19) /\ Taken(39, 59, 20, 24)
      /\ Taken(32, 59, 27, 31) /\ Taken(37, 63, 26, 26) /\ Taken(38, 63, 25, 25)
      /\ Taken(49, 61, 12, 14) /\ Taken(38, 58, 20, 25) /\ Taken(37, 57, 20, 26)
      /\ Taken(32, 52, 20, 31) /\ Taken(59, 61, 2, 4) /\ Taken(54, 61, 7, 9)
      /\ Taken(57, 59, 2, 6)
  BY <1>1
<1> QED
  BY <1>2 DEF Taken, operand_rd, operand_rs1, operand_rs2, operand_rs3, operand_aq, operand_rl,
     operand_rm, operand_shamt5, operand_shamt6, operand_shamt7, operand_csr12, operand_crdq,
     operand_crs1q, operand_crs1rdq, operand_crs2q, operand_crd, operand_crs1, operand_crs1rd,
     operand_crs2

(* The same for a field that is not moved.                                 *)
LEMMA FieldAt ==
    ASSUME NEW w, NEW l, NEW r, NEW n, NEW lo, NEW hi, NEW d, Takes(l, r, n, lo, hi, d), n = 0
    PROVE  Field(w, l, r) = Moved(w, lo, hi, d)
<1>1. \A b : b \in Field(w, l, r) <=> b \in 0..(63 - r) /\ b + r - l \in w
  BY FieldMember DEF Takes
<1>2. \A b \in Int : b + r - l = b + d
  BY DEF Takes
<1> QED
  BY <1>1, <1>2 DEF Moved, Takes

(* A signed one.                                                           *)
LEMMA SignedFieldAt ==
    ASSUME NEW w, NEW l, NEW r, NEW n, NEW lo, NEW hi, NEW d, NEW bit,
           TakesSigned(l, r, n, lo, hi, d, bit), n = 0
    PROVE  SField(w, l, r) = Extended(w, lo, hi, d, bit)
<1>1. \A b : b \in SField(w, l, r) <=>
                b \in 0..63 /\ (IF b <= 63 - r THEN b + r - l ELSE 63 - l) \in w
  BY SFieldMember DEF Takes, TakesSigned
<1>2. \A b \in Int : b + r - l = b + d
  BY DEF Takes, TakesSigned
<1>3. hi + d = bit /\ hi = 63 - r /\ lo = 0
  BY DEF Takes, TakesSigned
<1> QED
  BY <1>1, <1>2, <1>3 DEF Extended, Moved, Signs, Takes, TakesSigned

(* Where the bits of a zero extended immediate come from.                  *)
LEMMA UnsignedCarried ==
    ASSUME NEW w
    PROVE  /\ Carries(operand_cimm4spn(w), w, 11, 12, 4) /\ Carries(operand_cimm4spn(w), w, 7, 10, 6)
           /\ Carries(operand_cimm4spn(w), w, 6, 6, 2) /\ Carries(operand_cimm4spn(w), w, 5, 5, 3)
           /\ Carries(operand_cimmw(w), w, 10, 12, 3) /\ Carries(operand_cimmw(w), w, 6, 6, 2)
           /\ Carries(operand_cimmw(w), w, 5, 5, 6)
           /\ Carries(operand_cimmd(w), w, 10, 12, 3) /\ Carries(operand_cimmd(w), w, 5, 6, 6)
           /\ Carries(operand_cimmq(w), w, 11, 12, 4) /\ Carries(operand_cimmq(w), w, 10, 10, 8)
           /\ Carries(operand_cimmq(w), w, 5, 6, 6)
           /\ Carries(operand_cimmlwsp(w), w, 12, 12, 5) /\ Carries(operand_cimmlwsp(w), w, 4, 6, 2)
           /\ Carries(operand_cimmlwsp(w), w, 2, 3, 6)
           /\ Carries(operand_cimmldsp(w), w, 12, 12, 5) /\ Carries(operand_cimmldsp(w), w, 5, 6, 3)
           /\ Carries(operand_cimmldsp(w), w, 2, 4, 6)
           /\ Carries(operand_cimmlqsp(w), w, 12, 12, 5) /\ Carries(operand_cimmlqsp(w), w, 6, 6, 4)
           /\ Carries(operand_cimmlqsp(w), w, 2, 5, 6)
           /\ Carries(operand_cimmswsp(w), w, 9, 12, 2) /\ Carries(operand_cimmswsp(w), w, 7, 8, 6)
           /\ Carries(operand_cimmsdsp(w), w, 10, 12, 3) /\ Carries(operand_cimmsdsp(w), w, 7, 9, 6)
           /\ Carries(operand_cimmsqsp(w), w, 11, 12, 4) /\ Carries(operand_cimmsqsp(w), w, 7, 10, 6)
           /\ Carries(operand_cimmsh6(w), w, 12, 12, 5) /\ Carries(operand_cimmsh6(w), w, 2, 6, 0)
<1>1. /\ Carries(operand_cimm4spn(w), w, 11, 12, 4) /\ Carries(operand_cimm4spn(w), w, 7, 10, 6)
      /\ Carries(operand_cimm4spn(w), w, 6, 6, 2) /\ Carries(operand_cimm4spn(w), w, 5, 5, 3)
  <2>1. /\ Takes(51, 62, 4, 4, 5, 7) /\ Takes(53, 60, 6, 6, 9, 1) /\ Takes(57, 63, 2, 2, 2, 4)
        /\ Takes(58, 63, 3, 3, 3, 2)
    BY DEF Takes
  <2>2. operand_cimm4spn(w) = Moved(w, 4, 5, 7) \cup Moved(w, 6, 9, 1) \cup Moved(w, 2, 2, 4)
                              \cup Moved(w, 3, 3, 2)
    BY <2>1, PieceAt DEF operand_cimm4spn
  <2> QED
    BY <2>2 DEF Carries, Moved
<1>2. /\ Carries(operand_cimmw(w), w, 10, 12, 3) /\ Carries(operand_cimmw(w), w, 6, 6, 2)
      /\ Carries(operand_cimmw(w), w, 5, 5, 6)
  <2>1. /\ Takes(51, 61, 3, 3, 5, 7) /\ Takes(57, 63, 2, 2, 2, 4) /\ Takes(58, 63, 6, 6, 6, -1)
    BY DEF Takes
  <2>2. operand_cimmw(w) = Moved(w, 3, 5, 7) \cup Moved(w, 2, 2, 4) \cup Moved(w, 6, 6, -1)
    BY <2>1, PieceAt DEF operand_cimmw
  <2> QED
    BY <2>2 DEF Carries, Moved
<1>3. /\ Carries(operand_cimmd(w), w, 10, 12, 3) /\ Carries(operand_cimmd(w), w, 5, 6, 6)
  <2>1. /\ Takes(51, 61, 3, 3, 5, 7) /\ Takes(57, 62, 6, 6, 7, -1)
    BY DEF Takes
  <2>2. operand_cimmd(w) = Moved(w, 3, 5, 7) \cup Moved(w, 6, 7, -1)
    BY <2>1, PieceAt DEF operand_cimmd
  <2> QED
    BY <2>2 DEF Carries, Moved
<1>4. /\ Carries(operand_cimmq(w), w, 11, 12, 4) /\ Carries(operand_cimmq(w), w, 10, 10, 8)
      /\ Carries(operand_cimmq(w), w, 5, 6, 6)
  <2>1. /\ Takes(51, 62, 4, 4, 5, 7) /\ Takes(53, 63, 8, 8, 8, 2) /\ Takes(57, 62, 6, 6, 7, -1)
    BY DEF Takes
  <2>2. operand_cimmq(w) = Moved(w, 4, 5, 7) \cup Moved(w, 8, 8, 2) \cup Moved(w, 6, 7, -1)
    BY <2>1, PieceAt DEF operand_cimmq
  <2> QED
    BY <2>2 DEF Carries, Moved
<1>5. /\ Carries(operand_cimmlwsp(w), w, 12, 12, 5) /\ Carries(operand_cimmlwsp(w), w, 4, 6, 2)
      /\ Carries(operand_cimmlwsp(w), w, 2, 3, 6)
  <2>1. /\ Takes(51, 63, 5, 5, 5, 7) /\ Takes(57, 61, 2, 2, 4, 2) /\ Takes(60, 62, 6, 6, 7, -4)
    BY DEF Takes
  <2>2. operand_cimmlwsp(w) = Moved(w, 5, 5, 7) \cup Moved(w, 2, 4, 2) \cup Moved(w, 6, 7, -4)
    BY <2>1, PieceAt DEF operand_cimmlwsp
  <2> QED
    BY <2>2 DEF Carries, Moved
<1>6. /\ Carries(operand_cimmldsp(w), w, 12, 12, 5) /\ Carries(operand_cimmldsp(w), w, 5, 6, 3)
      /\ Carries(operand_cimmldsp(w), w, 2, 4, 6)
  <2>1. /\ Takes(51, 63, 5, 5, 5, 7) /\ Takes(57, 62, 3, 3, 4, 2) /\ Takes(59, 61, 6, 6, 8, -4)
    BY DEF Takes
  <2>2. operand_cimmldsp(w) = Moved(w, 5, 5, 7) \cup Moved(w, 3, 4, 2) \cup Moved(w, 6, 8, -4)
    BY <2>1, PieceAt DEF operand_cimmldsp
  <2> QED
    BY <2>2 DEF Carries, Moved
<1>7. /\ Carries(operand_cimmlqsp(w), w, 12, 12, 5) /\ Carries(operand_cimmlqsp(w), w, 6, 6, 4)
      /\ Carries(operand_cimmlqsp(w), w, 2, 5, 6)
  <2>1. /\ Takes(51, 63, 5, 5, 5, 7) /\ Takes(57, 63, 4, 4, 4, 2) /\ Takes(58, 60, 6, 6, 9, -4)
    BY DEF Takes
  <2>2. operand_cimmlqsp(w) = Moved(w, 5, 5, 7) \cup Moved(w, 4, 4, 2) \cup Moved(w, 6, 9, -4)
    BY <2>1, PieceAt DEF operand_cimmlqsp
  <2> QED
    BY <2>2 DEF Carries, Moved
<1>8. /\ Carries(operand_cimmswsp(w), w, 9, 12, 2) /\ Carries(operand_cimmswsp(w), w, 7, 8, 6)
  <2>1. /\ Takes(51, 60, 2, 2, 5, 7) /\ Takes(55, 62, 6, 6, 7, 1)
    BY DEF Takes
  <2>2. operand_cimmswsp(w) = Moved(w, 2, 5, 7) \cup Moved(w, 6, 7, 1)
    BY <2>1, PieceAt DEF operand_cimmswsp
  <2> QED
    BY <2>2 DEF Carries, Moved
<1>9. /\ Carries(operand_cimmsdsp(w), w, 10, 12, 3) /\ Carries(operand_cimmsdsp(w), w, 7, 9, 6)
  <2>1. /\ Takes(51, 61, 3, 3, 5, 7) /\ Takes(54, 61, 6, 6, 8, 1)
    BY DEF Takes
  <2>2. operand_cimmsdsp(w) = Moved(w, 3, 5, 7) \cup Moved(w, 6, 8, 1)
    BY <2>1, PieceAt DEF operand_cimmsdsp
  <2> QED
    BY <2>2 DEF Carries, Moved
<1>10. /\ Carries(operand_cimmsqsp(w), w, 11, 12, 4) /\ Carries(operand_cimmsqsp(w), w, 7, 10, 6)
  <2>1. /\ Takes(51, 62, 4, 4, 5, 7) /\ Takes(53, 60, 6, 6, 9, 1)
    BY DEF Takes
  <2>2. operand_cimmsqsp(w) = Moved(w, 4, 5, 7) \cup Moved(w, 6, 9, 1)
    BY <2>1, PieceAt DEF operand_cimmsqsp
  <2> QED
    BY <2>2 DEF Carries, Moved
<1>11. /\ Carries(operand_cimmsh6(w), w, 12, 12, 5) /\ Carries(operand_cimmsh6(w), w, 2, 6, 0)
  <2>1. /\ Takes(51, 63, 5, 5, 5, 7) /\ Takes(57, 59, 0, 0, 4, 2)
    BY DEF Takes
  <2>2. operand_cimmsh6(w) = Moved(w, 5, 5, 7) \cup Moved(w, 0, 4, 2)
    BY <2>1, PieceAt, FieldAt DEF operand_cimmsh6
  <2> QED
    BY <2>2 DEF Carries, Moved
<1> QED
  BY <1>1, <1>2, <1>3, <1>4, <1>5, <1>6, <1>7, <1>8, <1>9, <1>10, <1>11

(* Where the bits of a sign extended immediate come from.                  *)
(* Where the bits of a sign extended immediate come from.                  *)
LEMMA SignedCarried ==
    ASSUME NEW w
    PROVE  /\ Carries(operand_imm12(w), w, 20, 31, 0)
           /\ Carries(operand_imm20(w), w, 12, 31, 12)
           /\ Carries(operand_jimm20(w), w, 31, 31, 20) /\ Carries(operand_jimm20(w), w, 21, 30, 1)
           /\ Carries(operand_jimm20(w), w, 20, 20, 11) /\ Carries(operand_jimm20(w), w, 12, 19, 12)
           /\ Carries(operand_simm12(w), w, 25, 31, 5) /\ Carries(operand_simm12(w), w, 7, 11, 0)
           /\ Carries(operand_sbimm12(w), w, 31, 31, 12) /\ Carries(operand_sbimm12(w), w, 25, 30, 5)
           /\ Carries(operand_sbimm12(w), w, 8, 11, 1) /\ Carries(operand_sbimm12(w), w, 7, 7, 11)
           /\ Carries(operand_cimmi(w), w, 12, 12, 5) /\ Carries(operand_cimmi(w), w, 2, 6, 0)
           /\ Carries(operand_cimmui(w), w, 12, 12, 17) /\ Carries(operand_cimmui(w), w, 2, 6, 12)
           /\ Carries(operand_cimm16sp(w), w, 12, 12, 9) /\ Carries(operand_cimm16sp(w), w, 6, 6, 4)
           /\ Carries(operand_cimm16sp(w), w, 5, 5, 6) /\ Carries(operand_cimm16sp(w), w, 3, 4, 7)
           /\ Carries(operand_cimm16sp(w), w, 2, 2, 5)
           /\ Carries(operand_cimmj(w), w, 12, 12, 11) /\ Carries(operand_cimmj(w), w, 11, 11, 4)
           /\ Carries(operand_cimmj(w), w, 9, 10, 8) /\ Carries(operand_cimmj(w), w, 8, 8, 10)
           /\ Carries(operand_cimmj(w), w, 7, 7, 6) /\ Carries(operand_cimmj(w), w, 6, 6, 7)
           /\ Carries(operand_cimmj(w), w, 3, 5, 1) /\ Carries(operand_cimmj(w), w, 2, 2, 5)
           /\ Carries(operand_cimmb(w), w, 12, 12, 8) /\ Carries(operand_cimmb(w), w, 10, 11, 3)
           /\ Carries(operand_cimmb(w), w, 5, 6, 6) /\ Carries(operand_cimmb(w), w, 3, 4, 1)
           /\ Carries(operand_cimmb(w), w, 2, 2, 5)
<1>1. /\ Carries(operand_imm12(w), w, 20, 31, 0)
  <2>1. /\ TakesSigned(32, 52, 0, 0, 11, 20, 31)
    BY DEF Takes, TakesSigned
  <2>2. operand_imm12(w) = Int32(Extended(w, 0, 11, 20, 31))
    BY <2>1, SignedFieldAt DEF operand_imm12
  <2> QED
    BY <2>2 DEF Carries, Moved, Extended, Signs, Int32
<1>2. /\ Carries(operand_imm20(w), w, 12, 31, 12)
  <2>1. /\ TakesSigned(32, 44, 12, 12, 31, 0, 31)
    BY DEF Takes, TakesSigned
  <2>2. operand_imm20(w) = Int32(Extended(w, 12, 31, 0, 31))
    BY <2>1, SignedAt DEF operand_imm20
  <2> QED
    BY <2>2 DEF Carries, Moved, Extended, Signs, Int32
<1>3. /\ Carries(operand_jimm20(w), w, 31, 31, 20) /\ Carries(operand_jimm20(w), w, 21, 30, 1)
      /\ Carries(operand_jimm20(w), w, 20, 20, 11) /\ Carries(operand_jimm20(w), w, 12, 19, 12)
  <2>1. /\ TakesSigned(32, 63, 20, 20, 20, 11, 31) /\ Takes(33, 54, 1, 1, 10, 20)
        /\ Takes(43, 63, 11, 11, 11, 9) /\ Takes(44, 56, 12, 12, 19, 0)
    BY DEF Takes, TakesSigned
  <2>2. Shl(SField(w, 32, 63), 20) = Extended(w, 20, 20, 11, 31)
    BY <2>1, SignedAt
  <2>3. /\ Shl(Field(w, 33, 54), 1) = Moved(w, 1, 10, 20)
        /\ Shl(Field(w, 43, 63), 11) = Moved(w, 11, 11, 9)
        /\ Shl(Field(w, 44, 56), 12) = Moved(w, 12, 19, 0)
    BY <2>1, PieceAt
  <2>4. operand_jimm20(w) = Int32(Extended(w, 20, 20, 11, 31) \cup Moved(w, 1, 10, 20)
                                  \cup Moved(w, 11, 11, 9) \cup Moved(w, 12, 19, 0))
    BY <2>2, <2>3 DEF operand_jimm20
  <2> QED
    BY <2>4 DEF Carries, Moved, Extended, Signs, Int32
<1>4. /\ Carries(operand_simm12(w), w, 25, 31, 5) /\ Carries(operand_simm12(w), w, 7, 11, 0)
  <2>1. /\ TakesSigned(32, 57, 5, 5, 11, 20, 31) /\ Takes(52, 59, 0, 0, 4, 7)
    BY DEF Takes, TakesSigned
  <2>2. operand_simm12(w) = Int32(Extended(w, 5, 11, 20, 31) \cup Moved(w, 0, 4, 7))
    BY <2>1, FieldAt, SignedAt DEF operand_simm12
  <2> QED
    BY <2>2 DEF Carries, Moved, Extended, Signs, Int32
<1>5. /\ Carries(operand_sbimm12(w), w, 31, 31, 12) /\ Carries(operand_sbimm12(w), w, 25, 30, 5)
      /\ Carries(operand_sbimm12(w), w, 8, 11, 1) /\ Carries(operand_sbimm12(w), w, 7, 7, 11)
  <2>1. /\ TakesSigned(32, 63, 12, 12, 12, 19, 31) /\ Takes(33, 58, 5, 5, 10, 20)
        /\ Takes(52, 60, 1, 1, 4, 7) /\ Takes(56, 63, 11, 11, 11, -4)
    BY DEF Takes, TakesSigned
  <2>2. Shl(SField(w, 32, 63), 12) = Extended(w, 12, 12, 19, 31)
    BY <2>1, SignedAt
  <2>3. /\ Shl(Field(w, 33, 58), 5) = Moved(w, 5, 10, 20)
        /\ Shl(Field(w, 52, 60), 1) = Moved(w, 1, 4, 7)
        /\ Shl(Field(w, 56, 63), 11) = Moved(w, 11, 11, -4)
    BY <2>1, PieceAt
  <2>4. operand_sbimm12(w) = Int32(Extended(w, 12, 12, 19, 31) \cup Moved(w, 5, 10, 20)
                                   \cup Moved(w, 1, 4, 7) \cup Moved(w, 11, 11, -4))
    BY <2>2, <2>3 DEF operand_sbimm12
  <2> QED
    BY <2>4 DEF Carries, Moved, Extended, Signs, Int32
<1>6. /\ Carries(operand_cimmi(w), w, 12, 12, 5) /\ Carries(operand_cimmi(w), w, 2, 6, 0)
  <2>1. /\ TakesSigned(51, 63, 5, 5, 5, 7, 12) /\ Takes(57, 59, 0, 0, 4, 2)
    BY DEF Takes, TakesSigned
  <2>2. operand_cimmi(w) = Int32(Extended(w, 5, 5, 7, 12) \cup Moved(w, 0, 4, 2))
    BY <2>1, FieldAt, SignedAt DEF operand_cimmi
  <2> QED
    BY <2>2 DEF Carries, Moved, Extended, Signs, Int32
<1>7. /\ Carries(operand_cimmui(w), w, 12, 12, 17) /\ Carries(operand_cimmui(w), w, 2, 6, 12)
  <2>1. /\ TakesSigned(51, 63, 17, 17, 17, -5, 12) /\ Takes(57, 59, 12, 12, 16, -10)
    BY DEF Takes, TakesSigned
  <2>2. operand_cimmui(w) = Int32(Extended(w, 17, 17, -5, 12) \cup Moved(w, 12, 16, -10))
    BY <2>1, PieceAt, SignedAt DEF operand_cimmui
  <2> QED
    BY <2>2 DEF Carries, Moved, Extended, Signs, Int32
<1>8. /\ Carries(operand_cimm16sp(w), w, 12, 12, 9) /\ Carries(operand_cimm16sp(w), w, 6, 6, 4)
      /\ Carries(operand_cimm16sp(w), w, 5, 5, 6) /\ Carries(operand_cimm16sp(w), w, 3, 4, 7)
      /\ Carries(operand_cimm16sp(w), w, 2, 2, 5)
  <2>1. /\ TakesSigned(51, 63, 9, 9, 9, 3, 12) /\ Takes(57, 63, 4, 4, 4, 2)
        /\ Takes(58, 63, 6, 6, 6, -1) /\ Takes(59, 62, 7, 7, 8, -4) /\ Takes(61, 63, 5, 5, 5, -3)
    BY DEF Takes, TakesSigned
  <2>2. Shl(SField(w, 51, 63), 9) = Extended(w, 9, 9, 3, 12)
    BY <2>1, SignedAt
  <2>3. /\ Shl(Field(w, 57, 63), 4) = Moved(w, 4, 4, 2)
        /\ Shl(Field(w, 58, 63), 6) = Moved(w, 6, 6, -1)
        /\ Shl(Field(w, 59, 62), 7) = Moved(w, 7, 8, -4)
        /\ Shl(Field(w, 61, 63), 5) = Moved(w, 5, 5, -3)
    BY <2>1, PieceAt
  <2>4. operand_cimm16sp(w) = Int32(Extended(w, 9, 9, 3, 12) \cup Moved(w, 4, 4, 2)
                                    \cup Moved(w, 6, 6, -1) \cup Moved(w, 7, 8, -4)
                                    \cup Moved(w, 5, 5, -3))
    BY <2>2, <2>3 DEF operand_cimm16sp
  <2> QED
    BY <2>4 DEF Carries, Moved, Extended, Signs, Int32
<1>9. /\ Carries(operand_cimmj(w), w, 12, 12, 11) /\ Carries(operand_cimmj(w), w, 11, 11, 4)
      /\ Carries(operand_cimmj(w), w, 9, 10, 8) /\ Carries(operand_cimmj(w), w, 8, 8, 10)
      /\ Carries(operand_cimmj(w), w, 7, 7, 6) /\ Carries(operand_cimmj(w), w, 6, 6, 7)
      /\ Carries(operand_cimmj(w), w, 3, 5, 1) /\ Carries(operand_cimmj(w), w, 2, 2, 5)
  <2>1. /\ TakesSigned(51, 63, 11, 11, 11, 1, 12) /\ Takes(52, 63, 4, 4, 4, 7)
        /\ Takes(53, 62, 8, 8, 9, 1) /\ Takes(55, 63, 10, 10, 10, -2) /\ Takes(56, 63, 6, 6, 6, 1)
        /\ Takes(57, 63, 7, 7, 7, -1) /\ Takes(58, 61, 1, 1, 3, 2) /\ Takes(61, 63, 5, 5, 5, -3)
    BY DEF Takes, TakesSigned
  <2>2. Shl(SField(w, 51, 63), 11) = Extended(w, 11, 11, 1, 12)
    BY <2>1, SignedAt
  <2>3. /\ Shl(Field(w, 52, 63), 4) = Moved(w, 4, 4, 7)
        /\ Shl(Field(w, 53, 62), 8) = Moved(w, 8, 9, 1)
        /\ Shl(Field(w, 55, 63), 10) = Moved(w, 10, 10, -2)
        /\ Shl(Field(w, 56, 63), 6) = Moved(w, 6, 6, 1)
        /\ Shl(Field(w, 57, 63), 7) = Moved(w, 7, 7, -1)
        /\ Shl(Field(w, 58, 61), 1) = Moved(w, 1, 3, 2)
        /\ Shl(Field(w, 61, 63), 5) = Moved(w, 5, 5, -3)
    BY <2>1, PieceAt
  <2>4. operand_cimmj(w) = Int32(Extended(w, 11, 11, 1, 12) \cup Moved(w, 4, 4, 7)
                                 \cup Moved(w, 8, 9, 1) \cup Moved(w, 10, 10, -2)
                                 \cup Moved(w, 6, 6, 1) \cup Moved(w, 7, 7, -1)
                                 \cup Moved(w, 1, 3, 2) \cup Moved(w, 5, 5, -3))
    BY <2>2, <2>3 DEF operand_cimmj
  <2> QED
    BY <2>4 DEF Carries, Moved, Extended, Signs, Int32
<1>10. /\ Carries(operand_cimmb(w), w, 12, 12, 8) /\ Carries(operand_cimmb(w), w, 10, 11, 3)
       /\ Carries(operand_cimmb(w), w, 5, 6, 6) /\ Carries(operand_cimmb(w), w, 3, 4, 1)
       /\ Carries(operand_cimmb(w), w, 2, 2, 5)
  <2>1. /\ TakesSigned(51, 63, 8, 8, 8, 4, 12) /\ Takes(52, 62, 3, 3, 4, 7)
        /\ Takes(57, 62, 6, 6, 7, -1) /\ Takes(59, 62, 1, 1, 2, 2) /\ Takes(61, 63, 5, 5, 5, -3)
    BY DEF Takes, TakesSigned
  <2>2. Shl(SField(w, 51, 63), 8) = Extended(w, 8, 8, 4, 12)
    BY <2>1, SignedAt
  <2>3. /\ Shl(Field(w, 52, 62), 3) = Moved(w, 3, 4, 7)
        /\ Shl(Field(w, 57, 62), 6) = Moved(w, 6, 7, -1)
        /\ Shl(Field(w, 59, 62), 1) = Moved(w, 1, 2, 2)
        /\ Shl(Field(w, 61, 63), 5) = Moved(w, 5, 5, -3)
    BY <2>1, PieceAt
  <2>4. operand_cimmb(w) = Int32(Extended(w, 8, 8, 4, 12) \cup Moved(w, 3, 4, 7)
                                 \cup Moved(w, 6, 7, -1) \cup Moved(w, 1, 2, 2)
                                 \cup Moved(w, 5, 5, -3))
    BY <2>2, <2>3 DEF operand_cimmb
  <2> QED
    BY <2>4 DEF Carries, Moved, Extended, Signs, Int32
<1> QED
  BY <1>1, <1>2, <1>3, <1>4, <1>5, <1>6, <1>7, <1>8, <1>9, <1>10

(* Two words with the same immediate have the same bits where it was taken from. *)
(* So an immediate tells the bits it was put together from.                *)
LEMMA ImmediatesAlike ==
    ASSUME NEW i, NEW j
    PROVE  /\ operand_cimm4spn(i) = operand_cimm4spn(j) => Alike(i, j, 5..12)
           /\ operand_cimmw(i) = operand_cimmw(j) => Alike(i, j, (5..6) \cup (10..12))
           /\ operand_cimmd(i) = operand_cimmd(j) => Alike(i, j, (5..6) \cup (10..12))
           /\ operand_cimmq(i) = operand_cimmq(j) => Alike(i, j, (5..6) \cup (10..12))
           /\ operand_cimmlwsp(i) = operand_cimmlwsp(j) => Alike(i, j, (2..6) \cup (12..12))
           /\ operand_cimmldsp(i) = operand_cimmldsp(j) => Alike(i, j, (2..6) \cup (12..12))
           /\ operand_cimmlqsp(i) = operand_cimmlqsp(j) => Alike(i, j, (2..6) \cup (12..12))
           /\ operand_cimmswsp(i) = operand_cimmswsp(j) => Alike(i, j, 7..12)
           /\ operand_cimmsdsp(i) = operand_cimmsdsp(j) => Alike(i, j, 7..12)
           /\ operand_cimmsqsp(i) = operand_cimmsqsp(j) => Alike(i, j, 7..12)
           /\ operand_cimmsh6(i) = operand_cimmsh6(j) => Alike(i, j, (2..6) \cup (12..12))
           /\ operand_imm12(i) = operand_imm12(j) => Alike(i, j, 20..31)
           /\ operand_imm20(i) = operand_imm20(j) => Alike(i, j, 12..31)
           /\ operand_jimm20(i) = operand_jimm20(j) => Alike(i, j, 12..31)
           /\ operand_simm12(i) = operand_simm12(j) => Alike(i, j, (7..11) \cup (25..31))
           /\ operand_sbimm12(i) = operand_sbimm12(j) => Alike(i, j, (7..11) \cup (25..31))
           /\ operand_cimmi(i) = operand_cimmi(j) => Alike(i, j, (2..6) \cup (12..12))
           /\ operand_cimmui(i) = operand_cimmui(j) => Alike(i, j, (2..6) \cup (12..12))
           /\ operand_cimm16sp(i) = operand_cimm16sp(j) => Alike(i, j, (2..6) \cup (12..12))
           /\ operand_cimmj(i) = operand_cimmj(j) => Alike(i, j, 2..12)
           /\ operand_cimmb(i) = operand_cimmb(j) => Alike(i, j, (2..6) \cup (10..12))
<1>1. ASSUME operand_cimm4spn(i) = operand_cimm4spn(j)
      PROVE  Alike(i, j, 5..12)
  <2>1. /\ Alike(i, j, 11..12) /\ Alike(i, j, 7..10) /\ Alike(i, j, 6..6) /\ Alike(i, j, 5..5)
    BY <1>1, UnsignedCarried DEF Carries, Alike
  <2> QED
    BY <2>1 DEF Alike
<1>2. ASSUME operand_cimmw(i) = operand_cimmw(j)
      PROVE  Alike(i, j, (5..6) \cup (10..12))
  <2>1. /\ Alike(i, j, 10..12) /\ Alike(i, j, 6..6) /\ Alike(i, j, 5..5)
    BY <1>2, UnsignedCarried DEF Carries, Alike
  <2> QED
    BY <2>1 DEF Alike
<1>3. ASSUME operand_cimmd(i) = operand_cimmd(j)
      PROVE  Alike(i, j, (5..6) \cup (10..12))
  <2>1. /\ Alike(i, j, 10..12) /\ Alike(i, j, 5..6)
    BY <1>3, UnsignedCarried DEF Carries, Alike
  <2> QED
    BY <2>1 DEF Alike
<1>4. ASSUME operand_cimmq(i) = operand_cimmq(j)
      PROVE  Alike(i, j, (5..6) \cup (10..12))
  <2>1. /\ Alike(i, j, 11..12) /\ Alike(i, j, 10..10) /\ Alike(i, j, 5..6)
    BY <1>4, UnsignedCarried DEF Carries, Alike
  <2> QED
    BY <2>1 DEF Alike
<1>5. ASSUME operand_cimmlwsp(i) = operand_cimmlwsp(j)
      PROVE  Alike(i, j, (2..6) \cup (12..12))
  <2>1. /\ Alike(i, j, 12..12) /\ Alike(i, j, 4..6) /\ Alike(i, j, 2..3)
    BY <1>5, UnsignedCarried DEF Carries, Alike
  <2> QED
    BY <2>1 DEF Alike
<1>6. ASSUME operand_cimmldsp(i) = operand_cimmldsp(j)
      PROVE  Alike(i, j, (2..6) \cup (12..12))
  <2>1. /\ Alike(i, j, 12..12) /\ Alike(i, j, 5..6) /\ Alike(i, j, 2..4)
    BY <1>6, UnsignedCarried DEF Carries, Alike
  <2> QED
    BY <2>1 DEF Alike
<1>7. ASSUME operand_cimmlqsp(i) = operand_cimmlqsp(j)
      PROVE  Alike(i, j, (2..6) \cup (12..12))
  <2>1. /\ Alike(i, j, 12..12) /\ Alike(i, j, 6..6) /\ Alike(i, j, 2..5)
    BY <1>7, UnsignedCarried DEF Carries, Alike
  <2> QED
    BY <2>1 DEF Alike
<1>8. ASSUME operand_cimmswsp(i) = operand_cimmswsp(j)
      PROVE  Alike(i, j, 7..12)
  <2>1. /\ Alike(i, j, 9..12) /\ Alike(i, j, 7..8)
    BY <1>8, UnsignedCarried DEF Carries, Alike
  <2> QED
    BY <2>1 DEF Alike
<1>9. ASSUME operand_cimmsdsp(i) = operand_cimmsdsp(j)
      PROVE  Alike(i, j, 7..12)
  <2>1. /\ Alike(i, j, 10..12) /\ Alike(i, j, 7..9)
    BY <1>9, UnsignedCarried DEF Carries, Alike
  <2> QED
    BY <2>1 DEF Alike
<1>10. ASSUME operand_cimmsqsp(i) = operand_cimmsqsp(j)
       PROVE  Alike(i, j, 7..12)
  <2>1. /\ Alike(i, j, 11..12) /\ Alike(i, j, 7..10)
    BY <1>10, UnsignedCarried DEF Carries, Alike
  <2> QED
    BY <2>1 DEF Alike
<1>11. ASSUME operand_cimmsh6(i) = operand_cimmsh6(j)
       PROVE  Alike(i, j, (2..6) \cup (12..12))
  <2>1. /\ Alike(i, j, 12..12) /\ Alike(i, j, 2..6)
    BY <1>11, UnsignedCarried DEF Carries, Alike
  <2> QED
    BY <2>1 DEF Alike
<1>12. ASSUME operand_imm12(i) = operand_imm12(j)
       PROVE  Alike(i, j, 20..31)
  BY <1>12, SignedCarried DEF Carries, Alike
<1>13. ASSUME operand_imm20(i) = operand_imm20(j)
       PROVE  Alike(i, j, 12..31)
  BY <1>13, SignedCarried DEF Carries, Alike
<1>14. ASSUME operand_jimm20(i) = operand_jimm20(j)
       PROVE  Alike(i, j, 12..31)
  <2>1. /\ Alike(i, j, 31..31) /\ Alike(i, j, 21..30) /\ Alike(i, j, 20..20)
        /\ Alike(i, j, 12..19)
    BY <1>14, SignedCarried DEF Carries, Alike
  <2> QED
    BY <2>1 DEF Alike
<1>15. ASSUME operand_simm12(i) = operand_simm12(j)
       PROVE  Alike(i, j, (7..11) \cup (25..31))
  <2>1. /\ Alike(i, j, 25..31) /\ Alike(i, j, 7..11)
    BY <1>15, SignedCarried DEF Carries, Alike
  <2> QED
    BY <2>1 DEF Alike
<1>16. ASSUME operand_sbimm12(i) = operand_sbimm12(j)
       PROVE  Alike(i, j, (7..11) \cup (25..31))
  <2>1. /\ Alike(i, j, 31..31) /\ Alike(i, j, 25..30) /\ Alike(i, j, 8..11) /\ Alike(i, j, 7..7)
    BY <1>16, SignedCarried DEF Carries, Alike
  <2> QED
    BY <2>1 DEF Alike
<1>17. ASSUME operand_cimmi(i) = operand_cimmi(j)
       PROVE  Alike(i, j, (2..6) \cup (12..12))
  <2>1. /\ Alike(i, j, 12..12) /\ Alike(i, j, 2..6)
    BY <1>17, SignedCarried DEF Carries, Alike
  <2> QED
    BY <2>1 DEF Alike
<1>18. ASSUME operand_cimmui(i) = operand_cimmui(j)
       PROVE  Alike(i, j, (2..6) \cup (12..12))
  <2>1. /\ Alike(i, j, 12..12) /\ Alike(i, j, 2..6)
    BY <1>18, SignedCarried DEF Carries, Alike
  <2> QED
    BY <2>1 DEF Alike
<1>19. ASSUME operand_cimm16sp(i) = operand_cimm16sp(j)
       PROVE  Alike(i, j, (2..6) \cup (12..12))
  <2>1. /\ Alike(i, j, 12..12) /\ Alike(i, j, 6..6) /\ Alike(i, j, 5..5) /\ Alike(i, j, 3..4)
        /\ Alike(i, j, 2..2)
    BY <1>19, SignedCarried DEF Carries, Alike
  <2> QED
    BY <2>1 DEF Alike
<1>20. ASSUME operand_cimmj(i) = operand_cimmj(j)
       PROVE  Alike(i, j, 2..12)
  <2>1. /\ Alike(i, j, 12..12) /\ Alike(i, j, 11..11) /\ Alike(i, j, 9..10) /\ Alike(i, j, 8..8)
        /\ Alike(i, j, 7..7) /\ Alike(i, j, 6..6) /\ Alike(i, j, 3..5) /\ Alike(i, j, 2..2)
    BY <1>20, SignedCarried DEF Carries, Alike
  <2> QED
    BY <2>1 DEF Alike
<1>21. ASSUME operand_cimmb(i) = operand_cimmb(j)
       PROVE  Alike(i, j, (2..6) \cup (10..12))
  <2>1. /\ Alike(i, j, 12..12) /\ Alike(i, j, 10..11) /\ Alike(i, j, 5..6) /\ Alike(i, j, 3..4)
        /\ Alike(i, j, 2..2)
    BY <1>21, SignedCarried DEF Carries, Alike
  <2> QED
    BY <2>1 DEF Alike
<1> QED
  BY <1>1, <1>2, <1>3, <1>4, <1>5, <1>6, <1>7, <1>8, <1>9, <1>10, <1>11, <1>12, <1>13, <1>14, <1>15, <1>16, <1>17, <1>18, <1>19, <1>20, <1>21
=============================================================================
