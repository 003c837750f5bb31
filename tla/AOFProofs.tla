-------------------------------- MODULE AOFProofs --------------------------------
(***************************************************************************)
(* Theorems about AOF, for records, channel and buffers of any size and    *)
(* any number of writes, lives and crashes: its types, and that what the   *)
(* journal says is a durable log.                                          *)
(***************************************************************************)
EXTENDS AOF, SequenceTheorems, WellFoundedInduction, TLAPS

-------------------------------------------------------------------------------
(* Numbers *)

LEMMA NatInduct == ASSUME NEW S, 0 \in S, \A n \in Nat : n \in S => n + 1 \in S
                   PROVE  Nat \subseteq S
<1>1. SUFFICES ASSUME Nat \ S # {} PROVE FALSE
  OBVIOUS
<1>2. PICK x \in Nat \ S : \A y \in Nat \ S : ~ (<<y, x>> \in OpToRel(<, Nat))
  BY <1>1, NatLessThanWellFounded, WFMin
<1>3. x \in Nat /\ x - 1 \in Nat \ S
  OBVIOUS
<1>4. <<x - 1, x>> \in OpToRel(<, Nat)
  BY <1>3 DEF OpToRel
<1> QED BY <1>2, <1>3, <1>4

\* A set of numbers up to n has a greatest and a least one.
LEMMA Greatest == ASSUME NEW n \in Nat, NEW S \in SUBSET (0..n), S # {}
                  PROVE  Max(S) \in S /\ \A j \in S : j <= Max(S)
<1> DEFINE I == {m \in Nat : \A T \in SUBSET (0..m) : T # {} => \E i \in T : \A j \in T : j <= i}
<1>1. 0 \in I
  <2> SUFFICES ASSUME NEW T \in SUBSET (0..0), T # {}
               PROVE  \E i \in T : \A j \in T : j <= i
    OBVIOUS
  <2>1. PICK i \in T : TRUE OBVIOUS
  <2>2. i = 0 /\ \A j \in T : j = 0 OBVIOUS
  <2> QED BY <2>2
<1>2. \A m \in Nat : m \in I => m + 1 \in I
  <2> SUFFICES ASSUME NEW m \in Nat, m \in I, NEW T \in SUBSET (0..m+1), T # {}
               PROVE  \E i \in T : \A j \in T : j <= i
    OBVIOUS
  <2>1. CASE m + 1 \in T BY <2>1
  <2>2. CASE m + 1 \notin T BY <2>2
  <2> QED BY <2>1, <2>2
<1>3. Nat \subseteq I BY <1>1, <1>2, NatInduct
<1>4. \E i \in S : \A j \in S : j <= i BY <1>3
<1>5. \E i \in S : \A j \in S : i >= j BY <1>4
<1> QED BY <1>5 DEF Max

LEMMA Least == ASSUME NEW S \in SUBSET Nat, S # {}
               PROVE  Min(S) \in S /\ \A j \in S : Min(S) <= j
<1>0. S \subseteq Nat
  OBVIOUS
<1>1. PICK x \in S : \A y \in S : ~ (<<y, x>> \in OpToRel(<, Nat))
  BY <1>0, NatLessThanWellFounded, WFMin
<1>2. ASSUME NEW y \in S PROVE x <= y
  <2>1. x \in Nat /\ y \in Nat /\ ~ (<<y, x>> \in OpToRel(<, Nat))
    BY <1>1
  <2> QED BY <2>1 DEF OpToRel
<1> QED BY <1>2 DEF Min

LEMMA LargerOfTwo == ASSUME NEW a \in Nat, NEW b \in Nat
                     PROVE  Max({a, b}) = IF a >= b THEN a ELSE b
BY DEF Max

LEMMA LesserOfTwo == ASSUME NEW a \in Nat, NEW b \in Nat
                     PROVE  Min({a, b}) = IF a <= b THEN a ELSE b
BY DEF Min

LEMMA Division == ASSUME NEW s \in Nat \ {0}, NEW n \in Nat
                  PROVE  /\ n \div s \in Nat /\ n % s \in 0..s-1
                         /\ n = s * (n \div s) + (n % s)
OBVIOUS

LEMMA DivisionIs == ASSUME NEW s \in Nat \ {0}, NEW q \in Nat, NEW t \in 0..s-1
                    PROVE  (s * q + t) \div s = q /\ (s * q + t) % s = t
<1> DEFINE n == s * q + t
<1> DEFINE d == n \div s
<1>1. n \in Nat OBVIOUS
<1>2. d \in Nat /\ n % s \in 0..s-1 /\ n = s * d + (n % s)
  BY <1>1, Division
<1>3. s * d + (n % s) = s * q + t
  BY <1>2
<1> HIDE DEF d
<1>4. ASSUME d >= q + 1 PROVE FALSE
  <2>1. s * d >= s * (q + 1) BY <1>2, <1>4
  <2>2. s * (q + 1) = s * q + s OBVIOUS
  <2> QED BY <1>2, <1>3, <2>1, <2>2
<1>5. ASSUME q >= d + 1 PROVE FALSE
  <2>1. s * q >= s * (d + 1) BY <1>2, <1>5
  <2>2. s * (d + 1) = s * d + s BY <1>2
  <2> QED BY <1>2, <1>3, <2>1, <2>2
<1>6. d = q BY <1>2, <1>4, <1>5
<1> QED BY <1>2, <1>3, <1>6 DEF d

\* The first n elements of a sequence.
LEMMA FirstPart == ASSUME NEW S, NEW s \in Seq(S), NEW n \in 0..Len(s)
                   PROVE  /\ SubSeq(s, 1, n) \in Seq(S) /\ Len(SubSeq(s, 1, n)) = n
                          /\ \A i \in 1..n : SubSeq(s, 1, n)[i] = s[i]
<1>1. n \in Int /\ \A i \in 1..n : s[i] \in S
  OBVIOUS
<1>2. /\ SubSeq(s, 1, n) \in Seq(S)
      /\ Len(SubSeq(s, 1, n)) = IF 1 <= n THEN n - 1 + 1 ELSE 0
      /\ \A i \in 1 .. n - 1 + 1 : SubSeq(s, 1, n)[i] = s[1 + i - 1]
  BY <1>1, SubSeqProperties
<1>3. n - 1 + 1 = n /\ \A i \in 1..n : 1 + i - 1 = i
  OBVIOUS
<1> QED BY <1>2, <1>3

LEMMA SeqSplit == ASSUME NEW S, NEW s \in Seq(S), NEW n \in 0..Len(s)
                  PROVE  SubSeq(s, 1, n) \o SubSeq(s, n + 1, Len(s)) = s
<1> DEFINE a == SubSeq(s, 1, n)
           b == SubSeq(s, n + 1, Len(s))
<1>1. a \in Seq(S) /\ Len(a) = n /\ \A i \in 1..n : a[i] = s[i]
  BY FirstPart
<1>2. b \in Seq(S) /\ Len(b) = Len(s) - n /\ \A i \in 1..(Len(s) - n) : b[i] = s[n + i]
  <2>1. n + 1 \in Int /\ Len(s) \in Int /\ \A i \in n+1 .. Len(s) : s[i] \in S
    OBVIOUS
  <2>2. /\ b \in Seq(S) /\ Len(b) = IF n + 1 <= Len(s) THEN Len(s) - (n + 1) + 1 ELSE 0
        /\ \A i \in 1 .. Len(s) - (n + 1) + 1 : b[i] = s[n + 1 + i - 1]
    BY <2>1, SubSeqProperties
  <2>3. Len(s) - (n + 1) + 1 = Len(s) - n /\ \A i \in 1..(Len(s) - n) : n + 1 + i - 1 = n + i
    OBVIOUS
  <2>4. (n + 1 <= Len(s)) \/ Len(s) - n = 0
    OBVIOUS
  <2> HIDE DEF b
  <2> QED BY <2>2, <2>3, <2>4
<1> HIDE DEF a, b
<1>3. a \o b \in Seq(S) /\ Len(a \o b) = Len(s)
      /\ \A i \in 1..Len(s) : (a \o b)[i] = IF i <= n THEN a[i] ELSE b[i - n]
  BY <1>1, <1>2, ConcatProperties
<1>4. ASSUME NEW i \in 1..Len(s) PROVE (a \o b)[i] = s[i]
  <2>1. CASE i <= n
    BY <1>1, <1>3, <2>1
  <2>2. CASE ~ (i <= n)
    <3>1. i - n \in 1..(Len(s) - n) /\ n + (i - n) = i
      BY <2>2
    <3>2. (a \o b)[i] = b[i - n] /\ b[i - n] = s[n + (i - n)]
      BY <1>2, <1>3, <2>2, <3>1
    <3> QED BY <3>1, <3>2
  <2> QED BY <2>1, <2>2
<1>5. a \o b = s
  BY <1>3, <1>4, SeqEqual
<1> QED BY <1>5 DEF a, b

LEMMA Constants ==
  /\ Size \in Nat \ {0} /\ ChanCap \in Nat \ {0} /\ BufSize \in Nat \ {0} /\ ReadSize \in Nat \ {0}
  /\ NewlineAlone \in BOOLEAN /\ (NewlineAlone => Size > 1)
  /\ MaxWrites \in Nat /\ MaxRewrites \in Nat /\ MaxStarts \in Nat /\ MaxCrashes \in Nat
BY AOFAssumptions

LEMMA JoinValues == \A a, b, c \in Seq(Values) : (a \o b) \o c = a \o (b \o c)
BY ConcatAssociative

LEMMA JoinPieces == \A a, b, c \in Seq(Piece) : (a \o b) \o c = a \o (b \o c)
BY ConcatAssociative

-------------------------------------------------------------------------------
(* Records and their pieces *)

\* where piece t of record j is
Place(j, t) == Size * (j - 1) + t

LEMMA PlaceOf == ASSUME NEW n \in Nat, NEW i \in 1..(Size * n)
                 PROVE  \E j \in 1..n, t \in 1..Size : i = Place(j, t)
<1> DEFINE q == (i - 1) \div Size
           t == (i - 1) % Size
<1>1. i - 1 \in Nat /\ Size \in Nat \ {0}
  BY Constants
<1>2. q \in Nat /\ t \in 0..Size-1 /\ i - 1 = Size * q + t
  BY <1>1, Division
<1> HIDE DEF q, t
<1>3. q < n
  <2>1. SUFFICES ASSUME q >= n PROVE FALSE
    BY <1>2
  <2>2. Size * q >= Size * n
    BY <1>1, <1>2, <2>1
  <2>3. Size * n \in Nat
    BY <1>1
  <2> QED BY <1>1, <1>2, <2>2, <2>3
<1>4. q + 1 \in 1..n /\ t + 1 \in 1..Size /\ i = Place(q + 1, t + 1)
  BY <1>1, <1>2, <1>3 DEF Place
<1> QED BY <1>4

LEMMA InPlace == ASSUME NEW n \in Nat, NEW j \in 1..n, NEW t \in 1..Size
                 PROVE  /\ Place(j, t) \in 1..(Size * n)
                        /\ (Place(j, t) - 1) \div Size = j - 1
                        /\ (Place(j, t) - 1) % Size = t - 1
<1>1. Size \in Nat \ {0} /\ j - 1 \in Nat /\ t - 1 \in 0..Size-1
  BY Constants
<1>2. Size * (j - 1) \in Nat /\ Size * (j - 1) + Size = Size * j /\ Size * j <= Size * n
      /\ Size * n \in Nat
  BY <1>1
<1>3. Place(j, t) - 1 = Size * (j - 1) + (t - 1)
  BY <1>2 DEF Place
<1>4. Place(j, t) \in 1..(Size * n)
  BY <1>1, <1>2 DEF Place
<1>5. (Size * (j - 1) + (t - 1)) \div Size = j - 1 /\ (Size * (j - 1) + (t - 1)) % Size = t - 1
  BY <1>1, DivisionIs
<1> QED BY <1>3, <1>4, <1>5

LEMMA PiecesTyped == ASSUME NEW v \in Values
                     PROVE  /\ Pieces(v) \in Seq(Piece) /\ Len(Pieces(v)) = Size
                            /\ \A i \in 1..Size : Pieces(v)[i] = [val |-> v, n |-> i]
BY Constants DEF Pieces, Piece

LEMMA RecordedTyped ==
  ASSUME NEW r \in Seq(Values)
  PROVE  /\ Recorded(r) \in Seq(Piece) /\ Len(Recorded(r)) = Size * Len(r)
         /\ \A j \in 1..Len(r), t \in 1..Size : Recorded(r)[Place(j, t)] = [val |-> r[j], n |-> t]
<1> DEFINE N == Size * Len(r)
           f(i) == [val |-> r[(i - 1) \div Size + 1], n |-> ((i - 1) % Size) + 1]
<1>1. N \in Nat
  BY Constants
<1>2. ASSUME NEW j \in 1..Len(r), NEW t \in 1..Size
      PROVE  f(Place(j, t)) = [val |-> r[j], n |-> t]
  <2>1. (Place(j, t) - 1) \div Size = j - 1 /\ (Place(j, t) - 1) % Size = t - 1
    BY InPlace
  <2>2. j - 1 + 1 = j /\ t - 1 + 1 = t
    BY Constants
  <2> QED BY <2>1, <2>2
<1>3. ASSUME NEW i \in 1..N PROVE f(i) \in Piece
  <2>1. PICK j \in 1..Len(r), t \in 1..Size : i = Place(j, t)
    BY PlaceOf
  <2>2. r[j] \in Values
    OBVIOUS
  <2> QED BY <1>2, <2>1, <2>2 DEF Piece
<1>4. Recorded(r) = [i \in 1..N |-> f(i)]
  BY DEF Recorded
<1> HIDE DEF f, N
<1>5. Recorded(r) \in Seq(Piece) /\ Len(Recorded(r)) = N
  BY <1>1, <1>3, <1>4
<1>6. ASSUME NEW j \in 1..Len(r), NEW t \in 1..Size
      PROVE  Recorded(r)[Place(j, t)] = [val |-> r[j], n |-> t]
  <2>1. Place(j, t) \in 1..N
    BY InPlace DEF N
  <2>2. f(Place(j, t)) = [val |-> r[j], n |-> t]
    BY <1>2
  <2> DEFINE i == Place(j, t)
  <2> HIDE DEF i
  <2> QED BY ONLY <1>4, <2>1, <2>2
<1> QED BY <1>5, <1>6 DEF N

\* Two strings of pieces are the same when they have the same pieces in their places.
LEMMA SamePieces ==
  ASSUME NEW n \in Nat, NEW s \in Seq(Piece), NEW u \in Seq(Piece),
         Len(s) = Size * n, Len(u) = Size * n,
         \A j \in 1..n, t \in 1..Size : s[Place(j, t)] = u[Place(j, t)]
  PROVE  s = u
<1>1. ASSUME NEW i \in 1..Len(s) PROVE s[i] = u[i]
  <2>1. i \in 1..(Size * n)
    OBVIOUS
  <2>2. PICK j \in 1..n, t \in 1..Size : i = Place(j, t)
    BY ONLY n \in Nat, <2>1, PlaceOf
  <2> QED BY <2>2
<1> QED BY <1>1, SeqEqual

LEMMA RecordedNone == Recorded(<<>>) = <<>>
<1>1. <<>> \in Seq(Values) /\ Len(<<>>) = 0
  OBVIOUS
<1>2. Recorded(<<>>) \in Seq(Piece) /\ Len(Recorded(<<>>)) = Size * 0
  BY <1>1, RecordedTyped
<1>3. Size * 0 = 0
  BY Constants
<1> QED BY <1>2, <1>3, EmptySeq

LEMMA RecordedOne == ASSUME NEW v \in Values PROVE Recorded(<<v>>) = Pieces(v)
<1> DEFINE one == <<v>>
<1>1. one \in Seq(Values) /\ Len(one) = 1 /\ one[1] = v
  OBVIOUS
<1> HIDE DEF one
<1>2. Recorded(one) \in Seq(Piece) /\ Len(Recorded(one)) = Size * 1
      /\ \A j \in 1..1, t \in 1..Size : Recorded(one)[Place(j, t)] = [val |-> one[j], n |-> t]
  <2>1. /\ Recorded(one) \in Seq(Piece) /\ Len(Recorded(one)) = Size * Len(one)
        /\ \A j \in 1..Len(one), t \in 1..Size : Recorded(one)[Place(j, t)] = [val |-> one[j], n |-> t]
    BY <1>1, RecordedTyped
  <2> QED BY <1>1, <2>1
<1>3. Pieces(v) \in Seq(Piece) /\ Len(Pieces(v)) = Size * 1
  BY PiecesTyped, Constants
<1>4. ASSUME NEW j \in 1..1, NEW t \in 1..Size
      PROVE  Recorded(one)[Place(j, t)] = Pieces(v)[Place(j, t)]
  <2>1. j = 1 /\ Place(j, t) = t
    BY Constants DEF Place
  <2>2. Recorded(one)[Place(j, t)] = [val |-> one[j], n |-> t]
    BY <1>2
  <2> QED BY <1>1, <2>1, <2>2, PiecesTyped
<1>5. Recorded(one) = Pieces(v)
  BY <1>2, <1>3, <1>4, SamePieces
<1> QED BY <1>5 DEF one

LEMMA RecordedConcat == ASSUME NEW r \in Seq(Values), NEW q \in Seq(Values)
                        PROVE  Recorded(r \o q) = Recorded(r) \o Recorded(q)
<1> DEFINE n == Len(r) + Len(q)
           s == Recorded(r \o q)
           u == Recorded(r) \o Recorded(q)
<1>1. r \o q \in Seq(Values) /\ Len(r \o q) = n /\ Len(r) \in Nat /\ Len(q) \in Nat
      /\ \A j \in 1..n : (r \o q)[j] = IF j <= Len(r) THEN r[j] ELSE q[j - Len(r)]
  BY ConcatProperties, LenProperties
<1>2. Size * n = Size * Len(r) + Size * Len(q) /\ Size * Len(r) \in Nat /\ Size * Len(q) \in Nat
  BY <1>1, Constants
<1>3. s \in Seq(Piece) /\ Len(s) = Size * n
      /\ \A j \in 1..n, t \in 1..Size : s[Place(j, t)] = [val |-> (r \o q)[j], n |-> t]
  <2>1. /\ s \in Seq(Piece) /\ Len(s) = Size * Len(r \o q)
        /\ \A j \in 1..Len(r \o q), t \in 1..Size : s[Place(j, t)] = [val |-> (r \o q)[j], n |-> t]
    BY <1>1, RecordedTyped
  <2> QED BY <1>1, <2>1
<1>4. /\ Recorded(r) \in Seq(Piece) /\ Len(Recorded(r)) = Size * Len(r)
      /\ Recorded(q) \in Seq(Piece) /\ Len(Recorded(q)) = Size * Len(q)
  BY RecordedTyped
<1>5. u \in Seq(Piece) /\ Len(u) = Size * n
      /\ \A i \in 1..(Size * n) : u[i] = IF i <= Size * Len(r) THEN Recorded(r)[i]
                                         ELSE Recorded(q)[i - Size * Len(r)]
  <2>1. /\ u \in Seq(Piece) /\ Len(u) = Len(Recorded(r)) + Len(Recorded(q))
        /\ \A i \in 1 .. Len(Recorded(r)) + Len(Recorded(q)) :
             u[i] = IF i <= Len(Recorded(r)) THEN Recorded(r)[i] ELSE Recorded(q)[i - Len(Recorded(r))]
    BY <1>4, ConcatProperties
  <2> QED BY <1>2, <1>4, <2>1
<1>6. ASSUME NEW j \in 1..n, NEW t \in 1..Size PROVE s[Place(j, t)] = u[Place(j, t)]
  <2>1. Place(j, t) \in 1..(Size * n) /\ s[Place(j, t)] = [val |-> (r \o q)[j], n |-> t]
    <3>1. n \in Nat BY <1>1
    <3> HIDE DEF n
    <3> QED BY <1>3, <3>1, InPlace
  <2>2. CASE j <= Len(r)
    <3>1. j \in 1..Len(r)
      BY <1>1, <2>2
    <3>2. Place(j, t) \in 1..(Size * Len(r)) /\ Recorded(r)[Place(j, t)] = [val |-> r[j], n |-> t]
      BY <1>1, <3>1, InPlace, RecordedTyped
    <3>3. u[Place(j, t)] = Recorded(r)[Place(j, t)]
      <4>1. Place(j, t) <= Size * Len(r)
        BY <1>2, <3>2
      <4> HIDE DEF n, u
      <4> QED BY ONLY <1>5, <2>1, <4>1
    <3>4. (r \o q)[j] = r[j]
      BY <1>1, <2>2
    <3> QED BY <2>1, <3>2, <3>3, <3>4
  <2>3. CASE j > Len(r)
    <3> DEFINE i == j - Len(r)
    <3>1. i \in 1..Len(q) /\ Len(r) \in Nat
      BY <1>1, <2>3
    <3>2. Recorded(q)[Place(i, t)] = [val |-> q[i], n |-> t] /\ Place(i, t) \in 1..(Size * Len(q))
      BY <1>1, <3>1, InPlace, RecordedTyped
    <3>3. Place(j, t) - Size * Len(r) = Place(i, t)
      <4>1. Size * (j - 1) = Size * (i - 1) + Size * Len(r)
        BY <1>1, <3>1, Constants
      <4>2. Size * (i - 1) \in Int /\ Size * (j - 1) \in Int
        BY <1>1, <3>1, Constants
      <4> HIDE DEF i
      <4> QED BY <1>2, <4>1, <4>2 DEF Place
    <3>4. ~ (Place(j, t) <= Size * Len(r))
      <4> HIDE DEF i
      <4> QED BY <1>2, <2>1, <3>2, <3>3
    <3>5. u[Place(j, t)] = Recorded(q)[Place(i, t)]
      BY <1>5, <2>1, <3>3, <3>4
    <3>6. (r \o q)[j] = q[i]
      BY <1>1, <2>3
    <3> QED BY <2>1, <3>2, <3>5, <3>6
  <2>4. j \in Int /\ Len(r) \in Int
    BY <1>1
  <2>5. j <= Len(r) \/ j > Len(r)
    BY <2>4
  <2> QED BY <2>2, <2>3, <2>5
<1>7. n \in Nat
  BY <1>1
<1> HIDE DEF n, s, u
<1>8. s = u
  BY <1>3, <1>5, <1>6, <1>7, SamePieces
<1> QED BY <1>8 DEF s, u

-------------------------------------------------------------------------------
(* What a string of pieces says *)

\* Of a string of records that is cut after m of them and t pieces more, Lines has the m.
LEMMA CountOf ==
  ASSUME NEW r \in Seq(Values), NEW m \in Nat, NEW t \in 0..Size-1,
         Size * m + t <= Size * Len(r)
  PROVE  LET s == SubSeq(Recorded(r), 1, Size * m + t) IN
         Count(s) = m /\ m <= Len(r) /\ Lines(s) = SubSeq(r, 1, m)
<1> DEFINE n == Size * m + t
           s == SubSeq(Recorded(r), 1, n)
<1>1. Size \in Nat \ {0} /\ Len(r) \in Nat /\ Size * m \in Nat /\ Size * Len(r) \in Nat
  BY Constants
<1>2. m <= Len(r)
  <2>1. SUFFICES ASSUME m >= Len(r) + 1 PROVE FALSE
    BY <1>1
  <2>2. Size * m >= Size * (Len(r) + 1)
    BY <1>1, <2>1
  <2>3. Size * (Len(r) + 1) = Size * Len(r) + Size
    BY <1>1
  <2> QED BY <1>1, <2>2, <2>3
<1>3. /\ Recorded(r) \in Seq(Piece) /\ Len(Recorded(r)) = Size * Len(r)
      /\ \A j \in 1..Len(r), u \in 1..Size : Recorded(r)[Place(j, u)] = [val |-> r[j], n |-> u]
  BY RecordedTyped
<1>4. s \in Seq(Piece) /\ Len(s) = n /\ \A i \in 1..n : s[i] = Recorded(r)[i]
  <2>1. n \in 0..Len(Recorded(r))
    BY <1>1, <1>3
  <2> HIDE DEF n
  <2> QED BY <1>3, <2>1, FirstPart
<1>5. n \div Size = m /\ n \in Nat
  <2>1. (Size * m + t) \div Size = m
    BY <1>1, DivisionIs
  <2>2. n \in Nat
    BY <1>1
  <2> QED BY <2>1, <2>2
<1>6. ASSUME NEW j \in 1..m, NEW u \in 1..Size
      PROVE  Place(j, u) \in 1..n /\ s[Place(j, u)] = [val |-> r[j], n |-> u]
  <2>1. Place(j, u) \in 1..(Size * m)
    BY InPlace
  <2>2. Place(j, u) \in 1..n
    BY <1>1, <2>1
  <2>3. j \in 1..Len(r)
    BY <1>1, <1>2
  <2> QED BY <1>3, <1>4, <2>2, <2>3
<1> HIDE DEF s, n
<1>7. ASSUME NEW j \in 1..m
      PROVE  SubSeq(s, (j - 1) * Size + 1, j * Size) = Pieces(r[j]) /\ r[j] \in Values
             /\ j * Size = Place(j, Size)
  <2> DEFINE b == (j - 1) * Size
             x == SubSeq(s, b + 1, j * Size)
  <2>1. r[j] \in Values
    BY <1>1, <1>2
  <2>2. b \in Nat /\ j * Size = b + Size /\ b = Size * (j - 1)
    BY <1>1
  <2>3. ASSUME NEW i \in 1..Size PROVE b + i \in 1..n /\ s[b + i] = [val |-> r[j], n |-> i]
    <3>1. Place(j, i) = b + i
      BY <2>2 DEF Place
    <3> QED BY <1>6, <3>1
  <2> HIDE DEF b
  <2>4. x \in Seq(Piece) /\ Len(x) = Size /\ \A i \in 1..Size : x[i] = s[b + i]
    <3>1. \A i \in b+1 .. b+Size : s[i] \in Piece
      <4> SUFFICES ASSUME NEW i \in b+1 .. b+Size PROVE s[i] \in Piece
        OBVIOUS
      <4>1. i - b \in 1..Size /\ b + (i - b) = i
        BY <1>1, <2>2
      <4>2. i \in 1..Len(s)
        BY <1>4, <2>3, <4>1
      <4> QED BY <1>4, <4>2, ElementOfSeq
    <3>2. /\ SubSeq(s, b + 1, b + Size) \in Seq(Piece)
          /\ Len(SubSeq(s, b + 1, b + Size)) = IF b + 1 <= b + Size THEN b + Size - (b + 1) + 1 ELSE 0
          /\ \A i \in 1 .. b + Size - (b + 1) + 1 : SubSeq(s, b + 1, b + Size)[i] = s[b + 1 + i - 1]
      BY <1>1, <2>2, <3>1, SubSeqProperties
    <3>3. b + Size - (b + 1) + 1 = Size /\ b + 1 <= b + Size /\ \A i \in 1..Size : b + 1 + i - 1 = b + i
      BY <1>1, <2>2
    <3> QED BY <2>2, <3>2, <3>3
  <2> HIDE DEF x
  <2>5. x = Pieces(r[j])
    <3>1. Pieces(r[j]) \in Seq(Piece) /\ Len(Pieces(r[j])) = Size
          /\ \A i \in 1..Size : Pieces(r[j])[i] = [val |-> r[j], n |-> i]
      BY <2>1, PiecesTyped
    <3> QED BY <2>3, <2>4, <3>1, SeqEqual
  <2> QED BY <1>1, <2>1, <2>2, <2>5 DEF x, Place
<1> DEFINE C == {k \in 0..(Len(s) \div Size) : \A j \in 1..k :
                   \E v \in Values : SubSeq(s, (j - 1) * Size + 1, j * Size) = Pieces(v)}
<1>8. C = 0..m
  <2>1. ASSUME NEW k \in C PROVE k \in 0..m
    BY <1>4, <1>5
  <2>2. ASSUME NEW k \in 0..m PROVE k \in C
    <3>1. k \in 0..(Len(s) \div Size)
      BY <1>1, <1>4, <1>5
    <3>2. ASSUME NEW j \in 1..k
          PROVE  \E v \in Values : SubSeq(s, (j - 1) * Size + 1, j * Size) = Pieces(v)
      <4>1. j \in 1..m
        BY <1>1
      <4> QED BY <1>7, <4>1
    <3> QED BY <3>1, <3>2
  <2> HIDE DEF C
  <2> QED BY <2>1, <2>2
<1>9. Count(s) = m
  <2>1. Count(s) = Max(C)
    BY DEF Count
  <2> HIDE DEF C
  <2>2. C \in SUBSET (0..m) /\ m \in C
    BY <1>8
  <2>3. Max(C) \in C /\ \A j \in C : j <= Max(C)
    BY <2>2, Greatest
  <2>4. Max(C) \in 0..m /\ m <= Max(C)
    BY <2>2, <2>3
  <2>5. Max(C) = m
    BY <2>4
  <2> QED BY <2>1, <2>5
<1>10. Lines(s) = SubSeq(r, 1, m)
  <2>1. SubSeq(r, 1, m) \in Seq(Values) /\ Len(SubSeq(r, 1, m)) = m
        /\ \A j \in 1..m : SubSeq(r, 1, m)[j] = r[j]
    <3>1. m \in 0..Len(r)
      BY <1>1, <1>2
    <3> QED BY <3>1, FirstPart
  <2>2. ASSUME NEW j \in 1..m PROVE s[j * Size].val = r[j]
    <3>1. Size \in 1..Size /\ j * Size = Place(j, Size)
      BY <1>1, <1>7
    <3>2. s[Place(j, Size)] = [val |-> r[j], n |-> Size]
      BY <1>6, <3>1
    <3> QED BY <3>1, <3>2
  <2>3. Lines(s) \in Seq(Values) /\ Len(Lines(s)) = m /\ \A j \in 1..m : Lines(s)[j] = r[j]
    BY <1>7, <1>9, <2>2 DEF Lines
  <2> QED BY <2>1, <2>3, SeqEqual
<1> QED BY <1>2, <1>9, <1>10 DEF s, n

LEMMA NewestTyped == ASSUME NEW s PROVE NewestIn(s) \in {0} \cup Values
<1> DEFINE N == {0} \cup {v \in Values :
                   \E i \in 0..(Len(s) - Size) : SubSeq(s, i + 1, i + Size) = Pieces(v)}
<1>1. N \in SUBSET (0..MaxWrites) /\ N # {}
  BY Constants DEF Values
<1>2. NewestIn(s) = Max(N)
  BY DEF NewestIn
<1> HIDE DEF N
<1>3. NewestIn(s) \in 0..MaxWrites
  BY <1>1, <1>2, Constants, Greatest
<1> QED BY <1>3, Constants DEF Values

-------------------------------------------------------------------------------
(* The types *)

\* A part of a sequence is one of the same kind.
LEMMA PartTyped == ASSUME NEW S, NEW s \in Seq(S), NEW m \in Nat \ {0}, NEW n \in Nat, n <= Len(s)
                   PROVE  /\ SubSeq(s, m, n) \in Seq(S)
                          /\ Len(SubSeq(s, m, n)) = IF m <= n THEN n - m + 1 ELSE 0
<1>1. m \in Int /\ n \in Int /\ \A i \in m..n : s[i] \in S
  <2> SUFFICES ASSUME NEW i \in m..n PROVE s[i] \in S
    OBVIOUS
  <2>1. i \in 1..Len(s)
    OBVIOUS
  <2> QED BY <2>1, ElementOfSeq
<1> QED BY <1>1, SubSeqProperties

\* What wr.Write gives the file is the first part of what is in the buffer and the record,
\* and what stays fits the buffer.
LEMMA SpiltIsFirstPart ==
  ASSUME buf \in Seq(Piece), Len(buf) <= BufSize, NEW p \in Seq(Piece), Len(p) = Size
  PROVE  LET n == Len(Spilt(p)) IN
         /\ n \in 0..(Len(buf) + Size) /\ Len(buf) + Size - n <= BufSize
         /\ Spilt(p) = SubSeq(buf \o p, 1, n)
         /\ Len(buf) + Size <= BufSize => Spilt(p) = <<>>
<1> DEFINE z == buf \o p
           fill == BufSize - Len(buf)
           rest == Size - fill
<1>1. /\ Len(buf) \in Nat /\ Size \in Nat \ {0} /\ BufSize \in Nat \ {0}
      /\ z \in Seq(Piece) /\ Len(z) = Len(buf) + Size
      /\ SubSeq(z, 1, 0) = <<>> /\ SubSeq(z, 1, Len(z)) = z
  <2>1. z \in Seq(Piece) /\ Len(z) = Len(buf) + Len(p)
    BY ConcatProperties
  <2> HIDE DEF z
  <2>2. SubSeq(z, 1, Len(z)) = z
    BY <2>1, SubSeqFull
  <2>3. SubSeq(z, 1, 0) = <<>>
    BY SubSeqEmpty
  <2> QED BY <2>1, <2>2, <2>3, Constants
<1>2. CASE Len(buf) + Len(p) <= BufSize
  <2>1. Spilt(p) = <<>> /\ Len(Spilt(p)) = 0
    BY <1>2 DEF Spilt
  <2> QED BY <1>1, <1>2, <2>1
<1>3. CASE ~ (Len(buf) + Len(p) <= BufSize) /\ buf = <<>>
  <2>1. Spilt(p) = p /\ z = p /\ Len(buf) = 0
    BY <1>3, ConcatEmptySeq DEF Spilt
  <2> QED BY <1>1, <1>3, <2>1
<1>4. CASE ~ (Len(buf) + Len(p) <= BufSize) /\ buf # <<>> /\ rest > BufSize
  <2>1. Spilt(p) = buf \o SubSeq(p, 1, Len(p))
    BY <1>4 DEF Spilt
  <2>2. Spilt(p) = z
    BY <2>1, SubSeqFull
  <2> QED BY <1>1, <1>4, <2>2
<1>5. CASE ~ (Len(buf) + Len(p) <= BufSize) /\ buf # <<>> /\ ~ (rest > BufSize)
  <2>1. Spilt(p) = buf \o SubSeq(p, 1, fill)
    BY <1>5 DEF Spilt
  <2>2. fill \in 0..Size /\ Len(buf) + fill = BufSize
    BY <1>1, <1>5
  <2>3. SubSeq(z, 1, Len(buf) + fill) = buf \o SubSeq(p, 1, fill)
    <3> DEFINE x == SubSeq(p, 1, fill)
               y == SubSeq(z, 1, Len(buf) + fill)
    <3>1. x \in Seq(Piece) /\ Len(x) = fill /\ \A i \in 1..fill : x[i] = p[i]
      BY <2>2, FirstPart
    <3>2. Len(buf) + fill \in 0..Len(z)
      BY <1>1, <2>2
    <3> HIDE DEF fill
    <3>3. y \in Seq(Piece) /\ Len(y) = Len(buf) + fill /\ \A i \in 1..(Len(buf) + fill) : y[i] = z[i]
      BY <1>1, <3>2, FirstPart
    <3> HIDE DEF x, y, z
    <3>4. buf \o x \in Seq(Piece) /\ Len(buf \o x) = Len(buf) + fill
          /\ \A i \in 1..(Len(buf) + fill) : (buf \o x)[i] = IF i <= Len(buf) THEN buf[i] ELSE x[i - Len(buf)]
      BY <3>1, ConcatProperties
    <3>5. \A i \in 1..(Len(buf) + Size) : z[i] = IF i <= Len(buf) THEN buf[i] ELSE p[i - Len(buf)]
      BY ConcatProperties DEF z
    <3>6. ASSUME NEW i \in 1..(Len(buf) + fill) PROVE (buf \o x)[i] = y[i]
      BY <1>1, <2>2, <3>1, <3>3, <3>4, <3>5
    <3>7. y = buf \o x
      BY <3>3, <3>4, <3>6, SeqEqual
    <3> QED BY <3>7 DEF x, y
  <2>4. Spilt(p) = SubSeq(z, 1, BufSize) /\ BufSize \in 0..Len(z) /\ Len(z) - BufSize <= BufSize
    BY <1>1, <1>5, <2>1, <2>2, <2>3
  <2>5. Len(Spilt(p)) = BufSize
    BY <1>1, <2>4, FirstPart
  <2> QED BY <1>1, <1>5, <2>4, <2>5
<1> HIDE DEF rest
<1> QED BY <1>2, <1>3, <1>4, <1>5

\* A line is a first part of what the Scanner has read.
LEMMA LineIsFirstPart ==
  ASSUME rbuf \in Seq(Piece), HasLine
  PROVE  LineLen \in 1..Len(rbuf) /\ Line \in Seq(Piece) /\ Len(Line) = LineLen
<1>1. LineLen \in 1..Len(rbuf)
  <2>1. CASE LineEnds # {}
    <3>1. LineEnds \in SUBSET Nat /\ LineEnds \subseteq 1..Len(rbuf)
      BY DEF LineEnds
    <3>2. Min(LineEnds) \in LineEnds
      BY <2>1, <3>1, Least
    <3> QED BY <2>1, <3>1, <3>2 DEF LineLen
  <2>2. CASE LineEnds = {}
    BY <2>2, EmptySeq DEF LineLen, HasLine
  <2> QED BY <2>1, <2>2
<1> QED BY <1>1, FirstPart DEF Line

\* Who holds a.mu, and what runs while the process is at what.
Locks ==
  /\ mu = "writer" <=> wpc = "sync"
  /\ mu = "reader" <=> rpc = "reading"
  /\ rpc = "down" => wpc = "done" /\ dup = 0
  /\ stopped => rpc = "closing"
  /\ rw # "off" => rpc = "up" /\ rewrites # 0

\* What Read has taken for records and what its Scanner holds was in the file before the
\* offset, except for the newline of a last line that has none; then nothing is left to read.
ReadsInFile == rpc = "reading" => \/ valid + Len(rbuf) <= off
                                  \/ eof /\ rbuf = <<>>

TInv == TypeOK /\ Locks /\ ReadsInFile

LEMMA InitTyped == Init => TInv
<1> SUFFICES ASSUME Init PROVE TInv
  OBVIOUS
<1>1. TypeOK
  <2>1. <<>> \in Seq(Piece) /\ <<>> \in Seq(Values) /\ Len(<<>>) = 0
    OBVIOUS
  <2>2. {stopped, eof} \subseteq BOOLEAN
    BY Zenon DEF Init
  <2>3. {ram, wrote, mark, owed} \subseteq {0} \cup Values
    BY DEF Init
  <2> QED BY <2>1, <2>2, <2>3, Constants DEF Init, TypeOK
<1> QED BY <1>1 DEF Init, TInv, Locks, ReadsInFile

\* What ProcessEntry does to file and buffer.
LEMMA EntryWritten ==
  ASSUME TInv, ProcessEntry
  PROVE  /\ disk' \in Seq(Piece) /\ buf' \in Seq(Piece) /\ Len(buf') <= BufSize
         /\ disk' \o buf' = disk \o buf \o Pieces(Head(ch))
         /\ Len(disk) <= Len(disk') /\ SubSeq(disk', 1, Len(disk)) = disk
         /\ off' \in off..Len(disk')
         /\ Head(ch) \in Values /\ ch' \in Seq(Values) /\ Len(ch') = Len(ch) - 1
         /\ Len(buf) + Size <= BufSize
              => disk' = disk /\ off' = off /\ buf' = buf \o Pieces(Head(ch))
<1> DEFINE p == Pieces(Head(ch))
           n == Len(Spilt(p))
           z == buf \o p
<1>1. Head(ch) \in Values /\ ch' \in Seq(Values) /\ Len(ch') = Len(ch) - 1
  BY HeadTailProperties DEF TInv, TypeOK, ProcessEntry
<1>2. p \in Seq(Piece) /\ Len(p) = Size /\ Size \in Nat
  BY <1>1, PiecesTyped, Constants
<1>3. disk \in Seq(Piece) /\ buf \in Seq(Piece) /\ Len(buf) <= BufSize /\ off \in 0..Len(disk)
  BY DEF TInv, TypeOK
<1> HIDE DEF p
<1>4. z \in Seq(Piece) /\ Len(z) = Len(buf) + Size /\ Len(buf) \in Nat
  <2>1. z \in Seq(Piece) /\ Len(z) = Len(buf) + Len(p)
    BY <1>2, <1>3, ConcatProperties
  <2> QED BY <1>2, <1>3, <2>1, LenProperties
<1>5. n \in 0..Len(z) /\ Len(z) - n <= BufSize /\ Spilt(p) = SubSeq(z, 1, n)
      /\ (Len(buf) + Size <= BufSize => Spilt(p) = <<>>)
  BY <1>2, <1>3, <1>4, SpiltIsFirstPart
<1>6. disk' = disk \o SubSeq(z, 1, n) /\ buf' = SubSeq(z, n + 1, Len(z))
      /\ off' = IF Spilt(p) = <<>> THEN off ELSE Len(disk')
  BY <1>5 DEF ProcessEntry, WriteFile, p
<1> HIDE DEF n, z
<1>7. SubSeq(z, 1, n) \in Seq(Piece) /\ Len(SubSeq(z, 1, n)) = n
  BY <1>4, <1>5, FirstPart
<1>8. buf' \in Seq(Piece) /\ Len(buf') = Len(z) - n
  <2>1. n + 1 \in Nat \ {0} /\ Len(z) \in Nat
    BY <1>4, <1>5
  <2>2. /\ SubSeq(z, n + 1, Len(z)) \in Seq(Piece)
        /\ Len(SubSeq(z, n + 1, Len(z))) = IF n + 1 <= Len(z) THEN Len(z) - (n + 1) + 1 ELSE 0
    BY <1>4, <2>1, PartTyped
  <2> QED BY <1>4, <1>5, <1>6, <2>2
<1>9. disk' \in Seq(Piece) /\ Len(disk') = Len(disk) + n /\ Len(disk) \in Nat
      /\ \A i \in 1..Len(disk) : disk'[i] = disk[i]
  BY <1>3, <1>5, <1>6, <1>7, ConcatProperties
<1>10. SubSeq(disk', 1, Len(disk)) = disk
  <2> DEFINE x == SubSeq(disk', 1, Len(disk))
  <2>1. x \in Seq(Piece) /\ Len(x) = Len(disk) /\ \A i \in 1..Len(disk) : x[i] = disk'[i]
    BY <1>5, <1>9, FirstPart
  <2> HIDE DEF x
  <2>2. x = disk
    BY <1>3, <1>9, <2>1, SeqEqual
  <2> QED BY <2>2 DEF x
<1>11. disk' \o buf' = disk \o buf \o p
  <2>1. SubSeq(z, 1, n) \o SubSeq(z, n + 1, Len(z)) = z
    BY <1>4, <1>5, SeqSplit
  <2>2. (disk \o SubSeq(z, 1, n)) \o buf' = disk \o (SubSeq(z, 1, n) \o buf')
    <3> DEFINE x == SubSeq(z, 1, n)
    <3>1. disk \in Seq(Piece) /\ x \in Seq(Piece) /\ buf' \in Seq(Piece)
      BY <1>3, <1>7, <1>8
    <3> HIDE DEF x
    <3>2. (disk \o x) \o buf' = disk \o (x \o buf')
      BY ONLY <3>1, ConcatAssociative
    <3> QED BY <3>2 DEF x
  <2>3. disk \o z = (disk \o buf) \o p
    <3>1. (disk \o buf) \o p = disk \o (buf \o p)
      BY <1>2, <1>3, JoinPieces, ZenonT(40)
    <3> QED BY <3>1 DEF z
  <2>4. disk' \o buf' = (disk \o SubSeq(z, 1, n)) \o buf' /\ buf' = SubSeq(z, n + 1, Len(z))
    BY <1>6
  <2> QED BY ONLY <2>1, <2>2, <2>3, <2>4
<1>12. off' \in off..Len(disk')
  BY <1>3, <1>5, <1>6, <1>9
<1>13. Len(buf) + Size <= BufSize => disk' = disk /\ off' = off
  BY <1>3, <1>5, <1>6, ConcatEmptySeq
<1>14. ASSUME Len(buf) + Size <= BufSize PROVE buf' = buf \o p
  <2>1. n = 0 /\ Len(z) \in Nat /\ SubSeq(z, 1, Len(z)) = z
    BY <1>4, <1>5, <1>14, SubSeqFull DEF n
  <2>2. buf' = SubSeq(z, 0 + 1, Len(z))
    BY <1>6, <2>1
  <2> QED BY <2>1, <2>2 DEF z
<1>15. Len(buf) + Size <= BufSize => disk' = disk /\ off' = off /\ buf' = buf \o p
  BY <1>13, <1>14
<1>16. Len(buf') <= BufSize /\ Len(disk) <= Len(disk')
  BY <1>4, <1>5, <1>8, <1>9
<1> QED BY <1>1, <1>8, <1>9, <1>10, <1>11, <1>12, <1>15, <1>16 DEF p

LEMMA BufferWritten ==
  ASSUME TInv, WriteFile(buf)
  PROVE  disk' = disk \o buf /\ disk' \in Seq(Piece) /\ Len(disk) <= Len(disk') /\ off' \in off..Len(disk')
<1>1. disk \in Seq(Piece) /\ buf \in Seq(Piece) /\ off \in 0..Len(disk)
  BY DEF TInv, TypeOK
<1>2. disk' = disk \o buf /\ off' = IF buf = <<>> THEN off ELSE Len(disk')
  BY DEF WriteFile
<1>3. disk' \in Seq(Piece) /\ Len(disk') = Len(disk) + Len(buf) /\ Len(disk) \in Nat /\ Len(buf) \in Nat
  BY <1>1, <1>2, ConcatProperties
<1> QED BY <1>1, <1>2, <1>3

\* Each step of the writer keeps the types.
LEMMA WriterTyped == ASSUME TInv, BackgroundWriter PROVE TInv'
<1> USE DEF TInv, Locks, ReadsInFile
<1>1. TypeOK /\ Locks /\ ReadsInFile
  OBVIOUS
<1>2. rbuf \in Seq(Piece) /\ Len(rbuf) \in Nat /\ valid \in Nat /\ off \in Nat /\ Len(disk) \in Nat
      /\ synced \in 0..Len(disk)
  BY DEF TypeOK
<1>3. ASSUME ProcessEntry, wpc' \in {"select", "drain", "final"}, wpc # "sync", wpc # "done" PROVE TInv'
  <2>1. /\ disk' \in Seq(Piece) /\ buf' \in Seq(Piece) /\ Len(buf') <= BufSize
        /\ Len(disk) <= Len(disk') /\ off' \in off..Len(disk')
        /\ Head(ch) \in Values /\ ch' \in Seq(Values) /\ Len(ch') = Len(ch) - 1
    BY <1>3, EntryWritten
  <2>2. dup' = Head(ch)
        /\ UNCHANGED <<synced, mu, stopped, rpc, reader, ram, wrote, mark, owed, rewriteBuf, tmp, rw, bounds>>
    BY <1>3 DEF ProcessEntry
  <2>3. Len(ch') <= ChanCap
    <3>1. Len(ch) \in Nat /\ Len(ch) <= ChanCap
      BY <1>1 DEF TypeOK
    <3> QED BY <2>1, <3>1, Constants
  <2>4. synced' \in 0..Len(disk') /\ off' \in 0..Len(disk')
    <3>1. Len(disk') \in Nat /\ synced' = synced
      BY <2>1, <2>2
    <3> QED BY <1>2, <2>1, <3>1
  <2>5. TypeOK'
    BY <1>1, <1>3, <2>1, <2>2, <2>3, <2>4 DEF TypeOK, reader, bounds
  <2> QED BY <1>1, <1>2, <1>3, <2>1, <2>2, <2>5 DEF reader, bounds
<1>4. ASSUME NEW next \in {"sync", "finalSync"}, FlushBuf(next), wpc \in {"lock", "final"},
             mu' = IF next = "sync" THEN "writer" ELSE mu, next = "sync" => mu = "free"
      PROVE  TInv'
  <2>1. disk' \in Seq(Piece) /\ Len(disk) <= Len(disk') /\ off' \in off..Len(disk')
    BY <1>4, BufferWritten DEF FlushBuf
  <2>2. buf' = <<>> /\ wpc' = next
        /\ UNCHANGED <<synced, ch, stopped, rpc, reader, ram, wrote, mark, owed, rewrite, bounds>>
    BY <1>4 DEF FlushBuf
  <2>3. TypeOK'
    BY <1>1, <1>2, <1>4, <2>1, <2>2, Constants DEF TypeOK, reader, bounds, rewrite
  <2> QED BY <1>1, <1>2, <1>4, <2>1, <2>2, <2>3 DEF reader, bounds, rewrite
<1>5. ASSUME SyncFile, wpc \in {"sync", "finalSync"}, wpc' \in {"select", "done"},
             mu' = IF wpc = "sync" THEN "free" ELSE mu
      PROVE  TInv'
  <2>1. synced' = Len(disk) /\ owed' = Max({owed, NewestIn(disk)})
        /\ UNCHANGED <<disk, off, ch, buf, stopped, rpc, reader, ram, wrote, mark, rewrite, bounds>>
    BY <1>5 DEF SyncFile
  <2>2. owed' \in {0} \cup Values
    <3>1. owed \in {0} \cup Values /\ NewestIn(disk) \in {0} \cup Values
      BY <1>1, NewestTyped DEF TypeOK
    <3>2. owed \in Nat /\ NewestIn(disk) \in Nat
      BY <3>1, Constants DEF Values
    <3> QED BY <2>1, <3>1, <3>2, LargerOfTwo
  <2>3. TypeOK'
    BY <1>1, <1>2, <1>5, <2>1, <2>2 DEF TypeOK, reader, bounds, rewrite
  <2> QED BY <1>1, <1>2, <1>5, <2>1, <2>3 DEF reader, bounds, rewrite
<1>6. CASE Duplicate
  <2>1. /\ dup' = 0 /\ rewriteBuf' \in Seq(Values)
        /\ UNCHANGED <<file, mu, writer, stopped, rpc, reader, ram, wrote, mark, owed, tmp, rw, bounds>>
    BY <1>1, <1>6 DEF Duplicate, TypeOK
  <2>2. TypeOK'
    BY <1>1, <2>1 DEF TypeOK, file, writer, reader, bounds
  <2> QED BY <1>1, <2>1, <2>2 DEF file, writer, reader, bounds
<1>7. CASE TickerFires \/ Stop
  <2>1. wpc = "select" /\ wpc' \in {"lock", "final"}
        /\ UNCHANGED <<file, mu, ch, buf, stopped, rpc, reader, ram, wrote, mark, owed, rewrite, bounds>>
    BY <1>7 DEF TickerFires, Stop
  <2>2. TypeOK'
    BY <1>1, <2>1 DEF TypeOK, file, reader, bounds, rewrite
  <2> QED BY <1>1, <2>1, <2>2 DEF file, reader, bounds, rewrite
<1>8. CASE Drain
  <2>1. CASE ProcessEntry /\ UNCHANGED wpc
    BY <1>3, <1>8, <2>1 DEF Drain
  <2>2. CASE /\ wpc' = "select"
             /\ UNCHANGED <<file, mu, ch, buf, stopped, rpc, reader, ram, wrote, mark, owed, rewrite, bounds>>
    <3>1. TypeOK'
      BY <1>1, <2>2 DEF TypeOK, file, reader, bounds, rewrite
    <3>2. wpc = "drain"
      BY <1>8 DEF Drain
    <3> QED BY <1>1, <2>2, <3>1, <3>2 DEF file, reader, bounds, rewrite
  <2> QED BY <1>8, <2>1, <2>2 DEF Drain
<1>9. CASE Receive
  BY <1>3, <1>9 DEF Receive
<1>10. CASE FinalDrain
  BY <1>3, <1>10 DEF FinalDrain
<1>11. CASE TickFlush
  BY <1>4, <1>11 DEF TickFlush
<1>12. CASE FinalFlush
  BY <1>4, <1>12 DEF FinalFlush
<1>13. CASE TickSync
  BY <1>5, <1>13 DEF TickSync
<1>14. CASE FinalSync
  BY <1>5, <1>14 DEF FinalSync
<1> HIDE DEF TInv, Locks, ReadsInFile
<1> QED BY <1>6, <1>7, <1>8, <1>9, <1>10, <1>11, <1>12, <1>13, <1>14 DEF BackgroundWriter

\* What Fill reads: something, unless the file is at its end.
LEMMA SomethingRead ==
  ASSUME TInv, Fill
  PROVE  \E n \in 0..(Len(disk) - off) :
           /\ rbuf' = rbuf \o SubSeq(disk, off + 1, off + n) /\ off' = off + n
           /\ eof' = (n = 0) /\ (n = 0 <=> off = Len(disk))
<1> DEFINE room == IF Len(rbuf) < ReadSize THEN ReadSize - Len(rbuf) ELSE ReadSize
           left == Max({0, Len(disk) - off})
           n == Min({room, left})
<1>1. Len(rbuf) \in Nat /\ Len(disk) \in Nat /\ off \in 0..Len(disk) /\ ReadSize \in Nat \ {0}
  BY Constants DEF TInv, TypeOK
<1>2. left = Len(disk) - off /\ left \in Nat
  BY <1>1, LargerOfTwo
<1>3. room \in Nat \ {0}
  BY <1>1
<1> HIDE DEF room, left
<1>4. n = IF room <= left THEN room ELSE left
  BY <1>2, <1>3, LesserOfTwo
<1>5. rbuf' = rbuf \o SubSeq(disk, off + 1, off + n) /\ off' = off + n /\ eof' = (n = 0)
  BY DEF Fill, room, left
<1> HIDE DEF n
<1>6. n \in 0..(Len(disk) - off) /\ (n = 0 <=> off = Len(disk))
  BY <1>1, <1>2, <1>3, <1>4
<1> QED BY <1>5, <1>6

\* A line that is a record is a whole one, or the last one of the file.
LEMMA LineOfRecord ==
  ASSUME rbuf \in Seq(Piece), HasLine, NEW v \in Values, ThisLine(v, Line)
  PROVE  \/ Line = Pieces(v) /\ LineLen = Size
         \/ NewlineAlone /\ eof /\ LineLen = Len(rbuf) /\ LineLen = Size - 1
<1>1. LineLen \in 1..Len(rbuf) /\ Line \in Seq(Piece) /\ Len(Line) = LineLen
  BY LineIsFirstPart
<1>2. Pieces(v) \in Seq(Piece) /\ Len(Pieces(v)) = Size
      /\ \A i \in 1..Size : Pieces(v)[i] = [val |-> v, n |-> i]
  BY PiecesTyped
<1>3. CASE Line = Pieces(v)
  BY <1>1, <1>2, <1>3
<1>4. CASE Line # Pieces(v)
  <2>1. NewlineAlone /\ Line = SubSeq(Pieces(v), 1, Size - 1)
    BY <1>4 DEF ThisLine, Text
  <2>2. Size - 1 \in Nat \ {0} /\ Size - 1 \in 0..Len(Pieces(v))
    BY <1>2, <2>1, Constants
  <2>3. LineLen = Size - 1 /\ Line[Size - 1] = [val |-> v, n |-> Size - 1]
    BY <1>1, <1>2, <2>1, <2>2, FirstPart
  <2>4. LineEnds = {}
    <3>1. SUFFICES ASSUME LineEnds # {} PROVE FALSE
      OBVIOUS
    <3>2. LineEnds \in SUBSET Nat
      BY DEF LineEnds
    <3>3. LineLen \in LineEnds
      BY <3>1, <3>2, Least DEF LineLen
    <3>4. rbuf[LineLen].n = Size
      BY <3>3 DEF LineEnds, EndsLine
    <3>5. Line[LineLen] = rbuf[LineLen]
      BY <1>1, FirstPart DEF Line
    <3> QED BY <2>2, <2>3, <3>4, <3>5
  <2> QED BY <2>1, <2>3, <2>4 DEF HasLine, LineLen
<1> QED BY <1>3, <1>4

LEMMA ReadingTyped == ASSUME TInv, Reading PROVE TInv'
<1>1. TypeOK /\ Locks /\ ReadsInFile
  BY DEF TInv
<1>2. rbuf \in Seq(Piece) /\ Len(rbuf) \in Nat /\ valid \in Nat /\ off \in 0..Len(disk) /\ Len(disk) \in Nat
      /\ synced \in 0..Len(disk) /\ disk \in Seq(Piece)
  BY <1>1 DEF TypeOK
<1>3. CASE ReadLock
  <2>1. <<>> \in Seq(Piece) /\ Len(<<>>) = 0
    OBVIOUS
  <2>2. TypeOK'
    <3>1. /\ mu' = "reader" /\ rpc' = "reading" /\ off' = 0 /\ rbuf' = <<>> /\ valid' = 0
          /\ UNCHANGED <<disk, synced, writer, stopped, ram, wrote, mark, owed, rewrite, bounds>>
      BY <1>3 DEF ReadLock
    <3>2. eof' \in BOOLEAN
      BY <1>3, Zenon DEF ReadLock
    <3>3. off' \in 0..Len(disk)
      BY <1>2, <3>1
    <3> QED BY <1>1, <2>1, <3>1, <3>2, <3>3 DEF TypeOK, writer, rewrite, bounds
  <2>3. Locks'
    BY <1>1, <1>3 DEF ReadLock, Locks, writer, rewrite, bounds
  <2>4. ReadsInFile'
    BY <1>3, <2>1 DEF ReadLock, ReadsInFile
  <2> QED BY <2>2, <2>3, <2>4 DEF TInv
<1>4. CASE Fill
  <2>1. PICK n \in 0..(Len(disk) - off) :
          rbuf' = rbuf \o SubSeq(disk, off + 1, off + n) /\ off' = off + n /\ eof' = (n = 0)
    BY <1>4, SomethingRead DEF TInv
  <2>2. SubSeq(disk, off + 1, off + n) \in Seq(Piece) /\ Len(SubSeq(disk, off + 1, off + n)) = n
    <3>1. off + 1 \in Nat \ {0} /\ off + n \in Nat /\ off + n <= Len(disk)
      BY <1>2
    <3>2. /\ SubSeq(disk, off + 1, off + n) \in Seq(Piece)
          /\ Len(SubSeq(disk, off + 1, off + n))
             = IF off + 1 <= off + n THEN off + n - (off + 1) + 1 ELSE 0
      BY <1>2, <3>1, PartTyped
    <3> QED BY <1>2, <3>2
  <2>3. rbuf' \in Seq(Piece) /\ Len(rbuf') = Len(rbuf) + n
    BY <1>2, <2>1, <2>2, ConcatProperties
  <2>4. rpc = "reading" /\ ~HasLine /\ ~eof
        /\ UNCHANGED <<disk, synced, mu, writer, stopped, rpc, valid, ram, wrote, mark, owed, rewrite, bounds>>
    BY <1>4 DEF Fill
  <2>5. off' \in 0..Len(disk) /\ eof' \in BOOLEAN
    BY <1>2, <2>1
  <2>6. TypeOK'
    BY <1>1, <2>3, <2>4, <2>5 DEF TypeOK, writer, rewrite, bounds
  <2>7. Locks'
    BY <1>1, <2>4 DEF Locks, writer, rewrite, bounds
  <2>8. ReadsInFile'
    BY <1>1, <1>2, <2>1, <2>3, <2>4 DEF ReadsInFile
  <2> QED BY <2>6, <2>7, <2>8 DEF TInv
<1>5. CASE Replay
  <2>1. PICK v \in Values : ThisLine(v, Line) /\ ram' = v /\ Len(ch) < ChanCap /\ ch' = Append(ch, v)
    BY <1>5 DEF Replay
  <2>2. rpc = "reading" /\ HasLine /\ rbuf' = SubSeq(rbuf, LineLen + 1, Len(rbuf)) /\ valid' = valid + Size
        /\ UNCHANGED <<file, mu, buf, wpc, stopped, rpc, eof, wrote, mark, owed, rewrite, bounds>>
    BY <1>5 DEF Replay
  <2>3. LineLen \in 1..Len(rbuf)
    BY <1>2, <2>2, LineIsFirstPart
  <2>4. rbuf' \in Seq(Piece) /\ Len(rbuf') = Len(rbuf) - LineLen
    <3>1. LineLen + 1 \in Nat \ {0}
      BY <2>3
    <3>2. /\ SubSeq(rbuf, LineLen + 1, Len(rbuf)) \in Seq(Piece)
          /\ Len(SubSeq(rbuf, LineLen + 1, Len(rbuf)))
             = IF LineLen + 1 <= Len(rbuf) THEN Len(rbuf) - (LineLen + 1) + 1 ELSE 0
      BY <1>2, <3>1, PartTyped
    <3> QED BY <1>2, <2>2, <2>3, <3>2
  <2>5. ch' \in Seq(Values) /\ Len(ch') <= ChanCap
    BY <1>1, <2>1, Constants DEF TypeOK
  <2>6. TypeOK'
    BY <1>1, <1>2, <2>1, <2>2, <2>4, <2>5, Constants DEF TypeOK, file, rewrite, bounds
  <2>7. Locks'
    BY <1>1, <2>2 DEF Locks, rewrite, bounds
  <2>8. ReadsInFile'
    <3>1. rbuf # <<>> /\ valid + Len(rbuf) <= off
      BY <1>1, <1>2, <2>2, <2>3 DEF ReadsInFile
    <3>2. CASE LineLen = Size
      <4>1. valid' = valid + Size /\ Len(rbuf') = Len(rbuf) - Size /\ off' = off
        BY <2>2, <2>4, <3>2 DEF file
      <4>2. valid' + Len(rbuf') <= off'
        BY <1>2, <3>1, <4>1, Constants
      <4> QED BY <4>2 DEF ReadsInFile
    <3>3. CASE eof /\ LineLen = Len(rbuf)
      <4>1. eof' /\ rbuf' = <<>>
        BY <1>2, <2>2, <2>4, <3>3, EmptySeq
      <4> QED BY <4>1 DEF ReadsInFile
    <3> QED BY <1>2, <2>1, <2>2, <3>2, <3>3, LineOfRecord
  <2> QED BY <2>6, <2>7, <2>8 DEF TInv
<1>6. CASE Truncate
  <2>1. rpc = "reading" /\ HasLine /\ disk' = SubSeq(disk, 1, valid)
        /\ synced' = Min({synced, Len(disk')}) /\ off' = Len(disk') /\ rpc' = "up" /\ mu' = "free"
        /\ UNCHANGED <<writer, stopped, reader, ram, wrote, mark, owed, rewrite, bounds>>
    BY <1>6 DEF Truncate
  <2>2. valid \in 0..Len(disk)
    <3>1. LineLen \in 1..Len(rbuf)
      BY <1>2, <2>1, LineIsFirstPart
    <3> QED BY <1>1, <1>2, <2>1, <3>1 DEF ReadsInFile
  <2>3. disk' \in Seq(Piece) /\ Len(disk') = valid
    BY <1>2, <2>1, <2>2, FirstPart
  <2>4. synced' \in 0..Len(disk')
    BY <1>2, <2>1, <2>2, <2>3, LesserOfTwo
  <2>5. TypeOK'
    BY <1>1, <1>2, <2>1, <2>3, <2>4 DEF TypeOK, writer, reader, rewrite, bounds
  <2>6. Locks'
    BY <1>1, <2>1 DEF Locks, writer, rewrite, bounds
  <2> QED BY <2>1, <2>5, <2>6 DEF TInv, ReadsInFile
<1>7. CASE ReadEnds
  <2>1. TypeOK'
    BY <1>1, <1>7 DEF ReadEnds, TypeOK, file, writer, reader, rewrite, bounds
  <2>2. Locks'
    BY <1>1, <1>7 DEF ReadEnds, Locks, writer, rewrite, bounds
  <2> QED BY <1>7, <2>1, <2>2 DEF ReadEnds, TInv, ReadsInFile
<1> QED BY <1>3, <1>4, <1>5, <1>6, <1>7 DEF Reading

LEMMA RewriteTyped == ASSUME TInv, Rewrite PROVE TInv'
<1>1. TypeOK /\ Locks /\ ReadsInFile
  BY DEF TInv
<1>2. <<>> \in Seq(Piece) /\ <<>> \in Seq(Values) /\ Len(<<>>) = 0
  OBVIOUS
<1>3. CASE StartRewrite
  <2>1. rewrites' \in 0..MaxRewrites /\ rewrites' # 0
    BY <1>1, <1>3, Constants DEF StartRewrite, TypeOK
  <2>2. TypeOK'
    BY <1>1, <1>2, <1>3, <2>1 DEF StartRewrite, TypeOK, Unhurt, file, reader
  <2>3. Locks' /\ ReadsInFile'
    BY <1>1, <1>3, <2>1 DEF StartRewrite, Locks, ReadsInFile, Unhurt, file, reader
  <2> QED BY <2>2, <2>3 DEF TInv
<1>4. CASE Snapshot
  <2>1. tmp' \in Seq(Piece)
    <3>1. CASE ram = 0
      BY <1>2, <1>4, <3>1 DEF Snapshot
    <3>2. CASE ram # 0
      <4>1. ram \in Values
        BY <1>1, <3>2 DEF TypeOK
      <4> QED BY <1>4, <3>2, <4>1, PiecesTyped DEF Snapshot
    <3> QED BY <3>1, <3>2
  <2>2. TypeOK'
    BY <1>1, <1>4, <2>1 DEF Snapshot, TypeOK, Unhurt, file, reader, bounds
  <2>3. Locks' /\ ReadsInFile'
    BY <1>1, <1>4 DEF Snapshot, Locks, ReadsInFile, Unhurt, file, reader, bounds
  <2> QED BY <2>2, <2>3 DEF TInv
<1>5. CASE TakeBuffer
  <2>1. tmp' \in Seq(Piece)
    <3>1. tmp \in Seq(Piece) /\ Recorded(rewriteBuf) \in Seq(Piece)
      BY <1>1, RecordedTyped DEF TypeOK
    <3> QED BY <1>5, <3>1, ConcatProperties DEF TakeBuffer
  <2>2. TypeOK'
    BY <1>1, <1>2, <1>5, <2>1 DEF TakeBuffer, TypeOK, Unhurt, file, reader, bounds
  <2>3. Locks' /\ ReadsInFile'
    BY <1>1, <1>5 DEF TakeBuffer, Locks, ReadsInFile, Unhurt, file, reader, bounds
  <2> QED BY <2>2, <2>3 DEF TInv
<1>6. CASE Replace
  <2>1. owed' \in {0} \cup Values
    <3> DEFINE O == {owed, NewestIn(disk \o buf), NewestIn(tmp)}
    <3>1. O \in SUBSET ({0} \cup Values)
      BY <1>1, NewestTyped DEF TypeOK
    <3>2. O \in SUBSET (0..MaxWrites) /\ O # {}
      BY <3>1, Constants DEF Values
    <3>3. owed' = Max(O)
      BY <1>6 DEF Replace
    <3> HIDE DEF O
    <3> QED BY <3>1, <3>2, <3>3, Constants, Greatest
  <2>2. tmp \in Seq(Piece) /\ Len(tmp) \in Nat /\ 0 \in 0..Len(tmp) /\ Len(tmp) \in 0..Len(tmp)
    BY <1>1 DEF TypeOK
  <2>3. TypeOK'
    BY <1>1, <1>2, <1>6, <2>1, <2>2, Constants DEF Replace, TypeOK, Unhurt, reader, bounds
  <2>4. Locks'
    BY <1>1, <1>6 DEF Replace, Locks, Unhurt, bounds
  <2>5. rpc' # "reading"
    BY <1>1, <1>6 DEF Replace, Locks, Unhurt
  <2> QED BY <2>3, <2>4, <2>5 DEF TInv, ReadsInFile
<1> QED BY <1>3, <1>4, <1>5, <1>6 DEF Rewrite

\* The end of the process.
LEMMA GoneTyped ==
  ASSUME TInv, Gone, disk' \in Seq(Piece), synced' \in 0..Len(disk'), owed' \in {0} \cup Values,
         crashes' \in 0..MaxCrashes
  PROVE  TInv'
<1>1. TypeOK /\ Locks
  BY DEF TInv
<1>2. <<>> \in Seq(Piece) /\ <<>> \in Seq(Values) /\ Len(<<>>) = 0 /\ 0 \in 0..Len(disk')
  OBVIOUS
<1>3. {stopped, eof}' \subseteq BOOLEAN
  BY Zenon DEF Gone
<1>4. TypeOK'
  BY <1>1, <1>2, <1>3, Constants DEF Gone, TypeOK
<1>5. Locks' /\ ReadsInFile'
  BY <1>1 DEF Gone, Locks, ReadsInFile
<1> QED BY <1>4, <1>5 DEF TInv

LEMMA OthersTyped == ASSUME TInv, Start \/ Write \/ Close \/ Exit \/ Kill \/ PowerLoss PROVE TInv'
<1>1. TypeOK /\ Locks /\ ReadsInFile
  BY DEF TInv
<1>2. disk \in Seq(Piece) /\ synced \in 0..Len(disk) /\ Len(disk) \in Nat
      /\ owed \in {0} \cup Values /\ mark \in {0} \cup Values /\ crashes \in 0..MaxCrashes
  BY <1>1 DEF TypeOK
<1>3. CASE Start
  <2>1. starts' \in 0..MaxStarts /\ off' \in 0..Len(disk)
    BY <1>1, <1>2, <1>3, Constants DEF Start, TypeOK
  <2>2. stopped' \in BOOLEAN /\ ~stopped'
    BY <1>3, Zenon DEF Start
  <2>3. TypeOK'
    <3>1. /\ rpc' = "open" /\ wpc' = "select" /\ ram' = 0
          /\ UNCHANGED <<disk, synced, mu, ch, buf, reader, wrote, mark, owed, rewrite, crashes, rewrites>>
      BY <1>3 DEF Start
    <3> QED BY <1>1, <2>1, <2>2, <3>1 DEF TypeOK, reader, rewrite
  <2>4. Locks' /\ ReadsInFile'
    BY <1>1, <1>3, <2>2 DEF Start, Locks, ReadsInFile, reader, rewrite
  <2> QED BY <2>3, <2>4 DEF TInv
<1>4. CASE Write
  <2>1. wrote' \in Values /\ ram' = wrote'
    BY <1>1, <1>4, Constants DEF Write, TypeOK, Values
  <2>2. ch' \in Seq(Values) /\ Len(ch') <= ChanCap
    <3>1. ch \in Seq(Values) /\ Len(ch) \in Nat /\ Len(ch) <= ChanCap
      BY <1>1 DEF TypeOK
    <3>2. CASE Len(ch) < ChanCap /\ ch' = Append(ch, wrote')
      BY <2>1, <3>1, <3>2, Constants, AppendProperties
    <3> QED BY <1>4, <3>1, <3>2 DEF Write
  <2>3. TypeOK'
    <3>1. UNCHANGED <<file, mu, buf, wpc, stopped, rpc, reader, mark, owed, rewrite, bounds>>
      BY <1>4 DEF Write
    <3> QED BY <1>1, <2>1, <2>2, <3>1 DEF TypeOK, file, reader, rewrite, bounds
  <2>4. Locks' /\ ReadsInFile'
    BY <1>1, <1>4 DEF Write, Locks, ReadsInFile, file, reader, rewrite, bounds
  <2> QED BY <2>3, <2>4 DEF TInv
<1>5. CASE Close
  <2>1. stopped' \in BOOLEAN
    BY <1>5, Zenon DEF Close
  <2>2. TypeOK'
    BY <1>1, <1>5, <2>1 DEF Close, TypeOK, file, writer, reader, rewrite, bounds
  <2>3. Locks' /\ ReadsInFile'
    BY <1>1, <1>5 DEF Close, Locks, ReadsInFile, file, writer, reader, rewrite, bounds
  <2> QED BY <2>2, <2>3 DEF TInv
<1>6. CASE Exit
  <2>1. owed' \in {0} \cup Values
    <3>1. owed \in Nat /\ mark \in Nat
      BY <1>2, Constants DEF Values
    <3> QED BY <1>2, <1>6, <3>1, LargerOfTwo DEF Exit
  <2> QED BY <1>2, <1>6, <2>1, GoneTyped DEF Exit
<1>7. ASSUME Crash PROVE Gone /\ owed' \in {0} \cup Values /\ crashes' \in 0..MaxCrashes
  BY <1>2, <1>7, Constants DEF Crash
<1>8. CASE Kill
  BY <1>2, <1>7, <1>8, GoneTyped DEF Kill
<1>9. CASE PowerLoss
  <2>1. PICK n \in synced..Len(disk) : disk' = SubSeq(disk, 1, n) /\ synced' = n
    BY <1>9 DEF PowerLoss
  <2>2. n \in 0..Len(disk)
    BY <1>2
  <2>3. disk' \in Seq(Piece) /\ Len(disk') = n
    BY <1>2, <2>1, <2>2, FirstPart
  <2> QED BY <1>7, <1>9, <2>1, <2>2, <2>3, GoneTyped DEF PowerLoss
<1> QED BY <1>3, <1>4, <1>5, <1>6, <1>8, <1>9

LEMMA StepTyped == ASSUME TInv, [Next]_vars PROVE TInv'
<1>1. CASE Next
  BY <1>1, WriterTyped, ReadingTyped, RewriteTyped, OthersTyped DEF Next
<1>2. CASE UNCHANGED vars
  <2>1. TypeOK'
    BY <1>2 DEF TInv, TypeOK, vars
  <2>2. Locks' /\ ReadsInFile'
    BY <1>2 DEF TInv, Locks, ReadsInFile, vars
  <2> QED BY <2>1, <2>2 DEF TInv
<1> QED BY <1>1, <1>2

\* Whatever the sizes, and however Read, the writer, Rewrite and Close meet: the channel and
\* the bufio buffer keep within theirs, the offset stays in the file, what is synced is in it,
\* and Read never cuts the file where it has no end (TypeOK of Truncate's disk).
THEOREM TypesHold == Spec => []TypeOK
<1>1. Init => TInv
  BY InitTyped
<1>2. TInv /\ [Next]_vars => TInv'
  BY StepTyped
<1>3. TInv => TypeOK
  BY DEF TInv
<1> QED BY <1>1, <1>2, <1>3, PTL DEF Spec

-------------------------------------------------------------------------------
(* Strings of records that are cut *)

\* d is the records r, or a first part of them.
CutOf(d, r) == Len(d) <= Size * Len(r) /\ d = SubSeq(Recorded(r), 1, Len(d))

LEMMA FirstOfFirst == ASSUME NEW S, NEW s \in Seq(S), NEW n \in 0..Len(s), NEW k \in 0..n
                      PROVE  SubSeq(SubSeq(s, 1, n), 1, k) = SubSeq(s, 1, k)
<1> DEFINE a == SubSeq(s, 1, n)
           b == SubSeq(a, 1, k)
           c == SubSeq(s, 1, k)
<1>1. a \in Seq(S) /\ Len(a) = n /\ \A i \in 1..n : a[i] = s[i]
  BY FirstPart
<1>2. c \in Seq(S) /\ Len(c) = k /\ \A i \in 1..k : c[i] = s[i]
  <2>1. k \in 0..Len(s) OBVIOUS
  <2> QED BY <2>1, FirstPart
<1> HIDE DEF a, c
<1>3. b \in Seq(S) /\ Len(b) = k /\ \A i \in 1..k : b[i] = a[i]
  <2>1. k \in 0..Len(a) BY <1>1
  <2> QED BY <1>1, <2>1, FirstPart
<1> HIDE DEF b
<1>4. ASSUME NEW i \in 1..k PROVE b[i] = c[i]
  BY <1>1, <1>2, <1>3
<1>5. b = c
  BY <1>2, <1>3, <1>4, SeqEqual
<1> QED BY <1>5 DEF a, b, c

LEMMA FirstOfConcat == ASSUME NEW S, NEW a \in Seq(S), NEW b \in Seq(S)
                       PROVE  SubSeq(a \o b, 1, Len(a)) = a
<1> DEFINE z == a \o b
           c == SubSeq(z, 1, Len(a))
<1>1. z \in Seq(S) /\ Len(z) = Len(a) + Len(b) /\ Len(a) \in Nat /\ Len(b) \in Nat
      /\ \A i \in 1 .. Len(a) + Len(b) : z[i] = IF i <= Len(a) THEN a[i] ELSE b[i - Len(a)]
  BY ConcatProperties, LenProperties
<1> HIDE DEF z
<1>2. c \in Seq(S) /\ Len(c) = Len(a) /\ \A i \in 1..Len(a) : c[i] = z[i]
  <2>1. Len(a) \in 0..Len(z) BY <1>1
  <2> QED BY <1>1, <2>1, FirstPart
<1> HIDE DEF c
<1>3. ASSUME NEW i \in 1..Len(a) PROVE c[i] = a[i]
  BY <1>1, <1>2
<1>4. c = a
  BY <1>2, <1>3, SeqEqual
<1> QED BY <1>4 DEF c, z

LEMMA DivisionGrows == ASSUME NEW s \in Nat \ {0}, NEW k \in Nat, NEW n \in Nat, k <= n
                       PROVE  k \div s <= n \div s
<1> DEFINE a == k \div s
           b == n \div s
<1>1. a \in Nat /\ k % s \in 0..s-1 /\ k = s * a + (k % s)
  BY Division
<1>2. b \in Nat /\ n % s \in 0..s-1 /\ n = s * b + (n % s)
  BY Division
<1> HIDE DEF a, b
<1>3. ASSUME a >= b + 1 PROVE FALSE
  <2>1. s * a >= s * (b + 1) BY <1>1, <1>2, <1>3
  <2>2. s * (b + 1) = s * b + s BY <1>2
  <2>3. s * a \in Nat /\ s * b \in Nat BY <1>1, <1>2
  <2> QED BY <1>1, <1>2, <2>1, <2>2, <2>3
<1>4. a <= b
  BY <1>1, <1>2, <1>3
<1> QED BY <1>4 DEF a, b

\* What the first k pieces of a cut string of records say.
LEMMA CutSays ==
  ASSUME NEW r \in Seq(Values), NEW d \in Seq(Piece), CutOf(d, r), NEW k \in 0..Len(d)
  PROVE  /\ CutOf(SubSeq(d, 1, k), r)
         /\ k \div Size \in 0..Len(r) /\ k \div Size <= Len(d) \div Size
         /\ Count(SubSeq(d, 1, k)) = k \div Size
         /\ Lines(SubSeq(d, 1, k)) = SubSeq(r, 1, k \div Size)
<1> DEFINE m == k \div Size
           t == k % Size
<1>1. /\ Size \in Nat \ {0} /\ k \in Nat /\ Len(d) \in Nat /\ Len(r) \in Nat /\ Size * Len(r) \in Nat
      /\ Len(d) <= Size * Len(r) /\ k <= Len(d)
  BY Constants DEF CutOf
<1>2. m \in Nat /\ t \in 0..Size-1 /\ k = Size * m + t
  BY <1>1, Division
<1>3. Recorded(r) \in Seq(Piece) /\ Len(Recorded(r)) = Size * Len(r)
  BY RecordedTyped
<1>4. SubSeq(d, 1, k) = SubSeq(Recorded(r), 1, k)
  <2>1. Len(d) \in 0..Len(Recorded(r)) /\ d = SubSeq(Recorded(r), 1, Len(d))
    BY <1>1, <1>3 DEF CutOf
  <2>2. SubSeq(SubSeq(Recorded(r), 1, Len(d)), 1, k) = SubSeq(Recorded(r), 1, k)
    BY <1>3, <2>1, FirstOfFirst
  <2> QED BY <2>1, <2>2
<1>5. Len(SubSeq(d, 1, k)) = k
  BY FirstPart
<1>6. CutOf(SubSeq(d, 1, k), r)
  BY <1>1, <1>4, <1>5 DEF CutOf
<1>7. k \div Size <= Len(d) \div Size
  BY <1>1, DivisionGrows
<1> HIDE DEF m, t
<1>8. Size * m + t <= Size * Len(r)
  BY <1>1, <1>2
<1>9. LET s == SubSeq(Recorded(r), 1, Size * m + t) IN
      Count(s) = m /\ m <= Len(r) /\ Lines(s) = SubSeq(r, 1, m)
  BY <1>2, <1>8, CountOf
<1>10. SubSeq(d, 1, k) = SubSeq(Recorded(r), 1, Size * m + t)
  BY <1>2, <1>4
<1>11. Count(SubSeq(d, 1, k)) = m /\ m <= Len(r) /\ Lines(SubSeq(d, 1, k)) = SubSeq(r, 1, m)
  BY <1>9, <1>10
<1>12. m \in 0..Len(r)
  BY <1>1, <1>2, <1>11
<1> QED BY <1>6, <1>7, <1>11, <1>12 DEF m

LEMMA CutLines ==
  ASSUME NEW r \in Seq(Values), NEW d \in Seq(Piece), CutOf(d, r)
  PROVE  /\ Len(d) \div Size \in 0..Len(r) /\ Count(d) = Len(d) \div Size
         /\ Lines(d) = SubSeq(r, 1, Len(d) \div Size) /\ Lines(d) \in Seq(Values)
<1>1. Len(d) \in 0..Len(d) /\ SubSeq(d, 1, Len(d)) = d
  BY SubSeqFull
<1> DEFINE k == Len(d)
<1>2. k \in 0..Len(d)
  BY <1>1
<1> HIDE DEF k
<1>3. /\ k \div Size \in 0..Len(r) /\ Count(SubSeq(d, 1, k)) = k \div Size
      /\ Lines(SubSeq(d, 1, k)) = SubSeq(r, 1, k \div Size)
  BY <1>2, CutSays
<1>4. /\ Len(d) \div Size \in 0..Len(r) /\ Count(d) = Len(d) \div Size
      /\ Lines(d) = SubSeq(r, 1, Len(d) \div Size)
  BY <1>1, <1>3 DEF k
<1> QED BY <1>4, FirstPart

\* Whole records say themselves, and a first part of them that is whole is records.
LEMMA WholeSays == ASSUME NEW r \in Seq(Values)
                   PROVE  CutOf(Recorded(r), r) /\ Lines(Recorded(r)) = r
<1>1. Recorded(r) \in Seq(Piece) /\ Len(Recorded(r)) = Size * Len(r) /\ Len(r) \in Nat
  BY RecordedTyped
<1>2. SubSeq(Recorded(r), 1, Len(Recorded(r))) = Recorded(r)
  BY <1>1, SubSeqFull
<1>3. Size \in Nat \ {0} /\ Size * Len(r) \in Nat /\ Len(Recorded(r)) \in 0..Len(Recorded(r))
  BY <1>1, Constants
<1>4. CutOf(Recorded(r), r)
  BY <1>1, <1>2, <1>3 DEF CutOf
<1>5. Lines(Recorded(r)) = SubSeq(r, 1, Len(Recorded(r)) \div Size)
  BY <1>1, <1>2, <1>3, <1>4, CutSays
<1>6. Len(Recorded(r)) \div Size = Len(r)
  <2>1. (Size * Len(r) + 0) \div Size = Len(r)
    <3>1. 0 \in 0..Size-1 BY <1>3
    <3> QED BY <1>1, <1>3, <3>1, DivisionIs
  <2> QED BY <1>1, <1>3, <2>1
<1>7. SubSeq(r, 1, Len(r)) = r
  BY SubSeqFull
<1> QED BY <1>4, <1>5, <1>6, <1>7

LEMMA WholePart == ASSUME NEW r \in Seq(Values), NEW m \in 0..Len(r)
                   PROVE  SubSeq(Recorded(r), 1, Size * m) = Recorded(SubSeq(r, 1, m))
<1> DEFINE a == SubSeq(r, 1, m)
           b == SubSeq(r, m + 1, Len(r))
<1>1. a \in Seq(Values) /\ Len(a) = m
  BY FirstPart
<1>2. b \in Seq(Values)
  <2>1. m + 1 \in Nat \ {0} /\ Len(r) \in Nat /\ Len(r) <= Len(r)
    OBVIOUS
  <2> QED BY <2>1, PartTyped
<1>3. a \o b = r
  BY SeqSplit
<1> HIDE DEF a, b
<1>4. Recorded(r) = Recorded(a) \o Recorded(b)
  BY <1>1, <1>2, <1>3, RecordedConcat
<1>5. Recorded(a) \in Seq(Piece) /\ Len(Recorded(a)) = Size * m /\ Recorded(b) \in Seq(Piece)
  BY <1>1, <1>2, RecordedTyped
<1>6. SubSeq(Recorded(a) \o Recorded(b), 1, Len(Recorded(a))) = Recorded(a)
  BY <1>5, FirstOfConcat
<1>7. SubSeq(Recorded(r), 1, Size * m) = Recorded(a)
  BY <1>4, <1>5, <1>6
<1> QED BY <1>7 DEF a

-------------------------------------------------------------------------------
(* The journal as a log *)

LogNow == IF rpc \in {"down", "open", "reading"} THEN Lines(disk) \o Lines(buf) \o ch
          ELSE Lines(disk \o buf) \o ch
SafeNow == Count(SubSeq(disk, 1, synced))

\* A step leaves the log and what of it is safe.
LogSynced == LogNow' = LogNow /\ SafeNow' \in SafeNow..Len(LogNow)

LEMMA LogSyncs == ASSUME LogSynced PROVE Journal!Next
<1>1. (rw = "replace")' \in BOOLEAN
  OBVIOUS
<1> QED BY <1>1 DEF LogSynced, Journal!Next, Journal!Sync, LogNow, SafeNow

LEMMA LogGrows == ASSUME NEW v \in Values, LogNow' = Append(LogNow, v), SafeNow' = SafeNow
                  PROVE  Journal!Next
<1>1. (rw = "replace")' \in BOOLEAN
  OBVIOUS
<1> QED BY <1>1 DEF Journal!Next, Journal!Write, LogNow, SafeNow

LEMMA LogCrashes == ASSUME NEW n \in SafeNow..Len(LogNow), LogNow' = SubSeq(LogNow, 1, n),
                           SafeNow' \in SafeNow..n
                    PROVE  Journal!Next
<1>1. (rw = "replace")' \in BOOLEAN
  OBVIOUS
<1> QED BY <1>1 DEF Journal!Next, Journal!Crash, LogNow, SafeNow

LEMMA LogCompacts ==
  ASSUME rw = "replace", SafeNow' = Len(LogNow'),
         LogNow # <<>> => LogNow' # <<>> /\ LogNow'[Len(LogNow')] = LogNow[Len(LogNow)],
         LogNow = <<>> => LogNow' = <<>>
  PROVE  Journal!Next
<1>1. (rw = "replace")' \in BOOLEAN
  OBVIOUS
<1> QED BY <1>1 DEF Journal!Next, Journal!Compact, LogNow, SafeNow

\* Nothing is on its way to the file between Rewrite's copy of its buffer and the rename.
CopyIsLast == rw = "replace" => ch = <<>> /\ dup = 0

\* The file that is read does not end in a text that lacks nothing but its newline.
NewlineKept == rpc = "reading" /\ NewlineAlone => Len(disk) % Size # Size - 1

\* Neither does happen on either side of a step.
Steady == CopyIsLast /\ CopyIsLast' /\ NewlineKept

\* What a recovery writes back while Read is at it fits the bufio buffer.
RecoveryFits == rpc = "reading" /\ ch # <<>> => Len(buf) + Size <= BufSize

\* v is the newest of the values s, 0 if there is none.
EndsIn(s, v) == IF s = <<>> THEN v = 0 ELSE s[Len(s)] = v

\* Before Read: the file holds records, the last of which may be cut, and nothing is under way.
Closed == rpc \in {"down", "open"} =>
  /\ \E r \in Seq(Values) : CutOf(disk, r)
  /\ buf = <<>> /\ ch = <<>> /\ dup = 0 /\ ram = 0

\* The records b have come back so far.
Back(b) == /\ buf = Recorded(b) /\ EndsIn(b \o ch, ram)
           /\ dup # 0 => EndsIn(b, dup)

\* Read has taken whole records only, and its Scanner holds what follows them in the file.
Scanned == /\ \E m \in Nat : valid = Size * m
           /\ off = valid + Len(rbuf) /\ rbuf = SubSeq(disk, valid + 1, off)
           /\ eof => off = Len(disk)
           /\ valid = 0 <=> ram = 0

Recovering == rpc = "reading" => /\ \E r \in Seq(Values) : CutOf(disk, r)
                                 /\ \E b \in Seq(Values) : Back(b)
                                 /\ Scanned

\* After Read the file and the writer's buffer hold the records r, and no piece else; the last
\* that is written is what RAM serves, and a rewrite under way has it.
Holds(r) == /\ disk \o buf = Recorded(r)
            /\ rpc = "up" =>
                 /\ EndsIn(r \o ch, ram)
                 /\ dup # 0 => EndsIn(r, dup)
                 /\ Rewriting /\ dup = 0 /\ rewriteBuf # <<>>
                      => EndsIn(r, rewriteBuf[Len(rewriteBuf)])

Serving == rpc \in {"up", "closing"} => \E r \in Seq(Values) : Holds(r)

Rewritten ==
  /\ rw = "take" => /\ \E q \in Seq(Values) : tmp = Recorded(q) /\
                         (EndsIn(q, ram) \/ rewriteBuf # <<>> \/ dup # 0 \/ ch # <<>>)
  /\ rw = "replace" => /\ ch = <<>> /\ dup = 0
                       /\ \E q \in Seq(Values) : tmp = Recorded(q) /\ EndsIn(q, ram)

FirstLife == /\ starts = 0 => rpc = "down" /\ disk = <<>>
             /\ starts <= 1 /\ rpc \in {"open", "reading"} => disk = <<>>

Stopping == wpc \in {"final", "finalSync", "done"} => rpc \in {"closing", "down"}

JInv == TInv /\ Closed /\ Recovering /\ Serving /\ Rewritten /\ FirstLife /\ Stopping

LEMMA Joined == ASSUME NEW S, NEW a \in Seq(S), NEW b \in Seq(S), NEW c \in Seq(S)
                PROVE  (a \o b) \o c = a \o (b \o c) /\ b \o c \in Seq(S) /\ a \o b \in Seq(S)
<1>1. (a \o b) \o c = a \o (b \o c)
  BY ONLY a \in Seq(S), b \in Seq(S), c \in Seq(S), ConcatAssociative
<1> QED BY <1>1

\* Whatever is under way, the file is a cut string of records, and the log begins with those
\* that are whole.
LEMMA LogShape ==
  ASSUME JInv
  PROVE  \E r, rest \in Seq(Values) :
           CutOf(disk, r) /\ LogNow = SubSeq(r, 1, Len(disk) \div Size) \o rest
<1>1. disk \in Seq(Piece) /\ buf \in Seq(Piece) /\ ch \in Seq(Values) /\ Len(disk) \in 0..Len(disk)
      /\ SubSeq(disk, 1, Len(disk)) = disk
  BY SubSeqFull DEF JInv, TInv, TypeOK
<1>2. ASSUME NEW r \in Seq(Values), CutOf(disk, r)
      PROVE  Lines(disk) = SubSeq(r, 1, Len(disk) \div Size) /\ Lines(disk) \in Seq(Values)
  BY <1>1, <1>2, CutLines
<1>3. CASE rpc \in {"down", "open", "reading"}
  <2>1. PICK r \in Seq(Values) : CutOf(disk, r)
    BY <1>3 DEF JInv, Closed, Recovering
  <2>2. PICK b \in Seq(Values) : buf = Recorded(b)
    <3>1. CASE rpc = "reading"
      BY <3>1 DEF JInv, Recovering, Back
    <3>2. CASE rpc # "reading"
      <4>1. buf = Recorded(<<>>) /\ <<>> \in Seq(Values)
        BY <1>3, <3>2, RecordedNone DEF JInv, Closed
      <4> QED BY <4>1
    <3> QED BY <3>1, <3>2
  <2>3. Lines(buf) = b
    BY <2>2, WholeSays
  <2>4. LogNow = (Lines(disk) \o b) \o ch
    BY <1>3, <2>3 DEF LogNow
  <2>5. LogNow = Lines(disk) \o (b \o ch) /\ b \o ch \in Seq(Values)
    <3> DEFINE a == Lines(disk)
    <3>1. a \in Seq(Values) /\ b \in Seq(Values) /\ ch \in Seq(Values)
      BY <1>1, <1>2, <2>1
    <3> HIDE DEF a
    <3>2. (a \o b) \o ch = a \o (b \o ch) /\ b \o ch \in Seq(Values)
      BY ONLY <3>1, Joined
    <3> QED BY <2>4, <3>2 DEF a
  <2>6. LogNow = SubSeq(r, 1, Len(disk) \div Size) \o (b \o ch)
    BY <1>2, <2>1, <2>5
  <2> DEFINE rest == b \o ch
  <2> HIDE DEF rest
  <2>7. rest \in Seq(Values) /\ LogNow = SubSeq(r, 1, Len(disk) \div Size) \o rest
    BY <2>5, <2>6 DEF rest
  <2> QED BY <2>1, <2>7
<1>4. CASE rpc \in {"up", "closing"}
  <2>1. PICK r \in Seq(Values) : disk \o buf = Recorded(r)
    BY <1>4 DEF JInv, Serving, Holds
  <2>2. LogNow = r \o ch
    BY <1>4, <2>1, WholeSays DEF LogNow
  <2>3. SubSeq(Recorded(r), 1, Len(disk)) = disk /\ Len(disk) <= Len(Recorded(r))
    <3>1. Len(disk \o buf) = Len(disk) + Len(buf) /\ Len(buf) \in Nat /\ Len(disk) \in Nat
      BY <1>1, ConcatProperties, LenProperties
    <3> QED BY <1>1, <2>1, <3>1, FirstOfConcat
  <2>4. CutOf(disk, r)
    BY <2>3, RecordedTyped DEF CutOf
  <2> DEFINE m == Len(disk) \div Size
             rest == SubSeq(r, m + 1, Len(r))
  <2>5. m \in 0..Len(r)
    BY <1>1, <2>4, CutSays
  <2> HIDE DEF m
  <2>6. r = SubSeq(r, 1, m) \o rest /\ SubSeq(r, 1, m) \in Seq(Values) /\ rest \in Seq(Values)
    <3>1. m + 1 \in Nat \ {0} /\ Len(r) \in Nat /\ Len(r) <= Len(r)
      BY <2>5
    <3> QED BY <2>5, <3>1, SeqSplit, FirstPart, PartTyped
  <2> HIDE DEF rest
  <2> DEFINE a == SubSeq(r, 1, m)
  <2>7. LogNow = a \o (rest \o ch) /\ rest \o ch \in Seq(Values)
    <3>1. a \in Seq(Values) /\ rest \in Seq(Values) /\ ch \in Seq(Values) /\ r = a \o rest
      BY <1>1, <2>6
    <3> HIDE DEF a
    <3>2. (a \o rest) \o ch = a \o (rest \o ch) /\ rest \o ch \in Seq(Values)
      BY ONLY <3>1, Joined
    <3> QED BY <2>2, <3>1, <3>2
  <2> DEFINE more == rest \o ch
  <2> HIDE DEF more
  <2>8. more \in Seq(Values) /\ LogNow = SubSeq(r, 1, Len(disk) \div Size) \o more
    BY <2>7 DEF more, m
  <2> QED BY <2>4, <2>8
<1> QED BY <1>3, <1>4 DEF JInv, TInv, TypeOK

\* What is safe is in the log: the whole records of what is synced.
LEMMA SafeInLog ==
  ASSUME JInv
  PROVE  /\ SafeNow = synced \div Size /\ SafeNow \in Nat
         /\ SafeNow <= Len(disk) \div Size /\ Len(disk) \div Size \in Nat
         /\ Len(disk) \div Size <= Len(LogNow) /\ Len(LogNow) \in Nat
<1>1. disk \in Seq(Piece) /\ synced \in 0..Len(disk) /\ Len(disk) \in 0..Len(disk)
  BY DEF JInv, TInv, TypeOK
<1>2. PICK r, rest \in Seq(Values) :
        CutOf(disk, r) /\ LogNow = SubSeq(r, 1, Len(disk) \div Size) \o rest
  BY LogShape
<1> DEFINE m == Len(disk) \div Size
<1>3. SafeNow = synced \div Size /\ synced \div Size \in 0..Len(r) /\ synced \div Size <= m
  BY <1>1, <1>2, CutSays DEF SafeNow
<1>4. m \in 0..Len(r)
  BY <1>1, <1>2, CutSays
<1> HIDE DEF m
<1>5. SubSeq(r, 1, m) \in Seq(Values) /\ Len(SubSeq(r, 1, m)) = m
  BY <1>4, FirstPart
<1>6. Len(LogNow) = m + Len(rest) /\ Len(rest) \in Nat
  <2> DEFINE a == SubSeq(r, 1, m)
  <2>1. a \in Seq(Values) /\ Len(a) = m /\ LogNow = a \o rest
    BY <1>2, <1>5 DEF m
  <2> HIDE DEF a
  <2> QED BY <2>1, ConcatProperties, LenProperties
<1>7. SafeNow \in Nat /\ SafeNow <= m /\ m \in Nat /\ m <= Len(LogNow) /\ Len(LogNow) \in Nat
  BY <1>3, <1>4, <1>6
<1> QED BY <1>3, <1>7 DEF m

LEMMA LogStays == ASSUME JInv, LogNow' = LogNow, SafeNow' = SafeNow PROVE LogSynced
<1>1. SafeNow \in Nat /\ Len(LogNow) \in Nat /\ SafeNow <= Len(LogNow)
  BY SafeInLog
<1>2. SafeNow' \in SafeNow..Len(LogNow)
  BY <1>1
<1> QED BY <1>2 DEF LogSynced

\* The file may grow without anything of what is synced changing.
LEMMA SafeStays ==
  ASSUME JInv, disk' \in Seq(Piece), Len(disk) <= Len(disk'), SubSeq(disk', 1, Len(disk)) = disk,
         synced' = synced
  PROVE  SafeNow' = SafeNow
<1>1. disk \in Seq(Piece) /\ synced \in 0..Len(disk)
  BY DEF JInv, TInv, TypeOK
<1>2. Len(disk) \in 0..Len(disk')
  BY <1>1
<1>3. SubSeq(SubSeq(disk', 1, Len(disk)), 1, synced) = SubSeq(disk', 1, synced)
  BY <1>1, <1>2, FirstOfFirst
<1>4. SubSeq(disk', 1, synced') = SubSeq(disk, 1, synced)
  BY <1>3
<1>5. SafeNow' = Count(SubSeq(disk', 1, synced'))
  BY DEF SafeNow, Count
<1> QED BY <1>4, <1>5 DEF SafeNow

\* What the parts of the invariant look at.
JParts == Closed /\ Recovering /\ Serving /\ Rewritten /\ FirstLife
journalState == <<rpc, disk, buf, ch, dup, ram, rbuf, eof, valid, off, rw, rewriteBuf, tmp, starts>>

LEMMA PartsStay == ASSUME JParts, UNCHANGED journalState PROVE JParts'
<1>1. Closed' /\ FirstLife'
  BY DEF JParts, Closed, FirstLife, journalState, CutOf
<1>2. Recovering'
  BY DEF JParts, Recovering, Back, Scanned, EndsIn, CutOf, journalState
<1>3. Serving'
  BY DEF JParts, Serving, Holds, EndsIn, Rewriting, journalState
<1>4. Rewritten'
  BY DEF JParts, Rewritten, EndsIn, journalState
<1> QED BY <1>1, <1>2, <1>3, <1>4 DEF JParts

LEMMA LogUnchanged == ASSUME UNCHANGED journalState PROVE LogNow' = LogNow
BY DEF LogNow, Lines, Count, journalState

LEMMA EndsInOne == ASSUME NEW s \in Seq(Values), NEW v \in Values
                   PROVE  Append(s, v) \in Seq(Values) /\ EndsIn(Append(s, v), v)
<1> DEFINE a == Append(s, v)
<1>1. a \in Seq(Values) /\ Len(a) = Len(s) + 1 /\ Len(s) \in Nat /\ a[Len(s) + 1] = v
  BY AppendProperties, LenProperties
<1> HIDE DEF a
<1>2. a # <<>>
  BY <1>1
<1>3. EndsIn(a, v)
  BY <1>1, <1>2 DEF EndsIn
<1> QED BY <1>1, <1>3 DEF a

LEMMA EndsInLast == ASSUME NEW s \in Seq(Values), s # <<>>, NEW v
                    PROVE  (EndsIn(s, v) <=> s[Len(s)] = v) /\ s[Len(s)] \in Values /\ Len(s) # 0
<1>1. Len(s) \in 1..Len(s)
  BY EmptySeq
<1> QED BY <1>1 DEF EndsIn

LEMMA EndsInConcat == ASSUME NEW a \in Seq(Values), NEW s \in Seq(Values), s # <<>>, NEW v, EndsIn(s, v)
                      PROVE  a \o s # <<>> /\ EndsIn(a \o s, v)
<1> DEFINE z == a \o s
<1>1. z \in Seq(Values) /\ Len(z) = Len(a) + Len(s) /\ Len(a) \in Nat /\ Len(s) \in Nat
      /\ \A i \in 1 .. Len(a) + Len(s) : z[i] = IF i <= Len(a) THEN a[i] ELSE s[i - Len(a)]
  BY ConcatProperties, LenProperties
<1>2. Len(s) # 0 /\ s[Len(s)] = v
  BY EndsInLast
<1> HIDE DEF z
<1>3. z # <<>> /\ z[Len(z)] = v
  BY <1>1, <1>2
<1>4. EndsIn(z, v)
  BY <1>3 DEF EndsIn
<1> QED BY <1>3, <1>4 DEF z

\* The channel's first record goes to the end of what has been written.
LEMMA HeadMoves ==
  ASSUME NEW c \in Seq(Values), c # <<>>, NEW s \in Seq(Values)
  PROVE  /\ Append(s, Head(c)) \in Seq(Values) /\ Append(s, Head(c)) \o Tail(c) = s \o c
         /\ EndsIn(Append(s, Head(c)), Head(c))
         /\ Recorded(Append(s, Head(c))) = Recorded(s) \o Pieces(Head(c))
<1> DEFINE h == Head(c)
           t == Tail(c)
           one == <<h>>
<1>1. h \in Values /\ t \in Seq(Values) /\ one \o t = c
  <2>1. h \in Values /\ t \in Seq(Values) /\ Len(t) = Len(c) - 1 /\ h = c[1]
        /\ \A i \in 1..Len(t) : t[i] = c[i + 1]
    BY HeadTailProperties
  <2> HIDE DEF h, t
  <2>2. one \in Seq(Values) /\ Len(one) = 1 /\ one[1] = h
    BY <2>1
  <2> HIDE DEF one
  <2>3. one \o t \in Seq(Values) /\ Len(one \o t) = Len(c)
        /\ \A i \in 1..Len(c) : (one \o t)[i] = c[i]
    <3>1. one \o t \in Seq(Values) /\ Len(one \o t) = Len(one) + Len(t)
          /\ \A i \in 1 .. Len(one) + Len(t) : (one \o t)[i] = IF i <= Len(one) THEN one[i] ELSE t[i - Len(one)]
      <4>1. one \in Seq(Values) /\ t \in Seq(Values)
        BY <2>1, <2>2
      <4> QED BY ONLY <4>1, ConcatProperties
    <3>2. Len(t) \in Nat /\ Len(c) = Len(t) + 1
      BY <2>1
    <3>3. ASSUME NEW i \in 1..Len(c) PROVE (one \o t)[i] = c[i]
      <4>1. CASE i = 1
        BY <2>1, <2>2, <3>1, <3>2, <4>1
      <4>2. CASE i # 1
        <5>1. i - 1 \in 1..Len(t) /\ (i - 1) + 1 = i
          BY <3>2, <4>2
        <5>2. (one \o t)[i] = t[i - 1]
          BY <2>2, <3>1, <3>2, <4>2
        <5> QED BY <2>1, <5>1, <5>2
      <4> QED BY <4>1, <4>2
    <3> QED BY <2>2, <3>1, <3>2, <3>3
  <2> QED BY <2>1, <2>3, SeqEqual
<1>2. one \in Seq(Values) /\ Append(s, h) = s \o one
  BY <1>1, AppendIsConcat
<1>3. Append(s, h) \in Seq(Values) /\ EndsIn(Append(s, h), h)
  BY <1>1, EndsInOne
<1>4. Recorded(s \o one) = Recorded(s) \o Recorded(one) /\ Recorded(one) = Pieces(h)
  <2>1. Recorded(<<h>>) = Pieces(h)
    BY <1>1, RecordedOne
  <2> HIDE DEF h
  <2>2. Recorded(one) = Pieces(h)
    BY <2>1
  <2> HIDE DEF one
  <2> QED BY <1>2, <2>2, RecordedConcat
<1> HIDE DEF one, t, h
<1>5. (s \o one) \o t = s \o (one \o t)
  <2>1. s \in Seq(Values) /\ one \in Seq(Values) /\ t \in Seq(Values)
    BY <1>1, <1>2
  <2> QED BY ONLY <2>1, Joined
<1>6. Append(s, h) \o t = s \o c
  BY <1>1, <1>2, <1>5
<1>7. Recorded(Append(s, h)) = Recorded(s) \o Pieces(h)
  BY <1>2, <1>4
<1> QED BY <1>3, <1>6, <1>7 DEF h, t

LEMMA EntryLogged ==
  ASSUME JInv, RecoveryFits, ProcessEntry
  PROVE  JParts' /\ LogSynced
<1> DEFINE h == Head(ch)
<1>1. TInv /\ Closed /\ Recovering /\ Serving /\ Rewritten /\ FirstLife
  BY DEF JInv
<1>2. /\ ch # <<>> /\ dup = 0 /\ ch' = Tail(ch) /\ dup' = h
      /\ UNCHANGED <<synced, mu, stopped, rpc, reader, ram, wrote, mark, owed, rewriteBuf, tmp, rw, bounds>>
  BY DEF ProcessEntry
<1>3. /\ disk' \in Seq(Piece) /\ buf' \in Seq(Piece) /\ disk' \o buf' = disk \o buf \o Pieces(h)
      /\ Len(disk) <= Len(disk') /\ SubSeq(disk', 1, Len(disk)) = disk
      /\ Len(buf) + Size <= BufSize => disk' = disk /\ off' = off /\ buf' = buf \o Pieces(h)
      /\ h \in Values /\ ch' \in Seq(Values)
  BY <1>1, EntryWritten
<1>4. ch \in Seq(Values) /\ rpc \in {"down", "open", "reading", "up", "closing"}
      /\ disk \in Seq(Piece) /\ buf \in Seq(Piece)
  BY <1>1 DEF TInv, TypeOK
<1>5. h # 0 /\ rpc \notin {"down", "open"}
  BY <1>1, <1>2, <1>3, Constants DEF Closed, Values
<1> HIDE DEF h
<1>6. ASSUME NEW s \in Seq(Values)
      PROVE  /\ Append(s, h) \in Seq(Values) /\ Append(s, h) \o ch' = s \o ch
             /\ EndsIn(Append(s, h), h) /\ Recorded(Append(s, h)) = Recorded(s) \o Pieces(h)
  BY <1>2, <1>4, HeadMoves DEF h
<1>7. SafeNow' = SafeNow
  BY <1>2, <1>3, SafeStays
<1>8. Closed' /\ FirstLife' /\ (rw = "replace" => FALSE)
  <2>1. rpc = "reading" => disk' = disk
    BY <1>2, <1>3 DEF RecoveryFits
  <2> QED BY <1>1, <1>2, <1>5, <2>1 DEF Closed, FirstLife, Rewritten, bounds
<1>9. Rewritten'
  BY <1>1, <1>2, <1>5, <1>8 DEF Rewritten
<1>10. CASE rpc = "reading"
  <2>1. disk' = disk /\ off' = off /\ buf' = buf \o Pieces(h)
    BY <1>2, <1>3, <1>10 DEF RecoveryFits
  <2>2. PICK b \in Seq(Values) : Back(b)
    BY <1>1, <1>10 DEF Recovering
  <2>3. PICK c \in Seq(Values) :
          c \o ch' = b \o ch /\ EndsIn(c, h) /\ Recorded(c) = Recorded(b) \o Pieces(h)
    BY <1>6
  <2>4. buf = Recorded(b) /\ EndsIn(b \o ch, ram)
    BY <2>2 DEF Back
  <2>5. buf' = Recorded(c) /\ EndsIn(c \o ch', ram') /\ (dup' # 0 => EndsIn(c, dup'))
    BY <1>2, <2>1, <2>3, <2>4
  <2>6. Recovering'
    <3>1. \E d \in Seq(Values) : Back(d)'
      BY <2>3, <2>5 DEF Back, EndsIn
    <3>2. \E r \in Seq(Values) : CutOf(disk', r)
      BY <1>1, <1>10, <2>1 DEF Recovering
    <3>3. Scanned'
      BY <1>1, <1>2, <1>10, <2>1 DEF Recovering, Scanned, reader
    <3> QED BY <3>1, <3>2, <3>3 DEF Recovering, CutOf
  <2>7. Serving'
    BY <1>2, <1>10 DEF Serving
  <2>8. LogNow' = LogNow
    <3>1. LogNow = Lines(disk) \o b \o ch
      BY <1>10, <2>4, WholeSays DEF LogNow
    <3>2. LogNow' = Lines(disk') \o Lines(buf') \o ch'
      BY <1>2, <1>10 DEF LogNow, Lines, Count
    <3>3. Lines(buf') = c
      BY <2>3, <2>5, WholeSays
    <3>4. LogNow' = (Lines(disk) \o c) \o ch'
      BY <2>1, <3>2, <3>3
    <3>5. Lines(disk) \in Seq(Values)
      <4>1. PICK r \in Seq(Values) : CutOf(disk, r)
        BY <1>1, <1>10 DEF Recovering
      <4> QED BY <1>4, <4>1, CutLines
    <3> DEFINE a == Lines(disk)
               y == ch'
               x == ch
    <3>6. b \o x = c \o y
      BY <2>3
    <3>7. LogNow = (a \o b) \o x /\ LogNow' = (a \o c) \o y
      BY <3>1, <3>4
    <3>8. a \in Seq(Values) /\ b \in Seq(Values) /\ x \in Seq(Values)
      BY <1>4, <3>5
    <3>9. a \in Seq(Values) /\ c \in Seq(Values) /\ y \in Seq(Values)
      BY <1>3, <3>5
    <3> HIDE DEF a, x, y
    <3>10. (a \o b) \o x = a \o (b \o x)
      BY ONLY <3>8, JoinValues, ZenonT(40)
    <3>11. (a \o c) \o y = a \o (c \o y)
      BY ONLY <3>9, JoinValues, ZenonT(40)
    <3>12. a \o (b \o x) = a \o (c \o y)
      BY <3>6
    <3> QED BY ONLY <3>7, <3>10, <3>11, <3>12
  <2> QED BY <1>7, <1>8, <1>9, <2>6, <2>7, <2>8, LogStays DEF JParts
<1>11. CASE rpc \in {"up", "closing"}
  <2>1. PICK r \in Seq(Values) : Holds(r)
    BY <1>1, <1>11 DEF Serving
  <2>2. PICK c \in Seq(Values) :
          c \o ch' = r \o ch /\ EndsIn(c, h) /\ Recorded(c) = Recorded(r) \o Pieces(h)
    BY <1>6
  <2>3. disk' \o buf' = Recorded(c)
    BY <1>3, <2>1, <2>2 DEF Holds
  <2>4. rpc' = "up" => EndsIn(c \o ch', ram') /\ EndsIn(c, dup') /\ dup' # 0
    BY <1>2, <1>5, <2>1, <2>2 DEF Holds
  <2>5. Serving'
    <3>1. Holds(c)'
      BY <2>3, <2>4 DEF Holds, EndsIn, Rewriting
    <3> QED BY <2>2, <3>1 DEF Serving
  <2>6. Recovering'
    BY <1>2, <1>11 DEF Recovering
  <2>7. LogNow' = LogNow
    <3>1. LogNow = r \o ch
      BY <1>11, <2>1, WholeSays DEF LogNow, Holds
    <3>2. LogNow' = Lines(disk' \o buf') \o ch'
      BY <1>2, <1>11 DEF LogNow, Lines, Count
    <3> QED BY <2>2, <2>3, <3>1, <3>2, WholeSays
  <2> QED BY <1>7, <1>8, <1>9, <2>5, <2>6, <2>7, LogStays DEF JParts
<1> QED BY <1>4, <1>5, <1>10, <1>11

LEMMA DuplicateLogged == ASSUME JInv, Duplicate PROVE JParts' /\ LogSynced
<1>1. TInv /\ Closed /\ Recovering /\ Serving /\ Rewritten /\ FirstLife
  BY DEF JInv
<1>2. /\ dup # 0 /\ dup' = 0 /\ rewriteBuf' = IF Rewriting THEN Append(rewriteBuf, dup) ELSE rewriteBuf
      /\ UNCHANGED <<disk, synced, off, ch, buf, rpc, rbuf, eof, valid, ram, tmp, rw, starts>>
  BY DEF Duplicate, file, writer, reader, bounds
<1>3. dup \in Values /\ rewriteBuf \in Seq(Values)
  BY <1>1, <1>2 DEF TInv, TypeOK
<1>4. Rewriting => rewriteBuf' # <<>> /\ rewriteBuf'[Len(rewriteBuf')] = dup
  <2>1. Append(rewriteBuf, dup) # <<>> /\ Append(rewriteBuf, dup)[Len(Append(rewriteBuf, dup))] = dup
    BY <1>3, AppendProperties
  <2> QED BY <1>2, <2>1
<1>5. Closed' /\ FirstLife'
  BY <1>1, <1>2 DEF Closed, FirstLife, CutOf
<1>6. Recovering'
  <2>1. SUFFICES ASSUME rpc = "reading" PROVE Recovering'
    BY <1>2 DEF Recovering
  <2>2. PICK b \in Seq(Values) : Back(b)
    BY <1>1, <2>1 DEF Recovering
  <2>3. Back(b)'
    BY <1>2, <2>2 DEF Back, EndsIn
  <2>4. Scanned' /\ \E r \in Seq(Values) : CutOf(disk, r)'
    BY <1>1, <1>2, <2>1 DEF Recovering, Scanned, CutOf
  <2> QED BY <2>3, <2>4 DEF Recovering
<1>7. Serving'
  <2>1. SUFFICES ASSUME rpc \in {"up", "closing"} PROVE Serving'
    BY <1>2 DEF Serving
  <2>2. PICK r \in Seq(Values) : Holds(r)
    BY <1>1, <2>1 DEF Serving
  <2>3. rpc = "up" /\ Rewriting => EndsIn(r, dup)
    BY <1>2, <2>2 DEF Holds
  <2>4. rpc = "up" /\ Rewriting => EndsIn(r, rewriteBuf'[Len(rewriteBuf')])
    BY <1>4, <2>3
  <2>5. Holds(r)'
    BY <1>2, <2>2, <2>4 DEF Holds, EndsIn, Rewriting
  <2> QED BY <2>5 DEF Serving
<1>8. Rewritten'
  BY <1>1, <1>2, <1>4 DEF Rewritten, Rewriting, EndsIn
<1>9. LogNow' = LogNow /\ SafeNow' = SafeNow
  BY <1>2 DEF LogNow, SafeNow, Lines, Count
<1> QED BY <1>5, <1>6, <1>7, <1>8, <1>9, LogStays DEF JParts

LEMMA FlushLogged ==
  ASSUME JInv, NEW next, FlushBuf(next), rpc \notin {"down", "reading"}
  PROVE  JParts' /\ LogSynced
<1>1. TInv /\ Closed /\ Recovering /\ Serving /\ Rewritten /\ FirstLife
  BY DEF JInv
<1>2. /\ buf' = <<>>
      /\ UNCHANGED <<synced, ch, rpc, rbuf, eof, valid, ram, dup, rewriteBuf, tmp, rw, starts>>
  BY DEF FlushBuf, reader, rewrite, bounds
<1>3. disk' = disk \o buf /\ disk' \in Seq(Piece) /\ Len(disk) <= Len(disk')
  BY <1>1, BufferWritten DEF FlushBuf
<1>4. disk \in Seq(Piece) /\ buf \in Seq(Piece) /\ rpc \in {"open", "up", "closing"}
  BY <1>1 DEF TInv, TypeOK
<1>5. SubSeq(disk', 1, Len(disk)) = disk /\ disk' \o buf' = disk \o buf
  BY <1>2, <1>3, <1>4, FirstOfConcat, ConcatEmptySeq
<1>6. rpc = "open" => disk' = disk /\ buf' = buf
  BY <1>1, <1>2, <1>3, <1>4, ConcatEmptySeq DEF Closed
<1>7. Closed' /\ FirstLife'
  BY <1>1, <1>2, <1>4, <1>6 DEF Closed, FirstLife, CutOf
<1>8. Recovering'
  BY <1>2, <1>4 DEF Recovering
<1>9. Rewritten'
  BY <1>1, <1>2 DEF Rewritten, EndsIn
<1>10. Serving'
  BY <1>1, <1>2, <1>5 DEF Serving, Holds, EndsIn, Rewriting
<1>11. LogNow' = LogNow
  <2>1. CASE rpc = "open"
    BY <1>2, <1>6, <2>1 DEF LogNow, Lines, Count
  <2>2. CASE rpc \in {"up", "closing"}
    <3>1. LogNow = Lines(disk \o buf) \o ch
      BY <2>2 DEF LogNow
    <3>2. LogNow' = Lines(disk' \o buf') \o ch'
      BY <1>2, <2>2 DEF LogNow, Lines, Count
    <3> QED BY <1>2, <1>5, <3>1, <3>2
  <2> QED BY <1>4, <2>1, <2>2
<1>12. SafeNow' = SafeNow
  BY <1>2, <1>3, <1>5, SafeStays
<1> QED BY <1>7, <1>8, <1>9, <1>10, <1>11, <1>12, LogStays DEF JParts

LEMMA SyncLogged == ASSUME JInv, SyncFile PROVE JParts' /\ LogSynced /\ SafeNow' = Len(disk) \div Size
<1>1. synced' = Len(disk) /\ UNCHANGED journalState
  BY DEF SyncFile, reader, rewrite, bounds, journalState
<1>2. JParts' /\ LogNow' = LogNow
  BY <1>1, PartsStay, LogUnchanged DEF JInv, JParts
<1>3. disk \in Seq(Piece) /\ disk' = disk
  BY <1>1 DEF JInv, TInv, TypeOK, journalState
<1>4. PICK r, rest \in Seq(Values) :
        CutOf(disk, r) /\ LogNow = SubSeq(r, 1, Len(disk) \div Size) \o rest
  BY LogShape
<1>5. SafeNow' = Len(disk) \div Size
  <2>1. SafeNow' = Count(SubSeq(disk', 1, synced'))
    BY DEF SafeNow, Count
  <2>2. SubSeq(disk', 1, synced') = disk
    BY <1>1, <1>3, SubSeqFull
  <2> QED BY <1>3, <1>4, <2>1, <2>2, CutLines
<1>6. SafeNow' \in SafeNow..Len(LogNow)
  BY <1>5, SafeInLog
<1> QED BY <1>2, <1>5, <1>6 DEF LogSynced

LEMMA WaitLogged == ASSUME JInv, UNCHANGED journalState, synced' = synced
                    PROVE  JParts' /\ LogSynced
<1>1. JParts' /\ LogNow' = LogNow
  BY PartsStay, LogUnchanged DEF JInv, JParts
<1>2. SafeNow' = SafeNow
  BY DEF SafeNow, Count, journalState
<1> QED BY <1>1, <1>2, LogStays

LEMMA WriterLogged == ASSUME JInv, RecoveryFits, BackgroundWriter
                      PROVE  JInv' /\ LogSynced
<1>1. TInv' /\ TInv /\ Stopping /\ Locks
  BY WriterTyped DEF JInv, TInv
<1>2. ASSUME UNCHANGED <<file, ch, buf, rpc, reader, ram, rewrite, bounds>>
      PROVE  JParts' /\ LogSynced
  <2>1. UNCHANGED journalState /\ synced' = synced
    BY <1>2 DEF journalState, file, reader, rewrite, bounds
  <2> QED BY <2>1, WaitLogged
<1>3. rpc' = rpc
  BY DEF BackgroundWriter, Duplicate, Receive, Drain, TickerFires, TickFlush, TickSync, Stop,
         FinalDrain, FinalFlush, FinalSync, ProcessEntry, FlushBuf, SyncFile
<1>4. CASE Duplicate
  <2>1. wpc' = wpc
    BY <1>4 DEF Duplicate, writer
  <2> QED BY <1>1, <1>3, <1>4, <2>1, DuplicateLogged DEF JInv, JParts, Stopping
<1>5. CASE ProcessEntry /\ (wpc' = wpc \/ wpc' = "drain")
  BY <1>1, <1>3, <1>5, EntryLogged DEF JInv, JParts, Stopping
<1>6. CASE TickerFires \/ Stop \/ (Drain /\ wpc' = "select")
  <2>1. CASE TickerFires
    BY <1>1, <1>2, <1>3, <2>1 DEF TickerFires, JInv, JParts, Stopping
  <2>2. CASE Stop
    BY <1>1, <1>2, <1>3, <2>2 DEF Stop, JInv, JParts, Stopping, Locks
  <2>3. CASE Drain /\ wpc' = "select"
    <3>1. ~ (wpc' = wpc)
      BY <2>3 DEF Drain
    <3>2. UNCHANGED <<file, ch, buf, rpc, reader, ram, rewrite, bounds>>
      BY <2>3, <3>1 DEF Drain
    <3> QED BY <1>1, <1>2, <1>3, <2>3, <3>2 DEF JInv, JParts, Stopping
  <2> QED BY <1>6, <2>1, <2>2, <2>3
<1>7. CASE TickFlush
  <2>1. FlushBuf("sync") /\ wpc' = "sync" /\ rpc \notin {"down", "reading"}
    BY <1>1, <1>7 DEF TickFlush, FlushBuf, Locks
  <2> QED BY <1>1, <1>3, <2>1, FlushLogged DEF JInv, JParts, Stopping
<1>8. CASE FinalFlush
  <2>1. FlushBuf("finalSync") /\ wpc' = "finalSync" /\ rpc = "closing"
    BY <1>1, <1>8 DEF FinalFlush, FlushBuf, Locks, Stopping
  <2>2. rpc \notin {"down", "reading"}
    BY <2>1
  <2> QED BY <1>1, <1>3, <2>1, <2>2, FlushLogged DEF JInv, JParts, Stopping
<1>9. CASE TickSync
  BY <1>1, <1>3, <1>9, SyncLogged DEF TickSync, JInv, JParts, Stopping
<1>10. CASE FinalSync
  <2>1. wpc' = "done" /\ rpc \in {"closing", "down"} /\ SyncFile
    BY <1>1, <1>10 DEF FinalSync, Stopping
  <2> QED BY <1>1, <1>3, <2>1, SyncLogged DEF JInv, JParts, Stopping
<1>11. Drain => (ProcessEntry /\ wpc' = wpc) \/ wpc' = "select"
  BY DEF Drain
<1>12. (Receive \/ FinalDrain) => ProcessEntry /\ (wpc' = wpc \/ wpc' = "drain")
  BY DEF Receive, FinalDrain
<1> QED BY <1>4, <1>5, <1>6, <1>7, <1>8, <1>9, <1>10, <1>11, <1>12 DEF BackgroundWriter

LEMMA LessFactor == ASSUME NEW s \in Nat \ {0}, NEW m \in Nat, NEW n \in Nat, NEW i \in Nat \ {0},
                           s * m + i <= s * n
                    PROVE  m + 1 \in 1..n
<1>1. s * m \in Nat /\ s * n \in Nat
  OBVIOUS
<1>2. ASSUME m >= n PROVE FALSE
  <2>1. s * m >= s * n
    BY <1>2
  <2> QED BY <1>1, <2>1
<1> QED BY <1>2

LEMMA Slice == ASSUME NEW S, NEW s \in Seq(S), NEW m \in Nat, NEW n \in Nat, m <= n, n <= Len(s)
               PROVE  /\ SubSeq(s, m + 1, n) \in Seq(S) /\ Len(SubSeq(s, m + 1, n)) = n - m
                      /\ \A i \in 1..(n - m) : SubSeq(s, m + 1, n)[i] = s[m + i]
<1> DEFINE x == SubSeq(s, m + 1, n)
<1>1. m + 1 \in Int /\ n \in Int /\ \A i \in m+1 .. n : s[i] \in S
  <2> SUFFICES ASSUME NEW i \in m+1 .. n PROVE s[i] \in S
    OBVIOUS
  <2>1. i \in 1..Len(s)
    OBVIOUS
  <2> QED BY <2>1, ElementOfSeq
<1>2. /\ x \in Seq(S) /\ Len(x) = IF m + 1 <= n THEN n - (m + 1) + 1 ELSE 0
      /\ \A i \in 1 .. n - (m + 1) + 1 : x[i] = s[m + 1 + i - 1]
  BY <1>1, SubSeqProperties
<1> HIDE DEF x
<1>3. n - (m + 1) + 1 = n - m /\ (m + 1 <= n \/ n - m = 0)
      /\ \A i \in 1..(n - m) : m + 1 + i - 1 = m + i
  OBVIOUS
<1>4. x \in Seq(S) /\ Len(x) = n - m /\ \A i \in 1..(n - m) : x[i] = s[m + i]
  BY <1>2, <1>3
<1> QED BY <1>4 DEF x

\* What the Scanner holds: the pieces of the file from valid to off.
LEMMA InScanner ==
  ASSUME JInv, rpc = "reading"
  PROVE  \E m \in Nat :
           /\ valid = Size * m /\ valid \in Nat /\ valid + Len(rbuf) = off
           /\ off <= Len(disk) /\ off \in Nat /\ Len(rbuf) \in Nat /\ Len(disk) \in Nat
           /\ disk \in Seq(Piece) /\ rbuf \in Seq(Piece)
           /\ \A i \in 1..Len(rbuf) : rbuf[i] = disk[valid + i]
<1>1. Scanned /\ disk \in Seq(Piece) /\ rbuf \in Seq(Piece) /\ off \in 0..Len(disk) /\ valid \in Nat
  BY DEF JInv, Recovering, TInv, TypeOK
<1>2. PICK m \in Nat : valid = Size * m
  BY <1>1 DEF Scanned
<1>3. off = valid + Len(rbuf) /\ rbuf = SubSeq(disk, valid + 1, off)
  BY <1>1 DEF Scanned
<1>4. off \in Nat /\ Len(rbuf) \in Nat /\ Len(disk) \in Nat /\ off <= Len(disk) /\ valid <= off
      /\ off - valid = Len(rbuf)
  BY <1>1, <1>3
<1>5. \A i \in 1..(off - valid) : SubSeq(disk, valid + 1, off)[i] = disk[valid + i]
  BY <1>1, <1>4, Slice
<1>6. \A i \in 1..Len(rbuf) : rbuf[i] = disk[valid + i]
  BY <1>3, <1>4, <1>5
<1> QED BY <1>1, <1>2, <1>3, <1>4, <1>6

\* In the Scanner's buffer comes a record first, whole or cut.
LEMMA RecordFirst ==
  ASSUME JInv, rpc = "reading", NEW r \in Seq(Values), CutOf(disk, r),
         NEW i \in 1..Len(rbuf), i <= Size
  PROVE  \E v \in Values : rbuf[i] = [val |-> v, n |-> i] /\ v = r[(valid \div Size) + 1]
<1>1. PICK m \in Nat : /\ valid = Size * m /\ valid \in Nat /\ valid + Len(rbuf) = off
                       /\ off <= Len(disk) /\ off \in Nat /\ Len(rbuf) \in Nat /\ Len(disk) \in Nat
                       /\ disk \in Seq(Piece) /\ rbuf \in Seq(Piece)
                       /\ \A k \in 1..Len(rbuf) : rbuf[k] = disk[valid + k]
  BY InScanner
<1>2. /\ Size \in Nat \ {0} /\ Len(r) \in Nat /\ Size * Len(r) \in Nat /\ i \in 1..Size
      /\ Len(disk) <= Size * Len(r) /\ disk = SubSeq(Recorded(r), 1, Len(disk))
  <2>1. Size \in Nat \ {0} /\ Len(r) \in Nat
    BY Constants
  <2>2. Size * Len(r) \in Nat /\ i \in 1..Size
    BY <1>1, <2>1
  <2> QED BY <2>1, <2>2 DEF CutOf
<1>3. Size * m + i <= Size * Len(r) /\ valid + i \in 1..Len(disk)
  BY <1>1, <1>2
<1>4. m + 1 \in 1..Len(r)
  <2>1. i \in Nat \ {0}
    BY <1>2
  <2> QED BY <1>2, <1>3, <2>1, LessFactor
<1>5. Recorded(r)[Place(m + 1, i)] = [val |-> r[m + 1], n |-> i] /\ r[m + 1] \in Values
  BY <1>2, <1>4, RecordedTyped
<1>6. Place(m + 1, i) = valid + i
  <2>1. m + 1 - 1 = m
    BY <1>1
  <2> QED BY <1>1, <2>1 DEF Place
<1>7. disk[valid + i] = Recorded(r)[valid + i]
  <2>1. Recorded(r) \in Seq(Piece) /\ Len(Recorded(r)) = Size * Len(r)
    BY RecordedTyped
  <2>2. Len(disk) \in 0..Len(Recorded(r))
    BY <1>1, <1>2, <2>1
  <2>3. \A k \in 1..Len(disk) : SubSeq(Recorded(r), 1, Len(disk))[k] = Recorded(r)[k]
    BY <2>1, <2>2, FirstPart
  <2> QED BY <1>2, <1>3, <2>3
<1>8. valid \div Size = m
  <2>1. (Size * m + 0) \div Size = m
    <3>1. 0 \in 0..Size-1 BY <1>2
    <3> QED BY <1>2, <3>1, DivisionIs
  <2> QED BY <1>1, <2>1
<1>9. rbuf[i] = disk[valid + i]
  BY <1>1
<1>10. rbuf[i] = [val |-> r[m + 1], n |-> i]
  BY ONLY <1>5, <1>6, <1>7, <1>9
<1> QED BY <1>5, <1>8, <1>10

\* A line that is no record is what a crash has left of the last one.
LEMMA PartIsLast ==
  ASSUME JInv, rpc = "reading", HasLine, \A v \in Values : ~ThisLine(v, Line)
  PROVE  Len(disk) = valid + Len(rbuf) /\ Len(rbuf) < Size
<1>1. PICK m \in Nat : /\ valid = Size * m /\ valid \in Nat /\ valid + Len(rbuf) = off
                       /\ off <= Len(disk) /\ off \in Nat /\ Len(rbuf) \in Nat /\ Len(disk) \in Nat
                       /\ disk \in Seq(Piece) /\ rbuf \in Seq(Piece)
                       /\ \A k \in 1..Len(rbuf) : rbuf[k] = disk[valid + k]
  BY InScanner
<1>2. PICK r \in Seq(Values) : CutOf(disk, r)
  BY DEF JInv, Recovering
<1>3. Size \in Nat \ {0}
  BY Constants
<1>4. ASSUME NEW i \in 1..Len(rbuf), i <= Size
      PROVE  \E v \in Values : rbuf[i] = [val |-> v, n |-> i] /\ v = r[(valid \div Size) + 1]
  BY <1>2, <1>4, RecordFirst
<1>5. ASSUME Len(rbuf) >= Size PROVE FALSE
  <2> DEFINE v == r[(valid \div Size) + 1]
  <2>1. \A i \in 1..Size : i \in 1..Len(rbuf) /\ i <= Size
    BY <1>1, <1>3, <1>5
  <2>2. v \in Values /\ \A i \in 1..Size : rbuf[i] = [val |-> v, n |-> i]
    <3>1. \A i \in 1..Size : \E u \in Values : rbuf[i] = [val |-> u, n |-> i] /\ u = v
      BY <1>4, <2>1
    <3>2. Size \in 1..Size
      BY <1>3
    <3> HIDE DEF v
    <3> QED BY <3>1, <3>2
  <2> HIDE DEF v
  <2>3. Size \in LineEnds /\ \A i \in LineEnds : Size <= i
    <3>1. Size \in LineEnds
      <4>1. Size \in 1..Size
        BY <1>3
      <4>2. Size \in 1..Len(rbuf) /\ rbuf[Size] = [val |-> v, n |-> Size]
        BY <2>1, <2>2, <4>1
      <4> QED BY <1>1, <4>2 DEF LineEnds, EndsLine
    <3>2. ASSUME NEW i \in LineEnds PROVE Size <= i
      <4>1. i \in 1..Len(rbuf) /\ rbuf[i].n = Size
        BY <1>1 DEF LineEnds, EndsLine
      <4>2. SUFFICES ASSUME i < Size PROVE FALSE
        BY <1>1, <1>3, <4>1
      <4>3. i \in 1..Size
        BY <1>1, <1>3, <4>1, <4>2
      <4>4. rbuf[i] = [val |-> v, n |-> i]
        BY <2>2, <4>3
      <4>5. i = Size
        BY <4>1, <4>4
      <4> QED BY <1>3, <4>2, <4>5
    <3> QED BY <3>1, <3>2
  <2>4. LineLen = Size
    <3>1. LineEnds \in SUBSET Nat
      BY <1>1 DEF LineEnds
    <3>2. LineEnds # {} /\ Min(LineEnds) \in LineEnds /\ \A i \in LineEnds : Min(LineEnds) <= i
      BY <2>3, <3>1, Least
    <3>3. Min(LineEnds) \in Nat /\ Min(LineEnds) <= Size /\ Size <= Min(LineEnds)
      BY <2>3, <3>1, <3>2
    <3>4. Min(LineEnds) = Size
      BY <1>3, <3>3
    <3> QED BY <3>2, <3>4 DEF LineLen
  <2>5. Line \in Seq(Piece) /\ Len(Line) = Size /\ \A i \in 1..Size : Line[i] = rbuf[i]
    <3>1. Size \in 0..Len(rbuf)
      BY <1>1, <1>3, <1>5
    <3> QED BY <1>1, <2>4, <3>1, FirstPart DEF Line
  <2>6. Line = Pieces(v)
    <3>1. Pieces(v) \in Seq(Piece) /\ Len(Pieces(v)) = Size
          /\ \A i \in 1..Size : Pieces(v)[i] = [val |-> v, n |-> i]
      BY <2>2, PiecesTyped
    <3>2. \A i \in 1..Size : Line[i] = Pieces(v)[i]
      BY <2>2, <2>5, <3>1
    <3> DEFINE p == Pieces(v)
    <3> HIDE DEF p
    <3>3. Line \in Seq(Piece) /\ p \in Seq(Piece) /\ Len(Line) = Len(p)
          /\ \A i \in 1..Len(Line) : Line[i] = p[i]
      BY <2>5, <3>1, <3>2 DEF p
    <3>4. Line = p
      BY ONLY <3>3, SeqEqual
    <3> QED BY <3>4 DEF p
  <2> QED BY <2>2, <2>6 DEF ThisLine
<1>6. Len(rbuf) < Size
  BY <1>1, <1>3, <1>5
<1>7. LineEnds = {}
  <2>1. SUFFICES ASSUME NEW i \in LineEnds PROVE FALSE
    OBVIOUS
  <2>2. i \in 1..Len(rbuf) /\ rbuf[i].n = Size
    BY <1>1 DEF LineEnds, EndsLine
  <2>3. i < Size /\ i <= Size
    <3>1. i \in Nat /\ i <= Len(rbuf) /\ Len(rbuf) \in Nat /\ Size \in Nat
      BY <1>1, <1>3, <2>2
    <3> QED BY ONLY <1>6, <3>1
  <2>4. \E v \in Values : rbuf[i] = [val |-> v, n |-> i]
    BY <1>4, <2>2, <2>3
  <2> QED BY <2>2, <2>3, <2>4
<1>8. eof
  BY <1>7 DEF HasLine
<1>9. off = Len(disk)
  BY <1>8 DEF JInv, Recovering, Scanned
<1> QED BY <1>1, <1>6, <1>9

LEMMA AppendConcat == ASSUME NEW a \in Seq(Values), NEW c \in Seq(Values), NEW v \in Values
                      PROVE  a \o Append(c, v) = Append(a \o c, v)
<1> DEFINE one == <<v>>
<1>1. one \in Seq(Values)
  OBVIOUS
<1>2. Append(c, v) = c \o one /\ a \o c \in Seq(Values)
  BY AppendIsConcat, ConcatProperties
<1>3. Append(a \o c, v) = (a \o c) \o one
  BY <1>2, AppendIsConcat
<1> HIDE DEF one
<1>4. (a \o c) \o one = a \o (c \o one)
  BY ONLY a \in Seq(Values), c \in Seq(Values), <1>1, ConcatAssociative
<1> QED BY <1>2, <1>3, <1>4

LEMMA StartLogged == ASSUME JInv, Start PROVE JInv' /\ LogSynced
<1>1. TInv /\ Locks /\ Closed /\ Rewritten /\ FirstLife /\ TInv'
  BY OthersTyped DEF JInv, TInv
<1>2. /\ rpc = "down" /\ rpc' = "open" /\ wpc' = "select" /\ ram' = 0 /\ starts' = starts + 1
      /\ UNCHANGED <<disk, synced, ch, buf, dup, rewriteBuf, tmp, rw>>
  BY DEF Start, rewrite
<1>3. Closed'
  BY <1>1, <1>2 DEF Closed, CutOf
<1>4. FirstLife'
  <2>1. starts \in Nat /\ (starts = 0 => disk = <<>>)
    BY <1>1, Constants DEF TInv, TypeOK, FirstLife
  <2>2. starts' # 0 /\ (starts' <= 1 => starts = 0)
    BY <1>2, <2>1
  <2> QED BY <1>2, <2>1, <2>2 DEF FirstLife
<1>5. Recovering' /\ Serving' /\ Stopping'
  BY <1>2 DEF Recovering, Serving, Stopping
<1>6. Rewritten'
  BY <1>1, <1>2 DEF Rewritten, Locks
<1>7. LogNow' = LogNow /\ SafeNow' = SafeNow
  BY <1>2 DEF LogNow, SafeNow, Lines, Count
<1> QED BY <1>1, <1>3, <1>4, <1>5, <1>6, <1>7, LogStays DEF JInv

LEMMA ReadLockLogged == ASSUME JInv, ReadLock PROVE JInv' /\ LogSynced
<1>1. TInv /\ Locks /\ Closed /\ Rewritten /\ FirstLife /\ Stopping /\ TInv'
  BY ReadingTyped DEF JInv, TInv, Reading
<1>2. /\ rpc = "open" /\ rpc' = "reading" /\ off' = 0 /\ rbuf' = <<>> /\ eof' = FALSE /\ valid' = 0
      /\ UNCHANGED <<disk, synced, ch, buf, wpc, ram, dup, rewriteBuf, tmp, rw, starts>>
  BY DEF ReadLock, writer, rewrite, bounds
<1>3. /\ buf = <<>> /\ ch = <<>> /\ dup = 0 /\ ram = 0 /\ \E r \in Seq(Values) : CutOf(disk, r)
  BY <1>1, <1>2 DEF Closed
<1>4. Closed' /\ FirstLife' /\ Serving'
  BY <1>1, <1>2 DEF Closed, FirstLife, Serving
<1>5. Rewritten' /\ Stopping'
  BY <1>1, <1>2 DEF Rewritten, Locks, Stopping
<1>6. Recovering'
  <2>1. <<>> \in Seq(Values) /\ <<>> \o ch' = <<>>
    BY <1>2, <1>3
  <2>2. Back(<<>>)'
    BY <1>2, <1>3, <2>1, RecordedNone DEF Back, EndsIn
  <2>3. Scanned'
    <3>1. 0 \in Nat /\ 0 = Size * 0 /\ Len(<<>>) = 0
      BY Constants
    <3>2. SubSeq(disk', 0 + 1, 0) = <<>>
      BY SubSeqEmpty
    <3> QED BY <1>2, <1>3, <3>1, <3>2 DEF Scanned
  <2>4. \E r \in Seq(Values) : CutOf(disk, r)'
    BY <1>2, <1>3 DEF CutOf
  <2> QED BY <2>1, <2>2, <2>3, <2>4 DEF Recovering
<1>7. LogNow' = LogNow /\ SafeNow' = SafeNow
  BY <1>2 DEF LogNow, SafeNow, Lines, Count
<1> QED BY <1>1, <1>4, <1>5, <1>6, <1>7, LogStays DEF JInv

LEMMA FillLogged == ASSUME JInv, Fill PROVE JInv' /\ LogSynced
<1>1. TInv /\ Locks /\ Closed /\ Recovering /\ Rewritten /\ FirstLife /\ Stopping /\ TInv'
  BY ReadingTyped DEF JInv, TInv, Reading
<1>2. /\ rpc = "reading" /\ rpc' = "reading" /\ ~HasLine
      /\ UNCHANGED <<disk, synced, ch, buf, wpc, valid, ram, dup, rewriteBuf, tmp, rw, starts>>
  BY DEF Fill, writer, rewrite, bounds
<1>3. PICK n \in 0..(Len(disk) - off) :
        /\ rbuf' = rbuf \o SubSeq(disk, off + 1, off + n) /\ off' = off + n
        /\ eof' = (n = 0) /\ (n = 0 <=> off = Len(disk))
  BY <1>1, SomethingRead
<1>4. PICK m \in Nat : /\ valid = Size * m /\ valid \in Nat /\ valid + Len(rbuf) = off
                       /\ off <= Len(disk) /\ off \in Nat /\ Len(rbuf) \in Nat /\ Len(disk) \in Nat
                       /\ disk \in Seq(Piece) /\ rbuf \in Seq(Piece)
  BY <1>2, InScanner
<1>5. rbuf' = SubSeq(disk, valid + 1, off + n)
  <2>1. rbuf = SubSeq(disk, valid + 1, off)
    BY <1>1, <1>2 DEF Recovering, Scanned
  <2>2. valid + 1 \in 1..Len(disk)+1 /\ off \in (valid + 1) - 1 .. Len(disk) /\ off + n \in off..Len(disk)
    BY <1>3, <1>4
  <2>3. SubSeq(disk, valid + 1, off) \o SubSeq(disk, off + 1, off + n) = SubSeq(disk, valid + 1, off + n)
    BY <1>4, <2>2, ConcatAdjacentSubSeq
  <2> QED BY <1>3, <2>1, <2>3
<1>6. Len(rbuf') = Len(rbuf) + n
  <2>1. valid \in Nat /\ off + n \in Nat /\ valid <= off + n /\ off + n <= Len(disk)
    BY <1>3, <1>4
  <2>2. Len(SubSeq(disk, valid + 1, off + n)) = (off + n) - valid
    <3> DEFINE z == off + n
    <3>1. disk \in Seq(Piece) /\ valid \in Nat /\ z \in Nat /\ valid <= z /\ z <= Len(disk)
      BY <1>4, <2>1
    <3> HIDE DEF z
    <3>2. /\ SubSeq(disk, valid + 1, z) \in Seq(Piece) /\ Len(SubSeq(disk, valid + 1, z)) = z - valid
          /\ \A i \in 1..(z - valid) : SubSeq(disk, valid + 1, z)[i] = disk[valid + i]
      BY ONLY <3>1, Slice
    <3>3. Len(SubSeq(disk, valid + 1, z)) = z - valid
      BY <3>2
    <3> QED BY <3>3 DEF z
  <2>3. (off + n) - valid = Len(rbuf) + n
    <3>1. valid \in Int /\ Len(rbuf) \in Int /\ valid + Len(rbuf) = off /\ n \in Int
      BY <1>3, <1>4
    <3> QED BY ONLY <3>1
  <2> QED BY <1>5, <2>2, <2>3
<1>7. Scanned'
  <2>0. off' = valid' + Len(rbuf')
    <3>1. valid \in Int /\ Len(rbuf) \in Int /\ valid + Len(rbuf) = off /\ n \in Int
          /\ valid' = valid /\ off' = off + n /\ Len(rbuf') = Len(rbuf) + n
      BY <1>2, <1>3, <1>4, <1>6
    <3> QED BY ONLY <3>1
  <2>1. rbuf' = SubSeq(disk', valid' + 1, off')
    BY <1>2, <1>3, <1>5
  <2>2. eof' => off' = Len(disk')
    <3>1. eof' => n = 0
      BY <1>3, Zenon
    <3>2. n = 0 => off' = Len(disk')
      BY <1>2, <1>3, <1>4
    <3> QED BY <3>1, <3>2
  <2>3. (valid' = 0 <=> ram' = 0) /\ valid' = Size * m
    BY <1>1, <1>2, <1>4 DEF Recovering, Scanned
  <2> QED BY <2>0, <2>1, <2>2, <2>3 DEF Scanned
<1>8. Recovering'
  <2>1. \E b \in Seq(Values) : Back(b)'
    BY <1>1, <1>2 DEF Recovering, Back, EndsIn
  <2>2. \E r \in Seq(Values) : CutOf(disk, r)'
    BY <1>1, <1>2 DEF Recovering, CutOf
  <2> QED BY <1>7, <2>1, <2>2 DEF Recovering
<1>9. Closed' /\ FirstLife' /\ Serving' /\ Rewritten' /\ Stopping'
  BY <1>1, <1>2 DEF Closed, FirstLife, Serving, Rewritten, Locks, Stopping
<1>10. LogNow' = LogNow /\ SafeNow' = SafeNow
  BY <1>2 DEF LogNow, SafeNow, Lines, Count
<1> QED BY <1>1, <1>8, <1>9, <1>10, LogStays DEF JInv

\* A line that is replayed is a whole record, unless the file ends without a newline.
LEMMA ReplayWhole ==
  ASSUME JInv, Steady, Replay
  PROVE  LineLen = Size /\ ram' \in Values /\ Line = Pieces(ram') /\ starts > 1
<1>1. rpc = "reading" /\ HasLine /\ TInv /\ FirstLife
  BY DEF Replay, JInv
<1>2. ram' \in Values /\ ThisLine(ram', Line)
  BY DEF Replay
<1>3. PICK m \in Nat : /\ valid = Size * m /\ valid \in Nat /\ valid + Len(rbuf) = off
                       /\ off <= Len(disk) /\ off \in Nat /\ Len(rbuf) \in Nat /\ Len(disk) \in Nat
                       /\ disk \in Seq(Piece) /\ rbuf \in Seq(Piece)
                       /\ \A i \in 1..Len(rbuf) : rbuf[i] = disk[valid + i]
  BY <1>1, InScanner
<1>4. LineLen \in 1..Len(rbuf)
  BY <1>1, <1>3, LineIsFirstPart
<1>5. starts \in Nat
  BY <1>1 DEF TInv, TypeOK
<1>6. starts > 1
  <2>1. SUFFICES ASSUME starts <= 1 PROVE FALSE
    BY <1>5
  <2>2. Len(disk) = 0
    BY <1>1, <2>1 DEF FirstLife
  <2> QED BY <1>3, <1>4, <2>2
<1>7. Line = Pieces(ram') /\ LineLen = Size
  <2> DEFINE v == ram'
  <2>1. v \in Values /\ ThisLine(v, Line)
    BY <1>2
  <2> HIDE DEF v
  <2>2. CASE Line = Pieces(v) /\ LineLen = Size
    BY <2>2 DEF v
  <2>3. CASE ~(Line = Pieces(v) /\ LineLen = Size)
    <3>1. NewlineAlone /\ eof /\ LineLen = Len(rbuf) /\ LineLen = Size - 1
      BY <1>3, <1>1, <2>1, <2>3, LineOfRecord
    <3>2. off = Len(disk) /\ Size \in Nat \ {0} /\ Size > 1
      BY <1>1, <3>1, Constants DEF JInv, Recovering, Scanned
    <3>3. Len(disk) = Size * m + (Size - 1) /\ Size - 1 \in 0..Size-1
      BY <1>3, <3>1, <3>2
    <3>4. (Size * m + (Size - 1)) % Size = Size - 1
      BY <3>2, <3>3, DivisionIs
    <3>5. Len(disk) % Size = Size - 1
      BY <3>3, <3>4
    <3> QED BY <1>1, <3>1, <3>5 DEF Steady, NewlineKept
  <2> QED BY <2>2, <2>3
<1> QED BY <1>2, <1>4, <1>6, <1>7

\* A record that is replayed is written once more, behind what came before it.
LEMMA ReplayLogged == ASSUME JInv, Steady, Replay PROVE JInv' /\ Journal!Next
<1>1. TInv /\ Locks /\ Closed /\ Recovering /\ Rewritten /\ FirstLife /\ Stopping /\ TInv'
  BY ReadingTyped DEF JInv, TInv, Reading
<1>2. /\ rpc = "reading" /\ rpc' = "reading" /\ HasLine
      /\ rbuf' = SubSeq(rbuf, LineLen + 1, Len(rbuf)) /\ valid' = valid + Size
      /\ UNCHANGED <<disk, synced, off, buf, wpc, eof, dup, rewriteBuf, tmp, rw, starts>>
  BY DEF Replay, file, rewrite, bounds
<1>3. PICK v \in Values : ThisLine(v, Line) /\ ram' = v /\ ch' = Append(ch, v)
  BY DEF Replay
<1>4. PICK m \in Nat : /\ valid = Size * m /\ valid \in Nat /\ valid + Len(rbuf) = off
                       /\ off <= Len(disk) /\ off \in Nat /\ Len(rbuf) \in Nat /\ Len(disk) \in Nat
                       /\ disk \in Seq(Piece) /\ rbuf \in Seq(Piece)
                       /\ \A i \in 1..Len(rbuf) : rbuf[i] = disk[valid + i]
  BY <1>2, InScanner
<1>5. ch \in Seq(Values) /\ Size \in Nat \ {0} /\ v # 0
  BY <1>1, Constants DEF TInv, TypeOK, Values
<1>6. LineLen \in 1..Len(rbuf)
  BY <1>2, <1>4, LineIsFirstPart
<1>7. LineLen = Size
  BY ReplayWhole
<1>8. Len(rbuf') = Len(rbuf) - Size /\ rbuf' \in Seq(Piece)
      /\ \A i \in 1..(Len(rbuf) - Size) : rbuf'[i] = rbuf[Size + i]
  <2>1. Size \in Nat /\ Size <= Len(rbuf)
    BY <1>5, <1>6, <1>7
  <2> QED BY <1>2, <1>4, <1>7, <2>1, Slice
<1>9. Scanned'
  <2>1. valid' = Size * (m + 1) /\ m + 1 \in Nat
    <3>1. Size * (m + 1) = Size * m + Size
      BY <1>2, <1>4, <1>5
    <3> QED BY <1>2, <1>4, <1>5, <3>1
  <2>2. valid' \in Nat /\ off' = valid' + Len(rbuf') /\ Size <= Len(rbuf)
    <3>1. /\ valid \in Nat /\ Len(rbuf) \in Nat /\ valid + Len(rbuf) = off /\ Size \in Nat
          /\ valid' = valid + Size /\ off' = off /\ Len(rbuf') = Len(rbuf) - Size
          /\ Size \in 1..Len(rbuf)
      BY <1>2, <1>4, <1>5, <1>6, <1>7, <1>8
    <3> QED BY ONLY <3>1
  <2>3. rbuf' = SubSeq(disk', valid' + 1, off')
    <3> DEFINE x == SubSeq(disk, valid' + 1, off)
    <3>1. valid' <= off /\ off <= Len(disk) /\ off - valid' = Len(rbuf) - Size
      BY <1>2, <1>4, <1>8, <2>2
    <3>2. x \in Seq(Piece) /\ Len(x) = off - valid' /\ \A i \in 1..(off - valid') : x[i] = disk[valid' + i]
      <4> DEFINE w == valid'
      <4>1. disk \in Seq(Piece) /\ w \in Nat /\ off \in Nat /\ w <= off /\ off <= Len(disk)
        BY <1>4, <2>2, <3>1
      <4> HIDE DEF w
      <4>2. /\ SubSeq(disk, w + 1, off) \in Seq(Piece) /\ Len(SubSeq(disk, w + 1, off)) = off - w
            /\ \A i \in 1..(off - w) : SubSeq(disk, w + 1, off)[i] = disk[w + i]
        BY ONLY <4>1, Slice
      <4> QED BY <4>2 DEF w
    <3> HIDE DEF x
    <3>3. ASSUME NEW i \in 1..(Len(rbuf) - Size) PROVE rbuf'[i] = x[i]
      <4>1. Size + i \in 1..Len(rbuf) /\ valid + (Size + i) = valid' + i
        <5>1. /\ valid \in Nat /\ Size \in Nat /\ Len(rbuf) \in Nat /\ i \in 1..(Len(rbuf) - Size)
              /\ valid' = valid + Size
          BY <1>2, <1>4, <1>5
        <5> QED BY ONLY <5>1
      <4>2. rbuf[Size + i] = disk[valid + (Size + i)]
        BY <1>4, <4>1
      <4> QED BY <1>8, <3>1, <3>2, <4>1, <4>2
    <3>4. rbuf' = x
      BY <1>8, <3>1, <3>2, <3>3, SeqEqual
    <3> QED BY <1>2, <3>4 DEF x
  <2>4. eof' => off' = Len(disk')
    BY <1>1, <1>2 DEF Recovering, Scanned
  <2>5. valid' # 0 /\ ram' # 0
    BY <1>2, <1>3, <1>4, <1>5
  <2> QED BY <2>1, <2>2, <2>3, <2>4, <2>5 DEF Scanned
<1>10. PICK b \in Seq(Values) : Back(b)
  BY <1>1, <1>2 DEF Recovering
<1>11. PICK r \in Seq(Values) : CutOf(disk, r)
  BY <1>1, <1>2 DEF Recovering
<1>12. ch' \in Seq(Values) /\ ch' # <<>> /\ EndsIn(ch', v)
  <2>1. Append(ch, v) \in Seq(Values) /\ EndsIn(Append(ch, v), v) /\ Append(ch, v) # <<>>
    BY <1>5, EndsInOne, AppendProperties
  <2> QED BY <1>3, <2>1
<1>13. Recovering'
  <2>1. EndsIn(b \o ch', ram')
    BY <1>3, <1>12, EndsInConcat
  <2>2. Back(b)'
    BY <1>2, <1>10, <2>1 DEF Back, EndsIn
  <2>3. CutOf(disk, r)'
    BY <1>2, <1>11 DEF CutOf
  <2> QED BY <1>9, <2>2, <2>3 DEF Recovering
<1>14. Closed' /\ FirstLife' /\ Serving' /\ Rewritten' /\ Stopping'
  BY <1>1, <1>2 DEF Closed, FirstLife, Serving, Rewritten, Locks, Stopping
<1>15. LogNow' = Append(LogNow, v)
  <2>1. LogNow = Lines(disk) \o Lines(buf) \o ch
    BY <1>2 DEF LogNow
  <2>2. LogNow' = Lines(disk) \o Lines(buf) \o Append(ch, v)
    BY <1>2, <1>3 DEF LogNow, Lines, Count
  <2> DEFINE a == Lines(disk) \o Lines(buf)
  <2>3. a \in Seq(Values)
    <3>1. Lines(disk) \in Seq(Values) /\ Lines(buf) = b
      BY <1>4, <1>10, <1>11, CutLines, WholeSays DEF Back
    <3> QED BY <3>1, ConcatProperties
  <2> HIDE DEF a
  <2>4. a \o Append(ch, v) = Append(a \o ch, v)
    BY <1>5, <2>3, AppendConcat
  <2> QED BY <2>1, <2>2, <2>4 DEF a
<1>16. SafeNow' = SafeNow
  BY <1>2 DEF SafeNow, Count
<1> QED BY <1>1, <1>13, <1>14, <1>15, <1>16, LogGrows DEF JInv

\* Read has come to its end: it has taken all whole records of the file.
LEMMA ReadIsOver == ASSUME JInv, Truncate \/ ReadEnds, NEW m \in Nat, valid = Size * m
                    PROVE  Len(disk) \div Size = m /\ valid \div Size = m
<1>1. rpc = "reading" /\ Recovering
  BY DEF Truncate, ReadEnds, JInv
<1>2. valid \in Nat /\ valid + Len(rbuf) = off /\ off \in Nat /\ Len(rbuf) \in Nat /\ Len(disk) \in Nat
  BY <1>1, InScanner
<1>3. Size \in Nat \ {0}
  BY Constants
<1>4. \E t \in 0..Size-1 : Len(disk) = valid + t
  <2>1. CASE Truncate
    <3>1. Len(disk) = valid + Len(rbuf) /\ Len(rbuf) < Size
      BY <1>1, <2>1, PartIsLast DEF Truncate
    <3>2. Len(rbuf) \in 0..Size-1
      BY <1>2, <1>3, <3>1
    <3> QED BY <3>1, <3>2
  <2>2. CASE ReadEnds
    <3>1. rbuf = <<>> /\ eof
      BY <2>2 DEF ReadEnds, HasLine
    <3>2. Len(disk) = valid + 0 /\ 0 \in 0..Size-1
      BY <1>1, <1>2, <1>3, <3>1 DEF Recovering, Scanned
    <3> QED BY <3>2
  <2> QED BY <2>1, <2>2
<1>5. PICK t \in 0..Size-1 : Len(disk) = valid + t
  BY <1>4
<1>6. (Size * m + t) \div Size = m
  BY <1>3, DivisionIs
<1>7. (Size * m + 0) \div Size = m
  <2>1. 0 \in 0..Size-1 BY <1>3
  <2> QED BY <1>3, <2>1, DivisionIs
<1> QED BY <1>2, <1>5, <1>6, <1>7

\* Read has come to its end: the file keeps its whole records and what has come back follows.
LEMMA ReadLogged == ASSUME JInv, Truncate \/ ReadEnds PROVE JInv' /\ LogSynced
<1>1. TInv /\ Locks /\ Closed /\ Recovering /\ FirstLife /\ Stopping /\ TInv'
  BY ReadingTyped DEF JInv, TInv, Reading
<1>2. /\ rpc = "reading" /\ rpc' = "up" /\ rw = "off"
      /\ UNCHANGED <<ch, buf, wpc, ram, dup, rewriteBuf, tmp, rw, starts>>
  BY <1>1 DEF Truncate, ReadEnds, writer, rewrite, bounds, Locks
<1>3. PICK m \in Nat : /\ valid = Size * m /\ valid \in Nat /\ valid + Len(rbuf) = off
                       /\ off <= Len(disk) /\ off \in Nat /\ Len(rbuf) \in Nat /\ Len(disk) \in Nat
                       /\ disk \in Seq(Piece) /\ rbuf \in Seq(Piece)
  BY <1>2, InScanner
<1>4. PICK r \in Seq(Values) : CutOf(disk, r)
  BY <1>1, <1>2 DEF Recovering
<1>5. PICK b \in Seq(Values) : Back(b)
  BY <1>1, <1>2 DEF Recovering
<1>6. ch \in Seq(Values) /\ Size \in Nat \ {0} /\ synced \in 0..Len(disk) /\ synced \in Nat
  BY <1>1, <1>3, Constants DEF TInv, TypeOK
<1>7. Len(disk) \div Size = m /\ valid \div Size = m
  <2>1. m \in Nat /\ valid = Size * m
    BY <1>3
  <2> QED BY <2>1, ReadIsOver
<1>8. m \in 0..Len(r) /\ Lines(disk) = SubSeq(r, 1, m)
  BY <1>3, <1>4, <1>7, CutLines
<1>9. PICK q \in Seq(Values) : q = SubSeq(r, 1, m) /\ Len(q) = m
  BY <1>8, FirstPart
<1>10. disk' = Recorded(q)
  <2>1. SubSeq(disk, 1, valid) = Recorded(q)
    <3>1. Recorded(r) \in Seq(Piece) /\ Len(Recorded(r)) = Size * Len(r)
      BY RecordedTyped
    <3>2. Len(disk) \in 0..Len(Recorded(r)) /\ disk = SubSeq(Recorded(r), 1, Len(disk))
      BY <1>3, <1>4, <3>1 DEF CutOf
    <3>3. valid \in 0..Len(disk)
      BY <1>3, <1>6
    <3>4. SubSeq(SubSeq(Recorded(r), 1, Len(disk)), 1, valid) = SubSeq(Recorded(r), 1, valid)
      BY <3>1, <3>2, <3>3, FirstOfFirst
    <3>5. SubSeq(Recorded(r), 1, Size * m) = Recorded(SubSeq(r, 1, m))
      BY <1>8, WholePart
    <3> QED BY <1>3, <1>9, <3>2, <3>4, <3>5
  <2>2. disk' = SubSeq(disk, 1, valid)
    <3>1. CASE Truncate
      BY <3>1 DEF Truncate
    <3>2. CASE ReadEnds
      <4>1. rbuf = <<>> /\ eof /\ disk' = disk
        BY <3>2 DEF ReadEnds, HasLine, file
      <4>2. Len(disk) = valid
        BY <1>1, <1>2, <1>3, <4>1 DEF Recovering, Scanned
      <4> QED BY <1>3, <4>1, <4>2, SubSeqFull
    <3> QED BY <3>1, <3>2
  <2> QED BY <2>1, <2>2
<1>11. PICK c \in Seq(Values) : c = q \o b
  BY ConcatProperties
<1>12. buf = Recorded(b) /\ EndsIn(b \o ch, ram) /\ (dup # 0 => EndsIn(b, dup))
  BY <1>5 DEF Back
<1>13. c \o ch = q \o (b \o ch) /\ b \o ch \in Seq(Values)
  <2>1. q \in Seq(Values) /\ b \in Seq(Values) /\ ch \in Seq(Values)
    BY <1>6
  <2>2. (q \o b) \o ch = q \o (b \o ch)
    BY ONLY <2>1, JoinValues, ZenonT(40)
  <2> QED BY <1>6, <1>11, <2>2, ConcatProperties
<1>14. Serving'
  <2>1. disk' \o buf' = Recorded(c)
    BY <1>2, <1>10, <1>11, <1>12, RecordedConcat
  <2>2. EndsIn(c \o ch, ram)
    <3>1. CASE b \o ch # <<>>
      BY <1>12, <1>13, <3>1, EndsInConcat
    <3>2. CASE b \o ch = <<>>
      <4>1. ram = 0
        BY <1>12, <3>2 DEF EndsIn
      <4>2. m = 0
        BY <1>1, <1>2, <1>3, <1>6, <4>1 DEF Recovering, Scanned
      <4>3. c \o ch = <<>>
        BY <1>9, <1>13, <3>2, <4>2, EmptySeq
      <4> QED BY <4>1, <4>3 DEF EndsIn
    <3> QED BY <3>1, <3>2
  <2>3. dup # 0 => EndsIn(c, dup)
    <3>1. dup # 0 => b # <<>>
      BY <1>12 DEF EndsIn
    <3> QED BY <1>11, <1>12, <3>1, EndsInConcat
  <2>4. Holds(c)'
    BY <1>2, <2>1, <2>2, <2>3 DEF Holds, EndsIn, Rewriting
  <2> QED BY <2>4 DEF Serving
<1>15. Closed' /\ Recovering' /\ Rewritten' /\ FirstLife' /\ Stopping'
  <2>1. starts # 0
    BY <1>1, <1>2 DEF FirstLife
  <2>2. wpc' \notin {"final", "finalSync", "done"}
    BY <1>1, <1>2 DEF Stopping
  <2> QED BY <1>2, <2>1, <2>2 DEF Closed, Recovering, Rewritten, FirstLife, Stopping
<1>16. LogNow' = LogNow
  <2>1. LogNow = Lines(disk) \o Lines(buf) \o ch
    BY <1>2 DEF LogNow
  <2>2. LogNow' = Lines(disk' \o buf') \o ch'
    BY <1>2 DEF LogNow, Lines, Count
  <2>3. disk' \o buf' = Recorded(c)
    BY <1>2, <1>10, <1>11, <1>12, RecordedConcat
  <2>4. Lines(disk) = q /\ Lines(buf) = b /\ Lines(disk' \o buf') = c
    BY <1>8, <1>9, <1>12, <2>3, WholeSays
  <2> QED BY <1>2, <1>11, <2>1, <2>2, <2>4
<1>17. SafeNow' \in SafeNow..Len(LogNow)
  <2>1. SafeNow = synced \div Size /\ SafeNow \in Nat /\ SafeNow <= m /\ m <= Len(LogNow)
        /\ Len(LogNow) \in Nat
    BY <1>7, SafeInLog
  <2>2. CutOf(disk', q) /\ disk' \in Seq(Piece) /\ Len(disk') = valid /\ synced' \in 0..Len(disk')
    <3>1. CutOf(Recorded(q), q) /\ Recorded(q) \in Seq(Piece) /\ Len(Recorded(q)) = Size * Len(q)
      BY WholeSays, RecordedTyped
    <3>2. synced' \in 0..Len(disk')
      BY <1>1 DEF TInv, TypeOK
    <3> QED BY <1>3, <1>9, <1>10, <3>1, <3>2
  <2>3. SafeNow' = synced' \div Size
    <3>1. SafeNow' = Count(SubSeq(disk', 1, synced'))
      BY DEF SafeNow, Count
    <3> QED BY <2>2, <3>1, CutSays
  <2>4. synced' = synced \/ synced' = valid
    <3>1. CASE Truncate
      <4>1. synced' = Min({synced, valid})
        BY <2>2, <3>1 DEF Truncate
      <4> QED BY <1>3, <1>6, <4>1, LesserOfTwo
    <3>2. CASE ReadEnds
      BY <3>2 DEF ReadEnds, file
    <3> QED BY <3>1, <3>2
  <2>5. SafeNow' = SafeNow \/ SafeNow' = m
    BY <1>7, <2>1, <2>3, <2>4
  <2>6. m \in Nat
    BY <1>3
  <2> QED BY ONLY <2>1, <2>5, <2>6
<1> QED BY <1>1, <1>14, <1>15, <1>16, <1>17 DEF LogSynced, JInv

LEMMA ReadingLogged == ASSUME JInv, Steady, Reading PROVE JInv' /\ Journal!Next
BY ReadLockLogged, FillLogged, ReplayLogged, ReadLogged, LogSyncs DEF Reading

-------------------------------------------------------------------------------
(* Rewrite, and the end of the process *)

\* The file that takes the place of the old one holds whole records, which all are safe, and
\* ends with what RAM serves.
LEMMA ReplaceLogged ==
  ASSUME JInv, Replace
  PROVE  \E q \in Seq(Values) : /\ tmp = Recorded(q) /\ EndsIn(q, ram)
                                /\ LogNow' = q /\ SafeNow' = Len(q)
<1>1. /\ rw = "replace" /\ disk' = tmp /\ synced' = Len(tmp) /\ buf' = <<>>
      /\ rpc' = rpc /\ rpc = "up" /\ ch' = ch /\ ch = <<>>
  BY DEF Replace, Unhurt, JInv, TInv, Locks, Rewritten
<1>2. PICK q \in Seq(Values) : tmp = Recorded(q) /\ EndsIn(q, ram)
  BY <1>1 DEF JInv, Rewritten
<1>3. Recorded(q) \in Seq(Piece) /\ CutOf(Recorded(q), q) /\ Lines(Recorded(q)) = q
  BY RecordedTyped, WholeSays
<1>4. LogNow' = q
  <2>1. LogNow' = Lines(disk' \o buf') \o ch'
    BY <1>1 DEF LogNow, Lines, Count
  <2>2. Recorded(q) \o <<>> = Recorded(q) /\ q \o <<>> = q
    BY <1>3, ConcatEmptySeq
  <2>3. disk' \o buf' = Recorded(q) /\ ch' = <<>>
    BY <1>1, <1>2, <2>2
  <2> QED BY <1>3, <2>1, <2>2, <2>3
<1>5. SafeNow' = Len(q)
  <2>1. SafeNow' = Count(SubSeq(disk', 1, synced'))
    BY DEF SafeNow, Count
  <2>2. SubSeq(disk', 1, synced') = Recorded(q)
    BY <1>1, <1>2, <1>3, SubSeqFull
  <2>3. Lines(Recorded(q)) = [j \in 1..Count(Recorded(q)) |-> Recorded(q)[j * Size].val]
    BY DEF Lines
  <2>4. Count(Recorded(q)) \in Nat
    <3>1. Count(Recorded(q)) = Len(Recorded(q)) \div Size /\ Len(Recorded(q)) \div Size \in 0..Len(q)
      BY <1>3, CutLines
    <3> QED BY <3>1
  <2> DEFINE n == Count(Recorded(q))
             f(j) == Recorded(q)[j * Size].val
  <2>5. q = [j \in 1..n |-> f(j)] /\ n \in Nat
    BY <1>3, <2>3, <2>4
  <2> HIDE DEF n, f
  <2>6. Len(q) = n
    BY <2>5
  <2> QED BY <2>1, <2>2, <2>6 DEF n
<1> QED BY <1>2, <1>4, <1>5

LEMMA RewriteLogged == ASSUME JInv, Steady, Rewrite PROVE JInv' /\ Journal!Next
<1>1. TInv /\ Locks /\ Closed /\ Serving /\ Rewritten /\ FirstLife /\ Stopping /\ TInv'
  BY RewriteTyped DEF JInv, TInv
<1>2. rpc = "up" /\ rpc' = "up" /\ UNCHANGED <<ch, dup, wpc, ram, starts>>
  BY <1>1 DEF Rewrite, StartRewrite, Snapshot, TakeBuffer, Replace, Unhurt, Locks, bounds
<1>3. PICK r \in Seq(Values) : Holds(r)
  BY <1>1, <1>2 DEF Serving
<1>4. /\ disk \o buf = Recorded(r) /\ EndsIn(r \o ch, ram) /\ (dup # 0 => EndsIn(r, dup))
      /\ Rewriting /\ dup = 0 /\ rewriteBuf # <<>> => EndsIn(r, rewriteBuf[Len(rewriteBuf)])
  BY <1>2, <1>3 DEF Holds
<1>5. ch \in Seq(Values) /\ ram \in {0} \cup Values /\ rewriteBuf \in Seq(Values) /\ 0 \notin Values
  BY <1>1, Constants DEF TInv, TypeOK, Values
<1>6. Closed' /\ Recovering' /\ FirstLife' /\ Stopping'
  <2>1. starts # 0 /\ wpc \notin {"final", "finalSync", "done"}
    BY <1>1, <1>2 DEF FirstLife, Stopping
  <2> QED BY <1>2, <2>1 DEF Closed, Recovering, FirstLife, Stopping
<1>7. ASSUME UNCHANGED <<disk, synced, buf>> PROVE Journal!Next
  <2>1. LogNow' = LogNow /\ SafeNow' = SafeNow
    BY <1>2, <1>7 DEF LogNow, SafeNow, Lines, Count
  <2> QED BY <2>1, LogStays, LogSyncs
<1>8. CASE StartRewrite
  <2>1. rw' = "snapshot" /\ rewriteBuf' = <<>> /\ UNCHANGED <<disk, synced, buf>>
    BY <1>8 DEF StartRewrite, file
  <2>2. Holds(r)'
    BY <1>2, <1>4, <2>1 DEF Holds, EndsIn, Rewriting
  <2>3. Serving' /\ Rewritten'
    BY <2>1, <2>2 DEF Serving, Rewritten
  <2> QED BY <1>1, <1>6, <1>7, <2>1, <2>3 DEF JInv
<1>9. CASE Snapshot
  <2>1. /\ rw = "snapshot" /\ rw' = "take" /\ UNCHANGED <<disk, synced, buf, rewriteBuf>>
        /\ tmp' = IF ram = 0 THEN <<>> ELSE Pieces(ram)
    BY <1>9 DEF Snapshot, file
  <2>2. Holds(r)'
    BY <1>2, <1>4, <2>1 DEF Holds, EndsIn, Rewriting
  <2>3. \E q \in Seq(Values) : tmp' = Recorded(q) /\ EndsIn(q, ram)
    <3>1. CASE ram = 0
      <4>1. <<>> \in Seq(Values) /\ EndsIn(<<>>, ram) /\ tmp' = Recorded(<<>>)
        BY <2>1, <3>1, RecordedNone DEF EndsIn
      <4> QED BY <4>1
    <3>2. CASE ram # 0
      <4>1. ram \in Values
        BY <1>5, <3>2
      <4>2. <<ram>> \in Seq(Values) /\ tmp' = Recorded(<<ram>>)
        BY <2>1, <3>2, <4>1, RecordedOne
      <4>3. EndsIn(<<ram>>, ram)
        BY DEF EndsIn
      <4> QED BY <4>2, <4>3
    <3> QED BY <3>1, <3>2
  <2>4. Rewritten'
    BY <1>2, <2>1, <2>3 DEF Rewritten, EndsIn
  <2>5. Serving'
    BY <2>2 DEF Serving
  <2> QED BY <1>1, <1>6, <1>7, <2>1, <2>4, <2>5 DEF JInv
<1>10. CASE TakeBuffer
  <2>1. /\ rw = "take" /\ rw' = "replace"
        /\ tmp' = tmp \o Recorded(rewriteBuf) /\ rewriteBuf' = <<>> /\ UNCHANGED <<disk, synced, buf>>
    BY <1>10 DEF TakeBuffer, file
  <2>2. ch' = <<>> /\ dup' = 0
    BY <2>1 DEF Steady, CopyIsLast
  <2>3. ch = <<>> /\ dup = 0
    BY <1>2, <2>2
  <2>4. PICK q \in Seq(Values) : tmp = Recorded(q) /\ (EndsIn(q, ram) \/ rewriteBuf # <<>>)
    BY <1>1, <2>1, <2>3 DEF Rewritten
  <2>5. tmp' = Recorded(q \o rewriteBuf) /\ q \o rewriteBuf \in Seq(Values)
    BY <1>5, <2>1, <2>4, RecordedConcat, ConcatProperties
  <2>6. EndsIn(q \o rewriteBuf, ram)
    <3>1. CASE rewriteBuf = <<>>
      BY <2>4, <3>1, ConcatEmptySeq
    <3>2. CASE rewriteBuf # <<>>
      <4> DEFINE v == rewriteBuf[Len(rewriteBuf)]
      <4>1. EndsIn(r, v) /\ v \in Values
        BY <1>4, <1>5, <2>1, <2>3, <3>2, EndsInLast DEF Rewriting
      <4>2. r \o ch = r
        BY <2>3, ConcatEmptySeq
      <4>3. ram = v
        <5>1. r # <<>>
          BY <1>5, <4>1 DEF EndsIn
        <5> QED BY <1>4, <4>1, <4>2, <5>1, EndsInLast
      <4>4. EndsIn(rewriteBuf, ram)
        BY <3>2, <4>3 DEF EndsIn
      <4> QED BY <1>5, <3>2, <4>4, EndsInConcat
    <3> QED BY <3>1, <3>2
  <2>7. Rewritten'
    <3>1. \E p \in Seq(Values) : tmp' = Recorded(p) /\ EndsIn(p, ram')
      BY <1>2, <2>5, <2>6
    <3> QED BY <1>2, <2>1, <2>3, <3>1 DEF Rewritten, EndsIn
  <2>8. Holds(r)'
    BY <1>2, <1>4, <2>1 DEF Holds, EndsIn, Rewriting
  <2>9. Serving'
    BY <2>8 DEF Serving
  <2> QED BY <1>1, <1>6, <1>7, <2>1, <2>7, <2>9 DEF JInv
<1>11. CASE Replace
  <2>1. rw = "replace" /\ rw' = "off" /\ disk' = tmp /\ buf' = <<>>
    BY <1>11 DEF Replace
  <2>2. ch = <<>> /\ dup = 0
    BY <1>1, <2>1 DEF Rewritten
  <2>3. PICK q \in Seq(Values) : /\ tmp = Recorded(q) /\ EndsIn(q, ram)
                                /\ LogNow' = q /\ SafeNow' = Len(q)
    BY <1>11, ReplaceLogged
  <2>4. Recorded(q) \in Seq(Piece)
    BY RecordedTyped
  <2>5. disk' \o buf' = Recorded(q) /\ q \o ch = q /\ r \o ch = r
    BY <2>1, <2>2, <2>3, <2>4, ConcatEmptySeq
  <2>6. Holds(q)'
    BY <1>2, <2>1, <2>2, <2>3, <2>5 DEF Holds, EndsIn, Rewriting
  <2>7. Serving' /\ Rewritten'
    BY <2>1, <2>6 DEF Serving, Rewritten
  <2>8. LogNow = r
    BY <1>2, <1>4, <2>5, WholeSays DEF LogNow
  <2>9. (r # <<>> => q # <<>> /\ q[Len(q)] = r[Len(r)]) /\ (r = <<>> => q = <<>>)
    <3>1. EndsIn(r, ram)
      BY <1>4, <2>5
    <3>2. CASE r = <<>>
      <4>1. ram = 0
        BY <3>1, <3>2 DEF EndsIn
      <4> QED BY <1>5, <2>3, <3>2, <4>1, EndsInLast
    <3>3. CASE r # <<>>
      <4>1. ram = r[Len(r)] /\ ram \in Values
        BY <3>1, <3>3, EndsInLast
      <4>2. q # <<>>
        BY <1>5, <2>3, <4>1 DEF EndsIn
      <4> QED BY <2>3, <3>3, <4>1, <4>2, EndsInLast
    <3> QED BY <3>2, <3>3
  <2>10. Journal!Next
    BY <2>1, <2>3, <2>8, <2>9, LogCompacts
  <2> QED BY <1>1, <1>6, <2>7, <2>10 DEF JInv
<1> QED BY <1>8, <1>9, <1>10, <1>11 DEF Rewrite

LEMMA WriteLogged ==
  ASSUME JInv, Steady, Write
  PROVE  JInv' /\ Journal!Next /\ SafeNow' = SafeNow /\ LogNow' \in {LogNow, Append(LogNow, wrote')}
<1>1. TInv /\ Locks /\ Closed /\ Serving /\ Rewritten /\ FirstLife /\ Stopping /\ TInv'
  BY OthersTyped DEF JInv, TInv
<1>2. /\ rpc \in {"up", "closing"} /\ ~Paused /\ wrote' = wrote + 1 /\ ram' = wrote'
      /\ UNCHANGED <<disk, synced, buf, wpc, rpc, dup, rewriteBuf, tmp, rw, starts>>
  BY DEF Write, file, rewrite, bounds
<1>3. ch' = Append(ch, wrote') \/ (rpc = "closing" /\ ch' = ch)
  BY <1>1 DEF Write, Locks
<1>4. ch \in Seq(Values) /\ wrote' \in Values
  <2>1. ch \in Seq(Values) /\ wrote \in {0} \cup Values
    BY <1>1 DEF TInv, TypeOK
  <2>2. wrote < MaxWrites /\ wrote' = wrote + 1
    BY DEF Write
  <2> QED BY <2>1, <2>2, Constants DEF Values
<1>5. Closed' /\ Recovering' /\ FirstLife' /\ Stopping'
  <2>1. starts # 0
    BY <1>1, <1>2 DEF FirstLife
  <2> QED BY <1>1, <1>2, <2>1 DEF Closed, Recovering, FirstLife, Stopping
<1>6. rw # "replace"
  <2>1. SUFFICES ASSUME rw = "replace" PROVE FALSE
    OBVIOUS
  <2>2. ch' = Append(ch, wrote')
    BY <1>1, <1>3, <2>1 DEF Locks
  <2>3. ch' # <<>>
    BY <1>4, <2>2, AppendProperties
  <2> QED BY <1>2, <2>1, <2>3 DEF Steady, CopyIsLast
<1>7. PICK r \in Seq(Values) : Holds(r)
  BY <1>1, <1>2 DEF Serving
<1>8. ASSUME ch' = Append(ch, wrote')
      PROVE  ch' # <<>> /\ EndsIn(r \o ch', ram') /\ LogNow' = Append(LogNow, wrote')
  <2>1. Append(ch, wrote') \in Seq(Values) /\ Append(ch, wrote') # <<>>
        /\ EndsIn(Append(ch, wrote'), wrote')
    BY <1>4, EndsInOne, AppendProperties
  <2>2. ch' \in Seq(Values) /\ ch' # <<>> /\ EndsIn(ch', ram')
    BY <1>2, <1>8, <2>1
  <2>3. EndsIn(r \o ch', ram')
    BY <2>2, EndsInConcat
  <2>4. LogNow = r \o ch
    BY <1>2, <1>7, WholeSays DEF LogNow, Holds
  <2>5. LogNow' = r \o ch'
    <3>1. LogNow' = Lines(disk \o buf) \o ch'
      BY <1>2 DEF LogNow, Lines, Count
    <3> QED BY <1>7, <3>1, WholeSays DEF Holds
  <2>6. r \o Append(ch, wrote') = Append(r \o ch, wrote')
    BY <1>4, AppendConcat
  <2> QED BY <1>8, <2>2, <2>3, <2>4, <2>5, <2>6
<1>9. Holds(r)'
  <2>1. rpc = "up" => EndsIn(r \o ch', ram')
    BY <1>3, <1>8
  <2>2. /\ disk \o buf = Recorded(r)
        /\ rpc = "up" => /\ dup # 0 => EndsIn(r, dup)
                         /\ Rewriting /\ dup = 0 /\ rewriteBuf # <<>>
                              => EndsIn(r, rewriteBuf[Len(rewriteBuf)])
    BY <1>7 DEF Holds
  <2> QED BY <1>2, <2>1, <2>2 DEF Holds, EndsIn, Rewriting
<1>10. Serving'
  BY <1>9 DEF Serving
<1>11. Rewritten'
  <2>1. rw = "take" => ch' # <<>>
    <3>1. rw = "take" => rpc = "up"
      BY <1>1 DEF Locks
    <3> QED BY <1>3, <1>8, <3>1
  <2> QED BY <1>1, <1>2, <1>6, <2>1 DEF Rewritten
<1>12. SafeNow' = SafeNow
  BY <1>2 DEF SafeNow, Count
<1>13. Journal!Next /\ LogNow' \in {LogNow, Append(LogNow, wrote')}
  <2>1. CASE ch' = Append(ch, wrote')
    <3>1. \E v \in Values : LogNow' = Append(LogNow, v)
      BY <1>4, <1>8, <2>1
    <3> QED BY <1>8, <1>12, <2>1, <3>1, LogGrows
  <2>2. CASE ch' = ch
    <3>1. LogNow' = LogNow
      BY <1>2, <2>2 DEF LogNow, Lines, Count
    <3> QED BY <1>12, <3>1, LogStays, LogSyncs
  <2> QED BY <1>3, <2>1, <2>2
<1> QED BY <1>1, <1>5, <1>10, <1>11, <1>12, <1>13 DEF JInv

\* The end of the process, with what the file keeps of itself.
LEMMA GoneLogged ==
  ASSUME JInv, Gone, TInv', starts # 0, NEW k \in synced..Len(disk), disk' = SubSeq(disk, 1, k),
         synced' \in synced..k
  PROVE  /\ JInv' /\ Journal!Next
         /\ k \div Size \in SafeNow..Len(LogNow) /\ LogNow' = SubSeq(LogNow, 1, k \div Size)
         /\ SafeNow' \in SafeNow..(k \div Size)
<1>1. disk \in Seq(Piece) /\ synced \in 0..Len(disk) /\ k \in 0..Len(disk) /\ Len(disk) \in Nat
  <2>1. TypeOK
    BY DEF JInv, TInv
  <2>2. disk \in Seq(Piece) /\ synced \in 0..Len(disk) /\ Len(disk) \in Nat
    BY <2>1 DEF TypeOK
  <2> QED BY <2>2
<1>2. PICK r, rest \in Seq(Values) :
        CutOf(disk, r) /\ LogNow = SubSeq(r, 1, Len(disk) \div Size) \o rest
  BY LogShape
<1>3. /\ CutOf(SubSeq(disk, 1, k), r)
      /\ k \div Size \in 0..Len(r) /\ k \div Size <= Len(disk) \div Size
      /\ Lines(SubSeq(disk, 1, k)) = SubSeq(r, 1, k \div Size)
  BY <1>1, <1>2, CutSays
<1>4. /\ rpc' = "down" /\ wpc' = "done" /\ ch' = <<>> /\ buf' = <<>> /\ ram' = 0 /\ dup' = 0
      /\ rw' = "off" /\ starts' = starts
  BY DEF Gone
<1>5. Closed'
  <2>1. CutOf(disk', r)
    BY <1>3
  <2>2. \E u \in Seq(Values) : CutOf(disk, u)'
    BY <2>1 DEF CutOf
  <2> QED BY <1>4, <2>2 DEF Closed
<1>6. Recovering' /\ Serving' /\ Rewritten' /\ FirstLife' /\ Stopping'
  BY <1>4 DEF Recovering, Serving, Rewritten, FirstLife, Stopping
<1> DEFINE M == Len(disk) \div Size
           n == k \div Size
<1>7. n \in 0..M /\ M \in 0..Len(r) /\ Lines(disk') = SubSeq(r, 1, n)
  <2>1. M \in 0..Len(r)
    BY <1>1, <1>2, CutLines
  <2>2. Lines(disk') = Lines(SubSeq(disk, 1, k))
    OBVIOUS
  <2> QED BY <1>3, <2>1, <2>2
<1>8. SafeNow = synced \div Size /\ SafeNow \in Nat /\ M <= Len(LogNow) /\ Len(LogNow) \in Nat
  BY SafeInLog
<1>9. SafeNow <= n
  <2>1. synced \in Nat /\ k \in Nat /\ synced <= k /\ Size \in Nat \ {0}
    BY <1>1, Constants
  <2>2. synced \div Size <= k \div Size
    BY <2>1, DivisionGrows
  <2> QED BY <1>8, <2>2
<1>10. SafeNow' \in SafeNow..n
  <2>1. disk' \in Seq(Piece) /\ CutOf(disk', r) /\ Len(disk') = k /\ synced' \in 0..Len(disk')
    <3>1. SubSeq(disk, 1, k) \in Seq(Piece) /\ Len(SubSeq(disk, 1, k)) = k
      BY <1>1, FirstPart
    <3> QED BY <1>1, <1>3, <3>1
  <2>2. SafeNow' = Count(SubSeq(disk', 1, synced'))
    BY DEF SafeNow, Count
  <2>3. SafeNow' = synced' \div Size
    BY <2>1, <2>2, CutSays
  <2>4. synced \div Size <= synced' \div Size /\ synced' \div Size <= k \div Size
        /\ synced' \div Size \in Nat
    <3>1. synced \in Nat /\ synced' \in Nat /\ k \in Nat /\ Size \in Nat \ {0}
          /\ synced <= synced' /\ synced' <= k
      BY <1>1, Constants
    <3> DEFINE w == synced'
    <3>2. synced \in Nat /\ w \in Nat /\ k \in Nat /\ Size \in Nat \ {0} /\ synced <= w /\ w <= k
      BY <3>1
    <3> HIDE DEF w
    <3>3. synced \div Size <= w \div Size /\ w \div Size <= k \div Size
      BY <3>2, DivisionGrows
    <3>4. w \div Size \in Nat
      BY <3>2, Division
    <3> QED BY <3>3, <3>4 DEF w
  <2>5. SafeNow <= SafeNow' /\ SafeNow' <= n /\ SafeNow' \in Nat
    BY <1>8, <2>3, <2>4
  <2> QED BY <1>7, <1>8, <2>5
<1>11. LogNow' = SubSeq(LogNow, 1, n)
  <2>1. LogNow' = Lines(disk') \o Lines(buf') \o ch'
    BY <1>4 DEF LogNow, Lines, Count
  <2>2. Lines(buf') = <<>>
    <3>1. Lines(Recorded(<<>>)) = <<>>
      <4>1. <<>> \in Seq(Values)
        OBVIOUS
      <4> QED BY <4>1, WholeSays
    <3> QED BY <1>4, <3>1, RecordedNone
  <2> HIDE DEF M, n
  <2>3. SubSeq(r, 1, n) \in Seq(Values) /\ SubSeq(r, 1, M) \in Seq(Values) /\ Len(SubSeq(r, 1, M)) = M
    <3>1. n \in 0..Len(r) /\ M \in 0..Len(r)
      BY <1>7
    <3> QED BY <3>1, FirstPart
  <2>4. LogNow' = SubSeq(r, 1, n)
    <3> DEFINE a == SubSeq(r, 1, n)
    <3>1. a \o <<>> = a
      <4>1. a \in Seq(Values)
        BY <2>3
      <4> HIDE DEF a
      <4> QED BY <4>1, ConcatEmptySeq
    <3>2. LogNow' = (a \o <<>>) \o <<>>
      BY <1>4, <1>7, <2>1, <2>2
    <3> HIDE DEF a
    <3>3. LogNow' = a
      BY <3>1, <3>2
    <3> QED BY <3>3 DEF a
  <2>5. SubSeq(LogNow, 1, M) = SubSeq(r, 1, M)
    <3> DEFINE a == SubSeq(r, 1, M)
    <3>1. a \in Seq(Values) /\ Len(a) = M /\ LogNow = a \o rest
      BY <1>2, <2>3 DEF M
    <3> HIDE DEF a
    <3>2. SubSeq(a \o rest, 1, Len(a)) = a
      BY <3>1, FirstOfConcat
    <3>3. SubSeq(LogNow, 1, M) = a
      BY <3>1, <3>2
    <3> QED BY <3>3 DEF a
  <2>6. SubSeq(SubSeq(r, 1, M), 1, n) = SubSeq(r, 1, n)
    BY <1>7, FirstOfFirst
  <2>7. SubSeq(SubSeq(LogNow, 1, M), 1, n) = SubSeq(LogNow, 1, n)
    <3>1. LogNow \in Seq(Values)
      <4> DEFINE a == SubSeq(r, 1, M)
      <4>1. a \in Seq(Values) /\ LogNow = a \o rest
        BY <1>2, <2>3 DEF M
      <4> HIDE DEF a
      <4> QED BY <4>1, ConcatProperties
    <3>2. M \in 0..Len(LogNow) /\ n \in 0..M
      BY <1>7, <1>8 DEF M
    <3> QED BY <3>1, <3>2, FirstOfFirst
  <2> QED BY <2>4, <2>5, <2>6, <2>7
<1>12. n \in SafeNow..Len(LogNow)
  <2>1. n \in Int /\ M \in Int /\ n <= M
    BY <1>7
  <2> QED BY <1>8, <1>9, <2>1
<1> HIDE DEF n
<1>13. Journal!Next
  BY <1>10, <1>11, <1>12, LogCrashes
<1>14. JInv'
  BY <1>5, <1>6 DEF JInv
<1> QED BY <1>10, <1>11, <1>12, <1>13, <1>14 DEF n

LEMMA OthersLogged == ASSUME JInv, Steady, Start \/ Write \/ Close \/ Exit \/ Kill \/ PowerLoss
                      PROVE  JInv' /\ Journal!Next
<1>1. TInv /\ Locks /\ Closed /\ Serving /\ Rewritten /\ FirstLife /\ Stopping /\ TInv'
  BY OthersTyped DEF JInv, TInv
<1>2. disk \in Seq(Piece) /\ synced \in 0..Len(disk) /\ Len(disk) \in Nat
  BY <1>1 DEF TInv, TypeOK
<1>3. CASE Close
  <2>1. /\ rpc = "up" /\ rpc' = "closing" /\ rw = "off"
        /\ UNCHANGED <<disk, synced, ch, buf, wpc, ram, dup, rewriteBuf, tmp, rw, starts>>
    BY <1>3 DEF Close, file, writer, rewrite, bounds
  <2>2. Serving'
    BY <1>1, <2>1 DEF Serving, Holds
  <2>3. Closed' /\ Recovering' /\ Rewritten' /\ FirstLife' /\ Stopping'
    BY <1>1, <2>1 DEF Closed, Recovering, Rewritten, FirstLife, Stopping
  <2>4. LogNow' = LogNow /\ SafeNow' = SafeNow
    BY <2>1 DEF LogNow, SafeNow, Lines, Count
  <2> QED BY <1>1, <2>2, <2>3, <2>4, LogStays, LogSyncs DEF JInv
<1>4. ASSUME Gone, starts # 0, disk' = disk, synced' = synced PROVE JInv' /\ Journal!Next
  <2> DEFINE k == Len(disk)
  <2>1. k \in synced..Len(disk) /\ disk' = SubSeq(disk, 1, k) /\ synced' \in synced..k
    BY <1>2, <1>4, SubSeqFull
  <2> QED BY <1>1, <1>4, <2>1, GoneLogged
<1>5. CASE Exit
  <2>1. starts # 0
    BY <1>1, <1>5 DEF Exit, FirstLife
  <2> QED BY <1>4, <1>5, <2>1 DEF Exit
<1>6. CASE Kill
  <2>1. starts # 0
    BY <1>1, <1>6 DEF Kill, Crash, FirstLife
  <2> QED BY <1>4, <1>6, <2>1 DEF Kill, Crash
<1>7. CASE PowerLoss
  <2>1. starts # 0 /\ Gone
    BY <1>1, <1>7 DEF PowerLoss, Crash, FirstLife
  <2>2. PICK k \in synced..Len(disk) : disk' = SubSeq(disk, 1, k) /\ synced' = k
    BY <1>7 DEF PowerLoss
  <2>3. synced' \in synced..k
    BY <1>2, <2>2
  <2> QED BY <1>1, <2>1, <2>2, <2>3, GoneLogged
<1>8. CASE Start
  BY <1>8, StartLogged, LogSyncs
<1> QED BY <1>3, <1>5, <1>6, <1>7, <1>8, WriteLogged

LEMMA StepLogged == ASSUME JInv, Steady, RecoveryFits, [Next]_vars
                    PROVE  JInv' /\ [Journal!Next]_(Journal!vars)
<1>1. CASE Next
  BY <1>1, WriterLogged, LogSyncs, ReadingLogged, RewriteLogged, OthersLogged DEF Next
<1>2. CASE UNCHANGED vars
  <2>1. TInv' /\ UNCHANGED journalState /\ UNCHANGED wpc
    BY <1>2, StepTyped DEF JInv, vars, journalState
  <2>2. JParts'
    BY <2>1, PartsStay DEF JInv, JParts
  <2>3. Stopping'
    BY <2>1 DEF JInv, Stopping, journalState
  <2>4. UNCHANGED Journal!vars
    BY <1>2 DEF vars, Journal!vars, Lines, Count
  <2> QED BY <2>1, <2>2, <2>3, <2>4 DEF JInv, JParts
<1> QED BY <1>1, <1>2

LEMMA InitLogged == Init => JInv /\ Journal!Init
<1> SUFFICES ASSUME Init PROVE JInv /\ Journal!Init
  OBVIOUS
<1>1. TInv
  BY InitTyped
<1>2. /\ rpc = "down" /\ disk = <<>> /\ buf = <<>> /\ ch = <<>> /\ dup = 0 /\ ram = 0 /\ rw = "off"
      /\ synced = 0 /\ wpc = "done"
  BY DEF Init
<1>3. <<>> \in Seq(Values) /\ CutOf(<<>>, <<>>) /\ Lines(<<>>) = <<>>
  <2>1. <<>> \in Seq(Values)
    OBVIOUS
  <2>2. CutOf(Recorded(<<>>), <<>>) /\ Lines(Recorded(<<>>)) = <<>>
    BY ONLY <2>1, WholeSays
  <2> QED BY <2>1, <2>2, RecordedNone
<1>4. Closed /\ Recovering /\ Serving /\ Rewritten /\ FirstLife /\ Stopping
  BY <1>2, <1>3 DEF Closed, Recovering, Serving, Rewritten, FirstLife, Stopping
<1>5. JInv
  BY <1>1, <1>4 DEF JInv
<1>6. LogNow = <<>>
  BY <1>2, <1>3 DEF LogNow
<1>7. SafeNow = 0
  <2>1. SafeNow \in Nat /\ SafeNow <= Len(LogNow)
    BY <1>5, SafeInLog
  <2> QED BY <1>6, <2>1
<1>8. Journal!Init
  BY <1>2, <1>6, <1>7 DEF Journal!Init, LogNow, SafeNow
<1> QED BY <1>5, <1>8

\* While Read is at it every record it has taken is in the channel or in the bufio buffer.
Counted == rpc = "reading" => Len(buf) + Size * Len(ch) = valid

\* The file that is read is not longer than the bufio buffer.
FileFits == rpc = "reading" => Len(disk) <= BufSize

LEMMA FileFitsFits == ASSUME JInv, Counted, FileFits PROVE RecoveryFits
<1> SUFFICES ASSUME rpc = "reading", ch # <<>> PROVE Len(buf) + Size <= BufSize
  BY DEF RecoveryFits
<1>1. valid \in Nat /\ Len(rbuf) \in Nat /\ valid + Len(rbuf) = off /\ off <= Len(disk)
      /\ off \in Nat /\ Len(disk) \in Nat
  BY InScanner
<1>2. Size \in Nat \ {0} /\ BufSize \in Nat /\ Len(buf) \in Nat /\ Len(ch) \in Nat \ {0}
  BY Constants, EmptySeq DEF JInv, TInv, TypeOK
<1>3. Len(buf) + Size * Len(ch) <= BufSize
  BY <1>1, <1>2 DEF Counted, FileFits
<1>4. Size <= Size * Len(ch) /\ Size * Len(ch) \in Nat
  BY <1>2
<1> QED BY <1>2, <1>3, <1>4

LEMMA StepCounted == ASSUME JInv, Steady, RecoveryFits, Counted, [Next]_vars PROVE Counted'
<1> SUFFICES ASSUME rpc' = "reading" PROVE (Len(buf) + Size * Len(ch) = valid)'
  BY DEF Counted
<1>1. TInv /\ Locks /\ Stopping /\ Closed
  BY DEF JInv, TInv
<1>2. buf \in Seq(Piece) /\ ch \in Seq(Values) /\ valid \in Nat /\ Size \in Nat \ {0}
      /\ Len(buf) \in Nat /\ Len(ch) \in Nat
  BY <1>1, Constants DEF TInv, TypeOK
<1>3. ASSUME rpc = "reading", UNCHANGED <<buf, ch, valid>>
      PROVE  (Len(buf) + Size * Len(ch) = valid)'
  BY <1>3 DEF Counted
<1>4. ASSUME ProcessEntry PROVE (Len(buf) + Size * Len(ch) = valid)'
  <2>1. rpc = "reading" /\ ch # <<>> /\ valid' = valid
    BY <1>4 DEF ProcessEntry, reader
  <2>2. buf' = buf \o Pieces(Head(ch)) /\ Head(ch) \in Values /\ Len(ch') = Len(ch) - 1
    BY <1>1, <1>4, <2>1, EntryWritten DEF RecoveryFits
  <2>3. Len(buf') = Len(buf) + Size
    <3>1. Pieces(Head(ch)) \in Seq(Piece) /\ Len(Pieces(Head(ch))) = Size
      BY <2>2, PiecesTyped
    <3> QED BY <1>2, <2>2, <3>1, ConcatProperties
  <2>4. Size * (Len(ch) - 1) = Size * Len(ch) - Size /\ Size * Len(ch) \in Int
    BY <1>2
  <2>5. Len(buf) + Size * Len(ch) = valid
    BY <2>1 DEF Counted
  <2>6. Size * Len(ch') = Size * Len(ch) - Size
    BY <2>2, <2>4
  <2> DEFINE a == Size * Len(ch)
             b == Size * Len(ch')
  <2>7. a \in Int /\ b = a - Size /\ Len(buf) + a = valid
    BY <2>4, <2>5, <2>6
  <2>8. Len(buf') + b = valid'
    <3> HIDE DEF a, b
    <3> QED BY <1>2, <2>1, <2>3, <2>7
  <2> QED BY <2>8
<1>5. CASE BackgroundWriter
  <2>1. CASE Receive \/ FinalDrain \/ (Drain /\ ProcessEntry)
    BY <1>4, <2>1 DEF Receive, FinalDrain
  <2>2. CASE Duplicate \/ TickerFires \/ TickSync \/ Stop \/ FinalSync \/ (Drain /\ ~ProcessEntry)
    BY <1>3, <2>2 DEF Duplicate, TickerFires, TickSync, Stop, FinalSync, SyncFile, Drain, writer, reader
  <2>3. ~TickFlush
    BY <1>1 DEF TickFlush, FlushBuf, Locks
  <2>4. ~FinalFlush
    BY <1>1 DEF FinalFlush, FlushBuf, Stopping, Locks
  <2> QED BY <1>5, <2>1, <2>2, <2>3, <2>4 DEF BackgroundWriter
<1>6. CASE ReadLock
  <2>1. buf' = <<>> /\ ch' = <<>> /\ valid' = 0
    BY <1>1, <1>6 DEF ReadLock, writer, Closed
  <2>2. Len(<<>>) = 0 /\ 0 + Size * 0 = 0
    BY <1>2
  <2> QED BY <2>1, <2>2
<1>7. CASE Fill
  BY <1>3, <1>7 DEF Fill, writer
<1>8. CASE Replay
  <2>1. PICK v \in Values : ch' = Append(ch, v)
    BY <1>8 DEF Replay
  <2>2. rpc = "reading" /\ buf' = buf /\ valid' = valid + Size /\ Len(ch') = Len(ch) + 1
    BY <1>2, <1>8, <2>1, AppendProperties DEF Replay
  <2>3. Size * (Len(ch) + 1) = Size * Len(ch) + Size /\ Size * Len(ch) \in Int
    BY <1>2
  <2>4. Len(buf) + Size * Len(ch) = valid
    BY <2>2 DEF Counted
  <2> DEFINE a == Size * Len(ch)
             b == Size * Len(ch')
  <2>5. a \in Int /\ b = a + Size /\ Len(buf) + a = valid
    BY <2>2, <2>3, <2>4
  <2>6. Len(buf') + b = valid'
    <3> HIDE DEF a, b
    <3> QED BY <1>2, <2>2, <2>5
  <2> QED BY <2>6
<1>9. CASE UNCHANGED vars
  BY <1>3, <1>9 DEF vars
<1>10. ASSUME \/ Truncate \/ ReadEnds \/ Rewrite \/ Start \/ Write
              \/ Close \/ Exit \/ Kill \/ PowerLoss
       PROVE  FALSE
  BY <1>1, <1>10 DEF Truncate, ReadEnds, Rewrite, StartRewrite, Snapshot, TakeBuffer, Replace, Unhurt,
                     Locks, Start, Write, Close, Exit, Kill, PowerLoss, Crash, Gone
<1> QED BY <1>5, <1>6, <1>7, <1>8, <1>9, <1>10 DEF Next, Reading

\* The journal is a durable log: whatever the sizes, however the bufio buffer cuts the records
\* it gives the file, wherever a crash or a loss of power cuts the file, and however often the
\* database is opened again, only records at the end of the log are lost, none that has been
\* synced, and a rewrite leaves a log that ends alike.  It holds of every behaviour in which
\* three things do not happen that write.go, read.go and rewrite.go let happen: a record on
\* its way between the copy of a rewrite and the rename (CopyIsLast), a file to be read that
\* lacks nothing but its last newline (NewlineKept), and one that is longer than the bufio
\* buffer (FileFits).
THEOREM JournalDurable ==
  Spec /\ []CopyIsLast /\ []NewlineKept /\ []FileFits => JournalIsDurable
<1>1. Init => JInv /\ Counted /\ Journal!Init
  BY InitLogged DEF Init, Counted
<1>2. JInv /\ Counted /\ CopyIsLast /\ CopyIsLast' /\ NewlineKept /\ FileFits /\ [Next]_vars
        => JInv' /\ Counted' /\ [Journal!Next]_(Journal!vars)
  BY StepLogged, StepCounted, FileFitsFits DEF Steady
<1> QED BY <1>1, <1>2, PTL DEF Spec, JournalIsDurable, Journal!Spec

\* When nobody writes beside a rewrite, or there is none, nothing comes after its copy.
LEMMA CalmCopies == ASSUME JInv, MaxRewrites # 0 => Calm, [Next]_vars PROVE CopyIsLast'
<1> SUFFICES ASSUME rw' = "replace" PROVE (ch = <<>> /\ dup = 0)'
  BY DEF CopyIsLast
<1>1. TInv /\ Locks /\ Rewritten
  BY DEF JInv, TInv
<1>2. CASE TakeBuffer
  <2>1. rewrites # 0 /\ rewrites \in 0..MaxRewrites
    BY <1>1, <1>2 DEF TakeBuffer, Locks, TInv, TypeOK
  <2>2. Calm
    BY <2>1, Constants
  <2> QED BY <1>2, <2>2 DEF TakeBuffer, Unhurt
<1>3. CASE ~TakeBuffer
  <2>1. rw = "replace"
    BY <1>3 DEF Next, vars, BackgroundWriter, Duplicate, Receive, Drain, FinalDrain, ProcessEntry,
       TickerFires, TickFlush, TickSync, Stop, FinalFlush, FinalSync, FlushBuf, SyncFile, Reading,
       ReadLock, Fill, Replay, Truncate, ReadEnds, Rewrite, StartRewrite, Snapshot, Replace,
       Start, Write, Close, Exit, Kill, PowerLoss, Crash, Gone, rewrite
  <2>2. ch = <<>> /\ dup = 0 /\ rpc = "up" /\ Calm
    <3>1. rewrites # 0 /\ rewrites \in 0..MaxRewrites
      BY <1>1, <2>1 DEF Locks, TInv, TypeOK
    <3> QED BY <1>1, <2>1, <3>1, Constants DEF Rewritten, Locks
  <2> QED BY <2>1, <2>2
       DEF Next, vars, BackgroundWriter, Duplicate, Receive, Drain, FinalDrain, ProcessEntry,
       TickerFires, TickFlush, TickSync, Stop, FinalFlush, FinalSync, FlushBuf, SyncFile, Reading,
       ReadLock, Fill, Replay, Truncate, ReadEnds, Rewrite, StartRewrite, Snapshot, TakeBuffer,
       Replace, Unhurt, Paused,
       Start, Write, Close, Exit, Kill, PowerLoss, Crash, Gone, rewrite, writer
<1> QED BY <1>2, <1>3

\* In the first life of a database nothing is read, and the journal is a durable log whatever
\* the sizes and whenever the process ends, as long as whoever calls Rewrite keeps writers out
\* while the file is replaced (nothing in the program calls it).
THEOREM FirstLifeDurable ==
  ASSUME MaxStarts <= 1, MaxRewrites # 0 => Calm PROVE Spec => JournalIsDurable
<1>1. Init => JInv /\ Journal!Init
  BY InitLogged
<1>2. JInv => FileFits /\ NewlineKept
  <2> SUFFICES ASSUME JInv, rpc = "reading"
               PROVE  Len(disk) <= BufSize /\ (NewlineAlone => Len(disk) % Size # Size - 1)
    BY DEF FileFits, NewlineKept
  <2>1. starts \in 0..MaxStarts
    BY DEF JInv, TInv, TypeOK
  <2>2. starts <= 1
    BY <2>1, Constants
  <2>3. Len(disk) = 0
    BY <2>2 DEF JInv, FirstLife
  <2>4. NewlineAlone => Len(disk) % Size # Size - 1
    <3>1. 0 \in 0..Size-1 /\ 0 \in Nat /\ Size \in Nat \ {0}
      BY Constants
    <3>2. (Size * 0 + 0) % Size = 0
      BY <3>1, DivisionIs
    <3>3. Size * 0 + 0 = 0
      BY <3>1
    <3> QED BY <2>3, <3>1, <3>2, <3>3, Constants
  <2> QED BY <2>3, <2>4, Constants
<1>3. Init => Counted /\ CopyIsLast
  BY DEF Init, Counted, CopyIsLast
<1>4. JInv /\ Counted /\ CopyIsLast /\ [Next]_vars
        => JInv' /\ Counted' /\ CopyIsLast' /\ [Journal!Next]_(Journal!vars)
  BY <1>2, StepLogged, StepCounted, FileFitsFits, CalmCopies DEF Steady
<1> QED BY <1>1, <1>3, <1>4, PTL DEF Spec, JournalIsDurable, Journal!Spec

===============================================================================
