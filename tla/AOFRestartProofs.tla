---------------------------- MODULE AOFRestartProofs ----------------------------
(***************************************************************************)
(* What a database serves when it is opened again, for records, channel    *)
(* and buffers of any size and any number of writes and crashes: never an  *)
(* older value than was promised in its first life.  The last record       *)
(* counts, so the proof is that the first life leaves a journal of which   *)
(* every record that a crash can make the last is the newest so far.  The  *)
(* replay does not: it appends the old records to the new ones.            *)
(***************************************************************************)
EXTENDS AOFProofs

-------------------------------------------------------------------------------
(* The inductive invariant *)

ValuesIn(s) == {s[i].val : i \in DOMAIN s}

\* All that the process and its files have of values, but for what RAM serves.
Around == ValuesIn(disk \o buf) \cup Range(ch) \cup {dup}
          \cup (IF rw = "off" THEN {} ELSE Range(rewriteBuf) \cup ValuesIn(tmp))

\* Nothing is newer than the last write.
Bounded == /\ {ram, mark, owed} \subseteq 0..wrote
           /\ \A v \in Around : v <= wrote

\* Once the database is open, nothing is newer than what RAM serves.
Newest == rpc \in {"up", "closing"} /\ starts <= 2
            => owed <= ram /\ \A v \in Around : v <= ram

\* The part of the file that Read takes for records, and the value it ends with.
Whole == Size * (Len(disk) \div Size)
LastWhole == IF Whole = 0 THEN 0 ELSE disk[Whole].val

\* What the writer has and the file has not.
Waiting == ValuesIn(buf) \cup Range(ch) \cup {dup}

\* Before and while the file is read, its last whole record is the newest.
FileKept == rpc \in {"open", "reading"} /\ starts <= 2
              => /\ owed <= LastWhole
                 /\ \A i \in 1..Whole : disk[i].val <= LastWhole
                 /\ \A v \in Waiting : v <= LastWhole

\* RAM has the last of the records that have been read.
ReadBack == rpc = "reading" /\ valid # 0 => ram = disk[valid].val

\* The first m values of the log s end with the greatest of them, which is at least v.
Peak(s, m, v) == IF m = 0 THEN v = 0 ELSE v <= s[m] /\ \A i \in 1..m : s[i] <= s[m]

\* Wherever a crash of the first life may cut the log, it then ends with its newest
\* record, and with all that is owed.
LogKept == starts <= 1 => \A m \in SafeNow..Len(LogNow) : Peak(LogNow, m, owed)

\* What was accepted before Close is in the log, in the end in the file, and synced.
CloseKept == rpc = "closing" /\ starts <= 1
               => /\ wpc \notin {"finalSync", "done"} => Peak(LogNow, Len(LogNow), mark)
                  /\ wpc \in {"finalSync", "done"} => Peak(LogNow, Len(disk) \div Size, mark)
                  /\ wpc = "done" => synced = Len(disk)

RInv == JInv /\ Bounded /\ Newest /\ FileKept /\ ReadBack /\ LogKept /\ CloseKept
-------------------------------------------------------------------------------
(* The values in pieces and records *)

LEMMA ValuesTyped == ASSUME NEW s \in Seq(Piece) PROVE ValuesIn(s) \subseteq Values
<1>1. \A i \in DOMAIN s : s[i] \in Piece
  OBVIOUS
<1> QED BY <1>1 DEF ValuesIn, Piece

LEMMA ValuesOfNone == ValuesIn(<<>>) = {} /\ Range(<<>>) = {}
BY DEF ValuesIn, Range

LEMMA ValuesOfConcat == ASSUME NEW a \in Seq(Piece), NEW b \in Seq(Piece)
                        PROVE  ValuesIn(a \o b) = ValuesIn(a) \cup ValuesIn(b)
<1> DEFINE c == a \o b
<1>1. /\ c \in Seq(Piece) /\ Len(c) = Len(a) + Len(b) /\ Len(a) \in Nat /\ Len(b) \in Nat
      /\ \A i \in 1 .. Len(a) + Len(b) : c[i] = IF i <= Len(a) THEN a[i] ELSE b[i - Len(a)]
  BY ConcatProperties, LenProperties
<1> HIDE DEF c
<1>2. DOMAIN a = 1..Len(a) /\ DOMAIN b = 1..Len(b) /\ DOMAIN c = 1..(Len(a) + Len(b))
  BY <1>1
<1>3. ASSUME NEW i \in 1..(Len(a) + Len(b)) PROVE c[i].val \in ValuesIn(a) \cup ValuesIn(b)
  <2>1. CASE i <= Len(a)
    <3>1. i \in 1..Len(a) /\ c[i] = a[i]
      BY <1>1, <2>1
    <3> QED BY <1>2, <3>1 DEF ValuesIn
  <2>2. CASE ~ (i <= Len(a))
    <3>1. i - Len(a) \in 1..Len(b) /\ c[i] = b[i - Len(a)]
      BY <1>1, <2>2
    <3> QED BY <1>2, <3>1 DEF ValuesIn
  <2> QED BY <2>1, <2>2
<1>4. ASSUME NEW i \in 1..Len(a) PROVE a[i].val \in ValuesIn(c)
  <2>1. i \in 1..(Len(a) + Len(b)) /\ c[i] = a[i]
    BY <1>1
  <2> QED BY <1>2, <2>1 DEF ValuesIn
<1>5. ASSUME NEW i \in 1..Len(b) PROVE b[i].val \in ValuesIn(c)
  <2> DEFINE j == Len(a) + i
  <2>1. j \in 1..(Len(a) + Len(b)) /\ ~ (j <= Len(a)) /\ j - Len(a) = i
    BY <1>1
  <2> HIDE DEF j
  <2>2. c[j] = b[i]
    BY <1>1, <2>1
  <2> QED BY <1>2, <2>1, <2>2 DEF ValuesIn
<1>6. ValuesIn(c) \subseteq ValuesIn(a) \cup ValuesIn(b)
  BY <1>2, <1>3 DEF ValuesIn
<1>7. ValuesIn(a) \subseteq ValuesIn(c)
  BY <1>2, <1>4 DEF ValuesIn
<1>8. ValuesIn(b) \subseteq ValuesIn(c)
  BY <1>2, <1>5 DEF ValuesIn
<1> QED BY <1>6, <1>7, <1>8 DEF c

LEMMA ValuesOfPieces == ASSUME NEW v \in Values PROVE ValuesIn(Pieces(v)) = {v}
<1>1. Pieces(v) \in Seq(Piece) /\ Len(Pieces(v)) = Size /\ Size \in Nat \ {0}
      /\ \A i \in 1..Size : Pieces(v)[i] = [val |-> v, n |-> i]
  BY PiecesTyped, Constants
<1>2. DOMAIN Pieces(v) = 1..Size /\ 1 \in 1..Size /\ \A i \in 1..Size : Pieces(v)[i].val = v
  BY <1>1
<1> QED BY <1>2 DEF ValuesIn

LEMMA ValuesOfRecorded == ASSUME NEW r \in Seq(Values) PROVE ValuesIn(Recorded(r)) \subseteq Range(r)
<1> SUFFICES ASSUME NEW i \in DOMAIN Recorded(r) PROVE Recorded(r)[i].val \in Range(r)
  BY DEF ValuesIn
<1>1. Recorded(r) \in Seq(Piece) /\ Len(Recorded(r)) = Size * Len(r) /\ Len(r) \in Nat
      /\ \A j \in 1..Len(r), t \in 1..Size : Recorded(r)[Place(j, t)] = [val |-> r[j], n |-> t]
  BY RecordedTyped
<1>2. i \in 1..(Size * Len(r)) /\ Len(r) \in Nat
  BY <1>1
<1>3. PICK j \in 1..Len(r), t \in 1..Size : i = Place(j, t)
  BY ONLY <1>2, PlaceOf
<1>4. Recorded(r)[i] = [val |-> r[j], n |-> t] /\ j \in DOMAIN r
  <2>1. Recorded(r)[Place(j, t)] = [val |-> r[j], n |-> t]
    BY <1>1
  <2>2. DOMAIN r = 1..Len(r)
    OBVIOUS
  <2> QED BY <1>3, <2>1, <2>2
<1>5. Recorded(r)[i].val = r[j]
  BY <1>4
<1> QED BY <1>4, <1>5 DEF Range

LEMMA ValuesOfFirst == ASSUME NEW s \in Seq(Piece), NEW n \in 0..Len(s)
                       PROVE  ValuesIn(SubSeq(s, 1, n)) \subseteq ValuesIn(s)
<1> DEFINE a == SubSeq(s, 1, n)
<1>1. a \in Seq(Piece) /\ Len(a) = n /\ \A i \in 1..n : a[i] = s[i]
  BY FirstPart
<1> HIDE DEF a
<1>2. \A i \in DOMAIN a : i \in DOMAIN s /\ a[i] = s[i]
  BY <1>1
<1> QED BY <1>2 DEF ValuesIn, a

LEMMA RangeOfHead == ASSUME NEW c \in Seq(Values), c # <<>>
                     PROVE  Head(c) \in Range(c) /\ Range(Tail(c)) \subseteq Range(c)
<1>1. Len(c) \in Nat \ {0} /\ Head(c) = c[1] /\ 1 \in DOMAIN c
  BY EmptySeq
<1>2. \A i \in DOMAIN Tail(c) : i + 1 \in DOMAIN c /\ Tail(c)[i] = c[i + 1]
  BY <1>1, HeadTailProperties
<1> QED BY <1>1, <1>2 DEF Range

LEMMA RangeOfAppend == ASSUME NEW c \in Seq(Values), NEW v
                       PROVE  Range(Append(c, v)) \subseteq Range(c) \cup {v}
<1>1. \A i \in DOMAIN Append(c, v) : (i \in DOMAIN c /\ Append(c, v)[i] = c[i]) \/ Append(c, v)[i] = v
  OBVIOUS
<1> QED BY <1>1 DEF Range

\* The newest whole record in some pieces is in them.
LEMMA NewestPlace ==
  ASSUME NEW s \in Seq(Piece), NewestIn(s) # 0
  PROVE  /\ NewestIn(s) \in Values
         /\ \E i \in Nat : i + Size <= Len(s) /\
                           \A k \in 1..Size : s[i + k] = [val |-> NewestIn(s), n |-> k]
<1> DEFINE S == {0} \cup {v \in Values :
                  \E i \in 0..(Len(s) - Size) : SubSeq(s, i + 1, i + Size) = Pieces(v)}
           v == NewestIn(s)
<1>1. S \in SUBSET (0..MaxWrites) /\ S # {} /\ MaxWrites \in Nat
  BY Constants DEF Values
<1>2. Max(S) \in S
  <2> HIDE DEF S
  <2> QED BY <1>1, Greatest
<1>3. v \in S
  BY <1>2 DEF NewestIn
<1>4. v \in Values /\ \E i \in 0..(Len(s) - Size) : SubSeq(s, i + 1, i + Size) = Pieces(v)
  <2> HIDE DEF v
  <2> QED BY <1>3 DEF v
<1> HIDE DEF S, v
<1>5. PICK i \in 0..(Len(s) - Size) : SubSeq(s, i + 1, i + Size) = Pieces(v)
  BY <1>4
<1> DEFINE m == i + Size
<1>6. /\ Size \in Nat \ {0} /\ Len(s) \in Nat /\ i \in Nat /\ m \in Nat /\ i <= m /\ m <= Len(s)
      /\ m - i = Size
  BY Constants
<1>7. SubSeq(s, i + 1, m) = Pieces(v)
  BY <1>5
<1> HIDE DEF m
<1>8. \A k \in 1..(m - i) : SubSeq(s, i + 1, m)[k] = s[i + k]
  BY <1>6, Slice
<1>9. \A k \in 1..Size : Pieces(v)[k] = [val |-> v, n |-> k]
  BY <1>4, PiecesTyped
<1>10. \A k \in 1..Size : s[i + k] = [val |-> v, n |-> k]
  BY <1>6, <1>7, <1>8, <1>9
<1>11. i \in Nat /\ i + Size <= Len(s)
  BY <1>6 DEF m
<1> QED BY <1>4, <1>10, <1>11 DEF v

LEMMA NewestOfValues == ASSUME NEW s \in Seq(Piece)
                        PROVE  NewestIn(s) \in {0} \cup (Values \cap ValuesIn(s))
<1> DEFINE v == NewestIn(s)
<1>1. ASSUME v # 0 PROVE v \in Values /\ v \in ValuesIn(s)
  <2>1. v \in Values
    BY <1>1, NewestPlace
  <2>2. PICK i \in Nat : i + Size <= Len(s) /\ \A k \in 1..Size : s[i + k] = [val |-> v, n |-> k]
    BY <1>1, NewestPlace
  <2> HIDE DEF v
  <2>3. 1 \in 1..Size /\ i + 1 \in 1..Len(s)
    BY <2>2, Constants
  <2>4. s[i + 1] = [val |-> v, n |-> 1]
    BY <2>2, <2>3
  <2>5. i + 1 \in DOMAIN s /\ s[i + 1].val = v
    BY <2>3, <2>4
  <2> QED BY <2>1, <2>5 DEF ValuesIn
<1> QED BY <1>1

-------------------------------------------------------------------------------
(* The values of a string of records that is cut *)

LEMMA CutPiece ==
  ASSUME NEW r \in Seq(Values), NEW d \in Seq(Piece), CutOf(d, r), NEW i \in 1..Len(d)
  PROVE  \E j \in 1..Len(r), t \in 1..Size : i = Place(j, t) /\ d[i] = [val |-> r[j], n |-> t]
<1>1. Recorded(r) \in Seq(Piece) /\ Len(Recorded(r)) = Size * Len(r)
      /\ \A j \in 1..Len(r), t \in 1..Size : Recorded(r)[Place(j, t)] = [val |-> r[j], n |-> t]
  BY RecordedTyped
<1> DEFINE N == Size * Len(r)
<1>2. Len(d) <= N /\ d = SubSeq(Recorded(r), 1, Len(d)) /\ Len(d) \in Nat /\ N \in Nat
  BY Constants DEF CutOf
<1>3. i \in 1..N /\ Len(d) \in 0..N
  BY <1>2
<1>4. d[i] = Recorded(r)[i]
  <2>1. Len(d) \in 0..Len(Recorded(r))
    BY <1>1, <1>3
  <2> DEFINE n == Len(d)
  <2>2. n \in 0..Len(Recorded(r)) /\ i \in 1..n /\ d = SubSeq(Recorded(r), 1, n)
    BY <1>2, <2>1
  <2> HIDE DEF n
  <2>3. \A k \in 1..n : SubSeq(Recorded(r), 1, n)[k] = Recorded(r)[k]
    BY <1>1, <2>2, FirstPart
  <2> QED BY <2>2, <2>3
<1>5. i \in 1..(Size * Len(r)) /\ Len(r) \in Nat
  BY <1>3
<1>6. PICK j \in 1..Len(r), t \in 1..Size : i = Place(j, t)
  BY ONLY <1>5, PlaceOf
<1>7. d[i] = [val |-> r[j], n |-> t]
  BY <1>1, <1>4, <1>6
<1> QED BY <1>6, <1>7

\* The whole records of d: where each ends, and that their pieces have its value.
LEMMA CutWhole ==
  ASSUME NEW r \in Seq(Values), NEW d \in Seq(Piece), CutOf(d, r), NEW k \in Nat, k = Len(d) \div Size
  PROVE  /\ k <= Len(r) /\ Size * k \in 0..Len(d) /\ Len(d) < Size * k + Size
         /\ \A j \in 1..k : Size * j \in 1..Len(d) /\ d[Size * j] = [val |-> r[j], n |-> Size]
         /\ \A i \in 1..(Size * k) : \E j \in 1..k : d[i].val = r[j]
         /\ \A i \in 1..Len(d) : d[i].n = Size => \E j \in 1..k : i = Size * j
<1>1. Size \in Nat \ {0} /\ Len(d) \in Nat /\ Len(r) \in Nat
  BY Constants
<1>2. k <= Len(r)
  BY <1>1, CutLines
<1>3. Size * k \in Nat /\ Size * k <= Len(d) /\ Len(d) < Size * k + Size
  <2>1. /\ Len(d) \div Size \in Nat /\ Len(d) % Size \in 0..Size-1
        /\ Len(d) = Size * (Len(d) \div Size) + (Len(d) % Size)
    BY <1>1, Division
  <2> DEFINE a == Size * k
             e == Len(d) % Size
  <2>2. Len(d) = a + e /\ e \in 0..Size-1 /\ a \in Nat
    BY <1>1, <2>1
  <2> HIDE DEF a, e
  <2> QED BY <1>1, <2>2 DEF a
<1>4. ASSUME NEW j \in 1..k PROVE Size * j \in 1..Len(d) /\ d[Size * j] = [val |-> r[j], n |-> Size]
  <2>1. Size * (j - 1) + Size = Size * j /\ Size * j <= Size * k /\ Size * j \in Nat \ {0}
    BY <1>1
  <2> DEFINE i == Size * j
  <2>2. i \in 1..Len(d)
    BY <1>1, <1>3, <2>1
  <2>3. PICK m \in 1..Len(r), t \in 1..Size : i = Place(m, t) /\ d[i] = [val |-> r[m], n |-> t]
    <3> HIDE DEF i
    <3> QED BY <2>2, CutPiece
  <2>4. i = Place(j, Size) /\ Size \in 1..Size /\ j \in 1..Len(r)
    BY <1>1, <1>2, <2>1 DEF Place
  <2> HIDE DEF i
  <2>5. (Place(j, Size) - 1) \div Size = j - 1 /\ (Place(j, Size) - 1) % Size = Size - 1
    <3>1. k \in Nat /\ j \in 1..k /\ Size \in 1..Size
      BY <2>4
    <3> QED BY ONLY <3>1, InPlace
  <2>6. (Place(m, t) - 1) \div Size = m - 1 /\ (Place(m, t) - 1) % Size = t - 1
    <3>1. Len(r) \in Nat /\ m \in 1..Len(r) /\ t \in 1..Size
      BY <1>1
    <3> QED BY ONLY <3>1, InPlace
  <2>7. Place(j, Size) = Place(m, t)
    BY <2>3, <2>4
  <2>8. j = m /\ t = Size
    BY <1>1, <2>5, <2>6, <2>7
  <2> QED BY <2>2, <2>3, <2>8 DEF i
<1>5. ASSUME NEW i \in 1..(Size * k) PROVE \E j \in 1..k : d[i].val = r[j]
  <2>1. i \in 1..Len(d)
    BY <1>1, <1>3
  <2>2. PICK m \in 1..Len(r), t \in 1..Size : i = Place(m, t) /\ d[i] = [val |-> r[m], n |-> t]
    BY <2>1, CutPiece
  <2>3. PICK j \in 1..k, u \in 1..Size : i = Place(j, u)
    BY ONLY k \in Nat, i \in 1..(Size * k), PlaceOf
  <2>4. (i - 1) \div Size = j - 1
    BY <2>3, InPlace
  <2>5. (i - 1) \div Size = m - 1
    BY <1>1, <2>2, InPlace
  <2>6. j = m
    BY <2>4, <2>5
  <2> QED BY <2>2, <2>6
<1>6. ASSUME NEW i \in 1..Len(d), d[i].n = Size PROVE \E j \in 1..k : i = Size * j
  <2>1. PICK m \in 1..Len(r), t \in 1..Size : i = Place(m, t) /\ d[i] = [val |-> r[m], n |-> t]
    BY CutPiece
  <2>2. t = Size
    BY <1>6, <2>1
  <2>3. i = Size * m
    <3>1. Size * (m - 1) + Size = Size * m
      BY <1>1
    <3> QED BY <2>1, <2>2, <3>1 DEF Place
  <2>4. m <= k
    <3>1. SUFFICES ASSUME m >= k + 1 PROVE FALSE
      BY <1>1
    <3>2. Size * m >= Size * (k + 1) /\ Size * (k + 1) = Size * k + Size
      <4>1. m \in Nat /\ k + 1 \in Nat /\ k + 1 <= m
        BY <1>1, <3>1
      <4>2. Size * (k + 1) <= Size * m
        BY <1>1, <4>1
      <4>3. Size * (k + 1) = Size * k + Size
        BY <1>1
      <4> QED BY <1>1, <4>2, <4>3
    <3> DEFINE a == Size * m
               b == Size * k
    <3>3. a >= b + Size /\ Len(d) < b + Size /\ a <= Len(d) /\ a \in Int /\ b \in Int
      BY <1>1, <1>3, <2>3, <3>2
    <3> HIDE DEF a, b
    <3> QED BY <1>1, <3>3
  <2> QED BY <2>3, <2>4
<1> QED BY <1>2, <1>3, <1>4, <1>5, <1>6

\* What a sync makes safe is one of the whole records.
LEMMA NewestIsWhole ==
  ASSUME NEW r \in Seq(Values), NEW d \in Seq(Piece), CutOf(d, r), NEW k \in Nat, k = Len(d) \div Size,
         NewestIn(d) # 0
  PROVE  \E j \in 1..k : NewestIn(d) = r[j]
<1> DEFINE v == NewestIn(d)
<1>1. PICK i \in Nat : i + Size <= Len(d) /\ \A u \in 1..Size : d[i + u] = [val |-> v, n |-> u]
  BY NewestPlace
<1> HIDE DEF v
<1> DEFINE e == i + Size
<1>2. e \in 1..Len(d) /\ d[e] = [val |-> v, n |-> Size]
  BY <1>1, Constants
<1> HIDE DEF e
<1>3. PICK j \in 1..k : e = Size * j
  BY <1>2, CutWhole
<1>4. d[e] = [val |-> r[j], n |-> Size]
  BY <1>3, CutWhole
<1>5. v = r[j]
  <2>1. d[e].val = v /\ d[e].val = r[j]
    BY <1>2, <1>4
  <2> QED BY <2>1
<1> QED BY <1>5 DEF v

-------------------------------------------------------------------------------
(* Where values come from *)

LEMMA CountsTyped == ASSUME JInv PROVE {ram, wrote, mark, owed} \subseteq Nat /\ starts \in Nat
<1>1. {ram, wrote, mark, owed} \subseteq {0} \cup Values /\ starts \in 0..MaxStarts
  BY DEF JInv, TInv, TypeOK
<1>2. {0} \cup Values \subseteq Nat /\ MaxStarts \in Nat
  BY Constants DEF Values
<1> QED BY <1>1, <1>2

LEMMA AroundTyped ==
  ASSUME JInv
  PROVE  /\ disk \in Seq(Piece) /\ buf \in Seq(Piece) /\ ch \in Seq(Values) /\ tmp \in Seq(Piece)
         /\ rewriteBuf \in Seq(Values) /\ dup \in {0} \cup Values
         /\ ValuesIn(disk \o buf) = ValuesIn(disk) \cup ValuesIn(buf)
         /\ ValuesIn(disk) \subseteq Around /\ ValuesIn(buf) \subseteq Around
         /\ Range(ch) \subseteq Around /\ dup \in Around
         /\ rw # "off" => Range(rewriteBuf) \subseteq Around /\ ValuesIn(tmp) \subseteq Around
         /\ Around \subseteq {0} \cup Values
<1>1. disk \in Seq(Piece) /\ buf \in Seq(Piece) /\ ch \in Seq(Values) /\ tmp \in Seq(Piece)
      /\ rewriteBuf \in Seq(Values) /\ dup \in {0} \cup Values
  BY DEF JInv, TInv, TypeOK
<1>2. ValuesIn(disk \o buf) = ValuesIn(disk) \cup ValuesIn(buf)
  BY <1>1, ValuesOfConcat
<1>3. Range(ch) \subseteq Values /\ Range(rewriteBuf) \subseteq Values
  BY <1>1 DEF Range
<1>4. ValuesIn(disk) \subseteq Values /\ ValuesIn(buf) \subseteq Values /\ ValuesIn(tmp) \subseteq Values
  BY <1>1, ValuesTyped
<1>5. Around \subseteq {0} \cup Values
  BY <1>1, <1>2, <1>3, <1>4 DEF Around
<1>6. /\ ValuesIn(disk) \subseteq Around /\ ValuesIn(buf) \subseteq Around
      /\ Range(ch) \subseteq Around /\ dup \in Around
      /\ rw # "off" => Range(rewriteBuf) \subseteq Around /\ ValuesIn(tmp) \subseteq Around
  BY <1>2 DEF Around
<1> QED BY <1>1, <1>2, <1>5, <1>6

LEMMA AroundWithin ==
  ASSUME NEW X, (ValuesIn(disk \o buf))' \subseteq X, Range(ch)' \subseteq X, dup' \in X,
         rw' = "off" \/ (Range(rewriteBuf)' \subseteq X /\ ValuesIn(tmp)' \subseteq X)
  PROVE  Around' \subseteq X
BY DEF Around

LEMMA AroundStays == ASSUME UNCHANGED <<disk, buf, ch, dup, rewriteBuf, tmp, rw>>
                     PROVE  Around' = Around
BY DEF Around, ValuesIn, Range

\* The writer brings no new values.
LEMMA WriterAround == ASSUME JInv, BackgroundWriter PROVE Around' \subseteq Around \cup {0}
<1>1. TInv /\ Locks
  BY DEF JInv, TInv
<1>2. ASSUME ProcessEntry PROVE Around' \subseteq Around \cup {0}
  <2>1. /\ disk' \o buf' = disk \o buf \o Pieces(Head(ch)) /\ Head(ch) \in Values
        /\ ch # <<>> /\ ch' = Tail(ch) /\ dup' = Head(ch) /\ UNCHANGED <<rewriteBuf, tmp, rw>>
    BY <1>1, <1>2, EntryWritten DEF ProcessEntry
  <2>2. disk \o buf \in Seq(Piece) /\ Pieces(Head(ch)) \in Seq(Piece)
    <3>1. disk \in Seq(Piece) /\ buf \in Seq(Piece)
      BY AroundTyped
    <3> QED BY <2>1, <3>1, PiecesTyped, ConcatProperties
  <2>3. ValuesIn((disk \o buf) \o Pieces(Head(ch))) = ValuesIn(disk \o buf) \cup {Head(ch)}
    <3>1. ValuesIn(Pieces(Head(ch))) = {Head(ch)}
      BY <2>1, ValuesOfPieces
    <3> DEFINE a == disk \o buf
               b == Pieces(Head(ch))
    <3>2. a \in Seq(Piece) /\ b \in Seq(Piece)
      BY <2>2
    <3> HIDE DEF a, b
    <3>3. ValuesIn(a \o b) = ValuesIn(a) \cup ValuesIn(b)
      BY <3>2, ValuesOfConcat
    <3> QED BY <3>1, <3>3 DEF a, b
  <2>4. Head(ch) \in Range(ch) /\ Range(ch') \subseteq Range(ch)
    BY <2>1, AroundTyped, RangeOfHead
  <2>5. (ValuesIn(disk \o buf))' = ValuesIn(disk \o buf) \cup {Head(ch)}
    <3>1. (ValuesIn(disk \o buf))' = ValuesIn(disk' \o buf')
      BY DEF ValuesIn
    <3> QED BY <2>1, <2>3, <3>1
  <2>6. Range(ch)' = Range(ch') /\ Range(rewriteBuf)' = Range(rewriteBuf)
        /\ ValuesIn(tmp)' = ValuesIn(tmp)
    BY <2>1 DEF Range, ValuesIn
  <2> QED BY <2>1, <2>4, <2>5, <2>6, AroundTyped, AroundWithin
<1>3. CASE Duplicate
  <2>1. UNCHANGED <<disk, buf, ch, tmp, rw>> /\ dup' = 0
        /\ rewriteBuf' = IF Rewriting THEN Append(rewriteBuf, dup) ELSE rewriteBuf
    BY <1>3 DEF Duplicate, file, writer
  <2>2. Range(rewriteBuf') \subseteq Range(rewriteBuf) \cup {dup}
    BY <2>1, AroundTyped, RangeOfAppend
  <2>3. Range(rewriteBuf)' = Range(rewriteBuf') /\ Range(ch)' = Range(ch)
        /\ ValuesIn(tmp)' = ValuesIn(tmp) /\ (ValuesIn(disk \o buf))' = ValuesIn(disk \o buf)
    BY <2>1 DEF Range, ValuesIn
  <2>4. Range(rewriteBuf') \subseteq Around \cup {0} \/ rw = "off"
    BY <2>2, AroundTyped
  <2>5. (ValuesIn(disk \o buf))' \subseteq Around \cup {0} /\ Range(ch)' \subseteq Around \cup {0}
    BY <2>3, AroundTyped
  <2>6. ValuesIn(tmp)' \subseteq Around \cup {0} \/ rw = "off"
    BY <2>3, AroundTyped
  <2> QED BY <2>1, <2>3, <2>4, <2>5, <2>6, AroundWithin
<1>4. ASSUME NEW next, FlushBuf(next) PROVE Around' \subseteq Around \cup {0}
  <2>1. disk' = disk \o buf /\ buf' = <<>> /\ UNCHANGED <<ch, dup, rewriteBuf, tmp, rw>>
    BY <1>4 DEF FlushBuf, WriteFile, rewrite
  <2>2. disk' \o buf' = disk \o buf
    <3>1. disk \o buf \in Seq(Piece)
      BY AroundTyped, ConcatProperties
    <3> QED BY <2>1, <3>1, ConcatEmptySeq
  <2>3. Range(rewriteBuf)' = Range(rewriteBuf) /\ Range(ch)' = Range(ch)
        /\ ValuesIn(tmp)' = ValuesIn(tmp) /\ (ValuesIn(disk \o buf))' = ValuesIn(disk \o buf)
    BY <2>1, <2>2 DEF Range, ValuesIn
  <2> QED BY <2>1, <2>3, AroundTyped, AroundWithin
<1>5. CASE TickerFires \/ TickSync \/ Stop \/ FinalSync \/ (Drain /\ ~ProcessEntry)
  <2>1. UNCHANGED <<disk, buf, ch, dup, rewriteBuf, tmp, rw>>
    BY <1>5 DEF TickerFires, TickSync, Stop, FinalSync, SyncFile, Drain, file, rewrite
  <2> QED BY <2>1, AroundStays
<1> QED BY <1>2, <1>3, <1>4, <1>5 DEF BackgroundWriter, Receive, Drain, FinalDrain, TickFlush, FinalFlush

\* A step that brings values brings what RAM serves, or served before it.
LEMMA ReadingAround == ASSUME JInv, Reading PROVE Around' \subseteq Around \cup {0, ram'}
<1>1. TInv /\ Locks
  BY DEF JInv, TInv
<1>2. CASE ReadLock \/ Fill \/ ReadEnds
  <2>1. UNCHANGED <<disk, buf, ch, dup, rewriteBuf, tmp, rw>>
    BY <1>2 DEF ReadLock, Fill, ReadEnds, file, writer, rewrite
  <2> QED BY <2>1, AroundStays
<1>3. CASE Replay
  <2>1. ch' = Append(ch, ram') /\ UNCHANGED <<disk, buf, dup, rewriteBuf, tmp, rw>>
    BY <1>3 DEF Replay, file, rewrite
  <2>2. Range(ch') \subseteq Range(ch) \cup {ram'}
    BY <2>1, AroundTyped, RangeOfAppend
  <2>3. Range(rewriteBuf)' = Range(rewriteBuf) /\ Range(ch)' = Range(ch')
        /\ ValuesIn(tmp)' = ValuesIn(tmp) /\ (ValuesIn(disk \o buf))' = ValuesIn(disk \o buf)
    BY <2>1 DEF Range, ValuesIn
  <2>4. Range(ch)' \subseteq Around \cup {0, ram'}
    BY <2>2, <2>3, AroundTyped
  <2>5. (ValuesIn(disk \o buf))' \subseteq Around \cup {0, ram'} /\ dup' \in Around \cup {0, ram'}
    BY <2>1, <2>3, AroundTyped
  <2>6. rw' = "off" \/ (/\ Range(rewriteBuf)' \subseteq Around \cup {0, ram'}
                        /\ ValuesIn(tmp)' \subseteq Around \cup {0, ram'})
    BY <2>1, <2>3, AroundTyped
  <2> QED BY <2>4, <2>5, <2>6, AroundWithin
<1>4. CASE Truncate
  <2>1. rpc = "reading" /\ disk' = SubSeq(disk, 1, valid) /\ UNCHANGED <<buf, ch, dup, rewriteBuf, tmp, rw>>
    BY <1>4 DEF Truncate, writer, rewrite
  <2>2. rw' = "off"
    BY <1>1, <2>1 DEF Locks
  <2>3. valid \in 0..Len(disk)
    BY <2>1, InScanner
  <2>4. disk' \in Seq(Piece) /\ ValuesIn(disk') \subseteq ValuesIn(disk)
    <3>1. disk \in Seq(Piece)
      BY AroundTyped
    <3> QED BY <2>1, <2>3, <3>1, FirstPart, ValuesOfFirst
  <2>5. (ValuesIn(disk \o buf))' = ValuesIn(disk') \cup ValuesIn(buf)
    <3>1. (ValuesIn(disk \o buf))' = ValuesIn(disk' \o buf)
      BY <2>1 DEF ValuesIn
    <3> QED BY <2>4, <3>1, AroundTyped, ValuesOfConcat
  <2>6. (ValuesIn(disk \o buf))' \subseteq Around
    BY <2>4, <2>5, AroundTyped
  <2>7. Range(ch)' \subseteq Around /\ dup' \in Around
    <3>1. Range(ch)' = Range(ch)
      BY <2>1 DEF Range
    <3> QED BY <2>1, <3>1, AroundTyped
  <2> QED BY <2>2, <2>6, <2>7, AroundWithin
<1> QED BY <1>2, <1>3, <1>4 DEF Reading

LEMMA RewriteAround == ASSUME JInv, Rewrite PROVE Around' \subseteq Around \cup {0, ram}
<1>1. TInv /\ Locks
  BY DEF JInv, TInv
<1>2. ch' = ch /\ dup' = dup
  BY DEF Rewrite, StartRewrite, Snapshot, TakeBuffer, Replace, Unhurt
<1>3. Range(ch)' \subseteq Around /\ dup' \in Around
  <2>1. Range(ch)' = Range(ch)
    BY <1>2 DEF Range
  <2> QED BY <1>2, <2>1, AroundTyped
<1>4. ASSUME UNCHANGED <<disk, buf>> PROVE (ValuesIn(disk \o buf))' \subseteq Around
  <2>1. (ValuesIn(disk \o buf))' = ValuesIn(disk \o buf)
    BY <1>4 DEF ValuesIn
  <2> QED BY <2>1, AroundTyped
<1>5. CASE StartRewrite
  <2>1. tmp' = <<>> /\ rewriteBuf' = <<>> /\ UNCHANGED <<disk, buf>>
    BY <1>5 DEF StartRewrite, file
  <2>2. Range(rewriteBuf)' = {} /\ ValuesIn(tmp)' = {}
    BY <2>1 DEF Range, ValuesIn
  <2> QED BY <1>3, <1>4, <2>1, <2>2, AroundWithin
<1>6. CASE Snapshot
  <2>1. rw = "snapshot" /\ tmp' = (IF ram = 0 THEN <<>> ELSE Pieces(ram)) /\ rewriteBuf' = rewriteBuf
        /\ UNCHANGED <<disk, buf>>
    BY <1>6 DEF Snapshot, file
  <2>2. ram \in {0} \cup Values
    BY <1>1 DEF TInv, TypeOK
  <2>3. ValuesIn(tmp') \subseteq {ram}
    BY <2>1, <2>2, ValuesOfNone, ValuesOfPieces
  <2>4. Range(rewriteBuf)' = Range(rewriteBuf) /\ ValuesIn(tmp)' = ValuesIn(tmp')
    BY <2>1 DEF Range, ValuesIn
  <2>5. Range(rewriteBuf)' \subseteq Around /\ ValuesIn(tmp)' \subseteq {ram}
    BY <2>1, <2>3, <2>4, AroundTyped
  <2>6. (ValuesIn(disk \o buf))' \subseteq Around
    BY <1>4, <2>1
  <2> DEFINE X == Around \cup {ram}
  <2>7. /\ (ValuesIn(disk \o buf))' \subseteq X /\ Range(ch)' \subseteq X /\ dup' \in X
        /\ Range(rewriteBuf)' \subseteq X /\ ValuesIn(tmp)' \subseteq X
    BY <1>3, <2>5, <2>6
  <2> HIDE DEF X
  <2>8. Around' \subseteq X
    BY <2>7, AroundWithin
  <2> QED BY <2>8 DEF X
<1>7. CASE TakeBuffer
  <2>1. rw = "take" /\ tmp' = tmp \o Recorded(rewriteBuf) /\ rewriteBuf' = <<>> /\ UNCHANGED <<disk, buf>>
    BY <1>7 DEF TakeBuffer, file
  <2>2. ValuesIn(tmp') \subseteq Around
    <3>1. tmp \in Seq(Piece) /\ rewriteBuf \in Seq(Values)
          /\ Range(rewriteBuf) \subseteq Around /\ ValuesIn(tmp) \subseteq Around
      BY <2>1, AroundTyped
    <3>2. Recorded(rewriteBuf) \in Seq(Piece) /\ ValuesIn(Recorded(rewriteBuf)) \subseteq Range(rewriteBuf)
      BY <3>1, RecordedTyped, ValuesOfRecorded
    <3>3. ValuesIn(tmp \o Recorded(rewriteBuf)) = ValuesIn(tmp) \cup ValuesIn(Recorded(rewriteBuf))
      BY <3>1, <3>2, ValuesOfConcat
    <3> QED BY <2>1, <3>1, <3>2, <3>3
  <2>3. Range(rewriteBuf)' = {} /\ ValuesIn(tmp)' = ValuesIn(tmp')
    BY <2>1 DEF Range, ValuesIn
  <2>4. (ValuesIn(disk \o buf))' \subseteq Around
    BY <1>4, <2>1
  <2> QED BY <1>3, <2>2, <2>3, <2>4, AroundWithin
<1>8. CASE Replace
  <2>1. rw = "replace" /\ rw' = "off" /\ disk' = tmp /\ buf' = <<>>
    BY <1>8 DEF Replace
  <2>2. tmp \in Seq(Piece) /\ ValuesIn(tmp) \subseteq Around
    BY <2>1, AroundTyped
  <2>3. (ValuesIn(disk \o buf))' = ValuesIn(tmp)
    <3>1. tmp \o <<>> = tmp
      BY <2>2, ConcatEmptySeq
    <3> QED BY <2>1, <3>1 DEF ValuesIn
  <2> QED BY <1>3, <2>1, <2>2, <2>3, AroundWithin
<1> QED BY <1>5, <1>6, <1>7, <1>8 DEF Rewrite

LEMMA OthersAround == ASSUME JInv, Start \/ Write \/ Close \/ Exit \/ Kill \/ PowerLoss
                      PROVE  Around' \subseteq Around \cup {0, ram'}
<1>1. TInv /\ Locks
  BY DEF JInv, TInv
<1>2. disk \in Seq(Piece) /\ synced \in 0..Len(disk) /\ Len(disk) \in Nat
  BY <1>1 DEF TInv, TypeOK
<1>3. CASE Start \/ Close
  <2>1. UNCHANGED <<disk, buf, ch, dup, rewriteBuf, tmp, rw>>
    BY <1>3 DEF Start, Close, file, writer, rewrite
  <2> QED BY <2>1, AroundStays
<1>4. CASE Write
  <2>1. (ch' = Append(ch, ram') \/ ch' = ch) /\ UNCHANGED <<disk, buf, dup, rewriteBuf, tmp, rw>>
    BY <1>4 DEF Write, file, rewrite
  <2>2. Range(ch') \subseteq Range(ch) \cup {ram'}
    BY <2>1, AroundTyped, RangeOfAppend
  <2>3. Range(rewriteBuf)' = Range(rewriteBuf) /\ Range(ch)' = Range(ch')
        /\ ValuesIn(tmp)' = ValuesIn(tmp) /\ (ValuesIn(disk \o buf))' = ValuesIn(disk \o buf)
    BY <2>1 DEF Range, ValuesIn
  <2>4. Range(ch)' \subseteq Around \cup {0, ram'}
    BY <2>2, <2>3, AroundTyped
  <2>5. (ValuesIn(disk \o buf))' \subseteq Around \cup {0, ram'} /\ dup' \in Around \cup {0, ram'}
    BY <2>1, <2>3, AroundTyped
  <2>6. rw' = "off" \/ (/\ Range(rewriteBuf)' \subseteq Around \cup {0, ram'}
                        /\ ValuesIn(tmp)' \subseteq Around \cup {0, ram'})
    BY <2>1, <2>3, AroundTyped
  <2> QED BY <2>4, <2>5, <2>6, AroundWithin
<1>5. ASSUME Gone, NEW k \in 0..Len(disk), disk' = SubSeq(disk, 1, k) PROVE Around' \subseteq Around \cup {0}
  <2>1. ch' = <<>> /\ buf' = <<>> /\ dup' = 0 /\ rw' = "off"
    BY <1>5 DEF Gone
  <2>2. disk' \in Seq(Piece) /\ ValuesIn(disk') \subseteq ValuesIn(disk)
    BY <1>2, <1>5, FirstPart, ValuesOfFirst
  <2>3. (ValuesIn(disk \o buf))' = ValuesIn(disk')
    <3>1. disk' \o <<>> = disk'
      BY <2>2, ConcatEmptySeq
    <3> QED BY <2>1, <3>1 DEF ValuesIn
  <2>4. Range(ch)' = {}
    BY <2>1 DEF Range
  <2>5. (ValuesIn(disk \o buf))' \subseteq Around
    BY <2>2, <2>3, AroundTyped
  <2> DEFINE X == Around \cup {0}
  <2>6. (ValuesIn(disk \o buf))' \subseteq X /\ Range(ch)' \subseteq X /\ dup' \in X
    BY <2>1, <2>4, <2>5
  <2> HIDE DEF X
  <2>7. Around' \subseteq X
    BY <2>1, <2>6, AroundWithin
  <2> QED BY <2>7 DEF X
<1>6. CASE Exit \/ Kill
  <2>1. Gone /\ disk' = disk
    BY <1>6 DEF Exit, Kill, Crash
  <2>2. Len(disk) \in 0..Len(disk) /\ disk' = SubSeq(disk, 1, Len(disk))
    BY <1>2, <2>1, SubSeqFull
  <2> QED BY <1>5, <2>1, <2>2
<1>7. CASE PowerLoss
  <2>1. Gone
    BY <1>7 DEF PowerLoss, Crash
  <2>2. PICK k \in synced..Len(disk) : disk' = SubSeq(disk, 1, k)
    BY <1>7 DEF PowerLoss
  <2>3. k \in 0..Len(disk)
    BY <1>2
  <2> QED BY <1>5, <2>1, <2>2, <2>3
<1> QED BY <1>3, <1>4, <1>6, <1>7

LEMMA AroundMoves == ASSUME JInv, [Next]_vars PROVE Around' \subseteq Around \cup {0, ram, ram'}
<1>1. CASE UNCHANGED vars
  <2>1. UNCHANGED <<disk, buf, ch, dup, rewriteBuf, tmp, rw>>
    BY <1>1 DEF vars
  <2> QED BY <2>1, AroundStays
<1>2. CASE Next
  BY <1>2, WriterAround, ReadingAround, RewriteAround, OthersAround DEF Next
<1> QED BY <1>1, <1>2

-------------------------------------------------------------------------------
(* What a step makes of what RAM serves and of what is owed *)

\* The value that is replayed is that of a whole record of the file.
LEMMA ReplayTakes ==
  ASSUME JInv, Steady, Replay
  PROVE  /\ valid + Size \in 1..Whole /\ disk[valid + Size].val = ram' /\ ram' \in ValuesIn(disk)
         /\ starts > 1 /\ disk' = disk /\ valid' = valid + Size
<1>1. LineLen = Size /\ ram' \in Values /\ Line = Pieces(ram') /\ starts > 1
  BY ReplayWhole
<1>2. rpc = "reading" /\ HasLine /\ disk' = disk /\ valid' = valid + Size
  BY DEF Replay, file
<1>3. PICK m \in Nat : /\ valid = Size * m /\ valid \in Nat /\ valid + Len(rbuf) = off
                       /\ off <= Len(disk) /\ off \in Nat /\ Len(rbuf) \in Nat /\ Len(disk) \in Nat
                       /\ disk \in Seq(Piece) /\ rbuf \in Seq(Piece)
                       /\ \A i \in 1..Len(rbuf) : rbuf[i] = disk[valid + i]
  BY <1>2, InScanner
<1>4. Size \in 1..Len(rbuf) /\ Size \in 1..Size
  BY <1>1, <1>2, <1>3, LineIsFirstPart, Constants
<1>5. Line[Size] = rbuf[Size]
  <2>1. Size \in 0..Len(rbuf)
    BY <1>4
  <2>2. \A i \in 1..Size : SubSeq(rbuf, 1, Size)[i] = rbuf[i]
    BY <1>3, <2>1, FirstPart
  <2> QED BY <1>1, <1>4, <2>2 DEF Line
<1>6. Pieces(ram')[Size] = [val |-> ram', n |-> Size]
  <2> DEFINE v == ram'
  <2>1. v \in Values
    BY <1>1
  <2> HIDE DEF v
  <2>2. Pieces(v)[Size] = [val |-> v, n |-> Size]
    BY <1>4, <2>1, PiecesTyped
  <2> QED BY <2>2 DEF v
<1> DEFINE e == valid + Size
<1>7. e \in 1..Len(disk) /\ disk[e] = [val |-> ram', n |-> Size]
  <2>1. e \in 1..Len(disk)
    BY <1>3, <1>4
  <2>2. disk[e] = rbuf[Size]
    BY <1>3, <1>4
  <2> QED BY <1>1, <1>5, <1>6, <2>1, <2>2
<1> HIDE DEF e
<1>8. PICK r \in Seq(Values) : CutOf(disk, r)
  BY <1>2 DEF JInv, Recovering
<1> DEFINE k == Len(disk) \div Size
<1>9. k \in Nat
  BY <1>3, Division, Constants
<1>10. e \in 1..Whole
  <2>1. \E j \in 1..k : e = Size * j
    <3> HIDE DEF k
    <3>1. disk \in Seq(Piece) /\ r \in Seq(Values) /\ disk[e].n = Size
      BY <1>3, <1>7
    <3> QED BY <1>7, <1>8, <1>9, <3>1, CutWhole DEF k
  <2>2. PICK j \in 1..k : e = Size * j
    BY <2>1
  <2> HIDE DEF k
  <2>3. Size * j <= Size * k /\ Size * k \in Nat
    BY <1>9, Constants
  <2>4. e \in 1..(Size * k)
    BY <1>7, <2>2, <2>3
  <2> QED BY <2>4 DEF Whole, k
<1>11. ram' \in ValuesIn(disk)
  <2>1. e \in DOMAIN disk /\ disk[e].val = ram'
    BY <1>7
  <2> QED BY <2>1 DEF ValuesIn
<1>12. disk[e].val = ram'
  BY <1>7
<1> QED BY <1>1, <1>2, <1>10, <1>11, <1>12 DEF e

LEMMA RamMoves == ASSUME JInv, Steady, [Next]_vars
                  PROVE  /\ ram' \in Around \cup {0, ram, wrote'} /\ mark' \in {mark, ram}
                         /\ wrote' \in {wrote, wrote + 1}
                         /\ rpc \in {"up", "closing"} /\ rpc' # "down" => ram' \in {ram, wrote + 1}
<1>1. CASE UNCHANGED <<ram, wrote, mark>>
  BY <1>1
<1>2. CASE Replay
  <2>1. ram' \in Around /\ wrote' = wrote /\ mark' = mark /\ rpc = "reading"
    BY <1>2, ReplayTakes, AroundTyped DEF Replay
  <2> QED BY <2>1
<1>3. CASE Start \/ Write \/ Close \/ Exit \/ Kill \/ PowerLoss
  BY <1>3 DEF Start, Write, Close, Exit, Kill, PowerLoss, Crash, Gone
<1>4. CASE BackgroundWriter \/ ReadLock \/ Fill \/ Truncate \/ ReadEnds \/ Rewrite
  <2>1. UNCHANGED <<ram, wrote, mark>>
    BY <1>4 DEF BackgroundWriter, Duplicate, Receive, Drain, TickerFires, TickFlush, TickSync, Stop,
         FinalDrain, FinalFlush, FinalSync, ProcessEntry, FlushBuf, SyncFile, ReadLock, Fill, Truncate,
         ReadEnds, Rewrite, StartRewrite, Snapshot, TakeBuffer, Replace, Unhurt
  <2> QED BY <1>1, <2>1
<1>5. CASE UNCHANGED vars
  BY <1>1, <1>5 DEF vars
<1> QED BY <1>2, <1>3, <1>4, <1>5 DEF Next, Reading

\* What is owed grows to what is in the file, or in the end to what RAM served at Close.
LEMMA OwedMoves == ASSUME JInv, [Next]_vars
                   PROVE  \/ owed' = owed
                          \/ owed' \in Around \cup {0, owed} /\ rpc' = rpc
                          \/ Exit /\ owed' = Max({owed, mark}) /\ owed' \in {owed, mark}
<1>1. {owed, mark} \subseteq Nat /\ MaxWrites \in Nat
  BY CountsTyped, Constants
<1>2. ASSUME SyncFile PROVE owed' \in Around \cup {0, owed} /\ rpc' = rpc
  <2>1. NewestIn(disk) \in {0} \cup (Values \cap ValuesIn(disk))
    BY AroundTyped, NewestOfValues
  <2>2. NewestIn(disk) \in Nat /\ NewestIn(disk) \in Around \cup {0}
    BY <2>1, AroundTyped DEF Values
  <2>3. owed' = Max({owed, NewestIn(disk)}) /\ rpc' = rpc
    BY <1>2 DEF SyncFile
  <2> QED BY <1>1, <2>2, <2>3, LargerOfTwo
<1>3. CASE Replace
  <2> DEFINE a == NewestIn(disk \o buf)
             b == NewestIn(tmp)
  <2>1. owed' = Max({owed, a, b}) /\ rw = "replace" /\ rpc' = rpc
    BY <1>3 DEF Replace, Unhurt
  <2>2. disk \o buf \in Seq(Piece) /\ tmp \in Seq(Piece) /\ ValuesIn(tmp) \subseteq Around
        /\ ValuesIn(disk \o buf) \subseteq Around
    <3>1. disk \in Seq(Piece) /\ buf \in Seq(Piece) /\ tmp \in Seq(Piece)
      BY AroundTyped
    <3>2. disk \o buf \in Seq(Piece)
      BY <3>1, ConcatProperties
    <3> QED BY <2>1, <3>1, <3>2, AroundTyped
  <2>3. a \in {0} \cup (Values \cap Around) /\ b \in {0} \cup (Values \cap Around)
    BY <2>2, NewestOfValues
  <2> HIDE DEF a, b
  <2>4. owed \in 0..MaxWrites
    BY Constants DEF JInv, TInv, TypeOK, Values
  <2>5. {owed, a, b} \in SUBSET (0..MaxWrites) /\ {owed, a, b} # {}
    BY <1>1, <2>3, <2>4 DEF Values
  <2>6. Max({owed, a, b}) \in {owed, a, b}
    BY <1>1, <2>5, Greatest
  <2> QED BY <2>1, <2>3, <2>6
<1>4. CASE Exit
  <2>1. owed' = Max({owed, mark})
    BY <1>4 DEF Exit
  <2> QED BY <1>1, <1>4, <2>1, LargerOfTwo
<1>5. CASE \/ Duplicate \/ Receive \/ Drain \/ TickerFires \/ TickFlush \/ Stop \/ FinalDrain \/ FinalFlush
           \/ Reading \/ StartRewrite \/ Snapshot \/ TakeBuffer
           \/ Start \/ Write \/ Close \/ Kill \/ PowerLoss \/ UNCHANGED vars
  <2>1. owed' = owed
    BY <1>5 DEF Duplicate, Receive, Drain, TickerFires, TickFlush, Stop, FinalDrain, FinalFlush,
         ProcessEntry, FlushBuf, Reading, ReadLock, Fill, Replay, Truncate, ReadEnds, StartRewrite,
         Snapshot, TakeBuffer, Start, Write, Close, Kill, PowerLoss, Crash, vars
  <2> QED BY <2>1
<1> QED BY <1>2, <1>3, <1>4, <1>5 DEF Next, BackgroundWriter, TickSync, FinalSync, Rewrite

LEMMA StepBounded == ASSUME JInv, Steady, Bounded, [Next]_vars PROVE Bounded'
<1>1. {ram, mark, owed} \subseteq 0..wrote /\ (\A v \in Around : v <= wrote) /\ wrote \in Nat
  <2>1. wrote \in Nat
    BY CountsTyped
  <2> QED BY <2>1 DEF Bounded
<1>2. Around \subseteq Nat
  BY AroundTyped, Constants DEF Values
<1>3. /\ ram' \in Around \cup {0, ram, wrote'} /\ mark' \in {mark, ram} /\ wrote' \in {wrote, wrote + 1}
  BY RamMoves
<1>4. Around' \subseteq Around \cup {0, ram, ram'}
  BY AroundMoves
<1>5. owed' \in Around \cup {0, owed, mark}
  BY OwedMoves
<1>6. wrote <= wrote' /\ wrote' \in Nat
  BY <1>1, <1>3
<1>7. ram' \in 0..wrote' /\ mark' \in 0..wrote' /\ owed' \in 0..wrote'
  BY <1>1, <1>2, <1>3, <1>5, <1>6
<1>8. \A v \in Around' : v <= wrote'
  BY <1>1, <1>2, <1>4, <1>6, <1>7
<1> QED BY <1>7, <1>8 DEF Bounded

-------------------------------------------------------------------------------
(* The file while it is read *)

LEMMA LastWholeTyped ==
  ASSUME JInv
  PROVE  /\ Whole \in 0..Len(disk) /\ Len(disk) \in Nat /\ LastWhole \in Nat
         /\ \E k \in Nat : k = Len(disk) \div Size /\ Whole = Size * k /\ (Whole = 0 <=> k = 0)
<1>1. disk \in Seq(Piece) /\ Len(disk) \in Nat /\ Size \in Nat \ {0}
  BY Constants DEF JInv, TInv, TypeOK
<1> DEFINE k == Len(disk) \div Size
           t == Len(disk) % Size
<1>2. k \in Nat /\ t \in 0..Size-1 /\ Len(disk) = Size * k + t
  BY <1>1, Division
<1>3. Whole = Size * k
  BY DEF Whole
<1> HIDE DEF k, t
<1>4. Size * k \in Nat /\ (Size * k = 0 <=> k = 0)
  BY <1>1, <1>2
<1>5. Whole \in 0..Len(disk)
  BY <1>1, <1>2, <1>3, <1>4
<1>6. LastWhole \in Nat
  <2>1. CASE Whole = 0
    BY <2>1 DEF LastWhole
  <2>2. CASE Whole # 0
    <3>1. Whole \in 1..Len(disk)
      BY <1>1, <1>5, <2>2
    <3>2. disk[Whole] \in Piece
      BY <1>1, <3>1
    <3> QED BY <2>2, <3>2 DEF LastWhole, Piece, Values
  <2> QED BY <2>1, <2>2
<1>7. k = Len(disk) \div Size
  BY DEF k
<1> QED BY <1>1, <1>2, <1>3, <1>4, <1>5, <1>6, <1>7

\* While the file is read, the writer only takes records into its buffer.
LEMMA ReadAlone ==
  ASSUME JInv, RecoveryFits, rpc = "reading", BackgroundWriter
  PROVE  /\ UNCHANGED <<disk, ram, valid, owed, rpc, starts>> /\ Waiting' \subseteq Waiting \cup {0}
<1>1. TInv /\ Locks /\ Stopping
  BY DEF JInv, TInv
<1>2. wpc \notin {"sync", "final", "finalSync", "done"} /\ mu = "reader"
  BY <1>1 DEF Locks, Stopping
<1>3. buf \in Seq(Piece) /\ ch \in Seq(Values)
  BY AroundTyped
<1>4. UNCHANGED <<ram, valid, rpc, starts>>
  BY DEF BackgroundWriter, Duplicate, Receive, Drain, TickerFires, TickFlush, TickSync, Stop,
         FinalDrain, FinalFlush, FinalSync, ProcessEntry, FlushBuf, SyncFile, reader, bounds
<1>5. CASE ProcessEntry
  <2>1. disk' = disk /\ buf' = buf \o Pieces(Head(ch)) /\ Head(ch) \in Values
    BY <1>1, <1>5, EntryWritten DEF RecoveryFits, ProcessEntry
  <2>2. owed' = owed /\ ch # <<>> /\ ch' = Tail(ch) /\ dup' = Head(ch)
    BY <1>5 DEF ProcessEntry
  <2>3. ValuesIn(buf \o Pieces(Head(ch))) = ValuesIn(buf) \cup {Head(ch)}
    <3>1. Pieces(Head(ch)) \in Seq(Piece)
      BY <2>1, PiecesTyped
    <3> QED BY <1>3, <2>1, <3>1, ValuesOfConcat, ValuesOfPieces
  <2>4. Head(ch) \in Range(ch) /\ Range(Tail(ch)) \subseteq Range(ch)
    BY <1>3, <2>2, RangeOfHead
  <2>5. ValuesIn(buf)' = ValuesIn(buf \o Pieces(Head(ch))) /\ Range(ch)' = Range(Tail(ch))
    BY <2>1, <2>2 DEF ValuesIn, Range
  <2>6. Waiting' \subseteq Waiting
    BY <2>2, <2>3, <2>4, <2>5 DEF Waiting
  <2> QED BY <1>4, <2>1, <2>2, <2>6
<1>6. CASE Duplicate
  <2>1. UNCHANGED <<disk, buf, ch, owed>> /\ dup' = 0
    BY <1>6 DEF Duplicate, file, writer
  <2>2. ValuesIn(buf)' = ValuesIn(buf) /\ Range(ch)' = Range(ch)
    BY <2>1 DEF ValuesIn, Range
  <2> QED BY <1>4, <2>1, <2>2 DEF Waiting
<1>7. CASE TickerFires \/ Stop \/ (Drain /\ ~ProcessEntry)
  <2>1. UNCHANGED <<disk, buf, ch, dup, owed>>
    BY <1>7 DEF TickerFires, Stop, Drain, file, rewrite
  <2>2. Waiting' = Waiting
    BY <2>1 DEF Waiting, ValuesIn, Range
  <2> QED BY <1>4, <2>1, <2>2
<1>8. ~ (TickFlush \/ TickSync \/ FinalDrain \/ FinalFlush \/ FinalSync)
  BY <1>2 DEF TickFlush, TickSync, FinalDrain, FinalFlush, FinalSync
<1> QED BY <1>5, <1>6, <1>7, <1>8 DEF BackgroundWriter, Receive, Drain

LEMMA StepReadBack == ASSUME JInv, Steady, RecoveryFits, ReadBack, [Next]_vars PROVE ReadBack'
<1> SUFFICES ASSUME (rpc = "reading" /\ valid # 0)' PROVE (ram = disk[valid].val)'
  BY DEF ReadBack
<1>1. ASSUME rpc = "reading", UNCHANGED <<disk, ram, valid>> PROVE (ram = disk[valid].val)'
  BY <1>1 DEF ReadBack
<1>2. CASE BackgroundWriter
  <2>1. rpc = "reading"
    BY <1>2 DEF BackgroundWriter, Duplicate, Receive, Drain, TickerFires, TickFlush, TickSync, Stop,
         FinalDrain, FinalFlush, FinalSync, ProcessEntry, FlushBuf, SyncFile
  <2> QED BY <1>1, <1>2, <2>1, ReadAlone
<1>3. CASE ReadLock
  BY <1>3 DEF ReadLock
<1>4. CASE Fill
  BY <1>1, <1>4 DEF Fill
<1>5. CASE Replay
  BY <1>5, ReplayTakes
<1>6. CASE UNCHANGED vars
  BY <1>1, <1>6 DEF vars
<1>7. ASSUME \/ Truncate \/ ReadEnds \/ Rewrite \/ Start \/ Write \/ Close \/ Exit \/ Kill \/ PowerLoss
      PROVE  FALSE
  BY <1>7 DEF JInv, TInv, Locks, Truncate, ReadEnds, Rewrite, StartRewrite, Snapshot, TakeBuffer, Replace,
              Unhurt, Start, Write, Close, Exit, Kill, PowerLoss, Crash, Gone
<1> QED BY <1>2, <1>3, <1>4, <1>5, <1>6, <1>7 DEF Next, Reading

\* What the log says of the file's whole records.
LEMMA LogOfFile ==
  ASSUME JInv, NEW k \in Nat, k = Len(disk) \div Size
  PROVE  /\ k <= Len(LogNow) /\ Len(LogNow) \in Nat /\ LogNow \in Seq(Values)
         /\ \E r \in Seq(Values) : CutOf(disk, r) /\ \A j \in 1..k : LogNow[j] = r[j]
         /\ rpc = "down" => Len(LogNow) = k
<1>1. PICK r, rest \in Seq(Values) : CutOf(disk, r) /\ LogNow = SubSeq(r, 1, k) \o rest
  BY LogShape
<1>2. disk \in Seq(Piece)
  BY AroundTyped
<1>3. k \in 0..Len(r) /\ Lines(disk) = SubSeq(r, 1, k)
  BY <1>1, <1>2, CutLines
<1> DEFINE a == SubSeq(r, 1, k)
<1>4. a \in Seq(Values) /\ Len(a) = k /\ \A j \in 1..k : a[j] = r[j]
  BY <1>3, FirstPart
<1>5. LogNow = a \o rest
  BY <1>1
<1> HIDE DEF a
<1>6. /\ LogNow \in Seq(Values) /\ Len(LogNow) = k + Len(rest) /\ Len(rest) \in Nat
      /\ \A j \in 1..(k + Len(rest)) : LogNow[j] = IF j <= k THEN a[j] ELSE rest[j - k]
  <2> DEFINE z == a \o rest
  <2>1. /\ z \in Seq(Values) /\ Len(z) = Len(a) + Len(rest) /\ Len(rest) \in Nat
        /\ \A j \in 1..(Len(a) + Len(rest)) : z[j] = IF j <= Len(a) THEN a[j] ELSE rest[j - Len(a)]
    BY <1>4, ConcatProperties, LenProperties
  <2>2. LogNow = z
    BY <1>5
  <2> HIDE DEF z
  <2> QED BY <1>4, <2>1, <2>2
<1>7. k <= Len(LogNow) /\ Len(LogNow) \in Nat /\ \A j \in 1..k : LogNow[j] = r[j]
  <2>1. \A j \in 1..k : j \in 1..(k + Len(rest)) /\ j <= k
    BY <1>6
  <2> QED BY <1>4, <1>6, <2>1
<1>8. ASSUME rpc = "down" PROVE Len(LogNow) = k
  <2>1. buf = <<>> /\ ch = <<>>
    BY <1>8 DEF JInv, Closed
  <2>2. LogNow = a \o Lines(buf) \o ch
    BY <1>3, <1>8 DEF LogNow, a
  <2>3. Lines(buf) = <<>>
    <3>1. <<>> \in Seq(Values)
      OBVIOUS
    <3> QED BY <2>1, <3>1, RecordedNone, WholeSays
  <2>4. (a \o <<>>) \o <<>> = a
    BY <1>4, ConcatEmptySeq
  <2>5. LogNow = a
    BY <2>1, <2>2, <2>3, <2>4
  <2> QED BY <1>4, <2>5
<1> QED BY <1>1, <1>6, <1>7, <1>8

LEMMA StartKept == ASSUME JInv, LogKept, Start PROVE FileKept'
<1>1. /\ rpc = "down" /\ starts' = starts + 1 /\ starts \in Nat
      /\ UNCHANGED <<disk, buf, ch, dup, owed>>
  BY Constants DEF Start, rewrite, JInv, TInv, TypeOK
<1>2. buf = <<>> /\ ch = <<>> /\ dup = 0
  BY <1>1 DEF JInv, Closed
<1>3. Waiting = {0}
  BY <1>2, ValuesOfNone DEF Waiting
<1>4. Whole' = Whole /\ LastWhole' = LastWhole /\ Waiting' = Waiting
  BY <1>1 DEF Whole, LastWhole, Waiting, ValuesIn, Range
<1> SUFFICES ASSUME starts' <= 2
             PROVE  owed <= LastWhole /\ (\A i \in 1..Whole : disk[i].val <= LastWhole)
  <2>1. LastWhole \in Nat
    BY LastWholeTyped
  <2> QED BY <1>1, <1>3, <1>4, <2>1 DEF FileKept
<1>5. PICK k \in Nat : k = Len(disk) \div Size /\ Whole = Size * k /\ (Whole = 0 <=> k = 0)
  BY LastWholeTyped
<1>6. Len(LogNow) = k /\ LogNow \in Seq(Values)
  BY <1>1, <1>5, LogOfFile
<1>7. PICK r \in Seq(Values) : CutOf(disk, r) /\ \A j \in 1..k : LogNow[j] = r[j]
  BY <1>5, LogOfFile
<1>8. Peak(LogNow, k, owed)
  <2>1. SafeNow <= k /\ SafeNow \in Nat
    BY <1>5, SafeInLog
  <2>2. k \in SafeNow..Len(LogNow)
    BY <1>6, <2>1
  <2> QED BY <1>1, <2>2 DEF LogKept
<1>9. disk \in Seq(Piece)
  BY AroundTyped
<1>10. /\ \A j \in 1..k : disk[Size * j] = [val |-> r[j], n |-> Size]
       /\ \A i \in 1..Whole : \E j \in 1..k : disk[i].val = r[j]
  BY <1>5, <1>7, <1>9, CutWhole
<1>11. CASE k = 0
  BY <1>5, <1>8, <1>11 DEF Peak, LastWhole
<1>12. CASE k # 0
  <2>1. owed <= LogNow[k] /\ \A j \in 1..k : LogNow[j] <= LogNow[k]
    BY <1>8, <1>12 DEF Peak
  <2>2. k \in 1..k
    BY <1>12
  <2>3. LastWhole = LogNow[k]
    <3>1. LastWhole = disk[Size * k].val
      BY <1>5, <1>12 DEF LastWhole
    <3>2. disk[Size * k] = [val |-> r[k], n |-> Size] /\ LogNow[k] = r[k]
      BY <1>7, <1>10, <2>2
    <3> QED BY <3>1, <3>2
  <2> QED BY <1>7, <1>10, <2>1, <2>3
<1> QED BY <1>11, <1>12

\* What is synced is no newer than the last whole record if no whole record is.
LEMMA NewestWithin ==
  ASSUME JInv, \A i \in 1..Whole : disk[i].val <= LastWhole
  PROVE  NewestIn(disk) <= LastWhole /\ NewestIn(disk) \in Nat
<1>1. PICK k \in Nat : k = Len(disk) \div Size /\ Whole = Size * k
  BY LastWholeTyped
<1>2. PICK r \in Seq(Values) : CutOf(disk, r)
  BY LogShape
<1>3. disk \in Seq(Piece) /\ LastWhole \in Nat
  BY AroundTyped, LastWholeTyped
<1>4. NewestIn(disk) \in Nat
  BY NewestTyped DEF Values
<1>5. CASE NewestIn(disk) # 0
  <2>1. PICK j \in 1..k : NewestIn(disk) = r[j]
    BY <1>1, <1>2, <1>3, <1>5, NewestIsWhole
  <2>2. disk[Size * j] = [val |-> r[j], n |-> Size]
    BY <1>1, <1>2, <1>3, CutWhole
  <2>3. Size * j \in 1..Whole
    <3>1. Size * j <= Size * k /\ Size * j \in Nat \ {0} /\ Size * k \in Nat
      BY Constants
    <3> QED BY <1>1, <3>1
  <2>4. disk[Size * j].val = NewestIn(disk)
    BY <2>1, <2>2
  <2>5. disk[Size * j].val <= LastWhole
    BY <2>3
  <2> QED BY <1>4, <2>4, <2>5
<1> QED BY <1>3, <1>4, <1>5

LEMMA StepFileKept ==
  ASSUME JInv, Steady, RecoveryFits, FileKept, LogKept, [Next]_vars
  PROVE  FileKept'
<1>1. TInv /\ Locks /\ Stopping /\ LastWhole \in Nat
  BY LastWholeTyped DEF JInv, TInv
<1>2. owed \in Nat
  BY CountsTyped
<1>3. ASSUME rpc \in {"open", "reading"}, starts' = starts, disk' = disk, owed' <= LastWhole \/ starts > 2,
             Waiting' \subseteq Waiting \cup {0}
      PROVE  FileKept'
  <2>1. Whole' = Whole /\ LastWhole' = LastWhole
    BY <1>3 DEF Whole, LastWhole
  <2> SUFFICES ASSUME starts <= 2
               PROVE  /\ owed' <= LastWhole /\ (\A i \in 1..Whole : disk[i].val <= LastWhole)
                      /\ \A v \in Waiting' : v <= LastWhole
    BY <1>3, <2>1 DEF FileKept
  <2>2. starts \in Nat /\ 0 <= LastWhole
    BY <1>1, Constants DEF TInv, TypeOK
  <2>3. (\A i \in 1..Whole : disk[i].val <= LastWhole) /\ \A v \in Waiting : v <= LastWhole
    BY <1>3 DEF FileKept
  <2> QED BY <1>3, <2>2, <2>3
<1>4. ASSUME rpc \in {"open", "reading"} PROVE owed <= LastWhole \/ starts > 2
  BY <1>1, <1>4, Constants DEF FileKept, TInv, TypeOK
<1>5. ASSUME rpc \in {"open", "reading"}, UNCHANGED <<starts, disk, owed, buf, ch, dup>> PROVE FileKept'
  <2>1. Waiting' = Waiting
    BY <1>5 DEF Waiting, ValuesIn, Range
  <2> QED BY <1>3, <1>4, <1>5, <2>1
<1>6. CASE BackgroundWriter /\ rpc = "reading"
  BY <1>3, <1>4, <1>6, ReadAlone
<1>7. CASE BackgroundWriter /\ rpc = "open"
  <2>1. buf = <<>> /\ ch = <<>> /\ dup = 0
    BY <1>7 DEF JInv, Closed
  <2>2. disk \in Seq(Piece)
    BY AroundTyped
  <2>3. ~ProcessEntry /\ ~Duplicate
    BY <2>1 DEF ProcessEntry, Duplicate
  <2>4. ASSUME NEW next, FlushBuf(next) PROVE FileKept'
    <3>1. disk' = disk \o buf /\ buf' = <<>> /\ UNCHANGED <<starts, owed, ch, dup>>
      BY <2>4 DEF FlushBuf, WriteFile, rewrite, bounds
    <3> QED BY <1>5, <1>7, <2>1, <2>2, <3>1, ConcatEmptySeq
  <2>5. ASSUME SyncFile PROVE FileKept'
    <3>1. UNCHANGED <<starts, disk, buf, ch, dup>> /\ owed' = Max({owed, NewestIn(disk)})
      BY <2>5 DEF SyncFile, rewrite, bounds
    <3>2. Waiting' = Waiting
      BY <3>1 DEF Waiting, ValuesIn, Range
    <3>3. owed' <= LastWhole \/ starts > 2
      <4>1. SUFFICES ASSUME starts <= 2 PROVE owed' <= LastWhole
        BY <1>1, Constants DEF TInv, TypeOK
      <4>2. owed <= LastWhole /\ \A i \in 1..Whole : disk[i].val <= LastWhole
        BY <1>7, <4>1 DEF FileKept
      <4>3. NewestIn(disk) <= LastWhole /\ NewestIn(disk) \in Nat
        BY <4>2, NewestWithin
      <4> QED BY <1>2, <3>1, <4>2, <4>3, LargerOfTwo
    <3> QED BY <1>3, <1>7, <3>1, <3>2, <3>3
  <2>6. CASE TickerFires \/ Stop \/ Drain
    <3>1. UNCHANGED <<starts, disk, owed, buf, ch, dup>>
      BY <2>3, <2>6 DEF TickerFires, Stop, Drain, file, rewrite, bounds
    <3> QED BY <1>5, <1>7, <3>1
  <2> QED BY <1>7, <2>3, <2>4, <2>5, <2>6
          DEF BackgroundWriter, Receive, FinalDrain, TickFlush, FinalFlush, TickSync, FinalSync
<1>8. CASE BackgroundWriter /\ rpc \notin {"open", "reading"}
  <2>1. rpc' = rpc
    BY <1>8 DEF BackgroundWriter, Duplicate, Receive, Drain, TickerFires, TickFlush, TickSync, Stop,
         FinalDrain, FinalFlush, FinalSync, ProcessEntry, FlushBuf, SyncFile
  <2> QED BY <1>8, <2>1 DEF FileKept
<1>9. CASE ReadLock
  BY <1>5, <1>9 DEF ReadLock, writer, rewrite, bounds
<1>10. CASE Fill
  BY <1>5, <1>10 DEF Fill, writer, rewrite, bounds
<1>11. CASE Replay
  <2>1. /\ rpc = "reading" /\ UNCHANGED <<starts, disk, owed, buf, dup>> /\ ch' = Append(ch, ram')
    BY <1>11 DEF Replay, file, rewrite, bounds
  <2>2. valid + Size \in 1..Whole /\ disk[valid + Size].val = ram'
    BY <1>11, ReplayTakes
  <2>3. Range(Append(ch, ram')) \subseteq Range(ch) \cup {ram'}
    BY AroundTyped, RangeOfAppend
  <2>4. Waiting' \subseteq Waiting \cup {ram'}
    <3>1. Range(ch)' = Range(Append(ch, ram')) /\ ValuesIn(buf)' = ValuesIn(buf)
      BY <2>1 DEF Range, ValuesIn
    <3> QED BY <2>1, <2>3, <3>1 DEF Waiting
  <2>5. Whole' = Whole /\ LastWhole' = LastWhole
    BY <2>1 DEF Whole, LastWhole
  <2> SUFFICES ASSUME starts <= 2
               PROVE  /\ owed <= LastWhole /\ (\A i \in 1..Whole : disk[i].val <= LastWhole)
                      /\ \A v \in Waiting' : v <= LastWhole
    BY <2>1, <2>5 DEF FileKept
  <2>6. /\ owed <= LastWhole /\ (\A i \in 1..Whole : disk[i].val <= LastWhole)
        /\ \A v \in Waiting : v <= LastWhole
    BY <2>1 DEF FileKept
  <2>7. ram' <= LastWhole
    BY <2>2, <2>6
  <2> QED BY <2>4, <2>6, <2>7
<1>12. CASE Start
  BY <1>12, StartKept
<1>13. CASE Truncate \/ ReadEnds \/ Rewrite \/ Write \/ Close \/ Exit \/ Kill \/ PowerLoss
  <2>1. rpc' \notin {"open", "reading"}
    BY <1>1, <1>13 DEF Truncate, ReadEnds, Rewrite, StartRewrite, Snapshot, TakeBuffer, Replace,
              Unhurt, Locks, Write, Close, Exit, Kill, PowerLoss, Crash, Gone
  <2> QED BY <2>1 DEF FileKept
<1>14. CASE UNCHANGED vars
  <2>1. rpc' = rpc /\ UNCHANGED <<starts, disk, owed, buf, ch, dup>>
    BY <1>14 DEF vars
  <2> QED BY <1>5, <2>1 DEF FileKept
<1> QED BY <1>6, <1>7, <1>8, <1>9, <1>10, <1>11, <1>12, <1>13, <1>14 DEF Next, Reading

LEMMA StepNewest == ASSUME JInv, Steady, Bounded, Newest, FileKept, ReadBack, [Next]_vars PROVE Newest'
<1> SUFFICES ASSUME rpc' \in {"up", "closing"}, starts' <= 2
             PROVE  owed' <= ram' /\ \A v \in Around' : v <= ram'
  BY DEF Newest
<1>1. /\ TInv /\ Locks /\ {ram, owed, wrote} \subseteq Nat /\ Around \subseteq Nat
      /\ ram <= wrote
  <2>1. TInv /\ Locks /\ {ram, owed, wrote} \subseteq Nat
    BY CountsTyped DEF JInv, TInv
  <2>2. Around \subseteq Nat
    BY AroundTyped, Constants DEF Values
  <2>3. ram <= wrote
    BY DEF Bounded
  <2> QED BY <2>1, <2>2, <2>3
<1>2. CASE Truncate \/ ReadEnds
  <2>1. rpc = "reading" /\ UNCHANGED <<buf, ch, dup, ram, owed, starts, rw>>
    BY <1>2 DEF Truncate, ReadEnds, file, writer, rewrite, bounds
  <2>2. rw' = "off"
    BY <1>1, <2>1 DEF Locks
  <2>3. PICK m \in Nat : /\ valid = Size * m /\ valid \in Nat /\ valid + Len(rbuf) = off
                         /\ off <= Len(disk) /\ off \in Nat /\ Len(rbuf) \in Nat /\ Len(disk) \in Nat
                         /\ disk \in Seq(Piece)
    BY <2>1, InScanner
  <2>4. Whole = valid
    <3>1. Len(disk) \div Size = m
      BY <1>2, <2>3, ReadIsOver
    <3> QED BY <2>3, <3>1 DEF Whole
  <2>5. ram = LastWhole
    <3>1. CASE valid = 0
      <4>1. ram = 0
        BY <2>1, <3>1 DEF JInv, Recovering, Scanned
      <4> QED BY <2>4, <3>1, <4>1 DEF LastWhole
    <3>2. CASE valid # 0
      BY <2>1, <2>4, <3>2 DEF LastWhole, ReadBack
    <3> QED BY <3>1, <3>2
  <2>6. /\ owed <= LastWhole
        /\ \A i \in 1..Whole : disk[i].val <= LastWhole
        /\ \A v \in Waiting : v <= LastWhole
    BY <2>1 DEF FileKept
  <2>7. disk' \in Seq(Piece) /\ \A v \in ValuesIn(disk') : v <= LastWhole
    <3>1. disk' = SubSeq(disk, 1, valid)
      <4>1. CASE Truncate
        BY <4>1 DEF Truncate
      <4>2. CASE ReadEnds
        <5>1. rbuf = <<>> /\ eof /\ disk' = disk
          BY <4>2 DEF ReadEnds, HasLine, file
        <5>2. Len(disk) = valid
          BY <2>1, <2>3, <5>1 DEF JInv, Recovering, Scanned
        <5> QED BY <2>3, <5>1, <5>2, SubSeqFull
      <4> QED BY <1>2, <4>1, <4>2
    <3>2. valid \in 0..Len(disk)
      BY <2>3
    <3>3. disk' \in Seq(Piece) /\ Len(disk') = valid /\ \A i \in 1..valid : disk'[i] = disk[i]
      BY <2>3, <3>1, <3>2, FirstPart
    <3>4. \A i \in DOMAIN disk' : i \in 1..Whole /\ disk'[i] = disk[i]
      BY <2>4, <3>3
    <3> QED BY <2>6, <3>3, <3>4 DEF ValuesIn
  <2>8. Around' = ValuesIn(disk') \cup Waiting
    <3>1. buf \in Seq(Piece)
      BY AroundTyped
    <3>2. ValuesIn(disk' \o buf) = ValuesIn(disk') \cup ValuesIn(buf)
      BY <2>7, <3>1, ValuesOfConcat
    <3>3. (ValuesIn(disk \o buf))' = ValuesIn(disk' \o buf) /\ Range(ch)' = Range(ch)
      BY <2>1 DEF ValuesIn, Range
    <3> QED BY <2>1, <2>2, <3>2, <3>3 DEF Around, Waiting
  <2> QED BY <2>1, <2>5, <2>6, <2>7, <2>8
<1>3. CASE ~ (Truncate \/ ReadEnds)
  <2>1. rpc \in {"up", "closing"} /\ starts' = starts /\ ~Exit
    <3>1. CASE Next
      BY <1>3, <3>1 DEF Next, BackgroundWriter, Duplicate, Receive, Drain, TickerFires, TickFlush, TickSync,
         Stop, FinalDrain, FinalFlush, FinalSync, ProcessEntry, FlushBuf, SyncFile, Reading, ReadLock, Fill,
         Replay, Rewrite, StartRewrite, Snapshot, TakeBuffer, Replace, Unhurt, bounds,
         Start, Write, Close, Exit, Kill, PowerLoss, Crash, Gone
    <3>2. CASE UNCHANGED vars
      BY <3>2 DEF vars, Exit, Gone
    <3> QED BY <3>1, <3>2
  <2>2. owed <= ram /\ \A v \in Around : v <= ram
    BY <2>1 DEF Newest
  <2>3. ram' \in {ram, wrote + 1}
    BY <2>1, RamMoves
  <2>4. ram <= ram' /\ ram' \in Nat
    BY <1>1, <2>3
  <2>5. owed' \in Around \cup {0, owed}
    BY <2>1, OwedMoves
  <2>6. Around' \subseteq Around \cup {0, ram, ram'}
    BY AroundMoves
  <2>7. owed' <= ram'
    BY <1>1, <2>2, <2>4, <2>5
  <2>8. \A v \in Around' : v <= ram'
    BY <1>1, <2>2, <2>4, <2>6
  <2> QED BY <2>7, <2>8
<1> QED BY <1>2, <1>3

-------------------------------------------------------------------------------
(* The log of the first life *)

LEMMA RecordedHas == ASSUME NEW r \in Seq(Values) PROVE Range(r) \subseteq ValuesIn(Recorded(r))
<1> SUFFICES ASSUME NEW j \in DOMAIN r PROVE r[j] \in ValuesIn(Recorded(r))
  BY DEF Range
<1>1. /\ Recorded(r) \in Seq(Piece) /\ Len(Recorded(r)) = Size * Len(r) /\ Len(r) \in Nat
      /\ \A i \in 1..Len(r), t \in 1..Size : Recorded(r)[Place(i, t)] = [val |-> r[i], n |-> t]
  BY RecordedTyped
<1>2. 1 \in 1..Size /\ j \in 1..Len(r) /\ Len(r) \in Nat
  BY <1>1, Constants
<1>3. Place(j, 1) \in 1..(Size * Len(r))
  BY ONLY <1>2, InPlace
<1>4. Recorded(r)[Place(j, 1)] = [val |-> r[j], n |-> 1]
  BY <1>1, <1>2
<1>5. Recorded(r)[Place(j, 1)].val = r[j]
  BY <1>4
<1> HIDE DEF Place
<1>6. Place(j, 1) \in DOMAIN Recorded(r)
  BY <1>1, <1>3
<1> QED BY <1>5, <1>6 DEF ValuesIn

\* While the database is open, the log is what the file, the buffer and the channel hold.
LEMMA LogServing ==
  ASSUME JInv, rpc \in {"up", "closing"}
  PROVE  \E r \in Seq(Values) : /\ Holds(r) /\ LogNow = r \o ch /\ r \o ch \in Seq(Values)
                                /\ \A i \in 1..Len(r \o ch) : (r \o ch)[i] \in Around
<1>1. PICK r \in Seq(Values) : Holds(r)
  BY DEF JInv, Serving
<1>2. disk \o buf = Recorded(r) /\ LogNow = Lines(disk \o buf) \o ch
  BY <1>1 DEF Holds, LogNow
<1>3. Lines(Recorded(r)) = r
  BY WholeSays
<1>4. ch \in Seq(Values) /\ Range(ch) \subseteq Around /\ ValuesIn(disk \o buf) \subseteq Around
  BY AroundTyped
<1>5. Range(r) \subseteq Around
  BY <1>2, <1>4, RecordedHas
<1> DEFINE c == r \o ch
<1>6. /\ c \in Seq(Values) /\ Len(c) = Len(r) + Len(ch) /\ Len(r) \in Nat /\ Len(ch) \in Nat
      /\ \A i \in 1..(Len(r) + Len(ch)) : c[i] = IF i <= Len(r) THEN r[i] ELSE ch[i - Len(r)]
  BY <1>4, ConcatProperties, LenProperties
<1>7. LogNow = c
  BY <1>2, <1>3
<1> HIDE DEF c
<1>8. ASSUME NEW i \in 1..Len(c) PROVE c[i] \in Around
  <2>1. CASE i <= Len(r)
    <3>1. i \in DOMAIN r /\ c[i] = r[i]
      BY <1>6, <2>1
    <3> QED BY <1>5, <3>1 DEF Range
  <2>2. CASE ~ (i <= Len(r))
    <3>1. i - Len(r) \in DOMAIN ch /\ c[i] = ch[i - Len(r)]
      BY <1>4, <1>6, <2>2
    <3> QED BY <1>4, <3>1 DEF Range
  <2> QED BY <2>1, <2>2
<1> QED BY <1>1, <1>6, <1>7, <1>8 DEF c

\* The log stays, and more of it may have been synced.
LEMMA LogKeptStays == ASSUME JInv, LogKept, LogSynced, owed' = owed, starts' <= 1 => starts <= 1
                      PROVE  LogKept'
<1> SUFFICES ASSUME starts' <= 1, NEW m \in (SafeNow..Len(LogNow))' PROVE Peak(LogNow, m, owed)'
  BY DEF LogKept
<1>1. SafeNow \in Nat /\ Len(LogNow) \in Nat
  BY SafeInLog
<1>2. LogNow' = LogNow /\ SafeNow' \in SafeNow..Len(LogNow)
  BY DEF LogSynced
<1>3. m \in SafeNow..Len(LogNow)
  BY <1>1, <1>2
<1>4. Peak(LogNow, m, owed)
  BY <1>3 DEF LogKept
<1> QED BY <1>2, <1>4 DEF Peak

\* fsync makes the newest whole record of the file owed, which the log has not outgrown.
LEMMA SyncKept == ASSUME JInv, LogKept, SyncFile PROVE LogKept'
<1>1. /\ starts' = starts /\ owed' = Max({owed, NewestIn(disk)})
      /\ LogNow' = LogNow /\ SafeNow' = Len(disk) \div Size
  BY SyncLogged DEF SyncFile, bounds, LogSynced
<1> SUFFICES ASSUME starts <= 1, NEW m \in (Len(disk) \div Size)..Len(LogNow)
             PROVE  Peak(LogNow, m, owed')
  BY <1>1 DEF LogKept, Peak
<1> DEFINE k == Len(disk) \div Size
<1>2. SafeNow \in Nat /\ SafeNow <= k /\ k \in Nat /\ k <= Len(LogNow) /\ Len(LogNow) \in Nat
  BY SafeInLog
<1>3. PICK r \in Seq(Values) : CutOf(disk, r) /\ \A j \in 1..k : LogNow[j] = r[j]
  BY <1>2, LogOfFile
<1>4. m \in SafeNow..Len(LogNow) /\ m \in Nat /\ k <= m
  BY <1>2
<1>5. Peak(LogNow, m, owed)
  BY <1>4 DEF LogKept
<1> DEFINE v == NewestIn(disk)
<1>6. v \in Nat /\ owed \in Nat
  <2>1. v \in {0} \cup Values
    BY NewestTyped
  <2> HIDE DEF v
  <2> QED BY <2>1, CountsTyped, Constants DEF Values
<1>7. v # 0 => \E j \in 1..k : v = LogNow[j]
  <2>1. disk \in Seq(Piece)
    BY AroundTyped
  <2>2. v # 0 => \E j \in 1..k : v = r[j]
    BY <1>2, <1>3, <2>1, NewestIsWhole
  <2> HIDE DEF v
  <2> QED BY <1>3, <2>2
<1>8. owed' \in {owed, v}
  BY <1>1, <1>6, LargerOfTwo
<1> HIDE DEF k, v
<1>9. Peak(LogNow, m, v)
  <2>1. CASE m = 0
    BY <1>2, <1>4, <1>7, <2>1 DEF Peak
  <2>2. CASE m # 0
    <3>1. LogNow \in Seq(Values) /\ LogNow[m] \in Nat /\ \A i \in 1..m : LogNow[i] <= LogNow[m]
      <4>1. LogNow \in Seq(Values)
        BY <1>2, LogOfFile DEF k
      <4>2. m \in 1..Len(LogNow)
        BY <1>4, <2>2
      <4>3. LogNow[m] \in Values
        BY <4>1, <4>2
      <4> QED BY <1>5, <2>2, <4>1, <4>3 DEF Peak, Values
    <3>2. v <= LogNow[m]
      <4>1. CASE v = 0
        BY <3>1, <4>1
      <4>2. CASE v # 0
        <5>1. PICK j \in 1..k : v = LogNow[j]
          BY <1>7, <4>2
        <5>2. j \in 1..m
          BY <1>2, <1>4
        <5> QED BY <3>1, <5>1, <5>2
      <4> QED BY <4>1, <4>2
    <3> QED BY <2>2, <3>1, <3>2 DEF Peak
  <2> QED BY <2>1, <2>2
<1> QED BY <1>5, <1>8, <1>9

\* A client's record is newer than all of the log.
LEMMA WriteKept == ASSUME JInv, Steady, Bounded, LogKept, Write PROVE LogKept'
<1>1. /\ starts' = starts /\ owed' = owed /\ wrote' = wrote + 1 /\ rpc \in {"up", "closing"}
  BY DEF Write, bounds
<1>2. SafeNow' = SafeNow /\ LogNow' \in {LogNow, Append(LogNow, wrote')}
  BY WriteLogged
<1>3. CASE LogNow' = LogNow
  <2>1. LogSynced
    BY <1>2, <1>3, LogStays
  <2> QED BY <1>1, <2>1, LogKeptStays
<1>4. CASE LogNow' = Append(LogNow, wrote')
  <2> SUFFICES ASSUME starts <= 1, NEW m \in (SafeNow..Len(LogNow))' PROVE Peak(LogNow, m, owed)'
    BY <1>1 DEF LogKept
  <2>1. PICK r \in Seq(Values) : /\ LogNow = r \o ch /\ r \o ch \in Seq(Values)
                                 /\ \A i \in 1..Len(r \o ch) : (r \o ch)[i] \in Around
    BY <1>1, LogServing
  <2> DEFINE c == r \o ch
             n == Len(c)
  <2>2. c \in Seq(Values) /\ LogNow = c /\ n \in Nat /\ \A i \in 1..n : c[i] \in Around
    BY <2>1
  <2>3. wrote \in Nat /\ owed \in Nat /\ owed <= wrote /\ \A v \in Around : v <= wrote
    BY CountsTyped DEF Bounded
  <2>4. \A i \in 1..n : c[i] \in Nat /\ c[i] <= wrote
    <3>1. Around \subseteq Nat
      BY AroundTyped, Constants DEF Values
    <3> QED BY <2>2, <2>3, <3>1
  <2> HIDE DEF c, n
  <2> DEFINE d == Append(c, wrote')
  <2>5. /\ Len(d) = n + 1 /\ d[n + 1] = wrote' /\ \A i \in 1..n : d[i] = c[i]
    BY <2>2, AppendProperties DEF n
  <2>6. LogNow' = d
    BY <1>4, <2>2
  <2> HIDE DEF d
  <2>7. SafeNow \in Nat /\ SafeNow <= n
    BY <2>2, SafeInLog DEF n
  <2>8. m \in SafeNow..(n + 1)
    BY <1>2, <2>5, <2>6
  <2>9. Peak(d, m, owed)
    <3>1. CASE m = n + 1
      <4>1. m # 0 /\ d[m] = wrote + 1 /\ \A i \in 1..n : d[i] \in Nat /\ d[i] <= wrote
        BY <1>1, <2>2, <2>4, <2>5, <3>1
      <4>2. \A i \in 1..m : d[i] <= d[m]
        BY <2>2, <2>3, <3>1, <4>1
      <4> QED BY <2>3, <4>1, <4>2 DEF Peak
    <3>2. CASE m # n + 1
      <4>1. m \in SafeNow..n /\ m \in Nat
        BY <2>2, <2>7, <2>8, <3>2
      <4>2. Peak(c, m, owed)
        BY <2>2, <4>1 DEF LogKept, n
      <4>3. \A i \in 1..m : d[i] = c[i]
        BY <2>2, <2>5, <4>1
      <4>4. m # 0 => m \in 1..m
        BY <4>1
      <4> QED BY <4>2, <4>3, <4>4 DEF Peak
    <3> QED BY <3>1, <3>2
  <2> QED BY <1>1, <2>6, <2>9 DEF Peak
<1> QED BY <1>2, <1>3, <1>4

\* The file that replaces the old one is synced, and ends with what RAM serves.
LEMMA ReplaceKept == ASSUME JInv, Steady, Newest, LogKept, Replace, Newest' PROVE LogKept'
<1>1. /\ starts' = starts /\ ram' = ram /\ rpc = "up" /\ rpc' = "up" /\ rw = "replace"
  BY DEF Replace, Unhurt, bounds, JInv, TInv, Locks
<1>2. PICK q \in Seq(Values) : tmp = Recorded(q) /\ EndsIn(q, ram) /\ LogNow' = q /\ SafeNow' = Len(q)
  BY ReplaceLogged
<1> SUFFICES ASSUME starts <= 1 PROVE Peak(q, Len(q), owed')
  <2>1. Len(q) \in Nat
    OBVIOUS
  <2>2. \A m \in Len(q)..Len(q) : m = Len(q)
    BY <2>1
  <2> QED BY <1>1, <1>2, <2>2 DEF LogKept, Peak
<1>3. starts <= 2 /\ owed' \in Nat /\ ram \in Nat
  <2>1. starts \in Nat /\ ram \in Nat
    BY CountsTyped
  <2>2. TInv'
    BY RewriteTyped DEF JInv, Rewrite
  <2>3. owed' \in {0} \cup Values
    BY <2>2 DEF TInv, TypeOK
  <2> QED BY <2>1, <2>3, Constants DEF Values
<1>4. owed' <= ram /\ \A v \in Around : v <= ram
  BY <1>1, <1>3 DEF Newest
<1>5. CASE q = <<>>
  <2>1. owed' = 0
    BY <1>2, <1>3, <1>4, <1>5 DEF EndsIn
  <2> QED BY <1>5, <2>1 DEF Peak
<1>6. CASE q # <<>>
  <2>1. Len(q) # 0 /\ q[Len(q)] = ram
    BY <1>2, <1>6, EmptySeq DEF EndsIn
  <2>2. Range(q) \subseteq Around
    <3>1. ValuesIn(tmp) \subseteq Around
      BY <1>1, AroundTyped
    <3> QED BY <1>2, <3>1, RecordedHas
  <2>3. \A i \in 1..Len(q) : q[i] <= ram
    BY <1>4, <2>2 DEF Range
  <2> QED BY <1>4, <2>1, <2>3 DEF Peak
<1> QED BY <1>5, <1>6

\* A crash leaves a first part of the log, no shorter than what is safe.
LEMMA GoneKept ==
  ASSUME JInv, LogKept, Gone, TInv', starts # 0, NEW k \in synced..Len(disk), disk' = SubSeq(disk, 1, k),
         synced' \in synced..k,
         starts <= 1 => \A m \in SafeNow'..(k \div Size) :
                          Peak(LogNow, m, owed) => Peak(LogNow, m, owed')
  PROVE  LogKept'
<1> DEFINE n == k \div Size
<1>1. n \in SafeNow..Len(LogNow) /\ LogNow' = SubSeq(LogNow, 1, n) /\ SafeNow' \in SafeNow..n
  BY GoneLogged
<1>2. SafeNow \in Nat /\ Len(LogNow) \in Nat /\ LogNow \in Seq(Values)
  <2>1. Len(disk) \div Size \in Nat
    BY SafeInLog
  <2> QED BY <2>1, SafeInLog, LogOfFile
<1>3. starts' = starts
  BY DEF Gone
<1>4. n \in 0..Len(LogNow)
  <2> HIDE DEF n
  <2> QED BY <1>1, <1>2
<1> SUFFICES ASSUME starts <= 1, NEW m \in SafeNow'..Len(LogNow') PROVE Peak(LogNow', m, owed')
  BY <1>3 DEF LogKept, Peak
<1>5. Len(LogNow') = n /\ \A i \in 1..n : LogNow'[i] = LogNow[i]
  <2> HIDE DEF n
  <2> QED BY <1>1, <1>2, <1>4, FirstPart
<1>6. m \in SafeNow'..n /\ m \in SafeNow..Len(LogNow) /\ m \in 0..n
  <2>1. m \in SafeNow'..n
    BY <1>5
  <2> HIDE DEF n
  <2> QED BY <1>1, <1>2, <1>4, <2>1
<1>7. Peak(LogNow, m, owed')
  BY <1>6 DEF LogKept
<1> HIDE DEF n
<1>8. \A i \in 1..m : LogNow'[i] = LogNow[i]
  BY <1>4, <1>5, <1>6
<1>9. m # 0 => m \in 1..m
  BY <1>6
<1> QED BY <1>7, <1>8, <1>9 DEF Peak

LEMMA StepLogKept ==
  ASSUME JInv, Steady, RecoveryFits, Bounded, Newest, LogKept, CloseKept, [Next]_vars, Newest', JInv'
  PROVE  LogKept'
<1>1. TInv /\ Locks /\ FirstLife /\ starts \in Nat /\ {owed, mark} \subseteq Nat
  BY CountsTyped DEF JInv, TInv
<1>2. ASSUME LogSynced, owed' = owed, starts' = starts \/ starts' = starts + 1 PROVE LogKept'
  <2>1. starts' <= 1 => starts <= 1
    BY <1>1, <1>2
  <2> QED BY <1>2, <2>1, LogKeptStays
<1>3. CASE BackgroundWriter
  <2>1. CASE TickSync \/ FinalSync
    BY <2>1, SyncKept DEF TickSync, FinalSync
  <2>2. CASE ~ (TickSync \/ FinalSync)
    <3>1. owed' = owed /\ starts' = starts
      BY <1>3, <2>2 DEF BackgroundWriter, Duplicate, Receive, Drain, TickerFires, TickFlush, Stop,
         FinalDrain, FinalFlush, ProcessEntry, FlushBuf, bounds
    <3> QED BY <1>2, <1>3, <3>1, WriterLogged
  <2> QED BY <2>1, <2>2
<1>4. CASE ReadLock \/ Fill \/ Truncate \/ ReadEnds
  <2>1. owed' = owed /\ starts' = starts
    BY <1>4 DEF ReadLock, Fill, Truncate, ReadEnds, bounds
  <2>2. LogSynced
    BY <1>4, ReadLockLogged, FillLogged, ReadLogged
  <2> QED BY <1>2, <2>1, <2>2
<1>5. CASE Replay
  <2>1. starts > 1 /\ starts' = starts
    BY <1>5, ReplayTakes DEF Replay, bounds
  <2> QED BY <1>1, <2>1 DEF LogKept
<1>6. CASE StartRewrite \/ Snapshot \/ TakeBuffer
  <2>1. UNCHANGED <<disk, synced, buf, ch, rpc, owed, starts>>
    BY <1>6 DEF StartRewrite, Snapshot, TakeBuffer, file, Unhurt, bounds
  <2>2. LogNow' = LogNow /\ SafeNow' = SafeNow
    BY <2>1 DEF LogNow, SafeNow, Lines, Count
  <2> QED BY <1>2, <2>1, <2>2, LogStays
<1>7. CASE Replace
  BY <1>7, ReplaceKept
<1>8. CASE Start
  <2>1. owed' = owed /\ starts' = starts + 1
    BY <1>8 DEF Start
  <2> QED BY <1>2, <1>8, <2>1, StartLogged
<1>9. CASE Write
  BY <1>9, WriteKept
<1>10. CASE Close
  <2>1. /\ UNCHANGED <<disk, synced, buf, ch, owed, starts>> /\ rpc = "up" /\ rpc' = "closing"
    BY <1>10 DEF Close, file, writer, bounds
  <2>2. LogNow' = LogNow /\ SafeNow' = SafeNow
    BY <2>1 DEF LogNow, SafeNow, Lines, Count
  <2> QED BY <1>2, <2>1, <2>2, LogStays
<1>11. disk \in Seq(Piece) /\ synced \in 0..Len(disk) /\ Len(disk) \in Nat /\ TInv'
  BY <1>1 DEF TInv, TypeOK, JInv
<1>12. CASE Exit
  <2>1. /\ Gone /\ rpc = "closing" /\ wpc = "done" /\ UNCHANGED <<disk, synced>>
        /\ owed' = Max({owed, mark})
    BY <1>12 DEF Exit
  <2> DEFINE k == Len(disk)
  <2>2. k \in synced..Len(disk) /\ disk' = SubSeq(disk, 1, k) /\ synced' \in synced..k
    BY <1>11, <2>1, SubSeqFull
  <2>3. starts # 0
    BY <1>1, <2>1 DEF FirstLife
  <2>4. ASSUME starts <= 1, NEW m \in SafeNow'..(k \div Size), Peak(LogNow, m, owed)
        PROVE  Peak(LogNow, m, owed')
    <3>1. synced = k /\ Peak(LogNow, k \div Size, mark)
      BY <2>1, <2>4 DEF CloseKept
    <3>2. SafeNow = k \div Size /\ SafeNow \in Nat
      BY <3>1, SafeInLog
    <3>3. SafeNow' = SafeNow
      BY <2>1 DEF SafeNow, Count
    <3>4. m = k \div Size
      BY <3>2, <3>3
    <3>5. owed' \in {owed, mark}
      BY <1>1, <2>1, LargerOfTwo
    <3> QED BY <2>4, <3>1, <3>4, <3>5
  <2> QED BY <1>11, <2>1, <2>2, <2>3, <2>4, GoneKept
<1>13. CASE Kill
  <2>1. Gone /\ rpc # "down" /\ UNCHANGED <<disk, synced, owed>>
    BY <1>13 DEF Kill, Crash
  <2> DEFINE k == Len(disk)
  <2>2. k \in synced..Len(disk) /\ disk' = SubSeq(disk, 1, k) /\ synced' \in synced..k
    BY <1>11, <2>1, SubSeqFull
  <2>3. starts # 0
    BY <1>1, <2>1 DEF FirstLife
  <2> QED BY <1>11, <2>1, <2>2, <2>3, GoneKept
<1>14. CASE PowerLoss
  <2>1. Gone /\ rpc # "down" /\ owed' = owed
    BY <1>14 DEF PowerLoss, Crash
  <2>2. PICK k \in synced..Len(disk) : disk' = SubSeq(disk, 1, k) /\ synced' = k
    BY <1>14 DEF PowerLoss
  <2>3. starts # 0 /\ synced' \in synced..k
    BY <1>1, <1>11, <2>1, <2>2 DEF FirstLife
  <2> QED BY <1>11, <2>1, <2>2, <2>3, GoneKept
<1>15. CASE UNCHANGED vars
  <2>1. UNCHANGED <<disk, synced, buf, ch, rpc, owed, starts>>
    BY <1>15 DEF vars
  <2>2. LogNow' = LogNow /\ SafeNow' = SafeNow
    BY <2>1 DEF LogNow, SafeNow, Lines, Count
  <2> QED BY <1>2, <2>1, <2>2, LogStays
<1> QED BY <1>3, <1>4, <1>5, <1>6, <1>7, <1>8, <1>9, <1>10, <1>12, <1>13, <1>14, <1>15
        DEF Next, Reading, Rewrite

\* What RAM serves when Close is called ends the log.
LEMMA CloseMarks == ASSUME JInv, Newest, Close PROVE CloseKept'
<1>1. /\ rpc = "up" /\ rpc' = "closing" /\ mark' = ram /\ rw = "off"
      /\ UNCHANGED <<disk, synced, buf, ch, wpc, starts>>
  BY DEF Close, file, writer, bounds
<1>2. wpc \notin {"finalSync", "done"} /\ starts \in Nat /\ ram \in Nat
  BY <1>1, CountsTyped DEF JInv, Stopping
<1>3. LogNow' = LogNow
  BY <1>1 DEF LogNow, Lines, Count
<1> SUFFICES ASSUME starts <= 1 PROVE Peak(LogNow, Len(LogNow), ram)
  BY <1>1, <1>2, <1>3 DEF CloseKept, Peak
<1>4. PICK r \in Seq(Values) : /\ Holds(r) /\ LogNow = r \o ch /\ r \o ch \in Seq(Values)
                               /\ \A i \in 1..Len(r \o ch) : (r \o ch)[i] \in Around
  BY <1>1, LogServing
<1> DEFINE c == r \o ch
<1>5. c \in Seq(Values) /\ LogNow = c /\ EndsIn(c, ram) /\ \A i \in 1..Len(c) : c[i] \in Around
  BY <1>1, <1>4 DEF Holds
<1>6. \A v \in Around : v <= ram
  BY <1>1, <1>2 DEF Newest
<1> HIDE DEF c
<1>7. CASE c = <<>>
  BY <1>5, <1>7 DEF Peak, EndsIn
<1>8. CASE c # <<>>
  <2>1. Len(c) # 0 /\ c[Len(c)] = ram
    BY <1>5, <1>8, EmptySeq DEF EndsIn
  <2> QED BY <1>2, <1>5, <1>6, <2>1 DEF Peak
<1> QED BY <1>7, <1>8

\* The last flush puts all of the log in the file.
LEMMA FinalFlushEnds == ASSUME JInv, FinalFlush, rpc = "closing"
                        PROVE  Len(disk') \div Size = Len(LogNow)
<1>1. ch = <<>> /\ disk' = disk \o buf
  BY DEF FinalFlush, FlushBuf, WriteFile
<1>2. PICK r \in Seq(Values) : Holds(r) /\ LogNow = r \o ch
  BY LogServing
<1>3. disk' = Recorded(r) /\ LogNow = r
  <2>1. r \o <<>> = r
    BY ConcatEmptySeq
  <2> QED BY <1>1, <1>2, <2>1 DEF Holds
<1>4. Recorded(r) \in Seq(Piece) /\ CutOf(Recorded(r), r) /\ Lines(Recorded(r)) = r
  BY RecordedTyped, WholeSays
<1> DEFINE k == Len(Recorded(r)) \div Size
<1>5. k \in 0..Len(r) /\ r = SubSeq(r, 1, k)
  BY <1>4, CutLines
<1> HIDE DEF k
<1>6. Len(SubSeq(r, 1, k)) = k
  BY <1>5, FirstPart
<1> QED BY <1>3, <1>5, <1>6 DEF k

LEMMA StepCloseKept ==
  ASSUME JInv, Steady, RecoveryFits, Bounded, Newest, CloseKept, [Next]_vars
  PROVE  CloseKept'
<1> SUFFICES ASSUME rpc' = "closing", starts' <= 1 PROVE CloseKept'
  BY DEF CloseKept
<1>1. TInv /\ Locks
  BY DEF JInv, TInv
<1>2. CASE Close
  BY <1>2, CloseMarks
<1>3. CASE BackgroundWriter
  <2>1. rpc = "closing" /\ starts' = starts /\ mark' = mark
    BY <1>3 DEF BackgroundWriter, Duplicate, Receive, Drain, TickerFires, TickFlush, TickSync,
         Stop, FinalDrain, FinalFlush, FinalSync, ProcessEntry, FlushBuf, SyncFile, bounds
  <2>2. LogNow' = LogNow
    BY <1>3, WriterLogged DEF LogSynced
  <2>3. CASE FinalFlush
    <3>1. wpc = "final" /\ wpc' = "finalSync"
      BY <2>3 DEF FinalFlush, FlushBuf
    <3>2. Peak(LogNow, Len(LogNow), mark)
      BY <2>1, <3>1 DEF CloseKept
    <3>3. Len(disk') \div Size = Len(LogNow)
      BY <2>1, <2>3, FinalFlushEnds
    <3> QED BY <2>1, <2>2, <3>1, <3>2, <3>3 DEF CloseKept, Peak
  <2>4. CASE FinalSync
    <3>1. wpc = "finalSync" /\ wpc' = "done" /\ disk' = disk /\ synced' = Len(disk)
      BY <2>4 DEF FinalSync, SyncFile
    <3>2. Peak(LogNow, Len(disk) \div Size, mark)
      BY <2>1, <3>1 DEF CloseKept
    <3> QED BY <2>1, <2>2, <3>1, <3>2 DEF CloseKept, Peak
  <2>5. CASE Duplicate
    <3>1. UNCHANGED <<disk, synced, wpc>>
      BY <2>5 DEF Duplicate, file, writer
    <3> QED BY <2>1, <2>2, <3>1 DEF CloseKept, Peak
  <2>6. CASE Receive \/ Drain \/ TickerFires \/ TickFlush \/ TickSync \/ Stop \/ FinalDrain
    <3>1. wpc \notin {"finalSync", "done"} /\ wpc' \notin {"finalSync", "done"}
      BY <2>6 DEF Receive, Drain, TickerFires, TickFlush, TickSync, Stop, FinalDrain, FlushBuf
    <3> QED BY <2>1, <2>2, <3>1 DEF CloseKept, Peak
  <2> QED BY <1>3, <2>3, <2>4, <2>5, <2>6 DEF BackgroundWriter
<1>4. CASE Write
  <2>1. rpc = "closing" /\ UNCHANGED <<disk, synced, wpc, starts, mark>> /\ wrote' = wrote + 1
    BY <1>4 DEF Write, file, bounds
  <2>2. LogNow' \in {LogNow, Append(LogNow, wrote')}
    BY <1>4, WriteLogged
  <2>3. CASE LogNow' = LogNow
    BY <2>1, <2>3 DEF CloseKept, Peak
  <2>4. CASE LogNow' = Append(LogNow, wrote')
    <3>1. PICK r \in Seq(Values) : /\ LogNow = r \o ch /\ r \o ch \in Seq(Values)
                                   /\ \A i \in 1..Len(r \o ch) : (r \o ch)[i] \in Around
      BY <2>1, LogServing
    <3> DEFINE c == r \o ch
               n == Len(c)
    <3>2. c \in Seq(Values) /\ LogNow = c /\ n \in Nat /\ \A i \in 1..n : c[i] \in Around
      BY <3>1
    <3>3. wrote \in Nat /\ mark \in Nat /\ mark <= wrote /\ \A v \in Around : v \in Nat /\ v <= wrote
      <4>1. Around \subseteq Nat
        BY AroundTyped, Constants DEF Values
      <4> QED BY <4>1, CountsTyped DEF Bounded
    <3> HIDE DEF c, n
    <3> DEFINE d == Append(c, wrote')
    <3>4. /\ Len(d) = n + 1 /\ d[n + 1] = wrote' /\ \A i \in 1..n : d[i] = c[i]
      BY <3>2, AppendProperties DEF n
    <3>5. LogNow' = d
      BY <2>4, <3>2
    <3> HIDE DEF d
    <3>6. CASE wpc \in {"finalSync", "done"}
      <4> DEFINE k == Len(disk) \div Size
      <4>1. Peak(c, k, mark) /\ k \in 0..n
        <5>1. k \in Nat /\ k <= Len(LogNow)
          BY SafeInLog
        <5> HIDE DEF k
        <5>2. k \in 0..n
          BY <3>2, <5>1 DEF n
        <5>3. Peak(LogNow, Len(disk) \div Size, mark)
          BY <2>1, <3>6 DEF CloseKept
        <5> QED BY <3>2, <5>2, <5>3 DEF k
      <4> HIDE DEF k
      <4>2. (\A i \in 1..k : d[i] = c[i]) /\ (k # 0 => k \in 1..k)
        BY <3>2, <3>4, <4>1
      <4>3. Peak(d, k, mark)
        BY <4>1, <4>2 DEF Peak
      <4>4. (wpc = "done" => synced = Len(disk)) /\ starts <= 1
        BY <2>1 DEF CloseKept
      <4> QED BY <2>1, <3>5, <3>6, <4>3, <4>4 DEF CloseKept, Peak, k
    <3>7. CASE wpc \notin {"finalSync", "done"}
      <4>1. n + 1 # 0 /\ d[n + 1] = wrote + 1
        BY <2>1, <3>2, <3>4
      <4>2. \A i \in 1..(n + 1) : d[i] <= d[n + 1]
        BY <3>2, <3>3, <3>4, <4>1
      <4>3. Peak(d, n + 1, mark)
        BY <3>3, <4>1, <4>2 DEF Peak
      <4> QED BY <2>1, <3>4, <3>5, <3>7, <4>3 DEF CloseKept, Peak
    <3> QED BY <3>6, <3>7
  <2> QED BY <2>2, <2>3, <2>4
<1>5. CASE UNCHANGED vars
  <2>1. UNCHANGED <<disk, synced, buf, ch, rpc, wpc, mark, starts>>
    BY <1>5 DEF vars
  <2>2. LogNow' = LogNow
    BY <2>1 DEF LogNow, Lines, Count
  <2> QED BY <2>1, <2>2 DEF CloseKept, Peak
<1>6. ASSUME Reading \/ Rewrite \/ Start \/ Exit \/ Kill \/ PowerLoss PROVE FALSE
  BY <1>1, <1>6 DEF Reading, ReadLock, Fill, Replay, Truncate, ReadEnds, Rewrite, StartRewrite, Snapshot,
       TakeBuffer, Replace, Unhurt, Locks, Start, Exit, Kill, PowerLoss, Crash, Gone
<1> QED BY <1>2, <1>3, <1>4, <1>5, <1>6 DEF Next

-------------------------------------------------------------------------------
(* What is served after a restart *)

LEMMA InitKept == Init => RInv
<1> SUFFICES ASSUME Init PROVE RInv
  OBVIOUS
<1>1. JInv
  BY InitLogged
<1>2. /\ rpc = "down" /\ disk = <<>> /\ buf = <<>> /\ ch = <<>> /\ dup = 0 /\ rw = "off"
      /\ ram = 0 /\ mark = 0 /\ owed = 0 /\ wrote = 0
  BY DEF Init
<1>3. Newest /\ FileKept /\ ReadBack /\ CloseKept
  BY <1>2 DEF Newest, FileKept, ReadBack, CloseKept
<1>4. Bounded
  <2>1. disk \o buf = <<>>
    BY <1>2
  <2>2. Around = {0}
    BY <1>2, <2>1, ValuesOfNone DEF Around
  <2> QED BY <1>2, <2>2 DEF Bounded
<1>5. LogKept
  <2>1. SafeNow \in Nat /\ Len(LogNow) = 0
    <3>1. Len(disk) = 0 /\ 0 \div Size = 0
      <4>1. Len(<<>>) = 0 /\ Size \in Nat \ {0} /\ 0 \in 0..Size-1 /\ Size * 0 + 0 = 0
        BY Constants
      <4>2. (Size * 0 + 0) \div Size = 0
        BY <4>1, DivisionIs
      <4> QED BY <1>2, <4>1, <4>2
    <3>2. 0 = Len(disk) \div Size /\ 0 \in Nat
      BY <3>1
    <3> QED BY <1>1, <1>2, <3>2, LogOfFile, SafeInLog
  <2>2. \A m \in SafeNow..Len(LogNow) : m = 0
    BY <2>1
  <2> QED BY <1>2, <2>2 DEF LogKept, Peak
<1> QED BY <1>1, <1>3, <1>4, <1>5 DEF RInv

LEMMA StepKept == ASSUME RInv, Steady, RecoveryFits, [Next]_vars PROVE RInv'
<1>1. JInv /\ Bounded /\ Newest /\ FileKept /\ ReadBack /\ LogKept /\ CloseKept
  BY DEF RInv
<1>2. JInv' /\ Bounded' /\ Newest'
  BY <1>1, StepLogged, StepBounded, StepNewest
<1>3. FileKept' /\ ReadBack'
  BY <1>1, StepFileKept, StepReadBack
<1>4. LogKept' /\ CloseKept'
  BY <1>1, <1>2, StepLogKept, StepCloseKept
<1> QED BY <1>2, <1>3, <1>4 DEF RInv

\* In its first two lives a database serves no older value than the newest that had been
\* synced, or accepted before a Close that ended: whatever the sizes, however many writes,
\* rewrites and crashes there are.  It holds of every behaviour in which three things do not
\* happen that the code lets happen: a record on its way between the copy of a rewrite and the
\* rename (CopyIsLast), a file to be read that lacks nothing but its last newline
\* (NewlineKept), and one that is longer than the bufio buffer (FileFits).  A third life reads
\* a file the second may have left in its recovery, with old records after the new.
THEOREM SecondLifeKeeps ==
  Spec /\ []CopyIsLast /\ []NewlineKept /\ []FileFits => [](starts <= 2 => NothingRewinds)
<1>1. Init => RInv /\ Counted
  BY InitKept DEF Init, Counted
<1>2. RInv /\ Counted /\ CopyIsLast /\ CopyIsLast' /\ NewlineKept /\ FileFits /\ [Next]_vars
        => RInv' /\ Counted'
  <2> SUFFICES ASSUME RInv, Counted, FileFits, Steady, [Next]_vars PROVE RInv' /\ Counted'
    BY DEF Steady
  <2>1. JInv /\ RecoveryFits
    BY FileFitsFits DEF RInv
  <2> QED BY <2>1, StepKept, StepCounted
<1>3. RInv => (starts <= 2 => NothingRewinds)
  <2> SUFFICES ASSUME RInv, starts <= 2, rpc = "up" PROVE ram >= owed
    BY DEF NothingRewinds
  <2>1. owed <= ram
    BY DEF RInv, Newest
  <2>2. owed \in Nat /\ ram \in Nat
    BY CountsTyped DEF RInv
  <2> QED BY <2>1, <2>2
<1> QED BY <1>1, <1>2, <1>3, PTL DEF Spec

===============================================================================
