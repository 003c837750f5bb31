------------------------------ MODULE TTLHeapProofs ------------------------------
(***************************************************************************)
(* Theorems about TTLHeap, for any items, lifetimes and bounds: every item *)
(* is where its HeapIndex says, the heap is ordered, and it implements     *)
(* TTLSet.                                                                 *)
(***************************************************************************)
EXTENDS TTLHeap, FiniteSetTheorems, SequenceTheorems, WellFoundedInduction, TLAPS

-------------------------------------------------------------------------------
(* Loops: a function f that follows nxt through D until it comes to Stop, *)
(* where it has the value of res                                           *)

Loop(D, Stop, nxt, res, R, rank) ==
  /\ Stop \in SUBSET D /\ nxt \in [D \ Stop -> D] /\ DOMAIN res = D
  /\ R \in Nat /\ rank \in [D -> 0..R]
  /\ \A x \in D \ Stop : rank[nxt[x]] < rank[x]

Follows(f, D, Stop, nxt, res) ==
  f = [x \in D |-> IF x \in Stop THEN res[x] ELSE f[nxt[x]]]

LEMMA NatInduct == ASSUME NEW S, 0 \in S, \A n \in Nat : n \in S => n + 1 \in S
                   PROVE  Nat \subseteq S
<1>1. SUFFICES ASSUME Nat \ S # {} PROVE FALSE
  OBVIOUS
<1>2. PICK x \in Nat \ S : \A y \in Nat \ S : ~ (<<y, x>> \in OpToRel(<, Nat))
  BY <1>1, NatLessThanWellFounded, WFMin
<1>3. x \in Nat /\ x - 1 \in Nat \ S
  OBVIOUS
<1>4. <<x - 1, x>> \in OpToRel(<, Nat)
  BY <1>3 DEF OpToRel
<1> QED BY <1>2, <1>3, <1>4

\* Such a function exists when rank goes down with every turn.
LEMMA LoopExists ==
  ASSUME NEW D, NEW Stop, NEW nxt, NEW res, NEW R, NEW rank,
         Loop(D, Stop, nxt, res, R, rank)
  PROVE  \E f : Follows(f, D, Stop, nxt, res)
<1> USE DEF Loop
<1> DEFINE Low(r) == {x \in D : rank[x] <= r}
           Turn(f, x) == IF x \in Stop THEN res[x] ELSE f[nxt[x]]
           I == {r \in Nat : \E f : f = [x \in Low(r) |-> Turn(f, x)]}
<1>1. 0 \in I
  <2>1. Low(0) \subseteq Stop
    OBVIOUS
  <2> DEFINE g == [x \in Low(0) |-> res[x]]
  <2>2. \A x \in Low(0) : Turn(g, x) = res[x]
    BY <2>1
  <2>3. g = [x \in Low(0) |-> Turn(g, x)]
    BY <2>2, Zenon
  <2> QED BY <2>3
<1>2. ASSUME NEW r \in Nat, r \in I PROVE r + 1 \in I
  <2>1. PICK f : f = [x \in Low(r) |-> Turn(f, x)]
    BY <1>2
  <2> DEFINE g == [x \in Low(r + 1) |-> Turn(f, x)]
  <2>2. \A x \in Low(r) : g[x] = f[x]
    <3> TAKE x \in Low(r)
    <3>1. x \in Low(r + 1)
      OBVIOUS
    <3>2. f[x] = Turn(f, x)
      BY <2>1
    <3>3. g[x] = Turn(f, x)
      BY <3>1
    <3> QED BY <3>2, <3>3
  <2>3. \A x \in Low(r + 1) : x \notin Stop => nxt[x] \in Low(r)
    OBVIOUS
  <2>4. \A x \in Low(r + 1) : Turn(g, x) = Turn(f, x)
    <3> HIDE DEF g
    <3> QED BY <2>2, <2>3
  <2>5. g = [x \in Low(r + 1) |-> Turn(g, x)]
    <3> HIDE DEF Turn
    <3> QED BY <2>4, Zenon
  <2>6. r + 1 \in Nat
    OBVIOUS
  <2> QED BY <2>5, <2>6
<1>3. R \in I
  <2> HIDE DEF I
  <2> QED BY <1>1, <1>2, NatInduct
<1>4. PICK f : f = [x \in Low(R) |-> Turn(f, x)]
  BY <1>3
<1>5. Low(R) = D
  OBVIOUS
<1> QED BY <1>4, <1>5 DEF Follows

\* It ends in Stop, and keeps to any part P of D that a turn does not leave.
LEMMA LoopEnds ==
  ASSUME NEW D, NEW Stop, NEW nxt, NEW res, NEW R, NEW rank,
         Loop(D, Stop, nxt, res, R, rank), NEW f, Follows(f, D, Stop, nxt, res),
         NEW P \in SUBSET D, \A x \in P \ Stop : nxt[x] \in P
  PROVE  \A x \in P : \E y \in P \cap Stop : f[x] = res[y]
<1> DEFINE I == {r \in Nat : \A x \in P : rank[x] <= r => \E y \in P \cap Stop : f[x] = res[y]}
<1>1. \A x \in P : x \in Stop => f[x] = res[x]
  BY DEF Loop, Follows
<1>2. \A x \in P \ Stop : nxt[x] \in P /\ rank[nxt[x]] < rank[x]
  BY DEF Loop, Follows
<1>3. \A x \in P : rank[x] \in Nat /\ rank[x] <= R
  BY DEF Loop, Follows
<1>4. \A x \in P \ Stop : f[x] = f[nxt[x]]
  BY DEF Loop, Follows
<1>5. 0 \in I
  <2>1. \A x \in P : rank[x] <= 0 => x \in Stop
    BY ONLY <1>2, <1>3
  <2> QED BY <2>1, <1>1
<1>6. ASSUME NEW r \in Nat, r \in I PROVE r + 1 \in I
  <2> SUFFICES ASSUME NEW x \in P, rank[x] <= r + 1 PROVE \E y \in P \cap Stop : f[x] = res[y]
    OBVIOUS
  <2>1. CASE x \in Stop
    BY <2>1, <1>1
  <2>2. CASE x \notin Stop
    <3>1. nxt[x] \in P /\ rank[nxt[x]] <= r
      BY <2>2, <1>2, <1>3
    <3>2. \E y \in P \cap Stop : f[nxt[x]] = res[y]
      BY <3>1, <1>6
    <3> QED BY <3>2, <2>2, <1>4
  <2> QED BY <2>1, <2>2
<1>7. R \in I
  <2> HIDE DEF I
  <2> QED BY <1>5, <1>6, NatInduct DEF Loop
<1> QED BY <1>7, <1>3

-------------------------------------------------------------------------------
(* Up and Down as loops over heaps with a place in each *)

Parent(j) == (j - 1) \div 2

UpStop(e, x) == x[2] = 0 \/ ~Less(e, x[1], x[2], Parent(x[2]))
UpNext(x) == <<Swap(x[1], Parent(x[2]), x[2]), Parent(x[2])>>

LesserChild(e, g, i, n) == IF 2 * i + 2 < n /\ Less(e, g, 2 * i + 2, 2 * i + 1)
                           THEN 2 * i + 2 ELSE 2 * i + 1
DownStop(e, x, n) == 2 * x[2] + 1 >= n \/ ~Less(e, x[1], LesserChild(e, x[1], x[2], n), x[2])
DownNext(e, x, n) == LET c == LesserChild(e, x[1], x[2], n) IN <<Swap(x[1], x[2], c), c>>

LEMMA Parents == \A c \in Nat : c > 0 =>
                   /\ Parent(c) \in 0..c-1
                   /\ c = 2 * Parent(c) + 1 \/ c = 2 * Parent(c) + 2
                   /\ \A i \in Nat : c \in {2 * i + 1, 2 * i + 2} => Parent(c) = i
BY DEF Parent

LEMMA ParentBelow == ASSUME NEW n \in Nat, NEW c \in 1..n-1
                     PROVE  Parent(c) \in 0..n-1 /\ Parent(c) < c
<1>1. c \in Nat /\ c > 0 /\ c < n
  OBVIOUS
<1> QED BY <1>1, Parents

LEMMA SizeIs == ASSUME NEW n \in Nat, NEW h, h.pq \in [1..n -> Keys]
                PROVE  Size(h) = n /\ h.pq \in Seq(Keys)
BY DEF Size

LEMMA SwapTyped == ASSUME NEW n \in Nat, NEW x \in Placed(n), NEW i \in 0..n-1, NEW j \in 0..n-1
                   PROVE  /\ <<Swap(x[1], i, j), i>> \in Placed(n)
                          /\ <<Swap(x[1], i, j), j>> \in Placed(n)
<1>1. x[1] \in [pq : [1..n -> Keys], idx : [Keys -> Int]]
  BY DEF Placed
<1>2. At(x[1], i) \in Keys /\ At(x[1], j) \in Keys
  BY <1>1 DEF At
<1> DEFINE g == x[1]
<1>3. [g.pq EXCEPT ![i + 1] = At(g, j), ![j + 1] = At(g, i)] \in [1..n -> Keys]
  BY <1>1, <1>2
<1>4. [g.idx EXCEPT ![At(g, j)] = i, ![At(g, i)] = j] \in [Keys -> Int]
  BY <1>1, <1>2
<1>5. Swap(x[1], i, j) \in [pq : [1..n -> Keys], idx : [Keys -> Int]]
  BY <1>3, <1>4 DEF Swap
<1> QED BY <1>5 DEF Placed

\* Up ends in a heap at which it stops, and which has whatever each turn preserves.
LEMMA UpLoop ==
  ASSUME NEW e, NEW n \in Nat, NEW P \in SUBSET Placed(n),
         \A x \in P : ~UpStop(e, x) => UpNext(x) \in P,
         NEW h, NEW j, <<h, j>> \in P
  PROVE  \E x \in P : UpStop(e, x) /\ Up(e, h, j) = x[1]
<1> DEFINE D == Placed(n)
           F(f) == [x \in D |-> IF UpStop(e, x) THEN x[1] ELSE f[UpNext(x)]]
           Stop == {x \in D : UpStop(e, x)}
           nxt == [x \in D \ Stop |-> UpNext(x)]
           res == [x \in D |-> x[1]]
           rank == [x \in D |-> x[2]]
           f == CHOOSE f : f = F(f)
<1>1. \A x \in D \ Stop : UpNext(x) \in D /\ UpNext(x)[2] < x[2]
  <2> TAKE x \in D \ Stop
  <2>1. x[2] \in 0..n-1 /\ x[2] > 0
    BY DEF UpStop, Placed
  <2>2. Parent(x[2]) \in 0..n-1 /\ Parent(x[2]) < x[2]
    BY <2>1, Parents
  <2> QED BY <2>1, <2>2, SwapTyped DEF UpNext
<1>2. Loop(D, Stop, nxt, res, n, rank)
  <2>1. Stop \in SUBSET D /\ DOMAIN res = D
    OBVIOUS
  <2>2. nxt \in [D \ Stop -> D] /\ \A x \in D \ Stop : rank[nxt[x]] < rank[x]
    BY <1>1
  <2>3. rank \in [D -> 0..n]
    BY DEF Placed
  <2> HIDE DEF D, Stop, nxt, res, rank
  <2> QED BY <2>1, <2>2, <2>3 DEF Loop
<1>3. ASSUME NEW g PROVE Follows(g, D, Stop, nxt, res) <=> g = F(g)
  <2>1. \A x \in D : (IF x \in Stop THEN res[x] ELSE g[nxt[x]])
                     = (IF UpStop(e, x) THEN x[1] ELSE g[UpNext(x)])
    OBVIOUS
  <2> QED BY <2>1, Zenon DEF Follows
<1>4. f = F(f)
  <2>1. PICK g : Follows(g, D, Stop, nxt, res)
    <3> HIDE DEF D, F, f, Stop, nxt, res, rank
    <3> QED BY <1>2, LoopExists
  <2>2. g = F(g)
    <3> HIDE DEF D, F, f, Stop, nxt, res, rank
    <3> QED BY <1>3, <2>1
  <2> HIDE DEF F
  <2> QED BY <2>2, Zenon
<1>5. Size(h) = n
  BY SizeIs DEF Placed
<1>6. Up(e, h, j) = f[<<h, j>>]
  BY <1>5 DEF Up, UpStop, UpNext, Parent
<1>7. \A x \in P \ Stop : nxt[x] \in P
  OBVIOUS
<1>8. \A x \in P : \E y \in P \cap Stop : f[x] = res[y]
  <2> HIDE DEF D, F, f, Stop, nxt, res, rank
  <2>1. Follows(f, D, Stop, nxt, res)
    BY <1>3, <1>4
  <2>2. P \in SUBSET D
    BY DEF D
  <2> QED BY <1>2, <1>7, <2>1, <2>2, LoopEnds
<1>9. PICK y \in P \cap Stop : f[<<h, j>>] = res[y]
  BY <1>8
<1> QED BY <1>6, <1>9

LEMMA LesserChildIs ==
  ASSUME NEW e, NEW g, NEW i \in Nat, NEW n \in Nat, 2 * i + 1 < n
  PROVE  LesserChild(e, g, i, n) \in {2 * i + 1, 2 * i + 2} \cap (0..n-1)
BY DEF LesserChild

\* The same of Down.
LEMMA DownLoop ==
  ASSUME NEW e, NEW n \in Nat, NEW m \in 0..n, NEW P \in SUBSET Placed(n),
         \A x \in P : ~DownStop(e, x, m) => DownNext(e, x, m) \in P,
         NEW h, NEW i, <<h, i>> \in P
  PROVE  \E x \in P : DownStop(e, x, m) /\ Down(e, h, i, m) = x[1]
<1> DEFINE D == Placed(n)
           F(f) == [x \in D |-> IF DownStop(e, x, m) THEN x[1] ELSE f[DownNext(e, x, m)]]
           Stop == {x \in D : DownStop(e, x, m)}
           nxt == [x \in D \ Stop |-> DownNext(e, x, m)]
           res == [x \in D |-> x[1]]
           rank == [x \in D |-> n - x[2]]
           f == CHOOSE f : f = F(f)
<1>1. \A x \in D \ Stop : /\ DownNext(e, x, m) \in D
                          /\ n - DownNext(e, x, m)[2] < n - x[2]
  <2> TAKE x \in D \ Stop
  <2> DEFINE c == LesserChild(e, x[1], x[2], m)
  <2>1. x[2] \in 0..n-1 /\ 2 * x[2] + 1 < m
    BY SMTT(30) DEF DownStop, Placed
  <2>2. c \in {2 * x[2] + 1, 2 * x[2] + 2} \cap (0..m-1)
    BY <2>1, LesserChildIs
  <2>3. c \in 0..n-1 /\ x[2] < c
    BY <2>1, <2>2
  <2>4. DownNext(e, x, m) = <<Swap(x[1], x[2], c), c>>
    BY DEF DownNext
  <2> HIDE DEF c
  <2>5. DownNext(e, x, m) \in Placed(n)
    BY <2>1, <2>3, <2>4, SwapTyped
  <2> QED BY <2>1, <2>3, <2>4, <2>5
<1>2. Loop(D, Stop, nxt, res, n, rank)
  <2>1. Stop \in SUBSET D /\ DOMAIN res = D
    OBVIOUS
  <2>2. nxt \in [D \ Stop -> D] /\ \A x \in D \ Stop : rank[nxt[x]] < rank[x]
    BY <1>1
  <2>3. rank \in [D -> 0..n]
    BY DEF Placed
  <2> HIDE DEF D, Stop, nxt, res, rank
  <2> QED BY <2>1, <2>2, <2>3 DEF Loop
<1>3. ASSUME NEW g PROVE Follows(g, D, Stop, nxt, res) <=> g = F(g)
  <2>1. \A x \in D : (IF x \in Stop THEN res[x] ELSE g[nxt[x]])
                     = (IF DownStop(e, x, m) THEN x[1] ELSE g[DownNext(e, x, m)])
    OBVIOUS
  <2> QED BY <2>1, Zenon DEF Follows
<1>4. f = F(f)
  <2>1. PICK g : Follows(g, D, Stop, nxt, res)
    <3> HIDE DEF D, F, f, Stop, nxt, res, rank
    <3> QED BY <1>2, LoopExists
  <2>2. g = F(g)
    <3> HIDE DEF D, F, f, Stop, nxt, res, rank
    <3> QED BY <1>3, <2>1
  <2> HIDE DEF F
  <2> QED BY <2>2, Zenon
<1>5. Size(h) = n
  BY SizeIs DEF Placed
<1>6. Down(e, h, i, m) = f[<<h, i>>]
  BY <1>5 DEF Down, DownStop, DownNext, LesserChild
<1>7. \A x \in P \ Stop : nxt[x] \in P
  OBVIOUS
<1>8. \A x \in P : \E y \in P \cap Stop : f[x] = res[y]
  <2> HIDE DEF D, F, f, Stop, nxt, res, rank
  <2>1. Follows(f, D, Stop, nxt, res)
    BY <1>3, <1>4
  <2>2. P \in SUBSET D
    BY DEF D
  <2> QED BY <1>2, <1>7, <2>1, <2>2, LoopEnds
<1>9. PICK y \in P \cap Stop : f[<<h, i>>] = res[y]
  BY <1>8
<1> QED BY <1>6, <1>9

-------------------------------------------------------------------------------
(* Heaps whose items know their places *)

HeapsOf(n) == [pq : [1..n -> Keys], idx : [Keys -> Int]]

\* The heap h has the n items of M, and each is where its index says.
Exact(h, n, M) == /\ h \in HeapsOf(n) /\ M \subseteq Keys
                  /\ \A i \in 0..n-1 : At(h, i) \in M /\ h.idx[At(h, i)] = i
                  /\ \A k \in M : h.idx[k] \in 0..n-1 /\ At(h, h.idx[k]) = k
                  /\ \A k \in Keys \ M : h.idx[k] = -1

LEMMA ExactEmpty == Exact(Empty, 0, {})
BY DEF Exact, Empty, HeapsOf

LEMMA ExactSize == ASSUME NEW n \in Nat, NEW M, NEW h, Exact(h, n, M)
                   PROVE  Size(h) = n /\ h.pq \in Seq(Keys) /\ Len(h.pq) = n
<1>1. h.pq \in [1..n -> Keys]
  BY DEF Exact, HeapsOf
<1> QED BY <1>1, SizeIs DEF Size

\* What Swap does to the places.
LEMMA SwapAt == ASSUME NEW n \in Nat, NEW h \in HeapsOf(n), NEW i \in 0..n-1, NEW j \in 0..n-1
                PROVE  /\ Swap(h, i, j) \in HeapsOf(n)
                       /\ At(Swap(h, i, j), i) = At(h, j)
                       /\ At(Swap(h, i, j), j) = At(h, i)
                       /\ \A m \in 0..n-1 : m \notin {i, j} => At(Swap(h, i, j), m) = At(h, m)
<1>1. \A m \in 0..n-1 : m + 1 \in 1..n /\ At(h, m) = h.pq[m + 1] /\ At(h, m) \in Keys
  BY DEF At, HeapsOf
<1> DEFINE pq == [h.pq EXCEPT ![i + 1] = At(h, j), ![j + 1] = At(h, i)]
           idx == [h.idx EXCEPT ![At(h, j)] = i, ![At(h, i)] = j]
<1>2. pq \in [1..n -> Keys]
  BY <1>1 DEF HeapsOf
<1>3. idx \in [Keys -> Int]
  BY <1>1 DEF HeapsOf
<1>4. \A m \in 0..n-1 : pq[m + 1] = IF m = j THEN At(h, i) ELSE IF m = i THEN At(h, j) ELSE At(h, m)
  <2>1. h.pq \in [1..n -> Keys] /\ i + 1 \in 1..n /\ j + 1 \in 1..n
    BY DEF HeapsOf
  <2>2. ASSUME NEW p \in 1..n
        PROVE  pq[p] = IF p = j + 1 THEN At(h, i) ELSE IF p = i + 1 THEN At(h, j) ELSE h.pq[p]
    <3> DEFINE s == [h.pq EXCEPT ![i + 1] = At(h, j)]
    <3>1. s \in [1..n -> Keys] /\ s[p] = IF p = i + 1 THEN At(h, j) ELSE h.pq[p]
      BY <1>1, <2>1
    <3>2. pq = [s EXCEPT ![j + 1] = At(h, i)]
      OBVIOUS
    <3> HIDE DEF s, pq
    <3> QED BY <2>1, <3>1, <3>2
  <2> HIDE DEF pq
  <2> QED BY <1>1, <2>2
<1>5. Swap(h, i, j) = [pq |-> pq, idx |-> idx]
  BY DEF Swap
<1> HIDE DEF pq, idx
<1>6. \A m : At(Swap(h, i, j), m) = pq[m + 1]
  BY <1>5 DEF At
<1>7. Swap(h, i, j) \in HeapsOf(n)
  BY <1>2, <1>3, <1>5 DEF HeapsOf
<1> QED BY <1>4, <1>6, <1>7

LEMMA SwapIdx == ASSUME NEW n \in Nat, NEW M, NEW h, Exact(h, n, M),
                        NEW i \in 0..n-1, NEW j \in 0..n-1
                 PROVE  \A k \in Keys : Swap(h, i, j).idx[k] =
                          IF k = At(h, i) THEN j ELSE IF k = At(h, j) THEN i ELSE h.idx[k]
<1>1. At(h, i) \in Keys /\ At(h, j) \in Keys /\ h.idx \in [Keys -> Int]
  BY DEF Exact, HeapsOf
<1> QED BY <1>1 DEF Swap

LEMMA SwapExact == ASSUME NEW n \in Nat, NEW M, NEW h, Exact(h, n, M),
                          NEW i \in 0..n-1, NEW j \in 0..n-1
                   PROVE  Exact(Swap(h, i, j), n, M)
<1> DEFINE g == Swap(h, i, j)
<1>1. /\ h \in HeapsOf(n) /\ M \subseteq Keys
      /\ \A m \in 0..n-1 : At(h, m) \in M /\ h.idx[At(h, m)] = m
      /\ \A k \in M : h.idx[k] \in 0..n-1 /\ At(h, h.idx[k]) = k
      /\ \A k \in Keys \ M : h.idx[k] = -1
  BY DEF Exact
<1>2. /\ g \in HeapsOf(n) /\ At(g, i) = At(h, j) /\ At(g, j) = At(h, i)
      /\ \A m \in 0..n-1 : m \notin {i, j} => At(g, m) = At(h, m)
  BY <1>1, SwapAt
<1>3. \A k \in Keys : g.idx[k] = IF k = At(h, i) THEN j ELSE IF k = At(h, j) THEN i ELSE h.idx[k]
  BY SwapIdx
<1> HIDE DEF g
<1>4. ASSUME NEW m \in 0..n-1 PROVE At(g, m) \in M /\ g.idx[At(g, m)] = m
  <2>1. CASE m = i BY <2>1, <1>1, <1>2, <1>3
  <2>2. CASE m = j BY <2>2, <1>1, <1>2, <1>3
  <2>3. CASE m \notin {i, j} BY <2>3, <1>1, <1>2, <1>3
  <2> QED BY <2>1, <2>2, <2>3
<1>5. ASSUME NEW k \in M PROVE g.idx[k] \in 0..n-1 /\ At(g, g.idx[k]) = k
  <2>1. CASE k = At(h, i) BY <2>1, <1>1, <1>2, <1>3
  <2>2. CASE k = At(h, j) /\ k # At(h, i) BY <2>2, <1>1, <1>2, <1>3
  <2>3. CASE k \notin {At(h, i), At(h, j)}
    <3>1. g.idx[k] = h.idx[k] /\ h.idx[k] \in 0..n-1 /\ At(h, h.idx[k]) = k
      BY <2>3, <1>1, <1>3
    <3>2. h.idx[k] \notin {i, j}
      BY <2>3, <3>1
    <3> QED BY <3>1, <3>2, <1>2
  <2> QED BY <2>1, <2>2, <2>3
<1>6. \A k \in Keys \ M : g.idx[k] = -1
  BY <1>1, <1>3
<1> QED BY <1>1, <1>2, <1>4, <1>5, <1>6 DEF Exact, g

LEMMA PushExact == ASSUME NEW n \in Nat, NEW M, NEW h, Exact(h, n, M), NEW k \in Keys \ M
                   PROVE  /\ Exact(PushLast(h, k), n + 1, M \cup {k})
                          /\ At(PushLast(h, k), n) = k
                          /\ \A m \in 0..n-1 : At(PushLast(h, k), m) = At(h, m)
<1> DEFINE pq == Append(h.pq, k)
           idx == [h.idx EXCEPT ![k] = n]
           g == [pq |-> pq, idx |-> idx]
<1>1. Size(h) = n /\ h.pq \in Seq(Keys) /\ Len(h.pq) = n
  BY ExactSize
<1>2. /\ h \in HeapsOf(n) /\ M \subseteq Keys
      /\ \A m \in 0..n-1 : At(h, m) \in M /\ h.idx[At(h, m)] = m
      /\ \A c \in M : h.idx[c] \in 0..n-1 /\ At(h, h.idx[c]) = c
      /\ \A c \in Keys \ M : h.idx[c] = -1
  BY DEF Exact
<1>3. PushLast(h, k) = g
  BY <1>1 DEF PushLast
<1>4. pq \in [1..n+1 -> Keys] /\ pq[n + 1] = k /\ \A m \in 1..n : pq[m] = h.pq[m]
  <2>1. pq \in Seq(Keys) /\ Len(pq) = n + 1
    BY <1>1, AppendProperties
  <2>2. pq[n + 1] = k /\ \A m \in 1..n : pq[m] = h.pq[m]
    BY <1>1, AppendProperties
  <2> HIDE DEF pq
  <2> QED BY <2>1, <2>2, LenProperties
<1>5. idx \in [Keys -> Int] /\ idx[k] = n /\ \A c \in Keys \ {k} : idx[c] = h.idx[c]
  BY <1>2 DEF HeapsOf
<1> HIDE DEF pq, idx
<1>6. g \in HeapsOf(n + 1) /\ g.idx = idx /\ \A m : At(g, m) = pq[m + 1]
  BY <1>4, <1>5 DEF HeapsOf, At
<1>7. At(g, n) = k /\ \A m \in 0..n-1 : At(g, m) = At(h, m)
  BY <1>4, <1>6 DEF At
<1> HIDE DEF g
<1>8. \A m \in 0..(n+1)-1 : At(g, m) \in M \cup {k} /\ g.idx[At(g, m)] = m
  BY <1>2, <1>5, <1>6, <1>7
<1>9. \A c \in M \cup {k} : g.idx[c] \in 0..(n+1)-1 /\ At(g, g.idx[c]) = c
  BY <1>2, <1>5, <1>6, <1>7
<1>10. \A c \in Keys \ (M \cup {k}) : g.idx[c] = -1
  BY <1>2, <1>5, <1>6
<1> QED BY <1>2, <1>3, <1>6, <1>7, <1>8, <1>9, <1>10 DEF Exact

LEMMA PopExact == ASSUME NEW n \in Nat, n > 0, NEW M, NEW h, Exact(h, n, M)
                  PROVE  /\ Exact(PopLast(h), n - 1, M \ {At(h, n - 1)})
                         /\ \A m \in 0..n-2 : At(PopLast(h), m) = At(h, m)
<1> DEFINE k == At(h, n - 1)
           pq == SubSeq(h.pq, 1, n - 1)
           idx == [h.idx EXCEPT ![k] = -1]
           g == [pq |-> pq, idx |-> idx]
<1>1. Size(h) = n /\ h.pq \in Seq(Keys) /\ Len(h.pq) = n
  BY ExactSize
<1>2. /\ h \in HeapsOf(n) /\ M \subseteq Keys
      /\ \A m \in 0..n-1 : At(h, m) \in M /\ h.idx[At(h, m)] = m
      /\ \A c \in M : h.idx[c] \in 0..n-1 /\ At(h, h.idx[c]) = c
      /\ \A c \in Keys \ M : h.idx[c] = -1
  BY DEF Exact
<1>3. PopLast(h) = g
  BY <1>1 DEF PopLast
<1>4. pq \in [1..n-1 -> Keys] /\ \A m \in 1..n-1 : pq[m] = h.pq[m]
  <2>1. \A m \in 1..n-1 : h.pq[m] \in Keys
    BY <1>1, ElementOfSeq
  <2>2. pq \in Seq(Keys) /\ Len(pq) = n - 1
    BY <2>1, SubSeqProperties
  <2>3. \A m \in 1..n-1 : pq[m] = h.pq[m]
    BY <2>1, SubSeqProperties
  <2> HIDE DEF pq
  <2> QED BY <2>2, <2>3, LenProperties
<1>5. k \in M /\ h.idx[k] = n - 1
  BY <1>2
<1> HIDE DEF k
<1>6. idx \in [Keys -> Int] /\ idx[k] = -1 /\ \A c \in Keys \ {k} : idx[c] = h.idx[c]
  BY <1>2, <1>5 DEF HeapsOf
<1> HIDE DEF pq, idx
<1>7. g \in HeapsOf(n - 1) /\ g.idx = idx /\ \A m : At(g, m) = pq[m + 1]
  BY <1>4, <1>6 DEF HeapsOf, At
<1>8. \A m \in 0..n-2 : At(g, m) = At(h, m)
  BY <1>4, <1>7 DEF At
<1> HIDE DEF g
<1>9. \A m \in 0..(n-1)-1 : At(g, m) \in M \ {k} /\ g.idx[At(g, m)] = m
  BY <1>2, <1>5, <1>6, <1>7, <1>8
<1>10. ASSUME NEW c \in M \ {k} PROVE g.idx[c] \in 0..(n-1)-1 /\ At(g, g.idx[c]) = c
  <2>1. g.idx[c] = h.idx[c] /\ h.idx[c] \in 0..n-1 /\ At(h, h.idx[c]) = c
    BY <1>2, <1>6, <1>7
  <2>2. h.idx[c] # n - 1
    BY <2>1, <1>5 DEF k
  <2> QED BY <2>1, <2>2, <1>8
<1>11. \A c \in Keys \ (M \ {k}) : g.idx[c] = -1
  BY <1>2, <1>5, <1>6, <1>7
<1>12. Exact(g, n - 1, M \ {k})
  BY <1>2, <1>7, <1>9, <1>10, <1>11 DEF Exact
<1> QED BY <1>3, <1>8, <1>12 DEF k

-------------------------------------------------------------------------------
(* The order of the times v of the first n places *)

TimesOf(e, h, n) == [i \in 0..n-1 |-> e[At(h, i)]]

Sorted(v, n) == \A c \in 1..n-1 : v[Parent(c)] <= v[c]

\* In order but for the time at j, which is not below its parent's children and may
\* have to move up.
Rising(v, j, n) == /\ \A c \in 1..n-1 : c # j => v[Parent(c)] <= v[c]
                   /\ j > 0 => \A c \in 1..n-1 : Parent(c) = j => v[Parent(j)] <= v[c]

\* In order but for the time at i, which may have to move either way.
Loose(v, i, n) == /\ \A c \in 1..n-1 : c # i /\ Parent(c) # i => v[Parent(c)] <= v[c]
                  /\ i > 0 => \A c \in 1..n-1 : Parent(c) = i => v[Parent(i)] <= v[c]

\* w is v with the times at i and j exchanged.
Exchanged(v, w, i, j, n) == /\ w[i] = v[j] /\ w[j] = v[i]
                            /\ \A m \in 0..n-1 : m \notin {i, j} => w[m] = v[m]

LEMMA RisingTurn ==
  ASSUME NEW n \in Nat, NEW v \in [0..n-1 -> Int], NEW w \in [0..n-1 -> Int],
         NEW j \in 1..n-1, Exchanged(v, w, Parent(j), j, n),
         v[j] < v[Parent(j)], Rising(v, j, n)
  PROVE  Rising(w, Parent(j), n)
<1> DEFINE i == Parent(j)
<1>1. w[i] = v[j] /\ w[j] = v[i] /\ \A m \in 0..n-1 : m \notin {i, j} => w[m] = v[m]
  BY DEF Exchanged
<1>2. \A c \in 1..n-1 : Parent(c) \in 0..n-1 /\ Parent(c) < c
  BY ParentBelow
<1>3. \A m \in 0..n-1 : v[m] \in Int /\ w[m] \in Int
  OBVIOUS
<1>4. i \in 0..n-1 /\ i < j
  BY <1>2
<1>5. /\ \A c \in 1..n-1 : c # j => v[Parent(c)] <= v[c]
      /\ \A c \in 1..n-1 : Parent(c) = j => v[i] <= v[c]
  BY DEF Rising
<1>6. v[j] < v[i]
  OBVIOUS
<1> HIDE DEF i
<1>7. ASSUME NEW c \in 1..n-1, c # i PROVE w[Parent(c)] <= w[c]
  <2>1. CASE c = j
    BY <2>1, <1>1, <1>6, <1>3, <1>4 DEF i
  <2>2. CASE c # j /\ Parent(c) = i
    BY <2>2, <1>1, <1>5, <1>6, <1>7, <1>3, <1>4, <1>2
  <2>3. CASE c # j /\ Parent(c) = j
    BY <2>3, <1>1, <1>5, <1>7, <1>3, <1>4, <1>2
  <2>4. CASE c # j /\ Parent(c) \notin {i, j}
    <3>1. Parent(c) \in 0..n-1 /\ c \in 0..n-1 /\ c \notin {i, j}
      BY <2>4, <1>7, <1>2
    <3>2. w[Parent(c)] = v[Parent(c)] /\ w[c] = v[c]
      BY <3>1, <2>4, <1>1
    <3> QED BY <3>2, <2>4, <1>5
  <2> QED BY <2>1, <2>2, <2>3, <2>4
<1>8. ASSUME i > 0, NEW c \in 1..n-1, Parent(c) = i PROVE w[Parent(i)] <= w[c]
  <2>1. Parent(i) \in 0..n-1 /\ Parent(i) \notin {i, j} /\ i \in 1..n-1
    BY <1>4, <1>8, <1>2, SMTT(30)
  <2>2. w[Parent(i)] = v[Parent(i)] /\ v[Parent(i)] <= v[i]
    <3>1. i # j /\ \A m \in 0..n-1 : m \notin {i, j} => w[m] = v[m]
      BY <1>1, <1>4
    <3>2. v[Parent(i)] <= v[i]
      BY <2>1, <3>1, <1>5
    <3> QED BY <2>1, <3>1, <3>2
  <2>3. CASE c = j
    BY <2>2, <2>3, <1>1
  <2>4. CASE c # j
    <3>1. c # i /\ w[c] = v[c] /\ v[i] <= v[c]
      BY <2>4, <1>1, <1>5, <1>8, <1>2, <1>4
    <3> QED BY <3>1, <2>1, <2>2, <1>3, <1>4
  <2> QED BY <2>3, <2>4
<1> QED BY <1>7, <1>8 DEF Rising, i

LEMMA RisingStop ==
  ASSUME NEW n \in Nat, NEW v \in [0..n-1 -> Int], NEW j \in 0..n-1, Rising(v, j, n),
         j = 0 \/ ~(v[j] < v[Parent(j)])
  PROVE  Sorted(v, n)
<1> SUFFICES ASSUME NEW c \in 1..n-1 PROVE v[Parent(c)] <= v[c]
  BY DEF Sorted
<1>1. CASE c = j
  BY <1>1, Parents, SMTT(30)
<1>2. CASE c # j
  BY <1>2 DEF Rising
<1> QED BY <1>1, <1>2

LEMMA SortedRises ==
  ASSUME NEW n \in Nat, NEW v \in [0..n-1 -> Int], NEW j \in 0..n-1, Sorted(v, n)
  PROVE  Rising(v, j, n)
<1>1. \A c \in 1..n-1 : v[Parent(c)] <= v[c] /\ v[Parent(c)] \in Int /\ v[c] \in Int
  BY ParentBelow DEF Sorted
<1> QED BY <1>1, SMTT(30) DEF Rising

\* The lesser of the children, c, moves up to i.
LEMMA LooseTurn ==
  ASSUME NEW n \in Nat, NEW v \in [0..n-1 -> Int], NEW w \in [0..n-1 -> Int],
         NEW i \in 0..n-1, NEW c \in 1..n-1, Parent(c) = i, Exchanged(v, w, i, c, n),
         v[c] < v[i], \A d \in 1..n-1 : Parent(d) = i => v[c] <= v[d], Loose(v, i, n)
  PROVE  Loose(w, c, n) /\ w[Parent(c)] <= w[c]
<1>1. w[i] = v[c] /\ w[c] = v[i] /\ \A m \in 0..n-1 : m \notin {i, c} => w[m] = v[m]
  BY DEF Exchanged
<1>2. \A d \in 1..n-1 : Parent(d) \in 0..n-1 /\ Parent(d) < d
  BY ParentBelow
<1>3. \A m \in 0..n-1 : v[m] \in Int /\ w[m] \in Int
  OBVIOUS
<1>4. i < c
  BY <1>2
<1>5. /\ \A d \in 1..n-1 : d # i /\ Parent(d) # i => v[Parent(d)] <= v[d]
      /\ i > 0 => \A d \in 1..n-1 : Parent(d) = i => v[Parent(i)] <= v[d]
  BY DEF Loose
<1>6. v[c] < v[i] /\ \A d \in 1..n-1 : Parent(d) = i => v[c] <= v[d]
  OBVIOUS
<1>7. ASSUME NEW d \in 1..n-1, d # c, Parent(d) # c PROVE w[Parent(d)] <= w[d]
  <2>1. CASE Parent(d) = i
    BY <2>1, <1>1, <1>7, <1>2, <1>3, <1>4, <1>6
  <2>2. CASE d = i
    <3>1. w[Parent(i)] = v[Parent(i)] /\ w[i] = v[c] /\ i > 0
      BY <2>2, <1>1, <1>7, <1>2, <1>3, <1>4, <1>6
    <3>2. v[Parent(i)] <= v[c]
      BY <3>1, <1>5
    <3> QED BY <3>1, <3>2, <2>2
  <2>3. CASE d # i /\ Parent(d) # i
    <3>1. Parent(d) \in 0..n-1 /\ d \in 0..n-1
      BY <1>2
    <3>2. w[Parent(d)] = v[Parent(d)] /\ w[d] = v[d]
      BY <3>1, <2>3, <1>1, <1>7
    <3> QED BY <3>2, <2>3, <1>5
  <2> QED BY <2>1, <2>2, <2>3
<1>8. ASSUME NEW d \in 1..n-1, Parent(d) = c PROVE w[Parent(c)] <= w[d]
  <2>1. d \notin {i, c} /\ d # i /\ Parent(d) # i
    BY <1>8, <1>1, <1>2, <1>3, <1>4, <1>6
  <2>2. w[d] = v[d]
    BY <2>1, <1>1
  <2>3. v[c] <= v[d]
    BY <2>1, <1>5, <1>8
  <2> QED BY <2>2, <2>3, <1>1, <1>8
<1>9. w[Parent(c)] <= w[c]
  BY <1>1, <1>6, <1>3, <1>4
<1> QED BY <1>7, <1>8, <1>9 DEF Loose

\* i has children below n, none of which is less.
LEMMA LooseStop ==
  ASSUME NEW n \in Nat, NEW v \in [0..n-1 -> Int], NEW i \in Nat, Loose(v, i, n),
         \A d \in 1..n-1 : Parent(d) = i => v[i] <= v[d]
  PROVE  Rising(v, i, n)
BY DEF Loose, Rising

-------------------------------------------------------------------------------
(* What Up and Down do to a heap of N items, of which they know the first n *)

LEMMA TimesTyped ==
  ASSUME NEW N \in Nat, NEW n \in 0..N, NEW M, NEW h, Exact(h, N, M),
         NEW e, \A k \in M : e[k] \in Int
  PROVE  /\ TimesOf(e, h, n) \in [0..n-1 -> Int]
         /\ \A i \in 0..n-1, j \in 0..n-1 :
              Less(e, h, i, j) <=> TimesOf(e, h, n)[i] < TimesOf(e, h, n)[j]
<1>1. \A i \in 0..n-1 : At(h, i) \in M
  BY DEF Exact
<1>2. \A i \in 0..n-1 : e[At(h, i)] \in Int
  BY <1>1
<1> QED BY <1>2 DEF TimesOf, Less

LEMMA TimesSwap ==
  ASSUME NEW N \in Nat, NEW n \in 0..N, NEW M, NEW h, Exact(h, N, M), NEW e,
         NEW i \in 0..n-1, NEW j \in 0..n-1
  PROVE  /\ Exchanged(TimesOf(e, h, n), TimesOf(e, Swap(h, i, j), n), i, j, n)
         /\ \A m \in n..N-1 : At(Swap(h, i, j), m) = At(h, m)
<1>1. h \in HeapsOf(N) /\ i \in 0..N-1 /\ j \in 0..N-1
  BY DEF Exact
<1> DEFINE g == Swap(h, i, j)
<1>2. /\ At(g, i) = At(h, j) /\ At(g, j) = At(h, i)
      /\ \A m \in 0..N-1 : m \notin {i, j} => At(g, m) = At(h, m)
  BY <1>1, SwapAt
<1> HIDE DEF g
<1>3. \A m \in 0..n-1 : m \notin {i, j} => At(g, m) = At(h, m)
  BY <1>2
<1>4. \A m \in n..N-1 : At(g, m) = At(h, m)
  <2> TAKE m \in n..N-1
  <2>1. m \in 0..N-1 /\ m \notin {i, j}
    OBVIOUS
  <2> QED BY <2>1, <1>2
<1>5. Exchanged(TimesOf(e, h, n), TimesOf(e, g, n), i, j, n)
  BY <1>2, <1>3 DEF Exchanged, TimesOf
<1> QED BY <1>4, <1>5 DEF g

LEMMA ExactPlaced == ASSUME NEW N \in Nat, NEW M, NEW h, Exact(h, N, M), NEW i \in 0..N-1
                     PROVE  <<h, i>> \in Placed(N)
BY DEF Exact, HeapsOf, Placed

LEMMA UpOrders ==
  ASSUME NEW N \in Nat, NEW n \in 0..N, NEW M, NEW h, Exact(h, N, M),
         NEW e, \A k \in M : e[k] \in Int,
         NEW j \in 0..n-1, Rising(TimesOf(e, h, n), j, n)
  PROVE  /\ Exact(Up(e, h, j), N, M)
         /\ Sorted(TimesOf(e, Up(e, h, j), n), n)
         /\ \A m \in n..N-1 : At(Up(e, h, j), m) = At(h, m)
<1> DEFINE Kept(g, i) == /\ Exact(g, N, M) /\ i \in 0..n-1
                         /\ Rising(TimesOf(e, g, n), i, n)
                         /\ \A m \in n..N-1 : At(g, m) = At(h, m)
           P == {x \in Placed(N) : Kept(x[1], x[2])}
<1>1. ASSUME NEW g, NEW c, Kept(g, c), ~UpStop(e, <<g, c>>)
      PROVE  Kept(Swap(g, Parent(c), c), Parent(c))
  <2>1. c \in 1..n-1 /\ Less(e, g, c, Parent(c))
    BY <1>1 DEF UpStop
  <2>2. Parent(c) \in 0..n-1
    BY <2>1, ParentBelow
  <2> DEFINE i == Parent(c)
             v == TimesOf(e, g, n)
             w == TimesOf(e, Swap(g, i, c), n)
  <2>3. Exact(Swap(g, i, c), N, M)
    BY <1>1, <2>2, SwapExact
  <2>4. v \in [0..n-1 -> Int] /\ v[c] < v[i]
    BY <1>1, <2>1, <2>2, TimesTyped
  <2>5. w \in [0..n-1 -> Int]
    BY <2>3, TimesTyped
  <2>6. Exchanged(v, w, i, c, n) /\ \A m \in n..N-1 : At(Swap(g, i, c), m) = At(g, m)
    <3>1. c \in 0..n-1 /\ Exact(g, N, M)
      BY <2>1, <1>1
    <3> QED BY <3>1, <2>2, TimesSwap
  <2>7. Rising(v, c, n)
    BY <1>1
  <2>8. Rising(w, i, n)
    <3> HIDE DEF v, w
    <3>1. n \in Nat /\ c \in 1..n-1
      BY <2>1
    <3> QED BY <3>1, <2>4, <2>5, <2>6, <2>7, RisingTurn
  <2> QED BY <1>1, <2>2, <2>3, <2>6, <2>8
<1>2. \A x \in P : ~UpStop(e, x) => UpNext(x) \in P
  <2> SUFFICES ASSUME NEW x \in P, ~UpStop(e, x) PROVE UpNext(x) \in P
    OBVIOUS
  <2> DEFINE i == Parent(x[2])
             g == Swap(x[1], i, x[2])
  <2>1. x = <<x[1], x[2]>> /\ Kept(x[1], x[2])
    BY DEF Placed
  <2>2. Kept(g, i)
    <3> HIDE DEF Kept
    <3> QED BY <2>1, <1>1
  <2>3. <<g, i>> \in Placed(N)
    BY <2>2, ExactPlaced
  <2> HIDE DEF Kept
  <2> QED BY <2>2, <2>3 DEF UpNext
<1>3. <<h, j>> \in P
  <2>1. Kept(h, j)
    OBVIOUS
  <2>2. <<h, j>> \in Placed(N)
    BY ExactPlaced
  <2> HIDE DEF Kept
  <2> QED BY <2>1, <2>2
<1>4. PICK x \in P : UpStop(e, x) /\ Up(e, h, j) = x[1]
  <2> HIDE DEF P
  <2>1. P \in SUBSET Placed(N)
    BY DEF P
  <2> QED BY <1>2, <1>3, <2>1, UpLoop
<1> DEFINE g == x[1]
           v == TimesOf(e, g, n)
<1>5. Kept(g, x[2])
  OBVIOUS
<1>6. x[2] = 0 \/ ~Less(e, g, x[2], Parent(x[2]))
  BY <1>4 DEF UpStop
<1>7. Sorted(v, n)
  <2>1. v \in [0..n-1 -> Int] /\ x[2] \in 0..n-1
    BY <1>5, TimesTyped
  <2>2. x[2] = 0 \/ ~(v[x[2]] < v[Parent(x[2])])
    <3>1. CASE x[2] = 0
      BY <3>1
    <3>2. CASE x[2] # 0
      <4>1. Parent(x[2]) \in 0..n-1
        BY <2>1, <3>2, ParentBelow
      <4>2. ~Less(e, g, x[2], Parent(x[2])) /\ Exact(g, N, M)
        BY <3>2, <1>5, <1>6
      <4>3. Less(e, g, x[2], Parent(x[2])) <=> v[x[2]] < v[Parent(x[2])]
        <5> HIDE DEF g
        <5> QED BY <4>1, <4>2, <2>1, TimesTyped
      <4> HIDE DEF v
      <4> QED BY <4>2, <4>3
    <3> QED BY <3>1, <3>2
  <2>3. Rising(v, x[2], n) /\ n \in Nat
    BY <1>5
  <2> HIDE DEF v, P
  <2> QED BY <2>1, <2>2, <2>3, RisingStop
<1> QED BY <1>4, <1>5, <1>7

\* Down leaves the heap in order, or as it was, with an item that has yet to move up.
LEMMA DownOrders ==
  ASSUME NEW N \in Nat, NEW n \in 0..N, NEW M, NEW h, Exact(h, N, M),
         NEW e, \A k \in M : e[k] \in Int,
         NEW i \in 0..N-1, i < n \/ n = 0, Loose(TimesOf(e, h, n), i, n)
  PROVE  /\ Exact(Down(e, h, i, n), N, M)
         /\ \A m \in n..N-1 : At(Down(e, h, i, n), m) = At(h, m)
         /\ \/ Sorted(TimesOf(e, Down(e, h, i, n), n), n)
            \/ Down(e, h, i, n) = h /\ Rising(TimesOf(e, h, n), i, n)
<1> DEFINE Kept(g, j) == /\ Exact(g, N, M) /\ j \in 0..N-1 /\ (j < n \/ n = 0)
                         /\ Loose(TimesOf(e, g, n), j, n)
                         /\ \A m \in n..N-1 : At(g, m) = At(h, m)
                         /\ \/ g = h /\ j = i
                            \/ j > 0 /\ TimesOf(e, g, n)[Parent(j)] <= TimesOf(e, g, n)[j]
           P == {x \in Placed(N) : Kept(x[1], x[2])}
<1>1. n \in Nat
  OBVIOUS
<1>2. ASSUME NEW g, NEW j, Kept(g, j), 2 * j + 1 < n
      PROVE  LET c == LesserChild(e, g, j, n)
                 v == TimesOf(e, g, n)
             IN /\ c \in 1..n-1 /\ Parent(c) = j
                /\ \A d \in 1..n-1 : Parent(d) = j => v[c] <= v[d]
  <2> DEFINE v == TimesOf(e, g, n)
  <2>1. v \in [0..n-1 -> Int]
    BY <1>2, TimesTyped
  <2>2. j \in Nat /\ 2 * j + 1 \in 0..n-1
    BY <1>2
  <2>3. 2 * j + 2 < n => (Less(e, g, 2 * j + 2, 2 * j + 1) <=> v[2 * j + 2] < v[2 * j + 1])
    <3> HIDE DEF v
    <3> SUFFICES ASSUME 2 * j + 2 < n
                 PROVE  Less(e, g, 2 * j + 2, 2 * j + 1) <=> v[2 * j + 2] < v[2 * j + 1]
      OBVIOUS
    <3>1. 2 * j + 2 \in 0..n-1 /\ Exact(g, N, M)
      BY <2>2, <1>2
    <3> QED BY <2>2, <3>1, TimesTyped DEF v
  <2>4. \A d \in 1..n-1 : Parent(d) = j => d \in {2 * j + 1, 2 * j + 2}
    <3> TAKE d \in 1..n-1
    <3>1. d \in Nat /\ d > 0
      BY <1>1
    <3> QED BY <3>1, Parents
  <2>5. \A d \in {2 * j + 1, 2 * j + 2} : Parent(d) = j
    <3> TAKE d \in {2 * j + 1, 2 * j + 2}
    <3>1. d \in Nat /\ d > 0
      BY <2>2
    <3> QED BY <2>2, <3>1, Parents
  <2> HIDE DEF v
  <2>6. CASE 2 * j + 2 < n /\ v[2 * j + 2] < v[2 * j + 1]
    <3>1. LesserChild(e, g, j, n) = 2 * j + 2
      BY <2>3, <2>6 DEF LesserChild
    <3>2. 2 * j + 2 \in 1..n-1 /\ v[2 * j + 1] \in Int /\ v[2 * j + 2] \in Int
      BY <2>1, <2>2, <2>6, SMTT(30)
    <3> QED BY <3>1, <3>2, <2>4, <2>5, <2>6 DEF v
  <2>7. CASE ~(2 * j + 2 < n /\ v[2 * j + 2] < v[2 * j + 1])
    <3>1. LesserChild(e, g, j, n) = 2 * j + 1
      BY <2>3, <2>7 DEF LesserChild
    <3>2. 2 * j + 1 \in 1..n-1 /\ v[2 * j + 1] \in Int
      BY <2>1, <2>2
    <3>3. ASSUME NEW d \in 1..n-1, Parent(d) = j PROVE v[2 * j + 1] <= v[d]
      <4>1. d = 2 * j + 1 \/ d = 2 * j + 2
        BY <2>4, <3>3
      <4>2. CASE d = 2 * j + 1
        BY <4>2, <3>2
      <4>3. CASE d = 2 * j + 2
        <5>1. 2 * j + 2 < n /\ v[2 * j + 2] \in Int
          BY <4>3, <2>1, <2>2
        <5> QED BY <4>3, <5>1, <3>2, <2>7
      <4> QED BY <4>1, <4>2, <4>3
    <3> QED BY <3>1, <3>2, <3>3, <2>5 DEF v
  <2> QED BY <2>6, <2>7
<1>3. ASSUME NEW g, NEW j, Kept(g, j), ~DownStop(e, <<g, j>>, n)
      PROVE  LET c == LesserChild(e, g, j, n) IN Kept(Swap(g, j, c), c)
  <2> DEFINE c == LesserChild(e, g, j, n)
             v == TimesOf(e, g, n)
             w == TimesOf(e, Swap(g, j, c), n)
  <2>1. 2 * j + 1 < n /\ Less(e, g, c, j)
    BY <1>3, <1>1 DEF DownStop
  <2>2. /\ c \in 1..n-1 /\ Parent(c) = j
        /\ \A d \in 1..n-1 : Parent(d) = j => v[c] <= v[d]
    BY <2>1, <1>2, <1>3
  <2>3. Exact(g, N, M) /\ j \in 0..n-1 /\ c \in 0..n-1 /\ Loose(v, j, n)
    BY <2>1, <2>2, <1>3
  <2> HIDE DEF c
  <2>4. Exact(Swap(g, j, c), N, M)
    <3>1. j \in 0..N-1 /\ c \in 0..N-1
      BY <2>3
    <3> QED BY <2>3, <3>1, SwapExact
  <2>5. v \in [0..n-1 -> Int] /\ v[c] < v[j]
    BY <2>1, <2>3, TimesTyped
  <2>6. w \in [0..n-1 -> Int]
    BY <2>4, TimesTyped
  <2>7. Exchanged(v, w, j, c, n) /\ \A m \in n..N-1 : At(Swap(g, j, c), m) = At(g, m)
    BY <2>3, TimesSwap
  <2>8. Loose(w, c, n) /\ w[Parent(c)] <= w[c]
    <3> HIDE DEF v, w
    <3> QED BY <1>1, <2>2, <2>3, <2>5, <2>6, <2>7, LooseTurn
  <2>9. c \in 0..N-1 /\ c < n /\ c > 0
    BY <2>2
  <2>10. \A m \in n..N-1 : At(Swap(g, j, c), m) = At(h, m)
    BY <1>3, <2>7
  <2>11. Kept(Swap(g, j, c), c)
    BY <2>4, <2>8, <2>9, <2>10
  <2> QED BY <2>11 DEF c
<1>4. \A x \in P : ~DownStop(e, x, n) => DownNext(e, x, n) \in P
  <2> SUFFICES ASSUME NEW x \in P, ~DownStop(e, x, n) PROVE DownNext(e, x, n) \in P
    OBVIOUS
  <2> DEFINE c == LesserChild(e, x[1], x[2], n)
             g == Swap(x[1], x[2], c)
  <2>1. x = <<x[1], x[2]>> /\ Kept(x[1], x[2])
    BY DEF Placed
  <2>2. Kept(g, c)
    <3> HIDE DEF Kept
    <3> QED BY <2>1, <1>3
  <2>3. <<g, c>> \in Placed(N)
    BY <2>2, ExactPlaced
  <2> HIDE DEF Kept
  <2> QED BY <2>2, <2>3 DEF DownNext
<1>5. <<h, i>> \in P
  <2>1. Kept(h, i)
    OBVIOUS
  <2>2. <<h, i>> \in Placed(N)
    BY ExactPlaced
  <2> HIDE DEF Kept
  <2> QED BY <2>1, <2>2
<1>6. PICK x \in P : DownStop(e, x, n) /\ Down(e, h, i, n) = x[1]
  <2> HIDE DEF P
  <2>1. P \in SUBSET Placed(N)
    BY DEF P
  <2> QED BY <1>4, <1>5, <2>1, DownLoop
<1> DEFINE g == x[1]
           j == x[2]
           v == TimesOf(e, g, n)
<1>7. Kept(g, j)
  OBVIOUS
<1>8. 2 * j + 1 >= n \/ ~Less(e, g, LesserChild(e, g, j, n), j)
  BY <1>6 DEF DownStop
<1>9. Rising(v, j, n)
  <2>1. v \in [0..n-1 -> Int] /\ j \in Nat /\ Loose(v, j, n)
    BY <1>7, TimesTyped
  <2>2. \A d \in 1..n-1 : Parent(d) = j => v[j] <= v[d]
    <3>1. CASE 2 * j + 1 >= n
      <4>1. \A d \in 1..n-1 : Parent(d) # j
        <5> TAKE d \in 1..n-1
        <5>1. d \in Nat /\ d > 0 /\ d < n
          BY <1>1
        <5>2. d = 2 * Parent(d) + 1 \/ d = 2 * Parent(d) + 2
          BY <5>1, Parents
        <5>3. j \in Nat
          BY <2>1
        <5> HIDE DEF j
        <5> QED BY <5>1, <5>2, <5>3, <3>1, <1>1
      <4> QED BY <4>1
    <3>2. CASE 2 * j + 1 < n
      <4> DEFINE c == LesserChild(e, g, j, n)
      <4>1. c \in 1..n-1 /\ \A d \in 1..n-1 : Parent(d) = j => v[c] <= v[d]
        BY <3>2, <1>2, <1>7
      <4>2. ~Less(e, g, c, j)
        BY <3>2, <1>8, <1>1, <2>1
      <4>3. c \in 0..n-1 /\ j \in 0..n-1 /\ Exact(g, N, M)
        BY <4>1, <3>2, <2>1, <1>7, SMTT(30)
      <4>4. ~(v[c] < v[j])
        <5>1. Less(e, g, c, j) <=> v[c] < v[j]
          <6> HIDE DEF c, g, j, P
          <6> QED BY <4>3, TimesTyped
        <5> HIDE DEF c, v, j
        <5> QED BY <4>2, <5>1
      <4> HIDE DEF c, v, j
      <4> QED BY <4>1, <4>3, <4>4, <2>1
    <3> QED BY <3>1, <3>2, <1>1, <2>1
  <2> HIDE DEF v, j
  <2> QED BY <2>1, <2>2, <1>1, LooseStop
<1>10. (g = h /\ j = i) \/ Sorted(v, n)
  <2> SUFFICES ASSUME j > 0 /\ v[Parent(j)] <= v[j] PROVE Sorted(v, n)
    BY <1>7
  <2> HIDE DEF v, j
  <2> QED BY <1>9 DEF Rising, Sorted
<1> QED BY <1>6, <1>7, <1>9, <1>10

-------------------------------------------------------------------------------
(* The operations of container/heap *)

\* The items of M are in the heap, where their indices say, and in order.
InOrder(e, h, n, M) == /\ Exact(h, n, M) /\ \A k \in M : e[k] \in Int
                       /\ Sorted(TimesOf(e, h, n), n)

LEMMA LooseFrom ==
  ASSUME NEW n \in Nat, NEW v \in [0..n-1 -> Int], NEW w \in [0..n-1 -> Int], NEW m \in 0..n,
         NEW u, u = [c \in 0..m-1 |-> w[c]],
         Sorted(v, n), NEW i \in 0..n-1, \A c \in 0..m-1 : c # i => w[c] = v[c]
  PROVE  Loose(u, i, m)
<1>1. \A c \in 1..n-1 : Parent(c) \in 0..n-1 /\ Parent(c) < c /\ v[Parent(c)] <= v[c]
  BY ParentBelow DEF Sorted
<1>2. \A c \in 1..m-1 : Parent(c) \in 0..m-1
  BY ParentBelow
<1>3. \A c \in 0..m-1 : c # i => u[c] = v[c]
  OBVIOUS
<1>4. \A c \in 0..n-1 : v[c] \in Int
  OBVIOUS
<1>5. ASSUME NEW c \in 1..m-1, c # i, Parent(c) # i PROVE u[Parent(c)] <= u[c]
  <2>1. c \in 1..n-1 /\ u[c] = v[c] /\ u[Parent(c)] = v[Parent(c)]
    BY <1>5, <1>2, <1>3
  <2> QED BY <2>1, <1>1
<1>6. ASSUME i > 0, NEW c \in 1..m-1, Parent(c) = i PROVE u[Parent(i)] <= u[c]
  <2>1. c \in 1..n-1 /\ c # i /\ i \in 1..m-1
    BY <1>6, <1>1, <1>2
  <2>2. Parent(i) \in 0..m-1 /\ Parent(i) # i /\ i \in 1..n-1
    BY <2>1, <1>1, <1>2
  <2>3. u[Parent(i)] = v[Parent(i)] /\ u[c] = v[c]
    BY <2>1, <2>2, <1>3
  <2>4. v[Parent(i)] <= v[i] /\ v[i] <= v[c] /\ Parent(i) \in 0..n-1
    BY <2>1, <2>2, <1>6, <1>1
  <2>5. v[Parent(i)] \in Int /\ v[i] \in Int /\ v[c] \in Int
    BY <2>1, <2>4, <1>4
  <2> QED BY <2>3, <2>4, <2>5
<1> QED BY <1>5, <1>6 DEF Loose

LEMMA SiftOrders ==
  ASSUME NEW N \in Nat, NEW n \in 0..N, NEW M, NEW h, Exact(h, N, M),
         NEW e, \A k \in M : e[k] \in Int,
         NEW i \in 0..n-1, Loose(TimesOf(e, h, n), i, n)
  PROVE  /\ Exact(Sift(e, h, i, n), N, M)
         /\ Sorted(TimesOf(e, Sift(e, h, i, n), n), n)
         /\ \A m \in n..N-1 : At(Sift(e, h, i, n), m) = At(h, m)
<1>1. ASSUME Rising(TimesOf(e, h, n), i, n)
      PROVE  /\ Exact(Up(e, h, i), N, M)
             /\ Sorted(TimesOf(e, Up(e, h, i), n), n)
             /\ \A m \in n..N-1 : At(Up(e, h, i), m) = At(h, m)
  BY <1>1, UpOrders
<1> DEFINE d == Down(e, h, i, n)
<1>2. i \in 0..N-1 /\ (i < n \/ n = 0)
  OBVIOUS
<1>3. /\ Exact(d, N, M) /\ \A m \in n..N-1 : At(d, m) = At(h, m)
      /\ Sorted(TimesOf(e, d, n), n) \/ (d = h /\ Rising(TimesOf(e, h, n), i, n))
  BY <1>2, DownOrders
<1>4. CASE d = h
  <2>1. Rising(TimesOf(e, h, n), i, n)
    <3>1. TimesOf(e, h, n) \in [0..n-1 -> Int] /\ n \in Nat
      BY TimesTyped
    <3>2. CASE Sorted(TimesOf(e, d, n), n)
      <4> DEFINE v == TimesOf(e, h, n)
      <4>1. Sorted(v, n)
        BY <1>4, <3>2
      <4>2. v \in [0..n-1 -> Int] /\ n \in Nat
        BY <3>1
      <4> HIDE DEF v
      <4>3. Rising(v, i, n)
        BY <4>1, <4>2, SortedRises
      <4> QED BY <4>3 DEF v
    <3> QED BY <1>3, <3>2
  <2>2. Sift(e, h, i, n) = Up(e, h, i)
    BY <1>4 DEF Sift
  <2> QED BY <2>1, <2>2, <1>1
<1>5. CASE d # h
  <2>1. Sift(e, h, i, n) = d
    BY <1>5 DEF Sift
  <2> HIDE DEF d
  <2> QED BY <1>3, <1>5, <2>1
<1> QED BY <1>4, <1>5

\* Fix, after the time of item k has changed.
LEMMA FixOrders ==
  ASSUME NEW n \in Nat, NEW M, NEW e, NEW h, InOrder(e, h, n, M), NEW k \in M,
         NEW d, d[k] \in Int, \A c \in M \ {k} : d[c] = e[c]
  PROVE  InOrder(d, Fix(d, h, h.idx[k]), n, M)
<1> DEFINE i == h.idx[k]
           v == TimesOf(e, h, n)
           w == TimesOf(d, h, n)
<1>1. Exact(h, n, M) /\ Sorted(v, n) /\ v \in [0..n-1 -> Int] /\ n \in 0..n
  BY TimesTyped DEF InOrder
<1>2. \A c \in M : d[c] \in Int
  BY DEF InOrder
<1>3. w \in [0..n-1 -> Int] /\ w = [c \in 0..n-1 |-> w[c]]
  BY <1>1, <1>2, TimesTyped
<1>4. i \in 0..n-1 /\ \A c \in 0..n-1 : c # i => At(h, c) \in M \ {k}
  BY <1>1 DEF Exact
<1>5. \A c \in 0..n-1 : c # i => w[c] = v[c]
  BY <1>4 DEF TimesOf
<1>6. Loose(w, i, n)
  <2> HIDE DEF i, v, w
  <2> QED BY <1>1, <1>3, <1>4, <1>5, LooseFrom
<1>7. Size(h) = n
  BY <1>1, ExactSize
<1> HIDE DEF i
<1>8. Exact(Sift(d, h, i, n), n, M) /\ Sorted(TimesOf(d, Sift(d, h, i, n), n), n)
  BY <1>1, <1>2, <1>4, <1>6, SiftOrders
<1> QED BY <1>2, <1>7, <1>8 DEF InOrder, Fix, i

\* Push, of a new item k.
LEMMA PushOrders ==
  ASSUME NEW n \in Nat, NEW M, NEW e, NEW h, InOrder(e, h, n, M), NEW k \in Keys \ M,
         NEW d, d[k] \in Int, \A c \in M : d[c] = e[c]
  PROVE  InOrder(d, Push(d, h, k), n + 1, M \cup {k})
<1> DEFINE g == PushLast(h, k)
           v == TimesOf(e, h, n)
           w == TimesOf(d, g, n + 1)
<1>1. Exact(h, n, M) /\ Sorted(v, n) /\ n \in 0..n /\ n + 1 \in Nat /\ n \in 0..(n+1)-1
  BY DEF InOrder
<1>2. \A c \in M \cup {k} : d[c] \in Int
  BY DEF InOrder
<1>3. Exact(g, n + 1, M \cup {k}) /\ \A m \in 0..n-1 : At(g, m) = At(h, m)
  BY <1>1, PushExact
<1>4. \A m \in 0..n-1 : At(h, m) \in M
  BY <1>1 DEF Exact
<1>5. \A m \in 0..n-1 : w[m] = v[m]
  BY <1>3, <1>4 DEF TimesOf
<1>6. Rising(w, n, n + 1)
  <2>1. ASSUME NEW c \in 1..(n+1)-1, c # n PROVE w[Parent(c)] <= w[c]
    <3>1. c \in 1..n-1 /\ Parent(c) \in 0..n-1
      BY <2>1, ParentBelow
    <3>2. v[Parent(c)] <= v[c]
      BY <3>1, <1>1 DEF Sorted
    <3> QED BY <3>1, <3>2, <1>5
  <2>2. \A c \in 1..(n+1)-1 : Parent(c) # n
    BY <1>1, ParentBelow, SMTT(30)
  <2> QED BY <2>1, <2>2 DEF Rising
<1>7. Size(h) = n
  BY <1>1, ExactSize
<1>8. Exact(Up(d, g, n), n + 1, M \cup {k}) /\ Sorted(TimesOf(d, Up(d, g, n), n + 1), n + 1)
  <2>1. n + 1 \in 0..n+1 /\ n \in 0..(n+1)-1
    OBVIOUS
  <2> HIDE DEF g
  <2> QED BY <1>1, <1>2, <1>3, <1>6, <2>1, UpOrders
<1> QED BY <1>2, <1>7, <1>8 DEF InOrder, Push

\* PopLast, of the item in the last place, which need not be in order.
LEMMA PopOrders ==
  ASSUME NEW n \in Nat, n > 0, NEW M, NEW e, NEW h, Exact(h, n, M),
         \A k \in M : e[k] \in Int, Sorted(TimesOf(e, h, n - 1), n - 1)
  PROVE  InOrder(e, PopLast(h), n - 1, M \ {At(h, n - 1)})
<1>1. /\ Exact(PopLast(h), n - 1, M \ {At(h, n - 1)})
      /\ \A m \in 0..n-2 : At(PopLast(h), m) = At(h, m)
  BY PopExact
<1>2. TimesOf(e, PopLast(h), n - 1) = TimesOf(e, h, n - 1)
  BY <1>1 DEF TimesOf
<1> QED BY <1>1, <1>2 DEF InOrder

\* Remove, of item k, whose time may have changed.
LEMMA RemoveOrders ==
  ASSUME NEW n \in Nat, NEW M, NEW e, NEW h, InOrder(e, h, n, M), NEW k \in M,
         NEW d, d[k] \in Int, \A c \in M \ {k} : d[c] = e[c]
  PROVE  n > 0 /\ InOrder(d, Remove(d, h, h.idx[k]), n - 1, M \ {k})
<1> DEFINE i == h.idx[k]
           g == Swap(h, i, n - 1)
           v == TimesOf(e, h, n)
           w == TimesOf(d, h, n)
           u == TimesOf(d, g, n - 1)
<1>1. Exact(h, n, M) /\ Sorted(v, n) /\ v \in [0..n-1 -> Int]
  BY TimesTyped DEF InOrder
<1>2. \A c \in M : d[c] \in Int
  BY DEF InOrder
<1>3. w \in [0..n-1 -> Int]
  BY <1>1, <1>2, TimesTyped
<1>4. i \in 0..n-1 /\ At(h, i) = k /\ \A c \in 0..n-1 : c # i => At(h, c) \in M \ {k}
  BY <1>1 DEF Exact
<1>5. n > 0 /\ n - 1 \in Nat /\ n - 1 \in 0..n-1 /\ n - 1 \in 0..n
  BY <1>4
<1>6. Size(h) = n
  BY <1>1, ExactSize
<1>7. \A c \in 0..n-1 : c # i => w[c] = v[c]
  BY <1>4 DEF TimesOf
<1>8. CASE i = n - 1
  <2>1. Remove(d, h, i) = PopLast(h)
    BY <1>6, <1>8 DEF Remove
  <2>2. Sorted(TimesOf(d, h, n - 1), n - 1)
    <3>1. \A c \in 0..n-2 : TimesOf(d, h, n - 1)[c] = v[c]
      BY <1>4, <1>8 DEF TimesOf
    <3>2. \A c \in 1..n-2 : v[Parent(c)] <= v[c] /\ Parent(c) \in 0..n-2
      BY <1>1, <1>5, ParentBelow DEF Sorted
    <3> QED BY <3>1, <3>2 DEF Sorted
  <2>3. InOrder(d, PopLast(h), n - 1, M \ {At(h, n - 1)})
    BY <1>1, <1>2, <1>5, <2>2, PopOrders
  <2> QED BY <1>4, <1>5, <1>8, <2>1, <2>3
<1>9. CASE i # n - 1
  <2> DEFINE s == Sift(d, g, i, n - 1)
  <2>1. Remove(d, h, i) = PopLast(s)
    BY <1>6, <1>9 DEF Remove
  <2>2. Exact(g, n, M)
    BY <1>1, <1>4, <1>5, SwapExact
  <2>3. /\ At(g, n - 1) = k
        /\ \A m \in 0..n-2 : m # i => At(g, m) = At(h, m)
    <3>1. h \in HeapsOf(n)
      BY <1>1 DEF Exact
    <3>2. /\ At(g, n - 1) = At(h, i)
          /\ \A m \in 0..n-1 : m \notin {i, n - 1} => At(g, m) = At(h, m)
      BY <3>1, <1>4, <1>5, SwapAt
    <3> HIDE DEF g, i
    <3> QED BY <3>2, <1>4
  <2>4. i \in 0..(n-1)-1
    BY <1>4, <1>9
  <2>5. Loose(u, i, n - 1)
    <3> DEFINE x == TimesOf(d, g, n)
    <3>1. x \in [0..n-1 -> Int]
      BY <1>2, <2>2, TimesTyped
    <3>2. \A c \in 0..(n-1)-1 : c # i => x[c] = v[c]
      BY <2>3, <1>4 DEF TimesOf
    <3>3. u = [c \in 0..(n-1)-1 |-> x[c]]
      BY DEF TimesOf
    <3> HIDE DEF i, g, x, u, v
    <3> QED BY <3>1, <3>2, <3>3, <1>1, <1>4, <1>5, LooseFrom
  <2> HIDE DEF i, g
  <2>6. /\ Exact(s, n, M) /\ Sorted(TimesOf(d, s, n - 1), n - 1)
        /\ \A m \in n-1..n-1 : At(s, m) = At(g, m)
    BY <1>2, <1>5, <2>2, <2>4, <2>5, SiftOrders
  <2> HIDE DEF s
  <2>7. At(s, n - 1) = k
    BY <1>5, <2>3, <2>6
  <2>8. InOrder(d, PopLast(s), n - 1, M \ {k})
    BY <1>2, <1>5, <2>6, <2>7, PopOrders
  <2> QED BY <1>5, <2>1, <2>8 DEF i
<1> QED BY <1>8, <1>9

\* Pop, of the item at the top.
LEMMA TopOrders ==
  ASSUME NEW n \in Nat, n > 0, NEW M, NEW e, NEW h, InOrder(e, h, n, M)
  PROVE  InOrder(e, Pop(e, h), n - 1, M \ {At(h, 0)})
<1> DEFINE g == Swap(h, 0, n - 1)
           v == TimesOf(e, h, n)
           u == TimesOf(e, g, n - 1)
           s == Down(e, g, 0, n - 1)
<1>1. Exact(h, n, M) /\ Sorted(v, n) /\ v \in [0..n-1 -> Int]
  BY TimesTyped DEF InOrder
<1>2. \A c \in M : e[c] \in Int
  BY DEF InOrder
<1>3. n - 1 \in Nat /\ n - 1 \in 0..n-1 /\ n - 1 \in 0..n /\ 0 \in 0..n-1
  OBVIOUS
<1>4. Size(h) = n
  BY <1>1, ExactSize
<1>5. Pop(e, h) = PopLast(s)
  BY <1>4 DEF Pop
<1>6. Exact(g, n, M)
  BY <1>1, <1>3, SwapExact
<1>7. /\ At(g, n - 1) = At(h, 0)
      /\ \A m \in 0..n-2 : m # 0 => At(g, m) = At(h, m)
  <2>1. h \in HeapsOf(n)
    BY <1>1 DEF Exact
  <2>2. /\ At(g, n - 1) = At(h, 0)
        /\ \A m \in 0..n-1 : m \notin {0, n - 1} => At(g, m) = At(h, m)
    BY <2>1, <1>3, SwapAt
  <2> HIDE DEF g
  <2> QED BY <2>2
<1>8. Loose(u, 0, n - 1)
  <2> DEFINE x == TimesOf(e, g, n)
  <2>1. x \in [0..n-1 -> Int]
    BY <1>2, <1>6, TimesTyped
  <2>2. \A c \in 0..(n-1)-1 : c # 0 => x[c] = v[c]
    BY <1>7 DEF TimesOf
  <2>3. u = [c \in 0..(n-1)-1 |-> x[c]]
    BY DEF TimesOf
  <2> HIDE DEF g, x, u, v
  <2> QED BY <2>1, <2>2, <2>3, <1>1, <1>3, LooseFrom
<1>9. 0 < n - 1 \/ n - 1 = 0
  BY <1>3
<1> HIDE DEF g
<1>10. /\ Exact(s, n, M) /\ \A m \in n-1..n-1 : At(s, m) = At(g, m)
       /\ Sorted(TimesOf(e, s, n - 1), n - 1) \/ (s = g /\ Rising(u, 0, n - 1))
  BY <1>2, <1>3, <1>6, <1>8, <1>9, DownOrders
<1> HIDE DEF s
<1>11. Sorted(TimesOf(e, s, n - 1), n - 1)
  <2> SUFFICES ASSUME s = g, Rising(u, 0, n - 1) PROVE Sorted(u, n - 1)
    BY <1>10
  <2>1. \A c \in 1..(n-1)-1 : c # 0
    BY <1>3
  <2> HIDE DEF u
  <2> QED BY <2>1 DEF Rising, Sorted
<1>12. At(s, n - 1) = At(h, 0)
  BY <1>3, <1>7, <1>10
<1>13. InOrder(e, PopLast(s), n - 1, M \ {At(s, n - 1)})
  BY <1>2, <1>10, <1>11, PopOrders
<1> QED BY <1>5, <1>12, <1>13

\* Nothing is due before the item at the top.
LEMMA TopFirst ==
  ASSUME NEW n \in Nat, NEW M, NEW e, NEW h, InOrder(e, h, n, M)
  PROVE  /\ n = 0 <=> M = {}
         /\ n > 0 => At(h, 0) \in M /\ \A k \in M : e[At(h, 0)] <= e[k]
<1> DEFINE v == TimesOf(e, h, n)
           I == {m \in Nat : \A c \in 0..n-1 : c <= m => v[0] <= v[c]}
<1>1. Exact(h, n, M) /\ Sorted(v, n) /\ v \in [0..n-1 -> Int]
  <2>1. n \in 0..n
    OBVIOUS
  <2> QED BY <2>1, TimesTyped DEF InOrder
<1>2. 0 \in I
  <2>1. \A c \in 0..n-1 : c <= 0 => v[0] <= v[c]
    <3> HIDE DEF v
    <3> TAKE c \in 0..n-1
    <3>1. v[c] \in Int
      BY <1>1
    <3> QED BY <3>1
  <2> HIDE DEF v
  <2> QED BY <2>1
<1>3. ASSUME NEW m \in Nat, m \in I PROVE m + 1 \in I
  <2> HIDE DEF v
  <2>1. ASSUME NEW c \in 0..n-1, c <= m + 1 PROVE v[0] <= v[c]
    <3>1. CASE c = 0
      BY <1>2, <3>1
    <3>2. CASE c > 0
      <4>1. c \in 1..n-1 /\ Parent(c) \in 0..n-1 /\ Parent(c) <= m
        <5>1. c \in 1..n-1
          BY <3>2
        <5>2. Parent(c) \in 0..n-1 /\ Parent(c) < c
          BY <5>1, ParentBelow
        <5> QED BY <5>1, <5>2, <2>1
      <4>2. v[Parent(c)] <= v[c]
        BY <4>1, <1>1 DEF Sorted
      <4>3. v[0] <= v[Parent(c)]
        BY <4>1, <1>3
      <4>4. v[0] \in Int /\ v[c] \in Int /\ v[Parent(c)] \in Int
        BY <4>1, <1>1
      <4> QED BY <4>2, <4>3, <4>4
    <3> QED BY <3>1, <3>2
  <2>2. m + 1 \in Nat
    OBVIOUS
  <2> QED BY <2>1, <2>2
<1>4. Nat \subseteq I
  <2> HIDE DEF I
  <2> QED BY <1>2, <1>3, NatInduct
<1>5. \A c \in 0..n-1 : v[0] <= v[c]
  <2> TAKE c \in 0..n-1
  <2>1. c \in I /\ c <= c
    BY <1>4
  <2> HIDE DEF v
  <2> QED BY <2>1
<1>6. /\ \A c \in 0..n-1 : At(h, c) \in M
      /\ \A k \in M : h.idx[k] \in 0..n-1 /\ At(h, h.idx[k]) = k
  BY <1>1 DEF Exact
<1>7. n = 0 <=> M = {}
  <2>1. n > 0 => 0 \in 0..n-1
    OBVIOUS
  <2> QED BY <2>1, <1>6
<1>8. ASSUME n > 0, NEW k \in M PROVE e[At(h, 0)] <= e[k]
  <2>1. 0 \in 0..n-1 /\ h.idx[k] \in 0..n-1 /\ At(h, h.idx[k]) = k
    BY <1>6, <1>8
  <2> QED BY <2>1, <1>5 DEF TimesOf
<1>9. n > 0 => At(h, 0) \in M
  BY <1>6
<1> QED BY <1>7, <1>8, <1>9

-------------------------------------------------------------------------------
(* The operations of the shard *)

Times == [Keys -> Nat \cup {None}]
Timed(e) == {k \in Keys : e[k] \notin {None, 0}}

\* The heap holds the items that have an expiry time, in order.
Fits(e, h) == e \in Times /\ \E n \in Nat : InOrder(e, h, n, Timed(e))

HInv == Fits(exp, heap) /\ now \in Nat

LEMMA TimedTyped == ASSUME NEW e \in Times
                    PROVE  Timed(e) \subseteq Keys /\ \A k \in Timed(e) : e[k] \in Nat /\ e[k] > 0
BY DEF Times, Timed

LEMMA SameOrder ==
  ASSUME NEW n \in Nat, NEW M, NEW e, NEW h, InOrder(e, h, n, M), NEW d, \A k \in M : d[k] = e[k]
  PROVE  InOrder(d, h, n, M)
<1>1. \A i \in 0..n-1 : At(h, i) \in M
  BY DEF InOrder, Exact
<1>2. TimesOf(d, h, n) = TimesOf(e, h, n)
  BY <1>1 DEF TimesOf
<1> QED BY <1>2 DEF InOrder

LEMMA IndexOf == ASSUME NEW n \in Nat, NEW M, NEW e, NEW h, InOrder(e, h, n, M)
                 PROVE  \A k \in Keys : h.idx[k] >= 0 <=> k \in M
BY DEF InOrder, Exact

LEMMA ReindexFits ==
  ASSUME Fits(exp, heap), NEW k \in Keys, NEW t \in Nat
  PROVE  LET d == [exp EXCEPT ![k] = t] IN Fits(d, Reindex(d, k))
<1> DEFINE d == [exp EXCEPT ![k] = t]
           M == Timed(exp)
<1>1. PICK n \in Nat : InOrder(exp, heap, n, M)
  BY DEF Fits
<1>2. exp \in Times /\ M \subseteq Keys
  BY DEF Fits, Timed
<1>3. d \in Times /\ d[k] = t /\ \A c \in Keys \ {k} : d[c] = exp[c]
  BY <1>2 DEF Times
<1>4. heap.idx[k] >= 0 <=> k \in M
  BY <1>1, IndexOf
<1>5. Timed(d) = IF t = 0 THEN M \ {k} ELSE M \cup {k}
  BY <1>2, <1>3, TTLAssumptions DEF Timed
<1> HIDE DEF d, M
<1>6. CASE t > 0 /\ k \in M
  <2>1. InOrder(d, Fix(d, heap, heap.idx[k]), n, M)
    BY <1>1, <1>2, <1>3, <1>6, FixOrders
  <2>2. Timed(d) = M /\ Reindex(d, k) = Fix(d, heap, heap.idx[k])
    BY <1>3, <1>4, <1>5, <1>6 DEF Reindex
  <2> QED BY <1>3, <2>1, <2>2 DEF Fits, d
<1>7. CASE t > 0 /\ k \notin M
  <2>1. InOrder(d, Push(d, heap, k), n + 1, M \cup {k})
    BY <1>1, <1>2, <1>3, <1>7, PushOrders
  <2>2. Timed(d) = M \cup {k} /\ Reindex(d, k) = Push(d, heap, k) /\ n + 1 \in Nat
    BY <1>3, <1>4, <1>5, <1>7 DEF Reindex
  <2> QED BY <1>3, <2>1, <2>2 DEF Fits, d
<1>8. CASE t = 0 /\ k \in M
  <2>1. n > 0 /\ InOrder(d, Remove(d, heap, heap.idx[k]), n - 1, M \ {k})
    <3>1. d[k] \in Int /\ \A c \in M \ {k} : d[c] = exp[c]
      BY <1>2, <1>3
    <3> QED BY <1>1, <1>8, <3>1, RemoveOrders
  <2>2. Timed(d) = M \ {k} /\ Reindex(d, k) = Remove(d, heap, heap.idx[k]) /\ n - 1 \in Nat
    BY <2>1, <1>3, <1>4, <1>5, <1>8 DEF Reindex
  <2> QED BY <1>3, <2>1, <2>2 DEF Fits, d
<1>9. CASE t = 0 /\ k \notin M
  <2>1. InOrder(d, heap, n, M)
    BY <1>1, <1>2, <1>3, <1>9, SameOrder
  <2>2. Timed(d) = M /\ Reindex(d, k) = heap
    BY <1>3, <1>4, <1>5, <1>9 DEF Reindex
  <2> QED BY <1>3, <2>1, <2>2 DEF Fits, d
<1> QED BY <1>6, <1>7, <1>8, <1>9

LEMMA TakenFits ==
  ASSUME Fits(exp, heap), NEW k \in Keys, NEW t \in {None, 0}
  PROVE  LET d == [exp EXCEPT ![k] = t] IN Fits(d, Taken(k))
<1> DEFINE d == [exp EXCEPT ![k] = t]
           M == Timed(exp)
<1>1. PICK n \in Nat : InOrder(exp, heap, n, M)
  BY DEF Fits
<1>2. exp \in Times /\ M \subseteq Keys
  BY DEF Fits, Timed
<1>3. d \in Times /\ d[k] = t /\ \A c \in Keys \ {k} : d[c] = exp[c]
  BY <1>2 DEF Times
<1>4. heap.idx[k] >= 0 <=> k \in M
  BY <1>1, IndexOf
<1>5. Timed(d) = M \ {k}
  BY <1>2, <1>3 DEF Timed
<1> HIDE DEF d, M
<1>6. CASE k \in M
  <2>1. exp[k] \in Int
    BY <1>2, <1>6, TimedTyped DEF M
  <2>2. n > 0 /\ InOrder(exp, Remove(exp, heap, heap.idx[k]), n - 1, M \ {k})
    BY <1>1, <1>6, <2>1, RemoveOrders
  <2>3. n - 1 \in Nat /\ \A c \in M \ {k} : d[c] = exp[c]
    BY <1>2, <1>3, <2>2
  <2>4. InOrder(d, Remove(exp, heap, heap.idx[k]), n - 1, M \ {k})
    BY <2>2, <2>3, SameOrder
  <2> QED BY <1>3, <1>4, <1>5, <1>6, <2>3, <2>4 DEF Fits, Taken, d
<1>7. CASE k \notin M
  <2>1. \A c \in M : d[c] = exp[c]
    BY <1>2, <1>3, <1>7
  <2>2. InOrder(d, heap, n, M)
    BY <1>1, <2>1, SameOrder
  <2>3. M \ {k} = M
    BY <1>7
  <2> QED BY <1>3, <1>4, <1>5, <1>7, <2>2, <2>3 DEF Fits, Taken, d
<1> QED BY <1>6, <1>7

-------------------------------------------------------------------------------
(* The rounds of ExpireByTTL *)

DueNow == T!Due

RoundOf(s) == IF s.heap.pq # <<>> /\ exp[At(s.heap, 0)] <= now
              THEN [exp |-> [s.exp EXCEPT ![At(s.heap, 0)] = None], heap |-> Pop(exp, s.heap)]
              ELSE s

\* The items R, of those that are due, have been taken, the soonest first.
TakenSoFar(s, n, R) ==
  /\ s.exp = [k \in Keys |-> IF k \in R THEN None ELSE exp[k]]
  /\ \E m \in Nat : InOrder(exp, s.heap, m, Timed(exp) \ R)
  /\ R \subseteq DueNow /\ Cardinality(R) <= n /\ (Cardinality(R) = n \/ R = DueNow)
  /\ \A k \in R, j \in DueNow \ R : exp[k] <= exp[j]

LEMMA Rounds ==
  \E r : /\ r[0] = [exp |-> exp, heap |-> heap]
         /\ \A n \in 1..MaxPerShard : r[n] = RoundOf(r[n - 1])
         /\ Reclaimed = r[MaxPerShard]
<1> DEFINE start == [exp |-> exp, heap |-> heap]
           F(f, N) == [n \in 0..N |-> IF n = 0 THEN start ELSE RoundOf(f[n - 1])]
           I == {N \in Nat : \E f : f = F(f, N)}
           r == CHOOSE f : f = F(f, MaxPerShard)
<1>1. 0 \in I
  <2> DEFINE f == [n \in 0..0 |-> start]
  <2>1. f = F(f, 0)
    <3> HIDE DEF start
    <3> QED OBVIOUS
  <2> HIDE DEF F
  <2> QED BY <2>1
<1>2. ASSUME NEW N \in Nat, N \in I PROVE N + 1 \in I
  <2>1. PICK f : f = F(f, N)
    BY <1>2
  <2> DEFINE g == F(f, N + 1)
  <2> HIDE DEF start
  <2>2. \A n \in 0..N : g[n] = f[n]
    <3> TAKE n \in 0..N
    <3>1. f[n] = IF n = 0 THEN start ELSE RoundOf(f[n - 1])
      BY <2>1
    <3>2. g[n] = IF n = 0 THEN start ELSE RoundOf(f[n - 1])
      OBVIOUS
    <3> QED BY <3>1, <3>2
  <2>3. \A n \in 0..N+1 : n # 0 => n - 1 \in 0..N
    OBVIOUS
  <2>4. \A n \in 0..N+1 : (IF n = 0 THEN start ELSE RoundOf(f[n - 1]))
                          = (IF n = 0 THEN start ELSE RoundOf(g[n - 1]))
    <3> HIDE DEF g
    <3> QED BY <2>2, <2>3
  <2>5. g = F(g, N + 1)
    BY <2>4, Zenon
  <2>6. N + 1 \in Nat
    OBVIOUS
  <2> HIDE DEF F
  <2> QED BY <2>5, <2>6
<1>3. MaxPerShard \in I
  <2> HIDE DEF I
  <2> QED BY <1>1, <1>2, NatInduct, TTLAssumptions
<1>4. r = F(r, MaxPerShard)
  <2> HIDE DEF F
  <2> QED BY <1>3, Zenon
<1>5. Reclaimed = r[MaxPerShard]
  BY DEF Reclaimed, RoundOf
<1> HIDE DEF r
<1>6. r[0] = start /\ \A n \in 1..MaxPerShard : r[n] = RoundOf(r[n - 1])
  <2> HIDE DEF start
  <2>1. \A n \in 0..MaxPerShard : r[n] = IF n = 0 THEN start ELSE RoundOf(r[n - 1])
    BY <1>4
  <2> QED BY <2>1, TTLAssumptions
<1> QED BY <1>5, <1>6

LEMMA RoundTakes ==
  ASSUME HInv, NEW s, NEW n \in Nat, NEW R, TakenSoFar(s, n, R)
  PROVE  \E Q : TakenSoFar(RoundOf(s), n + 1, Q)
<1> DEFINE M == Timed(exp)
           k == At(s.heap, 0)
<1>1. PICK m \in Nat : InOrder(exp, s.heap, m, M \ R)
  BY DEF TakenSoFar
<1>2. exp \in Times /\ now \in Nat
  BY DEF HInv, Fits
<1>3. \A c \in M : c \in Keys /\ exp[c] \in Nat
  BY <1>2, TimedTyped
<1>4. DueNow \subseteq M /\ \A c \in M : c \in DueNow <=> exp[c] <= now
  BY DEF DueNow, T!Due, Timed
<1>5. s.heap.pq # <<>> <=> m > 0
  <2>1. Exact(s.heap, m, M \ R)
    BY <1>1 DEF InOrder
  <2>2. Len(s.heap.pq) = m /\ s.heap.pq \in Seq(Keys)
    BY <2>1, ExactSize
  <2> QED BY <2>2
<1>6. /\ m = 0 <=> M \ R = {}
      /\ m > 0 => k \in M \ R /\ \A c \in M \ R : exp[k] <= exp[c]
  BY <1>1, TopFirst
<1>7. /\ s.exp = [c \in Keys |-> IF c \in R THEN None ELSE exp[c]]
      /\ R \subseteq DueNow /\ Cardinality(R) <= n /\ (Cardinality(R) = n \/ R = DueNow)
      /\ \A c \in R, j \in DueNow \ R : exp[c] <= exp[j]
  BY DEF TakenSoFar
<1>8. IsFiniteSet(R) /\ Cardinality(R) \in Nat
  <2>1. R \subseteq Keys
    BY <1>3, <1>4, <1>7
  <2> QED BY <2>1, FS_Subset, FS_CardinalityType, TTLAssumptions
<1> HIDE DEF M, k
<1>9. CASE s.heap.pq # <<>> /\ exp[k] <= now
  <2> DEFINE Q == R \cup {k}
             t == RoundOf(s)
  <2>1. m > 0 /\ m - 1 \in Nat /\ k \in M \ R /\ k \in DueNow /\ k \in Keys
    BY <1>3, <1>4, <1>5, <1>6, <1>9
  <2>2. t = [exp |-> [s.exp EXCEPT ![k] = None], heap |-> Pop(exp, s.heap)]
    BY <1>9 DEF RoundOf, k
  <2>3. t.exp = [s.exp EXCEPT ![k] = None] /\ t.heap = Pop(exp, s.heap)
    BY <2>2
  <2>4. InOrder(exp, t.heap, m - 1, M \ Q)
    <3>1. InOrder(exp, Pop(exp, s.heap), m - 1, (M \ R) \ {k})
      BY <1>1, <2>1, TopOrders DEF k
    <3>2. (M \ R) \ {k} = M \ Q
      OBVIOUS
    <3> QED BY <2>3, <3>1, <3>2
  <2> HIDE DEF t
  <2>5. t.exp = [c \in Keys |-> IF c \in Q THEN None ELSE exp[c]]
    BY <1>7, <2>1, <2>3
  <2>6. Cardinality(Q) = Cardinality(R) + 1
    BY <1>8, <2>1, FS_AddElement
  <2>7. Cardinality(R) = n
    BY <1>7, <2>1
  <2>8. ASSUME NEW c \in Q, NEW j \in DueNow \ Q PROVE exp[c] <= exp[j]
    <3>1. j \in M \ R /\ j \in DueNow \ R
      BY <1>4
    <3> QED BY <3>1, <1>6, <1>7, <2>1
  <2>9. TakenSoFar(t, n + 1, Q)
    <3>1. Q \subseteq DueNow
      BY <1>7, <2>1
    <3> HIDE DEF Q
    <3> QED BY <2>1, <2>4, <2>5, <2>6, <2>7, <2>8, <3>1 DEF TakenSoFar, M
  <2> QED BY <2>9 DEF t
<1>10. CASE ~(s.heap.pq # <<>> /\ exp[k] <= now)
  <2>1. RoundOf(s) = s
    BY <1>10 DEF RoundOf, k
  <2>2. DueNow \subseteq R
    <3> SUFFICES ASSUME NEW c \in DueNow, c \notin R PROVE FALSE
      OBVIOUS
    <3>1. c \in M \ R /\ exp[c] <= now
      BY <1>4
    <3>2. m > 0 /\ exp[k] <= exp[c] /\ k \in M
      BY <1>6, <3>1
    <3>3. exp[k] \in Nat /\ exp[c] \in Nat
      BY <1>3, <3>1, <3>2
    <3> QED BY <1>2, <1>5, <1>10, <3>1, <3>2, <3>3
  <2>3. TakenSoFar(s, n + 1, R)
    <3>1. R = DueNow /\ Cardinality(R) <= n + 1
      BY <1>7, <1>8, <2>2
    <3> QED BY <1>1, <1>7, <3>1 DEF TakenSoFar, M
  <2> QED BY <2>1, <2>3
<1> QED BY <1>9, <1>10

LEMMA ReclaimedTakes == ASSUME HInv PROVE \E R : TakenSoFar(Reclaimed, MaxPerShard, R)
<1>1. PICK r : /\ r[0] = [exp |-> exp, heap |-> heap]
               /\ \A n \in 1..MaxPerShard : r[n] = RoundOf(r[n - 1])
               /\ Reclaimed = r[MaxPerShard]
  BY Rounds
<1> DEFINE I == {n \in Nat : n <= MaxPerShard => \E R : TakenSoFar(r[n], n, R)}
<1>2. 0 \in I
  <2> DEFINE s == r[0]
  <2>1. s.exp = exp /\ s.heap = heap
    BY <1>1
  <2>2. exp = [k \in Keys |-> IF k \in {} THEN None ELSE exp[k]]
    BY DEF HInv, Fits, Times
  <2>3. \E m \in Nat : InOrder(exp, heap, m, Timed(exp) \ {})
    <3>1. Timed(exp) \ {} = Timed(exp)
      OBVIOUS
    <3> QED BY <3>1 DEF HInv, Fits
  <2> HIDE DEF s
  <2>4. Cardinality({}) = 0
    BY FS_EmptySet
  <2>5. TakenSoFar(s, 0, {})
    BY <2>1, <2>2, <2>3, <2>4 DEF TakenSoFar
  <2> QED BY <2>5 DEF s
<1>3. ASSUME NEW n \in Nat, n \in I PROVE n + 1 \in I
  <2> SUFFICES ASSUME n + 1 <= MaxPerShard PROVE \E R : TakenSoFar(r[n + 1], n + 1, R)
    OBVIOUS
  <2>1. PICK R : TakenSoFar(r[n], n, R)
    BY <1>3, TTLAssumptions
  <2>2. r[n + 1] = RoundOf(r[n])
    BY <1>1, TTLAssumptions
  <2> QED BY <2>1, <2>2, RoundTakes
<1>4. MaxPerShard \in I
  <2> HIDE DEF I
  <2> QED BY <1>2, <1>3, NatInduct, TTLAssumptions
<1> QED BY <1>1, <1>4, TTLAssumptions

LEMMA ReclaimedFits == ASSUME HInv PROVE Fits(Reclaimed.exp, Reclaimed.heap)
<1> DEFINE d == Reclaimed.exp
           h == Reclaimed.heap
           M == Timed(exp)
<1>1. PICK R : TakenSoFar(Reclaimed, MaxPerShard, R)
  BY ReclaimedTakes
<1>2. d = [k \in Keys |-> IF k \in R THEN None ELSE exp[k]]
  BY <1>1 DEF TakenSoFar
<1>3. PICK m \in Nat : InOrder(exp, h, m, M \ R)
  BY <1>1 DEF TakenSoFar
<1> HIDE DEF d, h
<1>4. d \in Times /\ Timed(d) = M \ R /\ \A k \in M \ R : d[k] = exp[k]
  BY <1>2 DEF HInv, Fits, Times, Timed
<1>5. InOrder(d, h, m, M \ R)
  BY <1>3, <1>4, SameOrder
<1> QED BY <1>4, <1>5 DEF Fits, d, h

-------------------------------------------------------------------------------
(* The invariant *)

LEMMA InitFits == Init => HInv
<1> SUFFICES ASSUME Init PROVE HInv
  OBVIOUS
<1>1. exp \in Times /\ Timed(exp) = {} /\ now \in Nat
  BY DEF Init, Times, Timed
<1>2. InOrder(exp, heap, 0, {})
  <2>1. Exact(heap, 0, {})
    BY ExactEmpty DEF Init
  <2> QED BY <2>1 DEF InOrder, Sorted
<1> QED BY <1>1, <1>2 DEF HInv, Fits

LEMMA SetFits == ASSUME Fits(exp, heap), NEW k \in Keys, NEW t \in Nat,
                        exp' = [exp EXCEPT ![k] = t], heap' = Reindex(exp', k)
                 PROVE  Fits(exp', heap')
<1> DEFINE d == [exp EXCEPT ![k] = t]
<1>1. Fits(d, Reindex(d, k))
  BY ReindexFits
<1> HIDE DEF d
<1>2. exp' = d
  BY DEF d
<1> QED BY <1>1, <1>2

LEMMA TakeFits == ASSUME Fits(exp, heap), NEW k \in Keys, NEW t \in {None, 0},
                         exp' = [exp EXCEPT ![k] = t], heap' = Taken(k)
                  PROVE  Fits(exp', heap')
<1> DEFINE d == [exp EXCEPT ![k] = t]
<1>1. Fits(d, Taken(k))
  BY TakenFits
<1> HIDE DEF d
<1>2. exp' = d
  BY DEF d
<1> QED BY <1>1, <1>2

LEMMA UntilTyped == ASSUME now \in Nat, NEW ttl \in TTLs PROVE Until(ttl) \in Nat
BY TTLAssumptions DEF Until

LEMMA StepFits == HInv /\ [Next]_vars => HInv'
<1> SUFFICES ASSUME HInv, [Next]_vars PROVE Fits(exp', heap') /\ now' \in Nat
  BY DEF HInv
<1>1. Fits(exp, heap) /\ now \in Nat
  BY DEF HInv
<1>2. ASSUME NEW k \in Keys, NEW ttl \in TTLs, Set(k, ttl)
      PROVE  Fits(exp', heap') /\ now' \in Nat
  BY <1>1, <1>2, UntilTyped, SetFits DEF Set
<1>3. ASSUME NEW k \in Keys, NEW ttl \in TTLs, Expire(k, ttl)
      PROVE  Fits(exp', heap') /\ now' \in Nat
  BY <1>1, <1>3, UntilTyped, SetFits DEF Expire
<1>4. ASSUME NEW k \in Keys, Modify(k) PROVE Fits(exp', heap') /\ now' \in Nat
  <2>1. now' = now
    BY <1>4 DEF Modify
  <2>2. CASE Found(k) /\ IsExpired(k)
    <3>1. exp' = [exp EXCEPT ![k] = 0] /\ heap' = Taken(k)
      BY <1>4, <2>2 DEF Modify
    <3> QED BY <1>1, <2>1, <3>1, TakeFits
  <2>3. CASE Found(k) /\ ~IsExpired(k)
    <3>1. exp' = exp /\ heap' = heap
      BY <1>1, <1>4, <2>3 DEF Modify, Fits, Times
    <3> QED BY <1>1, <2>1, <3>1
  <2>4. CASE ~Found(k)
    <3>1. exp' = [exp EXCEPT ![k] = 0] /\ heap' = heap
      BY <1>4, <2>4 DEF Modify
    <3>2. PICK n \in Nat : InOrder(exp, heap, n, Timed(exp))
      BY <1>1 DEF Fits
    <3>3. exp' \in Times /\ Timed(exp') = Timed(exp) /\ \A c \in Timed(exp) : exp'[c] = exp[c]
      BY <1>1, <2>4, <3>1 DEF Found, Fits, Times, Timed
    <3>4. InOrder(exp', heap, n, Timed(exp'))
      BY <3>2, <3>3, SameOrder
    <3> QED BY <1>1, <2>1, <3>1, <3>3, <3>4 DEF Fits
  <2> QED BY <2>2, <2>3, <2>4
<1>5. ASSUME NEW k \in Keys, Drop(k) PROVE Fits(exp', heap') /\ now' \in Nat
  BY <1>1, <1>5, TakeFits DEF Drop
<1>6. CASE ExpireByTTL
  BY <1>1, <1>6, ReclaimedFits DEF ExpireByTTL
<1>7. CASE Clear
  <2>1. exp' \in Times /\ Timed(exp') = {} /\ heap' = Empty /\ now' = now
    BY <1>7 DEF Clear, Times, Timed
  <2>2. InOrder(exp', heap', 0, {})
    BY <2>1, ExactEmpty DEF InOrder, Sorted
  <2> QED BY <1>1, <2>1, <2>2 DEF Fits
<1>8. CASE Tick
  BY <1>1, <1>8 DEF Tick
<1>9. CASE UNCHANGED vars
  BY <1>1, <1>9 DEF vars
<1> QED BY <1>2, <1>3, <1>4, <1>5, <1>6, <1>7, <1>8, <1>9 DEF Next, Del, GetExpired, Evict

LEMMA HeapFits == Spec => []HInv
BY InitFits, StepFits, PTL DEF Spec

LEMMA FitsExact == HInv => IndexExact /\ HeapOrdered
<1> SUFFICES ASSUME HInv PROVE IndexExact /\ HeapOrdered
  OBVIOUS
<1> DEFINE M == Timed(exp)
<1>1. PICK n \in Nat : InOrder(exp, heap, n, M)
  BY DEF HInv, Fits
<1>2. /\ heap \in HeapsOf(n) /\ M \subseteq Keys
      /\ \A i \in 0..n-1 : At(heap, i) \in M /\ heap.idx[At(heap, i)] = i
      /\ \A k \in M : heap.idx[k] \in 0..n-1 /\ At(heap, heap.idx[k]) = k
      /\ \A k \in Keys \ M : heap.idx[k] = -1
  BY <1>1 DEF InOrder, Exact
<1>3. Size(heap) = n /\ DOMAIN heap.pq = 1..n
  <2>1. Exact(heap, n, M)
    BY <1>1 DEF InOrder
  <2> QED BY <1>2, <2>1, ExactSize DEF HeapsOf
<1> HIDE DEF M
<1>4. IndexExact
  <2>1. ASSUME NEW i \in 1..n PROVE heap.idx[heap.pq[i]] = i - 1
    <3>1. i - 1 \in 0..n-1 /\ At(heap, i - 1) = heap.pq[i]
      BY DEF At
    <3> QED BY <3>1, <1>2
  <2>2. ASSUME NEW k \in Keys, heap.idx[k] # -1
        PROVE  heap.idx[k] + 1 \in 1..n /\ At(heap, heap.idx[k]) = k
    BY <1>2, <2>2
  <2> QED BY <1>3, <2>1, <2>2 DEF IndexExact
<1>5. HeapOrdered
  <2> SUFFICES ASSUME NEW i \in 1..n-1 PROVE ~Less(exp, heap, i, Parent(i))
    BY <1>3 DEF HeapOrdered, Parent
  <2> DEFINE v == TimesOf(exp, heap, n)
  <2>1. Parent(i) \in 0..n-1 /\ i \in 0..n-1
    BY ParentBelow
  <2>2. Exact(heap, n, M) /\ (\A k \in M : exp[k] \in Int) /\ n \in 0..n
    BY <1>1 DEF InOrder
  <2>3. Sorted(v, n)
    BY <1>1 DEF InOrder
  <2>4. v[Parent(i)] <= v[i]
    BY <2>3 DEF Sorted
  <2>5. /\ v[Parent(i)] \in Int /\ v[i] \in Int
        /\ Less(exp, heap, i, Parent(i)) <=> v[i] < v[Parent(i)]
    BY <2>1, <2>2, TimesTyped
  <2> HIDE DEF v
  <2> QED BY <2>4, <2>5
<1> QED BY <1>4, <1>5

\* Every item in the heap is where its HeapIndex says, and every HeapIndex is that of an item
\* in the heap, after whatever sequence of operations: what heap.Fix and heap.Remove trust.
THEOREM PlacesKnown == Spec => []IndexExact
BY HeapFits, FitsExact, PTL

\* No item expires before its parent in the heap, so the one ExpireByTTL looks at is the
\* first, whatever has been moved and removed in the middle (heap.go).
THEOREM OrderKept == Spec => []HeapOrdered
BY HeapFits, FitsExact, PTL

-------------------------------------------------------------------------------
(* TTLHeap implements TTLSet *)

LEMMA SameCardinality == ASSUME NEW S PROVE T!Cardinality(S) = Cardinality(S)
BY DEF T!Cardinality, Cardinality

LEMMA Reclaims == ASSUME HInv, ExpireByTTL PROVE T!Reclaim
<1>1. PICK R : TakenSoFar(Reclaimed, MaxPerShard, R)
  BY ReclaimedTakes
<1>2. exp' = [k \in Keys |-> IF k \in R THEN None ELSE exp[k]]
  BY <1>1 DEF TakenSoFar, ExpireByTTL
<1>3. /\ R \in SUBSET T!Due /\ Cardinality(R) <= MaxPerShard
      /\ Cardinality(R) = MaxPerShard \/ R = T!Due
      /\ \A k \in R, j \in T!Due \ R : exp[k] <= exp[j]
  BY <1>1 DEF TakenSoFar, DueNow
<1> QED BY <1>2, <1>3, SameCardinality DEF T!Reclaim

LEMMA OneChanged == ASSUME Fits(exp, heap), NEW k \in Keys, NEW t, exp' = [exp EXCEPT ![k] = t]
                    PROVE  T!SetTTL(k)
<1>1. exp'[k] = t
  BY DEF Fits, Times
<1> QED BY <1>1 DEF T!SetTTL

LEMMA StepImplements == HInv /\ [Next]_vars => [T!Next]_<<exp, now>>
<1> SUFFICES ASSUME HInv, [Next]_vars PROVE T!Next \/ UNCHANGED <<exp, now>>
  OBVIOUS
<1>1. Fits(exp, heap)
  BY DEF HInv
<1>2. ASSUME NEW k \in Keys, NEW ttl \in TTLs, Set(k, ttl) \/ Expire(k, ttl) PROVE T!Next
  <2>1. T!SetTTL(k) /\ now' = now
    BY <1>1, <1>2, OneChanged DEF Set, Expire
  <2> QED BY <2>1 DEF T!Next
<1>3. ASSUME NEW k \in Keys, Modify(k) PROVE T!Next
  <2>1. T!SetTTL(k) /\ now' = now
    BY <1>1, <1>3, OneChanged DEF Modify
  <2> QED BY <2>1 DEF T!Next
<1>4. ASSUME NEW k \in Keys, Drop(k) PROVE T!Next
  <2>1. T!SetTTL(k) /\ now' = now
    BY <1>1, <1>4, OneChanged DEF Drop
  <2> QED BY <2>1 DEF T!Next
<1>5. CASE ExpireByTTL
  <2>1. T!Reclaim /\ now' = now
    BY <1>5, Reclaims DEF ExpireByTTL
  <2> QED BY <2>1 DEF T!Next
<1>6. CASE Clear
  BY <1>6 DEF Clear, T!Next, T!Clear
<1>7. CASE Tick
  BY <1>7 DEF Tick, T!Next
<1>8. CASE UNCHANGED vars
  BY <1>8 DEF vars
<1> QED BY <1>2, <1>3, <1>4, <1>5, <1>6, <1>7, <1>8 DEF Next, Del, GetExpired, Evict

\* The map and the heap of a shard behave as a map from which the items that are due are
\* taken, the soonest first: the heap has no item too few and none too many, and the limit on
\* one call of ExpireByTTL never makes it skip one that was due before those it takes.
THEOREM HeapIsTTLSet == Spec => ImplementsTTLSet
<1>1. Init => T!Init
  BY DEF Init, T!Init
<1>2. Spec => []HInv
  BY HeapFits
<1> QED BY <1>1, <1>2, StepImplements, PTL DEF Spec, ImplementsTTLSet, T!Spec
===============================================================================
