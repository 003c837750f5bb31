--------------------------------- MODULE TTLHeap ---------------------------------
(***************************************************************************)
(* The expiry times of one shard (heap.go, shard.go, eviction.go): a map   *)
(* of items and a binary heap of those that have an expiry time.  Each     *)
(* item knows its place in the heap, HeapIndex, so that it can be moved or *)
(* taken out when its time changes; the places are kept right by Swap,     *)
(* Push and Pop, which container/heap calls.  Every operation runs under   *)
(* the shard's write lock and is one step.                                 *)
(***************************************************************************)
EXTENDS Integers, Sequences, FiniteSets

CONSTANTS Keys, None,
          MaxPerShard,  \* removals in one call of ExpireByTTL
          TTLs,         \* lifetimes the clients ask for, 0 for none
          MaxTime       \* bound: the clock

ASSUME TTLAssumptions == /\ IsFiniteSet(Keys) /\ None \notin Nat
                         /\ MaxPerShard \in Nat \ {0}
                         /\ TTLs \subseteq Nat /\ MaxTime \in Nat

VARIABLES exp,   \* ExpireAt of each item, 0 for never; None where there is no item
          heap,  \* [pq, idx]: the priority queue, and HeapIndex of each item, -1 for none
          now

vars == <<exp, heap, now>>

Empty == [pq |-> <<>>, idx |-> [k \in Keys |-> -1]]

Init == exp = [k \in Keys |-> None] /\ heap = Empty /\ now = 0

-------------------------------------------------------------------------------
(* priorityQueue; positions count from 0, as in the code *)

At(h, i) == h.pq[i + 1]
Size(h) == Len(h.pq)

Less(e, h, i, j) == e[At(h, i)] < e[At(h, j)]

\* BUG: only one of the two items learns its new place
SwapHalf(h, i, j) == [pq |-> [h.pq EXCEPT ![i + 1] = At(h, j), ![j + 1] = At(h, i)],
                      idx |-> [h.idx EXCEPT ![At(h, j)] = i]]

Swap(h, i, j) == [pq |-> [h.pq EXCEPT ![i + 1] = At(h, j), ![j + 1] = At(h, i)],
                  idx |-> [h.idx EXCEPT ![At(h, j)] = i, ![At(h, i)] = j]]

PushLast(h, k) == [pq |-> Append(h.pq, k), idx |-> [h.idx EXCEPT ![k] = Size(h)]]

PopLast(h) == [pq |-> SubSeq(h.pq, 1, Size(h) - 1),
               idx |-> [h.idx EXCEPT ![At(h, Size(h) - 1)] = -1]]

-------------------------------------------------------------------------------
(* container/heap, for the expiry times e *)

\* the heaps of n items, with a place in each
Placed(n) == [pq : [1..n -> Keys], idx : [Keys -> Int]] \X (0..n-1)

Up(e, h, j0) ==
  LET up[x \in Placed(Size(h))] ==
        LET g == x[1]  j == x[2]  i == (j - 1) \div 2
        IN IF j = 0 \/ ~Less(e, g, j, i) THEN g ELSE up[<<Swap(g, i, j), i>>]
  IN up[<<h, j0>>]

Down(e, h, i0, n) ==
  LET Child(g, i) == IF 2 * i + 2 < n /\ Less(e, g, 2 * i + 2, 2 * i + 1)
                     THEN 2 * i + 2 ELSE 2 * i + 1
      down[x \in Placed(Size(h))] ==
        LET g == x[1]  i == x[2]
        IN IF 2 * i + 1 >= n \/ ~Less(e, g, Child(g, i), i) THEN g
           ELSE down[<<Swap(g, i, Child(g, i)), Child(g, i)>>]
  IN down[<<h, i0>>]

\* BUG: an item can only sink
SiftDownOnly(e, h, i, n) == Down(e, h, i, n)

\* down, and if that changed nothing, up
Sift(e, h, i, n) == LET d == Down(e, h, i, n) IN IF d = h THEN Up(e, h, i) ELSE d

Push(e, h, k) == Up(e, PushLast(h, k), Size(h))
Fix(e, h, i) == Sift(e, h, i, Size(h))
Pop(e, h) == LET n == Size(h) - 1 IN PopLast(Down(e, Swap(h, 0, n), 0, n))
Remove(e, h, i) == LET n == Size(h) - 1
                   IN PopLast(IF i = n THEN h ELSE Sift(e, Swap(h, i, n), i, n))

-------------------------------------------------------------------------------
(* The operations of the shard *)

Found(k) == exp[k] # None
IsExpired(k) == exp[k] > 0 /\ now > exp[k]

\* BUG: an item that is in the heap already is left where it was
ReindexOnce(e, k) == IF e[k] > 0 THEN IF heap.idx[k] >= 0 THEN heap ELSE Push(e, heap, k)
                     ELSE IF heap.idx[k] >= 0 THEN Remove(e, heap, heap.idx[k]) ELSE heap

\* the heap after the item's expiry time has become e[k]
Reindex(e, k) == IF e[k] > 0 THEN IF heap.idx[k] >= 0 THEN Fix(e, heap, heap.idx[k])
                                  ELSE Push(e, heap, k)
                 ELSE IF heap.idx[k] >= 0 THEN Remove(e, heap, heap.idx[k]) ELSE heap

Taken(k) == IF heap.idx[k] >= 0 THEN Remove(exp, heap, heap.idx[k]) ELSE heap

Until(ttl) == IF ttl = 0 THEN 0 ELSE now + ttl

\* set, of a new item or of one that is there
Set(k, ttl) == /\ exp' = [exp EXCEPT ![k] = Until(ttl)]
               /\ heap' = Reindex(exp', k)
               /\ UNCHANGED now

\* expire, called by Expire and, with no expiry time, by Persist
Expire(k, ttl) == /\ Found(k) /\ ~IsExpired(k)
                  /\ exp' = [exp EXCEPT ![k] = Until(ttl)]
                  /\ heap' = Reindex(exp', k)
                  /\ UNCHANGED now

\* incrBy and appendVal: an expired item makes way for a new one without expiry time
Modify(k) == /\ exp' = [exp EXCEPT ![k] = IF Found(k) /\ ~IsExpired(k) THEN @ ELSE 0]
             /\ heap' = IF Found(k) /\ IsExpired(k) THEN Taken(k) ELSE heap
             /\ UNCHANGED now

Drop(k) == /\ exp' = [exp EXCEPT ![k] = None]
           /\ heap' = Taken(k)
           /\ UNCHANGED now

Del(k) == Found(k) /\ Drop(k)

\* get finds an expired item
GetExpired(k) == Found(k) /\ IsExpired(k) /\ Drop(k)

\* EvictCold, of one item at a time
Evict(k) == Found(k) /\ Drop(k)

\* the loop of ExpireByTTL, which goes by the key of the top item
Reclaimed ==
  LET due(s) == s.heap.pq # <<>> /\ exp[At(s.heap, 0)] <= now
      round[n \in 0..MaxPerShard] ==
        IF n = 0 THEN [exp |-> exp, heap |-> heap]
        ELSE LET s == round[n - 1]
             IN IF due(s) THEN [exp |-> [s.exp EXCEPT ![At(s.heap, 0)] = None],
                                heap |-> Pop(exp, s.heap)]
                ELSE s
  IN round[MaxPerShard]

ExpireByTTL == /\ exp' = Reclaimed.exp
               /\ heap' = Reclaimed.heap
               /\ UNCHANGED now

\* FlushDB
Clear == exp' = [k \in Keys |-> None] /\ heap' = Empty /\ UNCHANGED now

Tick == now < MaxTime /\ now' = now + 1 /\ UNCHANGED <<exp, heap>>

Next == \/ \E k \in Keys : \/ \E ttl \in TTLs : Set(k, ttl) \/ Expire(k, ttl)
                           \/ Modify(k) \/ Del(k) \/ GetExpired(k) \/ Evict(k)
        \/ ExpireByTTL \/ Clear \/ Tick

Spec == Init /\ [][Next]_vars

-------------------------------------------------------------------------------
(* Properties *)

\* Every item in the heap is where its HeapIndex says, and no other item says it
\* is there: heap.Fix and heap.Remove trust the index, which only Swap, Push and
\* Pop maintain, and would move or remove another item's entry.
IndexExact == /\ \A i \in DOMAIN heap.pq : heap.idx[heap.pq[i]] = i - 1
              /\ \A k \in Keys : heap.idx[k] # -1 => heap.idx[k] + 1 \in DOMAIN heap.pq
                                                     /\ At(heap, heap.idx[k]) = k

\* Nothing expires before what is above it, after whatever sequence of changes
\* and removals in the middle: ExpireByTTL looks at the top only.
HeapOrdered == \A i \in 1..(Size(heap) - 1) : ~Less(exp, heap, i, (i - 1) \div 2)

\* The map and the heap together behave as a map with expiry times from which the
\* soonest are taken: no item with an expiry time is missing from the heap, none
\* without is in it, and the cut-off never skips an item that is due.
T == INSTANCE TTLSet
ImplementsTTLSet == T!Spec
===============================================================================
