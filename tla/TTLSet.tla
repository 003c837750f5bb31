--------------------------------- MODULE TTLSet ---------------------------------
(***************************************************************************)
(* What a shard promises about expiry times: each item has one or none,    *)
(* and a call of the janitor removes the items that are due, the soonest   *)
(* first, at most MaxPerShard of them.  No order is kept between calls;    *)
(* Cache treats a shard in this way.                                       *)
(***************************************************************************)
EXTENDS Integers, FiniteSets

CONSTANTS Keys, MaxPerShard, None

VARIABLES exp,  \* the expiry time of each item, 0 for never, None for no item
          now

Init == exp = [k \in Keys |-> None] /\ now = 0

\* a client or EvictCold changes one item, FlushDB removes all
SetTTL(k) == exp' = [exp EXCEPT ![k] = exp'[k]]
Clear == exp' = [k \in Keys |-> None]

Due == {k \in Keys : exp[k] \notin {None, 0} /\ exp[k] <= now}

Reclaim == \E R \in SUBSET Due :
  /\ Cardinality(R) <= MaxPerShard
  /\ Cardinality(R) = MaxPerShard \/ R = Due
  /\ \A k \in R, j \in Due \ R : exp[k] <= exp[j]
  /\ exp' = [k \in Keys |-> IF k \in R THEN None ELSE exp[k]]

Next == \/ now' = now /\ (Clear \/ Reclaim \/ \E k \in Keys : SetTTL(k))
        \/ now' = now + 1 /\ exp' = exp

Spec == Init /\ [][Next]_<<exp, now>>
===============================================================================
