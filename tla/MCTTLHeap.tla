-------------------------------- MODULE MCTTLHeap --------------------------------
(* The keys of a shard are interchangeable. *)
EXTENDS TTLHeap, TLC

Symmetry == Permutations(Keys)
===============================================================================
