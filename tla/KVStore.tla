-------------------------------- MODULE KVStore --------------------------------
(***************************************************************************)
(* What the cache promises a concurrent caller: a map from keys to values  *)
(* with expiry times, on which every operation takes effect at one instant *)
(* between its call and its return.  Shards, locks, lazy and active expiry *)
(* and the journal are not visible here.  Cache implements this for the    *)
(* operations that stay in RAM.                                            *)
(***************************************************************************)
EXTENDS Integers

CONSTANTS Keys, Threads,
          None,         \* no value, no pending request, a failed operation
          Empty,        \* the empty string, the value that is not a number
          Glue(_, _),   \* the concatenation of two values
          Requests      \* records [op, key, val, exp]

Yes == 1
No == 0

VARIABLES store,  \* [val, exp] of each live key, None of the others
          req,    \* the request each thread waits on, None if it waits on none
          res,    \* the answer to each thread's last request
          now

vars == <<store, req, res, now>>

\* what is there at time n of a value that expires at time e, 0 for never
EntryAt(v, e, n) == IF e > 0 /\ n > e THEN None ELSE [val |-> v, exp |-> e]

Entry(v, e) == EntryAt(v, e, now)

Init == /\ store = [k \in Keys |-> None]
        /\ req = [t \in Threads |-> None]
        /\ res = [t \in Threads |-> None]
        /\ now \in Nat

Call(t) == /\ req[t] = None
           /\ res' = [res EXCEPT ![t] = None]
           /\ UNCHANGED <<store, now>>
           /\ \E r \in Requests : req' = [req EXCEPT ![t] = r]

Answer(t, r) == /\ res' = [res EXCEPT ![t] = r]
                /\ req' = [req EXCEPT ![t] = None]
                /\ UNCHANGED now

Put(k, e) == store' = [store EXCEPT ![k] = e]

Key(t) == req[t].key

Get(t) == /\ req[t].op = "GET"
          /\ Answer(t, IF store[Key(t)] = None THEN None ELSE store[Key(t)].val)
          /\ UNCHANGED store

Exists(t) == /\ req[t].op = "EXISTS"
             /\ Answer(t, IF store[Key(t)] = None THEN No ELSE Yes)
             /\ UNCHANGED store

Set(t) == /\ req[t].op = "SET"
          /\ Put(Key(t), Entry(req[t].val, req[t].exp))
          /\ Answer(t, Yes)

Del(t) == /\ req[t].op = "DEL"
          /\ Put(Key(t), None)
          /\ Answer(t, Yes)

\* EXPIRE and PERSIST: a new expiry time for a key that is there
Expire(t) ==
  /\ req[t].op \in {"EXPIRE", "PERSIST"}
  /\ IF store[Key(t)] = None
     THEN UNCHANGED store /\ Answer(t, No)
     ELSE Put(Key(t), Entry(store[Key(t)].val, req[t].exp)) /\ Answer(t, Yes)

\* A missing key counts from 0 and gets no expiry time; what is not a number
\* is left alone.
Incr(t) ==
  /\ req[t].op = "INCR"
  /\ \/ /\ store[Key(t)] = None
        /\ Put(Key(t), Entry(req[t].val, 0))
        /\ Answer(t, req[t].val)
     \/ /\ store[Key(t)] # None /\ store[Key(t)].val # Empty
        /\ Put(Key(t), Entry(store[Key(t)].val + req[t].val, store[Key(t)].exp))
        /\ Answer(t, store[Key(t)].val + req[t].val)
     \/ /\ store[Key(t)] # None /\ store[Key(t)].val = Empty
        /\ Answer(t, None)
        /\ UNCHANGED store

Append(t) ==
  /\ req[t].op = "APPEND"
  /\ LET e == IF store[Key(t)] = None THEN Entry(req[t].val, 0)
              ELSE Entry(Glue(store[Key(t)].val, req[t].val), store[Key(t)].exp)
     IN Put(Key(t), e) /\ Answer(t, e.val)

Do(t) == /\ req[t] # None
         /\ \/ Get(t) \/ Exists(t) \/ Set(t) \/ Del(t)
            \/ Expire(t) \/ Incr(t) \/ Append(t)

\* Time passes, and no key is seen after its expiry time.
Tick == /\ now' = now + 1
        /\ store' = [k \in Keys |-> IF store[k] = None THEN None
                                    ELSE EntryAt(store[k].val, store[k].exp, now + 1)]
        /\ UNCHANGED <<req, res>>

\* Keys may go the very instant their time comes.
Drop(D) == /\ \A k \in D : store[k] # None /\ store[k].exp > 0 /\ store[k].exp <= now
           /\ store' = [k \in Keys |-> IF k \in D THEN None ELSE store[k]]
           /\ UNCHANGED <<req, res, now>>

Next == \/ \E t \in Threads : Do(t)
        \/ Tick
        \/ \E D \in SUBSET Keys : Drop(D)
        \/ \E t \in Threads : Call(t)

Spec == Init /\ [][Next]_vars
===============================================================================
