--------------------------------- MODULE Cache ---------------------------------
(***************************************************************************)
(* The sharded cache of internal/storage/cache (cache.go, cache_ops.go,    *)
(* shard.go, eviction.go) with the goroutines that share it: the clients   *)
(* that call it, the janitor that calls ExpireByTTL and EvictCold, and the *)
(* workers that carry evicted items to the cold store.                     *)
(*                                                                         *)
(* One step is one critical section of a shard lock or of the cold store's *)
(* lock, one operation on the atomic totalKeys, one channel operation or   *)
(* one persister.Write; a thread's pc names the step it is about to take.  *)
(* That critical sections are atomic is what SpinRWMutexProofs shows.  A   *)
(* shard's TTL heap is the set of its items with an expiry time.  Values   *)
(* are decimal numerals, or Empty, the string that is not a number.        *)
(***************************************************************************)
EXTENDS Integers, Sequences, FiniteSets

CONSTANTS Keys, Threads, Workers,
          None,           \* nothing there
          Empty,          \* ""
          NumShards,      \* shardCount
          ShardOf,        \* getShard: the shard of each key
          Ops,            \* the operations each thread calls
          KeysOf,         \* the keys each thread calls them on
          Vals, TTLs,     \* the values and durations they are called with
          HasCold,        \* InitColdStorage has been called and succeeded
          MaxKeys,        \* Options.MaxKeys, 0 for no limit
          FlushCap,       \* flushChanSize
          BatchMax,       \* most items in one PutBatch
          SampleSize,     \* keys EvictCold looks at in a shard
          LruSample,      \* keys evictLRU looks at in a shard
          MaxPerShard,    \* keys ExpireByTTL removes from a shard in one tick
          ColdThreshold,  \* age at which an item goes to the cold store
          Tickers,        \* the janitor's tickers that run, of {"ttl", "cold"}
          MaxOps,         \* bound: operations each thread calls
          MaxTime         \* bound: when the clock stops

OpNames == {"SET", "SETNX", "GET", "EXISTS", "DEL", "INCR", "APPEND",
            "EXPIRE", "PERSIST", "RENAME", "FLUSHDB"}

Value == Nat \cup {Empty}

ASSUME CacheAssumptions ==
  /\ IsFiniteSet(Keys) /\ IsFiniteSet(Threads)
  /\ None \notin Keys /\ None \notin Value /\ Empty \notin Nat
  /\ None \notin [val : Value, exp : Nat, acc : Nat]
  /\ None \notin [val : Value, exp : Nat]
  /\ None \notin [op : OpNames, key : Keys, val : Value \cup {None}, exp : Nat]
  /\ NumShards \in Nat \ {0} /\ ShardOf \in [Keys -> 1..NumShards]
  /\ Ops \in [Threads -> SUBSET OpNames] /\ KeysOf \in [Threads -> SUBSET Keys]
  /\ Vals \subseteq Value /\ TTLs \subseteq Nat
  /\ HasCold \in BOOLEAN /\ MaxKeys \in Nat
  /\ {FlushCap, BatchMax, SampleSize, LruSample, MaxPerShard} \subseteq Nat \ {0}
  /\ ColdThreshold \in Nat
  /\ Tickers \subseteq {"ttl", "cold"} /\ (~HasCold => "cold" \notin Tickers)
  /\ MaxOps \in Nat /\ MaxTime \in Nat \ {0}

VARIABLES items,      \* the shards' maps, as one: each key's item or None
          totalKeys,  \* the atomic key counter
          cold,       \* the cold store's index: [val, exp] of a key or None
          flushCh,    \* evicted items on their way to the workers
          batch,      \* what each worker has taken from flushCh
          wpc,        \* whether a worker is still taking or about to put
          journal,    \* the records persister.Write has accepted, in order
          now, clk,   \* time.Now() and the once-a-second cachedNow
          jan,        \* the janitor: its task, the time it read, its shard
          orphan,     \* what a Rename still reads of an item that has left the map
          pc,         \* where each client thread is
          req,        \* its request
          loc,        \* its local variables
          out,        \* the answer to its last request
          left        \* the operations it may still call

ram == <<items, totalKeys, orphan>>
chan == <<flushCh, batch, wpc>>
time == <<now, clk>>
client == <<pc, req, loc, out, left>>
vars == <<items, totalKeys, cold, flushCh, batch, wpc, journal, now, clk, jan,
          orphan, pc, req, loc, out, left>>

Yes == 1
No == 0

\* the zero values of a call's local variables
Scratch == [val |-> None, exp |-> 0, vic |-> None, acc |-> 0, sh |-> 1]

Init == /\ items = [k \in Keys |-> None]
        /\ totalKeys = 0
        /\ cold = [k \in Keys |-> None]
        /\ flushCh = <<>>
        /\ batch = [w \in Workers |-> <<>>]
        /\ wpc = [w \in Workers |-> "take"]
        /\ journal = <<>>
        /\ now = 1 /\ clk = 1
        /\ jan = [task |-> "idle", now |-> 0, sh |-> 1]
        /\ orphan = [t \in Threads |-> None]
        /\ pc = [t \in Threads |-> "idle"]
        /\ req = [t \in Threads |-> None]
        /\ loc = [t \in Threads |-> Scratch]
        /\ out = [t \in Threads |-> None]
        /\ left = [t \in Threads |-> MaxOps]

-------------------------------------------------------------------------------
(* Items *)

IsExpired(i) == i.exp > 0 /\ now > i.exp
Found(k) == items[k] # None
Live(k) == Found(k) /\ ~IsExpired(items[k])

NewItem(v, e) == [val |-> v, exp |-> e, acc |-> clk]
SetItem(k, i) == items' = [items EXCEPT ![k] = i]
Removed(D) == [k \in Keys |-> IF k \in D THEN None ELSE items[k]]

\* The items of the keys D leave the map.  A Rename that has looked one of them
\* up keeps its pointer, and the item keeps the expiry time it has now.
Detach(D) == orphan' = [t \in Threads |->
  IF pc[t] = "readExp" /\ orphan[t] = None /\ req[t].key \in D /\ Found(req[t].key)
  THEN items[req[t].key].exp ELSE orphan[t]]

Shard(s) == {k \in Keys : Found(k) /\ ShardOf[k] = s}

\* appending the numeral d to a string
Glue(v, d) == IF v \in Nat /\ d \in Nat THEN 10 * v + d
              ELSE IF v = Empty THEN d ELSE v

AtMost(n, S) == IF Cardinality(S) < n THEN Cardinality(S) ELSE n

\* the S that a map iteration may yield when it stops after n elements
Samples(n, S) == {D \in SUBSET S : Cardinality(D) = AtMost(n, S)}

-------------------------------------------------------------------------------
(* The life of a call *)

\* the request a call makes; expireAt is computed from the time on entry
Request(o, k, d, v, ttl) ==
  [op |-> o, key |-> k, dst |-> d, val |-> v, ttl |-> ttl,
   exp |-> IF o = "EXPIRE" \/ ttl > 0 THEN now + ttl ELSE 0]

RequestsOf(t) ==
  UNION {
    {Request(o, k, k, None, 0) :
       o \in Ops[t] \cap {"GET", "EXISTS", "DEL", "PERSIST"}, k \in KeysOf[t]},
    {Request(o, k, k, v, 0) :
       o \in Ops[t] \cap {"APPEND", "INCR"}, k \in KeysOf[t], v \in Vals \cap Nat},
    {Request(o, k, k, v, ttl) :
       o \in Ops[t] \cap {"SET", "SETNX"}, k \in KeysOf[t], v \in Vals, ttl \in TTLs},
    {Request(o, k, k, None, ttl) :
       o \in Ops[t] \cap {"EXPIRE"}, k \in KeysOf[t], ttl \in TTLs},
    {Request(o, k, d, None, 0) :
       o \in Ops[t] \cap {"RENAME"}, k \in KeysOf[t], d \in KeysOf[t]},
    {Request(o, None, None, None, 0) : o \in Ops[t] \cap {"FLUSHDB"}}}

Room == IF MaxKeys > 0 THEN "room" ELSE "set"

\* the first step of each operation
Entry == [SET |-> Room, SETNX |-> "nx", GET |-> "get", EXISTS |-> "exists",
          DEL |-> "del", INCR |-> "incr", APPEND |-> "append",
          EXPIRE |-> "expire", PERSIST |-> "expire",
          RENAME |-> "getItem", FLUSHDB |-> "clear"]

\* t goes on at l with local variables r
Move(t, l, r) == /\ pc' = [pc EXCEPT ![t] = l]
                 /\ loc' = [loc EXCEPT ![t] = r]
                 /\ UNCHANGED <<req, left>>
Goto(t, l) == Move(t, l, loc[t])

\* t's call is over
Return(t) == /\ pc' = [pc EXCEPT ![t] = "idle"]
             /\ loc' = [loc EXCEPT ![t] = Scratch]
             /\ req' = [req EXCEPT ![t] = None]
             /\ UNCHANGED left

Answer(t, r) == out' = [out EXCEPT ![t] = r]

Call(t) == /\ pc[t] = "idle" /\ left[t] > 0
           /\ \E r \in RequestsOf(t) : /\ req' = [req EXCEPT ![t] = r]
                                     /\ pc' = [pc EXCEPT ![t] = Entry[r.op]]
           /\ left' = [left EXCEPT ![t] = @ - 1]
           /\ Answer(t, None)
           /\ UNCHANGED <<loc, ram, cold, chan, journal, time, jan>>

\* where a call goes once it is done with RAM
\* BUG: an older copy stays in the cold store
AfterRamKeepsCold == "log"

AfterRam == IF HasCold THEN "coldDelete" ELSE "log"

AfterAdd(op) == CASE op \in {"SET", "SETNX"} -> AfterRam
                  [] op = "GET" -> "coldDelete"
                  [] op \in {"INCR", "APPEND"} -> "log"
                  [] op = "RENAME" -> "logDel"
\* BUG: the victim is thrown away
AfterSubDropsVictim(op) == CASE op \in {"SET", "SETNX"} -> "set"
                             [] op = "DEL" -> AfterRam
                             [] op = "RENAME" -> "setDst"

AfterSub(op) == CASE op \in {"SET", "SETNX"} -> IF HasCold THEN "coldPut" ELSE "set"
                  [] op = "DEL" -> AfterRam
                  [] op = "RENAME" -> "setDst"

\* c.totalKeys.Add(1)
AddKey(t) == /\ pc[t] = "addKey"
             /\ totalKeys' = totalKeys + 1
             /\ Goto(t, AfterAdd(req[t].op))
             /\ UNCHANGED <<items, orphan, cold, chan, journal, time, jan, out>>

\* c.totalKeys.Add(-1)
SubKey(t) == /\ pc[t] = "subKey"
             /\ totalKeys' = totalKeys - 1
             /\ Goto(t, AfterSub(req[t].op))
             /\ UNCHANGED <<items, orphan, cold, chan, journal, time, jan, out>>

\* c.cold.Delete(key), the end of Get and nearly that of Set and Delete
ColdDelete(t) ==
  /\ pc[t] = "coldDelete"
  /\ cold' = [cold EXCEPT ![req[t].key] = None]
  /\ IF req[t].op = "GET" THEN Return(t) ELSE Goto(t, "log")
  /\ UNCHANGED <<ram, chan, journal, time, jan, out>>

-------------------------------------------------------------------------------
(* The journal: a record is a key, its value (None for DEL) and the time it *)
(* expires, which Write computes anew from the duration it is given.        *)

Record(k, v, ttl) == [key |-> k, val |-> v, exp |-> IF ttl > 0 THEN now + ttl ELSE 0]

\* BUG: APPEND journals what it appended
ValueLoggedSuffix(t) == CASE req[t].op = "INCR" -> out[t]
                          [] req[t].op = "RENAME" -> loc[t].val
                          [] OTHER -> req[t].val

\* BUG: INCR journals what it added
ValueLoggedDelta(t) == IF req[t].op \in {"APPEND", "RENAME"} THEN loc[t].val ELSE req[t].val

\* None for DEL
ValueLogged(t) == CASE req[t].op = "INCR" -> out[t]
                    [] req[t].op \in {"APPEND", "RENAME"} -> loc[t].val
                    [] OTHER -> req[t].val

\* the record each operation ends with; dst is key but for RENAME
RecordOf(t) == Record(req[t].dst, ValueLogged(t),
                      IF req[t].op = "RENAME" /\ loc[t].exp > 0 THEN loc[t].exp - now
                      ELSE req[t].ttl)

\* c.persister.Write, after the shard lock is released
Log(t) == /\ pc[t] = "log"
          /\ journal' = Append(journal, RecordOf(t))
          /\ Return(t)
          /\ UNCHANGED <<ram, cold, chan, time, jan, out>>

-------------------------------------------------------------------------------
(* Set, with NX and with a limit on the number of keys *)

\* the check of SET NX: RAM only, and nothing holds the key until it is set
CheckNX(t) == /\ pc[t] = "nx"
              /\ IF Live(req[t].key)
                 THEN Answer(t, No) /\ Return(t)
                 ELSE UNCHANGED out /\ Goto(t, Room)
              /\ UNCHANGED <<ram, cold, chan, journal, time, jan>>

\* _, exists := s.items[key]
CheckExists(t) == /\ pc[t] = "room"
                  /\ Goto(t, IF Found(req[t].key) THEN "set" ELSE "limit")
                  /\ UNCHANGED <<ram, cold, chan, journal, time, jan, out>>

\* c.totalKeys.Load() >= c.maxKeys
CheckLimit(t) == /\ pc[t] = "limit"
                 /\ Goto(t, IF totalKeys >= MaxKeys THEN "scan" ELSE "set")
                 /\ UNCHANGED <<ram, cold, chan, journal, time, jan, out>>

\* the least recently used item of the sample, if it beats the best so far
Better(best, D) ==
  {k \in D : /\ \A j \in D : items[k].acc <= items[j].acc
             /\ best.vic # None => items[k].acc < best.acc}

\* evictLRU looks at one shard: its key, value and expiry are read now and
\* used after the lock is gone
ScanShard(t) ==
  /\ pc[t] = "scan"
  /\ \E D \in Samples(LruSample, Shard(loc[t].sh)) :
     \E best \in IF Better(loc[t], D) = {} THEN {loc[t]}
                 ELSE {[loc[t] EXCEPT !.vic = k, !.val = items[k].val,
                                      !.exp = items[k].exp, !.acc = items[k].acc] :
                         k \in Better(loc[t], D)} :
       IF loc[t].sh < NumShards
       THEN Move(t, "scan", [best EXCEPT !.sh = @ + 1])
       ELSE Move(t, IF best.vic = None THEN "set" ELSE "delVictim", best)
  /\ UNCHANGED <<ram, cold, chan, journal, time, jan, out>>

DelVictim(t) == /\ pc[t] = "delVictim"
                /\ items' = Removed({loc[t].vic}) /\ Detach({loc[t].vic})
                /\ Goto(t, IF Found(loc[t].vic) THEN "subKey" ELSE "set")
                /\ UNCHANGED <<totalKeys, cold, chan, journal, time, jan, out>>

\* c.cold.Put(victimKey, victimValue, victimExp)
ColdPut(t) ==
  /\ pc[t] = "coldPut"
  /\ cold' = [cold EXCEPT ![loc[t].vic] = [val |-> loc[t].val, exp |-> loc[t].exp]]
  /\ Goto(t, "set")
  /\ UNCHANGED <<ram, chan, journal, time, jan, out>>

SetShard(t) ==
  /\ pc[t] = "set"
  /\ SetItem(req[t].key, NewItem(req[t].val, req[t].exp))
  /\ Answer(t, Yes)
  /\ Move(t, IF Found(req[t].key) THEN AfterRam ELSE "addKey", Scratch)
  /\ UNCHANGED <<totalKeys, orphan, cold, chan, journal, time, jan>>

-------------------------------------------------------------------------------
(* Get, also as Append uses it to read back what it wrote *)

GetFound(t, v) == IF req[t].op = "APPEND"
                  THEN Move(t, "log", [loc[t] EXCEPT !.val = v]) /\ UNCHANGED out
                  ELSE Return(t) /\ Answer(t, v)

GetMissed(t) == CASE req[t].op = "APPEND" ->
                       Move(t, "log", [loc[t] EXCEPT !.val = Empty]) /\ UNCHANGED out
                  [] req[t].op = "GET" /\ HasCold -> Goto(t, "coldGet") /\ UNCHANGED out
                  [] OTHER -> Return(t) /\ Answer(t, None)

Touch(k) == SetItem(k, [items[k] EXCEPT !.acc = clk])

\* under the read lock
GetShard(t) ==
  /\ pc[t] = "get"
  /\ LET k == req[t].key IN
     CASE ~Found(k) -> GetMissed(t) /\ UNCHANGED items
       [] Live(k) -> GetFound(t, items[k].val) /\ Touch(k)
       [] OTHER -> Goto(t, "getExpired") /\ UNCHANGED <<items, out>>
  /\ UNCHANGED <<totalKeys, orphan, cold, chan, journal, time, jan>>

\* BUG: deletes what it finds without looking whether it is still expired
GetExpiredBlind(t) ==
  /\ pc[t] = "getExpired"
  /\ GetMissed(t) /\ items' = Removed({req[t].key}) /\ Detach({req[t].key})
  /\ UNCHANGED <<totalKeys, cold, chan, journal, time, jan>>

\* the key had expired: look again under the write lock and delete it
GetExpired(t) ==
  /\ pc[t] = "getExpired"
  /\ LET k == req[t].key IN
     IF Live(k) THEN GetFound(t, items[k].val) /\ Touch(k) /\ UNCHANGED orphan
                ELSE GetMissed(t) /\ items' = Removed({k}) /\ Detach({k})
  /\ UNCHANGED <<totalKeys, cold, chan, journal, time, jan>>

\* c.cold.Get(key), which does not look at the expiry time
ColdGet(t) ==
  /\ pc[t] = "coldGet"
  /\ LET c == cold[req[t].key] IN
     IF c = None THEN Return(t) /\ Answer(t, None)
     ELSE Move(t, "promote", [loc[t] EXCEPT !.val = c.val]) /\ UNCHANGED out
  /\ UNCHANGED <<ram, cold, chan, journal, time, jan>>

\* s.set(key, val, 0): whether the key is new is not asked
Promote(t) == /\ pc[t] = "promote"
              /\ SetItem(req[t].key, NewItem(loc[t].val, 0))
              /\ Answer(t, loc[t].val)
              /\ Goto(t, "addKey")
              /\ UNCHANGED <<totalKeys, orphan, cold, chan, journal, time, jan>>

Exists(t) ==
  /\ pc[t] = "exists"
  /\ CASE Live(req[t].key) -> Return(t) /\ Answer(t, Yes)
       [] ~Live(req[t].key) /\ HasCold -> Goto(t, "existsCold") /\ UNCHANGED out
       [] OTHER -> Return(t) /\ Answer(t, No)
  /\ UNCHANGED <<ram, cold, chan, journal, time, jan>>

ExistsCold(t) == /\ pc[t] = "existsCold"
                 /\ Return(t)
                 /\ Answer(t, IF cold[req[t].key] = None THEN No ELSE Yes)
                 /\ UNCHANGED <<ram, cold, chan, journal, time, jan>>

-------------------------------------------------------------------------------
(* Delete, IncrBy, Append, Expire and Persist *)

\* BUG: counts a key down whether or not it was there
DelShardBlind(t) == /\ pc[t] = "del"
                    /\ items' = Removed({req[t].key}) /\ Detach({req[t].key})
                    /\ Answer(t, Yes)
                    /\ Goto(t, "subKey")
                    /\ UNCHANGED <<totalKeys, cold, chan, journal, time, jan>>

DelShard(t) == /\ pc[t] = "del"
               /\ items' = Removed({req[t].key}) /\ Detach({req[t].key})
               /\ Answer(t, Yes)
               /\ Goto(t, IF Found(req[t].key) THEN "subKey" ELSE AfterRam)
               /\ UNCHANGED <<totalKeys, cold, chan, journal, time, jan>>

\* An expired item is replaced by a new one, which counts as a new key.
IncrBy(t) ==
  /\ pc[t] = "incr"
  /\ LET k == req[t].key
         delta == req[t].val
     IN CASE ~Live(k) -> /\ SetItem(k, NewItem(delta, 0)) /\ Detach({k})
                         /\ Answer(t, delta) /\ Goto(t, "addKey")
          [] Live(k) /\ items[k].val \in Nat ->
               /\ SetItem(k, [items[k] EXCEPT !.val = @ + delta, !.acc = clk])
               /\ UNCHANGED orphan
               /\ Answer(t, items[k].val + delta) /\ Goto(t, "log")
          [] OTHER -> UNCHANGED <<items, orphan>> /\ Answer(t, None) /\ Return(t)
  /\ UNCHANGED <<totalKeys, cold, chan, journal, time, jan>>

AppendVal(t) ==
  /\ pc[t] = "append"
  /\ LET k == req[t].key
         suffix == req[t].val
     IN IF Live(k)
        THEN LET v == Glue(items[k].val, suffix) IN
             /\ SetItem(k, [items[k] EXCEPT !.val = v, !.acc = clk])
             /\ UNCHANGED orphan
             /\ Answer(t, v) /\ Goto(t, "get")
        ELSE /\ SetItem(k, NewItem(suffix, 0)) /\ Detach({k})
             /\ Answer(t, suffix) /\ Move(t, "addKey", [loc[t] EXCEPT !.val = suffix])
  /\ UNCHANGED <<totalKeys, cold, chan, journal, time, jan>>

\* EXPIRE and PERSIST, neither of which reaches the journal
Expire(t) ==
  /\ pc[t] = "expire"
  /\ LET k == req[t].key IN
     IF Live(k) THEN SetItem(k, [items[k] EXCEPT !.exp = req[t].exp]) /\ Answer(t, Yes)
                ELSE UNCHANGED items /\ Answer(t, No)
  /\ Return(t)
  /\ UNCHANGED <<totalKeys, orphan, cold, chan, journal, time, jan>>

-------------------------------------------------------------------------------
(* Rename: the item is looked up under the read lock, then its value and its *)
(* expiry time are read with no lock at all.  As long as the item is in the  *)
(* map it changes in place, so the second read may see a later write.        *)

GetItem(t) == /\ pc[t] = "getItem"
              /\ IF Live(req[t].key)
                 THEN /\ Move(t, "readExp", [loc[t] EXCEPT !.val = items[req[t].key].val,
                                                           !.exp = items[req[t].key].exp])
                      /\ UNCHANGED out
                 ELSE Return(t) /\ Answer(t, No)
              /\ UNCHANGED <<ram, cold, chan, journal, time, jan>>

\* Through the pointer: of the item that was looked up, wherever it is now.
ReadExp(t) ==
  /\ pc[t] = "readExp"
  /\ Move(t, "delSrc", [loc[t] EXCEPT !.exp = IF orphan[t] = None THEN items[req[t].key].exp
                                              ELSE orphan[t]])
  /\ orphan' = [orphan EXCEPT ![t] = None]
  /\ UNCHANGED <<items, totalKeys, cold, chan, journal, time, jan, out>>

\* Whether there was anything left to delete is not asked.
DelSrc(t) == /\ pc[t] = "delSrc"
             /\ items' = Removed({req[t].key}) /\ Detach({req[t].key})
             /\ Goto(t, "subKey")
             /\ UNCHANGED <<totalKeys, cold, chan, journal, time, jan, out>>

SetDst(t) == /\ pc[t] = "setDst"
             /\ SetItem(req[t].dst, NewItem(loc[t].val, loc[t].exp))
             /\ Goto(t, IF Found(req[t].dst) THEN "logDel" ELSE "addKey")
             /\ UNCHANGED <<totalKeys, orphan, cold, chan, journal, time, jan, out>>

LogDel(t) == /\ pc[t] = "logDel"
             /\ journal' = Append(journal, Record(req[t].key, None, 0))
             /\ Answer(t, Yes)
             /\ Goto(t, "log")
             /\ UNCHANGED <<ram, cold, chan, time, jan>>

-------------------------------------------------------------------------------
(* FlushDB: the shards one by one, the counter, the cold store *)

ClearShard(t) ==
  /\ pc[t] = "clear"
  /\ items' = Removed(Shard(loc[t].sh)) /\ Detach(Shard(loc[t].sh))
  /\ IF loc[t].sh < NumShards THEN Move(t, "clear", [loc[t] EXCEPT !.sh = @ + 1])
                              ELSE Goto(t, "zero")
  /\ UNCHANGED <<totalKeys, cold, chan, journal, time, jan, out>>

ZeroKeys(t) == /\ pc[t] = "zero"
               /\ totalKeys' = 0
               /\ Answer(t, Yes)
               /\ IF HasCold THEN Goto(t, "flushAll") ELSE Return(t)
               /\ UNCHANGED <<items, orphan, cold, chan, journal, time, jan>>

FlushAll(t) == /\ pc[t] = "flushAll"
               /\ cold' = [k \in Keys |-> None]
               /\ Return(t)
               /\ UNCHANGED <<ram, chan, journal, time, jan, out>>

ClientStep(t) ==
  \/ CheckNX(t) \/ CheckExists(t) \/ CheckLimit(t) \/ ScanShard(t) \/ DelVictim(t)
  \/ ColdPut(t) \/ SetShard(t) \/ AddKey(t) \/ SubKey(t) \/ ColdDelete(t) \/ Log(t)
  \/ GetShard(t) \/ GetExpired(t) \/ ColdGet(t) \/ Promote(t)
  \/ Exists(t) \/ ExistsCold(t) \/ DelShard(t) \/ IncrBy(t) \/ AppendVal(t) \/ Expire(t)
  \/ GetItem(t) \/ ReadExp(t) \/ DelSrc(t) \/ SetDst(t) \/ LogDel(t)
  \/ ClearShard(t) \/ ZeroKeys(t) \/ FlushAll(t)

-------------------------------------------------------------------------------
(* The janitor: one goroutine, so one task at a time *)

JanitorTick(task) == /\ jan.task = "idle"
                     /\ jan' = [task |-> task, now |-> now, sh |-> 1]
                     /\ UNCHANGED <<ram, cold, chan, journal, time, client>>

\* BUG: runs past the last shard
NextShardLate == jan' = IF jan.sh <= NumShards THEN [jan EXCEPT !.sh = @ + 1]
                        ELSE [task |-> "idle", now |-> 0, sh |-> 1]

\* BUG: leaves the last shard out
NextShardEarly == jan' = IF jan.sh < NumShards - 1 THEN [jan EXCEPT !.sh = @ + 1]
                         ELSE [task |-> "idle", now |-> 0, sh |-> 1]

NextShard == jan' = IF jan.sh < NumShards THEN [jan EXCEPT !.sh = @ + 1]
                    ELSE [task |-> "idle", now |-> 0, sh |-> 1]

\* BUG: a key passed over when it fell due is never looked at again
DueNow(s) == {k \in Shard(s) : items[k].exp > 0 /\ items[k].exp = jan.now}

Due(s) == {k \in Shard(s) : items[k].exp > 0 /\ items[k].exp <= jan.now}

\* the soonest to expire, in the order the heap yields them
ExpireByTTL ==
  /\ jan.task = "ttl"
  /\ \E D \in Samples(MaxPerShard, Due(jan.sh)) :
       /\ \A k \in D, j \in Due(jan.sh) \ D : items[k].exp <= items[j].exp
       /\ items' = Removed(D) /\ Detach(D)
       /\ totalKeys' = totalKeys - Cardinality(D)
  /\ NextShard
  /\ UNCHANGED <<cold, chan, journal, time, client>>

\* the enumerations without repetition of a finite set
Orders(S) == {q \in [1..Cardinality(S) -> S] : \A i, j \in DOMAIN q : q[i] = q[j] => i = j}

Idle(D) == {k \in D : items[k].acc < jan.now - ColdThreshold}

\* Items that have not been used for long leave RAM for the channel, as many
\* as it has room for; the others stay.
EvictCold ==
  /\ jan.task = "cold"
  /\ \E D \in Samples(SampleSize, Shard(jan.sh)) :
     \E S \in Samples(FlushCap - Len(flushCh), Idle(D)) : \E q \in Orders(S) :
       /\ flushCh' = flushCh \o [i \in DOMAIN q |-> [key |-> q[i], val |-> items[q[i]].val,
                                                     exp |-> items[q[i]].exp]]
       /\ items' = Removed(S) /\ Detach(S)
       /\ totalKeys' = totalKeys - Cardinality(S)
  /\ NextShard
  /\ UNCHANGED <<cold, batch, wpc, journal, time, client>>

JanitorShard == ExpireByTTL \/ EvictCold

-------------------------------------------------------------------------------
(* The workers that move items from the channel to the cold store *)

\* the first item of a batch, or one more that is there already
Take(w) == /\ wpc[w] = "take" /\ flushCh # <<>> /\ Len(batch[w]) < BatchMax
           /\ batch' = [batch EXCEPT ![w] = Append(@, Head(flushCh))]
           /\ flushCh' = Tail(flushCh)
           /\ UNCHANGED <<wpc, ram, cold, journal, time, jan, client>>

\* nothing more is there, or the batch is full
Drained(w) == /\ wpc[w] = "take" /\ batch[w] # <<>>
              /\ flushCh = <<>> \/ Len(batch[w]) = BatchMax
              /\ wpc' = [wpc EXCEPT ![w] = "put"]
              /\ UNCHANGED <<flushCh, batch, ram, cold, journal, time, jan, client>>

\* BUG: only the first item of a batch is stored
PutFirst(b) == [cold EXCEPT ![b[1].key] = [val |-> b[1].val, exp |-> b[1].exp]]

\* the last item of each key wins
LastOf(b, i, k) == b[i].key = k /\ \A j \in DOMAIN b : b[j].key = k => j <= i
PutAll(b) == [k \in Keys |->
  IF \E i \in DOMAIN b : LastOf(b, i, k)
  THEN LET i == CHOOSE i \in DOMAIN b : LastOf(b, i, k) IN [val |-> b[i].val, exp |-> b[i].exp]
  ELSE cold[k]]

PutBatch(w) == /\ wpc[w] = "put"
               /\ cold' = PutAll(batch[w])
               /\ batch' = [batch EXCEPT ![w] = <<>>]
               /\ wpc' = [wpc EXCEPT ![w] = "take"]
               /\ UNCHANGED <<flushCh, ram, journal, time, jan, client>>

Worker(w) == Take(w) \/ Drained(w) \/ PutBatch(w)

-------------------------------------------------------------------------------
Tick == /\ now < MaxTime
        /\ now' = now + 1
        /\ UNCHANGED <<clk, ram, cold, chan, journal, jan, client>>

\* the ticker of clock.go
RefreshClock == /\ clk # now
                /\ clk' = now
                /\ UNCHANGED <<now, ram, cold, chan, journal, jan, client>>

Next == \/ \E t \in Threads : Call(t) \/ ClientStep(t)
        \/ \E task \in Tickers : JanitorTick(task)
        \/ JanitorShard
        \/ \E w \in Workers : Worker(w)
        \/ Tick \/ RefreshClock

Spec == Init /\ [][Next]_vars

\* The goroutines of the program keep running, and a ticker of the janitor
\* fires again and again, also while the other does.
FairSpec == /\ Spec
            /\ \A t \in Threads : WF_vars(ClientStep(t))
            /\ \A task \in Tickers : SF_vars(JanitorTick(task))
            /\ WF_vars(JanitorShard)
            /\ \A w \in Workers : WF_vars(Worker(w))

-------------------------------------------------------------------------------
(* Properties *)

Item == [val : Value, exp : Nat, acc : Nat]
ColdItem == [val : Value, exp : Nat]
Moved == [key : Keys, val : Value, exp : Nat]
Records == [key : Keys, val : Value \cup {None}, exp : Nat]

ClientPcs == {"idle", "nx", "room", "limit", "scan", "delVictim", "coldPut", "set",
              "addKey", "subKey", "coldDelete", "log", "get", "getExpired", "coldGet",
              "promote", "exists", "existsCold", "del", "incr", "append", "expire",
              "getItem", "readExp", "delSrc", "setDst", "logDel", "clear", "zero",
              "flushAll"}

Locals == [val : Value \cup {None}, exp : Nat, vic : Keys \cup {None}, acc : Nat,
           sh : 1..NumShards]

RamOK == items \in [Keys -> Item \cup {None}] /\ totalKeys \in Int
ColdOK == cold \in [Keys -> ColdItem \cup {None}]
ChanOK == /\ flushCh \in Seq(Moved) /\ Len(flushCh) <= FlushCap
          /\ batch \in [Workers -> Seq(Moved)]
          /\ \A w \in Workers : Len(batch[w]) <= BatchMax
          /\ wpc \in [Workers -> {"take", "put"}]
JournalOK == journal \in Seq(Records)
TimeOK == now \in Nat /\ clk \in Nat
JanOK == jan \in [task : {"idle", "ttl", "cold"}, now : Nat, sh : 1..NumShards]
ClientOK == /\ pc \in [Threads -> ClientPcs]
            /\ loc \in [Threads -> Locals]
            /\ out \in [Threads -> Value \cup {None}]
            /\ left \in [Threads -> Nat]
OrphanOK == orphan \in [Threads -> Nat \cup {None}]

\* Every variable holds what the Go variable it stands for can hold; the
\* channel and the batches stay within their capacities.
TypeOK == /\ RamOK /\ ColdOK /\ ChanOK /\ JournalOK /\ TimeOK /\ JanOK /\ ClientOK
          /\ OrphanOK

RamKeys == {k \in Keys : Found(k)}
At(l) == {t \in Threads : pc[t] = l}
Quiet == \A t \in Threads : pc[t] = "idle"
RamValue(k) == IF Live(k) THEN items[k].val ELSE None

\* CountKeys never reports fewer keys than RAM holds, once the additions and
\* subtractions that are under way are counted in: Set compares totalKeys with
\* MaxKeys and would let RAM outgrow the limit otherwise.  The map and the
\* counter are changed in separate steps by clients, janitor and lazy expiry.
CountCoversKeys == Cardinality(RamKeys) + Cardinality(At("subKey"))
                     <= totalKeys + Cardinality(At("addKey"))

\* "CountKeys returns the total number of keys in RAM" (cache.go:128)
CountIsExact == Quiet => totalKeys = Cardinality(RamKeys)

\* What Open restores of key k from the journal (imcs.go:71-87): records are
\* replayed in order and a SET that has expired by then is skipped.
Replayed(r) == r.val = None \/ r.exp = 0 \/ r.exp >= now
Recovered(k) == LET I == {i \in DOMAIN journal : journal[i].key = k /\ Replayed(journal[i])}
                IN IF I = {} THEN None
                   ELSE journal[CHOOSE i \in I : \A j \in I : j <= i].val

\* When no call is under way, a restart would restore exactly what RAM serves:
\* "counters ... data is not lost on restart" (README.md:455).
JournalAgrees == Quiet => \A k \in Keys : Recovered(k) = RamValue(k)

\* So it is for a key that one client alone writes, whatever the others do to
\* the keys beside it, and with the two records of a Rename.
OneWriter(k) == Cardinality({t \in Threads : k \in KeysOf[t]}) <= 1
OwnKeysAgree == Quiet => \A k \in Keys : OneWriter(k) => Recovered(k) = RamValue(k)

\* "Persist removes the TTL of a key, makes it eternal" (imcs.go:169): a key
\* that has no expiry time is there after a restart.
EternalIsKept == Quiet => \A k \in Keys :
  Found(k) /\ items[k].exp = 0 => Recovered(k) # None

\* When no call is under way, what RAM serves is in some record: whatever the
\* order in which racing writers reach the journal, the last write is not lost
\* from it.
RamIsJournaled == Quiet => \A k \in Keys : Live(k) =>
  \E i \in DOMAIN journal : journal[i].key = k /\ journal[i].val = items[k].val

\* Under LRU eviction the last value set is in RAM or else in the cold store.
\* The journal is the history of what was set and deleted.
NothingLost == Quiet => \A k \in Keys :
  Recovered(k) = IF Found(k) THEN items[k].val
                 ELSE IF cold[k] # None THEN cold[k].val ELSE None

\* A key that is in RAM has no copy in the cold store that could come back.
OneHome == Quiet => \A k \in Keys : Found(k) => cold[k] = None

\* "MaxKeys is the maximum number of keys" (imcs.go:49)
LimitHeld == MaxKeys > 0 /\ Quiet => Cardinality(RamKeys) <= MaxKeys

\* SETNX sets a key only if it does NOT exist (imcs.go:108, README.md:158): it
\* never replaces a value that is being served.
NXNeverOverwrites == [][\A t \in Threads :
  pc[t] = "set" /\ req[t].op = "SETNX" /\ pc'[t] # "set" => ~Live(req[t].key)]_vars

\* IncrBy "adds delta to the key's value" (cache_ops.go:64), wherever the value is.
IncrAdds == [][\A t \in Threads :
  pc[t] = "incr" /\ pc'[t] # "incr" /\ ~Found(req[t].key) /\ cold[req[t].key] # None
    => out'[t] = cold[req[t].key].val + req[t].val]_vars

\* Delete "removes the key from RAM and cold storage" (cache.go:114): when the
\* last thing that happened to a key is a DEL, it is in neither.
DeletedIsGone == Quiet => \A k \in Keys :
  Recovered(k) = None => ~Found(k) /\ cold[k] = None

\* "TTL = 0 means no time limit" (imcs.go:100): where every SET has a TTL and
\* nobody calls PERSIST, no key is without one.
TTLKept == \A k \in Keys : Found(k) => items[k].exp > 0

\* Every operation takes effect at one instant between its call and its
\* return: RAM behaves as one map although a call locks a shard several times.
Pending(t) == pc[t] # "idle" /\ out[t] = None
Shown == [k \in Keys |-> IF Live(k) THEN [val |-> items[k].val, exp |-> items[k].exp]
                      ELSE None]
Asked(t) == [op |-> req[t].op, key |-> req[t].key, val |-> req[t].val, exp |-> req[t].exp]
Waiting == [t \in Threads |-> IF Pending(t) THEN Asked(t) ELSE None]
Deadlines == {0} \cup {n + ttl : n \in 1..MaxTime, ttl \in TTLs}
AnyRequest == [op : UNION {Ops[t] : t \in Threads}, key : Keys, val : Vals \cup {None},
               exp : Deadlines]
Store == INSTANCE KVStore WITH
  store <- Shown, req <- Waiting, res <- out, Requests <- AnyRequest
Linearizable == Store!Spec

\* The janitor removes every key whose time has come, whether or not anybody
\* asks for it again and however many others of its shard are due before it:
\* ExpireByTTL stops after MaxPerShard of them (eviction.go:34).
Overdue(k) == Found(k) /\ items[k].exp > 0 /\ items[k].exp <= now
ExpiredReclaimed == \A k \in Keys : Overdue(k) ~> ~Overdue(k)

\* What EvictCold takes out of RAM reaches the cold store, and no worker drops
\* it, unless a client sets, deletes or flushes its key in the meantime.
InFlight(k) == \/ \E i \in DOMAIN flushCh : flushCh[i].key = k
               \/ \E w \in Workers : \E i \in DOMAIN batch[w] : batch[w][i].key = k
Overruled(k) == \E t \in Threads : /\ pc[t] # "idle"
                                  /\ \/ req[t].op \in {"SET", "DEL"} /\ req[t].key = k
                                     \/ req[t].op = "FLUSHDB"
InFlightReachesCold == \A k \in Keys : InFlight(k) ~> (cold[k] # None \/ Overruled(k))
===============================================================================
