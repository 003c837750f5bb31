-------------------------------- MODULE MCCache --------------------------------
(* Small instances of Cache: who calls what on which keys. *)
EXTENDS Cache, TLC

CONSTANTS t1, t2, t3, k1, k2, k3

RamOps == {"SET", "GET", "EXISTS", "DEL", "INCR", "APPEND", "EXPIRE", "PERSIST"}
WriteOps == {"SET", "SETNX", "DEL", "INCR", "APPEND"}

AnyKey == [t \in Threads |-> Keys]
OneShard == [k \in Keys |-> 1]
LastShard == [k \in Keys |-> NumShards]
OwnShard == [k \in Keys |-> IF k = k1 THEN 1 ELSE 2]

\* The journal is written and never read back while the program runs, and
\* access times matter to eviction only: a run that looks at neither may leave
\* them out of the state.
RamView == <<[k \in Keys |-> IF Found(k) THEN <<items[k].val, items[k].exp>> ELSE None],
             totalKeys, now, jan, orphan, pc, req, loc, out, left>>

NoJournal == <<items, totalKeys, cold, flushCh, batch, wpc, now, clk, jan, orphan,
               pc, req, loc, left>>

\* no value is looked at, only who is where
CountView == <<[k \in Keys |-> IF Found(k) THEN <<items[k].exp, items[k].acc>> ELSE None],
               totalKeys, [k \in Keys |-> cold[k] = None], flushCh, batch, wpc,
               now, clk, jan, orphan, pc, req, loc, left>>

AllRam == [t \in Threads |-> RamOps]
MixedCounted == [t \in Threads |-> IF t = t1 THEN {"SET", "GET", "EXPIRE"}
                                   ELSE {"INCR", "DEL"}]
Reads == [t \in Threads |-> {"SET", "GET", "EXISTS", "DEL"}]
SetDel == [t \in Threads |-> {"SET", "DEL"}]
NXOnly == [t \in Threads |-> {"SETNX"}]
IncrOnly == [t \in Threads |-> {"INCR"}]
SetPersist == [t \in Threads |-> {"SET", "PERSIST"}]
SetDelFlush == [t \in Threads |-> {"SET", "DEL", "FLUSHDB"}]
SetFlush == [t \in Threads |-> {"SET", "FLUSHDB"}]
SetGet == [t \in Threads |-> {"SET", "GET"}]
SetIncr == [t \in Threads |-> {"SET", "INCR"}]
OneRenames == [t \in Threads |-> IF t = t1 THEN WriteOps \cup {"RENAME"} ELSE {"INCR", "APPEND", "DEL"}]
OneEach == [t \in Threads |-> IF t = t1 THEN {k1} ELSE {k2}]
OneShares == [t \in Threads |-> IF t = t1 THEN {k1, k2} ELSE {k2}]
===============================================================================
