------------------------------ MODULE CacheProofs ------------------------------
(***************************************************************************)
(* Proofs about Cache for any keys, clients, workers, limits and bounds.   *)
(* Every variable keeps its type because a call in progress has the shape  *)
(* its place in the code requires: which operation it is, and which of its *)
(* local variables are set.  CallOK states that shape.  Counting the keys  *)
(* rests on it too: only some operations move the counter.  So does that   *)
(* a call in RAM takes effect at one instant.                              *)
(***************************************************************************)
EXTENDS Cache, FiniteSetTheorems, TLAPS

Sets == {"SET", "SETNX"}

\* the operations a call at l may be
OpsAt(l) ==
  CASE l \in {"nx", "room", "limit", "scan", "delVictim", "coldPut", "set"} -> Sets
    [] l = "addKey" -> Sets \cup {"GET", "INCR", "APPEND", "RENAME"}
    [] l = "subKey" -> Sets \cup {"DEL", "RENAME"}
    [] l = "coldDelete" -> Sets \cup {"GET", "DEL"}
    [] l = "log" -> Sets \cup {"DEL", "INCR", "APPEND", "RENAME"}
    [] l \in {"get", "getExpired"} -> {"GET", "APPEND"}
    [] l \in {"coldGet", "promote"} -> {"GET"}
    [] l \in {"exists", "existsCold"} -> {"EXISTS"}
    [] l = "del" -> {"DEL"}
    [] l = "incr" -> {"INCR"}
    [] l = "append" -> {"APPEND"}
    [] l = "expire" -> {"EXPIRE", "PERSIST"}
    [] l \in {"getItem", "readExp", "delSrc", "setDst", "logDel"} -> {"RENAME"}
    [] l \in {"clear", "zero", "flushAll"} -> {"FLUSHDB"}
    [] OTHER -> {}

\* a request of thread t
RequestOK(t, q) ==
  /\ q \in [op : Ops[t], key : Keys \cup {None}, dst : Keys \cup {None},
            val : Value \cup {None}, ttl : Nat, exp : Nat]
  /\ q.op # "FLUSHDB" => q.key \in Keys /\ q.dst \in Keys
  /\ q.op \in {"INCR", "APPEND"} => q.val \in Nat
  /\ q.op \in Sets => q.val \in Value

\* the local variables r of a call at l that carries out request q
LocalsOK(l, q, r) ==
  /\ r.vic # None => r.val \in Value
  /\ l \in {"delVictim", "coldPut"} \/ (l = "subKey" /\ q.op \in Sets) => r.vic # None
  /\ l = "promote" => r.val \in Value
  /\ q.op = "RENAME" /\ l # "getItem" => r.val \in Value

Shape(t, l, q, r) == RequestOK(t, q) /\ q.op \in OpsAt(l) /\ LocalsOK(l, q, r)

CallOK(t) == pc[t] # "idle" => Shape(t, pc[t], req[t], loc[t])
ScratchOK == \A t \in Threads : pc[t] = "idle" => loc[t] = Scratch
CallsOK == DOMAIN req = Threads /\ ScratchOK /\ \A t \in Threads : CallOK(t)

\* every part of the state but what a Rename keeps
TypesOK == RamOK /\ ColdOK /\ ChanOK /\ JournalOK /\ TimeOK /\ JanOK /\ ClientOK

\* A Rename reads the expiry time of an item that is in the map or that was.
HeldOK == \A t \in Threads : pc[t] = "readExp" /\ orphan[t] = None => Found(req[t].key)

IInv == TypeOK /\ CallsOK /\ HeldOK

-------------------------------------------------------------------------------
(* How the pieces the actions are made of keep the types *)

LEMMA ScratchType == Scratch \in Locals /\ Scratch.vic = None
BY CacheAssumptions DEF Scratch, Locals

\* A thread that goes on with locals of the right shape leaves every call right.
LEMMA MoveKeeps ==
  ASSUME ClientOK, CallsOK, NEW t \in Threads, NEW l \in ClientPcs \ {"idle"}, NEW r \in Locals,
         Move(t, l, r), Shape(t, l, req[t], r)
  PROVE  CallsOK' /\ pc' \in [Threads -> ClientPcs] /\ loc' \in [Threads -> Locals]
                  /\ left' \in [Threads -> Nat]
<1>1. /\ pc' = [pc EXCEPT ![t] = l] /\ loc' = [loc EXCEPT ![t] = r]
      /\ req' = req /\ left' = left
  BY DEF Move
<1>2. ASSUME NEW u \in Threads PROVE CallOK(u)' /\ (pc'[u] = "idle" => loc'[u] = Scratch)
  <2>1. CASE u = t  BY <1>1, <2>1 DEF ClientOK, CallOK
  <2>2. CASE u # t
    <3>1. pc'[u] = pc[u] /\ loc'[u] = loc[u] /\ req'[u] = req[u]
      BY <1>1, <2>2 DEF ClientOK
    <3>2. QED  BY <3>1 DEF CallsOK, CallOK, ScratchOK
  <2>3. QED  BY <2>1, <2>2
<1>3. QED  BY <1>1, <1>2 DEF ClientOK, CallsOK, ScratchOK

LEMMA ReturnKeeps ==
  ASSUME ClientOK, CallsOK, NEW t \in Threads, Return(t)
  PROVE  CallsOK' /\ pc' \in [Threads -> ClientPcs] /\ loc' \in [Threads -> Locals]
                  /\ left' \in [Threads -> Nat]
<1>1. /\ pc' = [pc EXCEPT ![t] = "idle"] /\ loc' = [loc EXCEPT ![t] = Scratch]
      /\ req' = [req EXCEPT ![t] = None] /\ left' = left
  BY DEF Return
<1>2. ASSUME NEW u \in Threads PROVE CallOK(u)' /\ (pc'[u] = "idle" => loc'[u] = Scratch)
  <2>1. CASE u = t  BY <1>1, <2>1 DEF ClientOK, CallOK
  <2>2. CASE u # t
    <3>1. pc'[u] = pc[u] /\ loc'[u] = loc[u] /\ (pc[u] # "idle" => req'[u] = req[u])
      BY <1>1, <2>2 DEF ClientOK
    <3>2. QED  BY <3>1 DEF CallsOK, CallOK, ScratchOK
  <2>3. QED  BY <2>1, <2>2
<1>3. QED  BY <1>1, <1>2, ScratchType DEF ClientOK, CallsOK, ScratchOK, ClientPcs

LEMMA NextShardIn ==
  ASSUME NEW n \in Nat, NEW s \in 1..n, s < n
  PROVE  s + 1 \in 1..n
OBVIOUS

\* Writing or removing items keeps the maps' type.
LEMMA SetItemType ==
  ASSUME RamOK, NEW k \in Keys, NEW i \in Item, SetItem(k, i)
  PROVE  items' \in [Keys -> Item \cup {None}]
BY DEF RamOK, SetItem

LEMMA RemovedType ==
  ASSUME RamOK, NEW D
  PROVE  Removed(D) \in [Keys -> Item \cup {None}]
BY DEF RamOK, Removed

LEMMA FoundType ==
  ASSUME RamOK, NEW k \in Keys, Found(k)
  PROVE  /\ items[k] \in Item
         /\ items[k].val \in Value /\ items[k].val # None
         /\ items[k].exp \in Nat /\ items[k].acc \in Nat
BY CacheAssumptions DEF RamOK, Found, Item

LEMMA NewItemType ==
  ASSUME TimeOK, NEW v \in Value, NEW e \in Nat
  PROVE  NewItem(v, e) \in Item
BY DEF TimeOK, NewItem, Item

LEMMA TouchType ==
  ASSUME RamOK, TimeOK, NEW k \in Keys, Found(k), Touch(k)
  PROVE  items' \in [Keys -> Item \cup {None}]
<1>1. [items[k] EXCEPT !.acc = clk] \in Item  BY FoundType DEF TimeOK, Item
<1>2. QED  BY <1>1, SetItemType DEF Touch

LEMMA GlueType ==
  ASSUME NEW v \in Value, NEW d \in Nat
  PROVE  Glue(v, d) \in Value
BY DEF Glue, Value

LEMMA RecordType ==
  ASSUME TimeOK, NEW k \in Keys, NEW v \in Value \cup {None}, NEW ttl \in Int
  PROVE  Record(k, v, ttl) \in Records
BY DEF TimeOK, Record, Records

\* What a request is made of.
LEMMA RequestParts ==
  ASSUME NEW t \in Threads, NEW r \in RequestsOf(t)
  PROVE  \E o \in Ops[t], k \in KeysOf[t] \cup {None}, d \in KeysOf[t] \cup {None},
            v \in Vals \cup {None}, ttl \in TTLs \cup {0} :
           /\ r = Request(o, k, d, v, ttl)
           /\ o # "FLUSHDB" => k \in KeysOf[t] /\ d \in KeysOf[t]
           /\ o \in {"INCR", "APPEND"} => v \in Nat
           /\ o \in Sets => v \in Vals
           /\ o = "EXPIRE" => ttl \in TTLs
           /\ o = "DEL" => v = None
           /\ o # "RENAME" => d = k
<1> USE DEF Sets
<1>1. CASE r \in {Request(o, k, k, None, 0) :
                   o \in Ops[t] \cap {"GET", "EXISTS", "DEL", "PERSIST"}, k \in KeysOf[t]}
  BY <1>1
<1>2. CASE r \in {Request(o, k, k, v, 0) :
                   o \in Ops[t] \cap {"APPEND", "INCR"}, k \in KeysOf[t], v \in Vals \cap Nat}
  BY <1>2
<1>3. CASE r \in {Request(o, k, k, v, ttl) :
                   o \in Ops[t] \cap {"SET", "SETNX"}, k \in KeysOf[t], v \in Vals, ttl \in TTLs}
  BY <1>3
<1>4. CASE r \in {Request(o, k, k, None, ttl) :
                   o \in Ops[t] \cap {"EXPIRE"}, k \in KeysOf[t], ttl \in TTLs}
  BY <1>4
<1>5. CASE r \in {Request(o, k, d, None, 0) :
                   o \in Ops[t] \cap {"RENAME"}, k \in KeysOf[t], d \in KeysOf[t]}
  BY <1>5
<1>6. CASE r \in {Request(o, None, None, None, 0) : o \in Ops[t] \cap {"FLUSHDB"}}
  BY <1>6
<1>7. QED  BY <1>1, <1>2, <1>3, <1>4, <1>5, <1>6 DEF RequestsOf

\* What that says of its fields.
LEMMA RequestFields ==
  ASSUME NEW t \in Threads, NEW r \in RequestsOf(t)
  PROVE  /\ r.op \in Ops[t]
         /\ r.op # "FLUSHDB" => r.key \in KeysOf[t] /\ r.dst \in KeysOf[t]
         /\ r.op # "EXPIRE" /\ TTLs \subseteq {0} => r.ttl = 0 /\ r.exp = 0
         /\ r.op = "DEL" => r.val = None
         /\ r.val \in Vals \cup {None}
         /\ r.exp = 0 \/ (r.ttl \in TTLs /\ r.exp = now + r.ttl)
BY RequestParts DEF Request

\* Every request a client makes is one, and it starts where its operation does.
LEMMA RequestsType ==
  ASSUME TimeOK, NEW t \in Threads, NEW r \in RequestsOf(t)
  PROVE  /\ RequestOK(t, r)
         /\ Entry[r.op] \in ClientPcs \ {"idle"}
         /\ r.op \in OpsAt(Entry[r.op])
         /\ Entry[r.op] \notin {"delVictim", "coldPut", "subKey", "promote"}
         /\ r.op = "RENAME" => Entry[r.op] = "getItem"
<1> USE CacheAssumptions DEF TimeOK
<1>1. PICK o \in Ops[t], k \in KeysOf[t] \cup {None}, d \in KeysOf[t] \cup {None},
           v \in Vals \cup {None}, ttl \in TTLs \cup {0} :
        /\ r = Request(o, k, d, v, ttl)
        /\ o # "FLUSHDB" => k \in KeysOf[t] /\ d \in KeysOf[t]
        /\ o \in {"INCR", "APPEND"} => v \in Nat
        /\ o \in Sets => v \in Vals
  BY RequestParts
<1>2. r.op = o /\ o \in OpNames  BY <1>1 DEF Request
<1>3. RequestOK(t, r)
  <2>1. KeysOf[t] \subseteq Keys /\ Vals \subseteq Value /\ TTLs \subseteq Nat
    BY ONLY CacheAssumptions, t \in Threads
  <2>2. ttl \in Nat
    BY ONLY <2>1, ttl \in TTLs \cup {0}
  <2>3. k \in Keys \cup {None} /\ d \in Keys \cup {None} /\ v \in Value \cup {None} /\ ttl \in Nat
    BY ONLY <2>1, <2>2, k \in KeysOf[t] \cup {None}, d \in KeysOf[t] \cup {None},
            v \in Vals \cup {None}
  <2>4. now + ttl \in Nat  BY ONLY <2>3, TimeOK DEF TimeOK
  <2>5. QED  BY <1>1, <2>3, <2>4 DEF Request, RequestOK
<1>4. /\ Entry[o] \in ClientPcs \ {"idle"}
      /\ o \in OpsAt(Entry[o])
      /\ Entry[o] \notin {"delVictim", "coldPut", "subKey", "promote"}
      /\ o = "RENAME" => Entry[o] = "getItem"
  BY <1>2 DEF OpNames, Entry, Room, OpsAt, Sets, ClientPcs
<1>5. QED  BY <1>2, <1>3, <1>4

\* What the place of a call tells of it.
LEMMA InCall ==
  ASSUME IInv, NEW t \in Threads, pc[t] # "idle"
  PROVE  /\ RequestOK(t, req[t]) /\ req[t].op \in OpsAt(pc[t])
         /\ LocalsOK(pc[t], req[t], loc[t]) /\ loc[t] \in Locals
         /\ req[t].op \in OpNames
         /\ req[t].op # "FLUSHDB" => req[t].key \in Keys /\ req[t].dst \in Keys
         /\ req[t].exp \in Nat /\ req[t].ttl \in Nat /\ req[t].val \in Value \cup {None}
<1>1. RequestOK(t, req[t]) /\ req[t].op \in OpsAt(pc[t]) /\ LocalsOK(pc[t], req[t], loc[t])
  BY DEF IInv, CallsOK, CallOK, Shape
<1>2. loc[t] \in Locals  BY DEF IInv, TypeOK, ClientOK
<1>3. Ops[t] \subseteq OpNames  BY CacheAssumptions
<1>4. QED  BY <1>1, <1>2, <1>3 DEF RequestOK

\* A key that one thread alone calls on is that thread's.
LEMMA OnlyOne ==
  ASSUME NEW k \in Keys, OneWriter(k), NEW t \in Threads, NEW u \in Threads,
         k \in KeysOf[t], k \in KeysOf[u]
  PROVE  t = u
<1> SUFFICES ASSUME t # u PROVE FALSE  OBVIOUS
<1> DEFINE S == {w \in Threads : k \in KeysOf[w]}
<1>1. IsFiniteSet(S) /\ {t, u} \subseteq S
  <2>1. S \subseteq Threads /\ {t, u} \subseteq S  OBVIOUS
  <2> HIDE DEF S
  <2>2. IsFiniteSet(Threads)  BY CacheAssumptions
  <2>3. IsFiniteSet(S)  BY ONLY <2>1, <2>2, FS_Subset
  <2>4. QED  BY <2>1, <2>3
<1>2. IsFiniteSet({t}) /\ Cardinality({t}) = 1  BY FS_Singleton
<1> DEFINE P == {t}
<1>3. Cardinality(P \cup {u}) = 2
  <2>1. u \notin P  OBVIOUS
  <2> HIDE DEF P
  <2>2. IsFiniteSet(P) /\ Cardinality(P) = 1  BY <1>2 DEF P
  <2>3. Cardinality(P \cup {u}) = Cardinality(P) + 1  BY <2>1, <2>2, FS_AddElement, Zenon
  <2>4. QED  BY <2>2, <2>3
<1>4. {t, u} = P \cup {u}  OBVIOUS
<1>5. Cardinality({t, u}) <= Cardinality(S) /\ Cardinality(S) \in Nat
  BY <1>1, FS_Subset, FS_CardinalityType
<1>6. Cardinality(S) <= 1  BY DEF OneWriter
<1>7. QED  BY <1>3, <1>4, <1>5, <1>6

\* A thread in a call that goes on with the locals it has.
LEMMA GotoKeeps ==
  ASSUME IInv, NEW t \in Threads, pc[t] # "idle", NEW l \in ClientPcs \ {"idle"},
         Goto(t, l), req[t].op \in OpsAt(l), LocalsOK(l, req[t], loc[t])
  PROVE  CallsOK' /\ pc' \in [Threads -> ClientPcs] /\ loc' \in [Threads -> Locals]
                  /\ left' \in [Threads -> Nat]
<1>1. Shape(t, l, req[t], loc[t])  BY InCall DEF Shape
<1>2. QED  BY <1>1, InCall, MoveKeeps DEF Goto, IInv, TypeOK

LEMMA AnswerType ==
  ASSUME ClientOK, NEW t \in Threads, NEW r \in Value \cup {None}, Answer(t, r)
  PROVE  out' \in [Threads -> Value \cup {None}]
BY DEF ClientOK, Answer

LEMMA YesNo == Yes \in Value /\ No \in Value
BY DEF Yes, No, Value

\* Where a call goes from the counter is a place for its operation.
LEMMA AfterAddOps ==
  ASSUME NEW o \in OpsAt("addKey")
  PROVE  /\ AfterAdd(o) \in ClientPcs \ {"idle", "addKey", "delVictim", "coldPut", "subKey", "promote"}
         /\ o \in OpsAt(AfterAdd(o))
<1>1. CASE o \in Sets
  BY <1>1 DEF AfterAdd, AfterRam, OpsAt, Sets, ClientPcs
<1>2. CASE o \in {"GET", "INCR", "APPEND", "RENAME"}
  BY <1>2 DEF AfterAdd, OpsAt, Sets, ClientPcs
<1>3. QED  BY <1>1, <1>2 DEF OpsAt

LEMMA AfterSubOps ==
  ASSUME NEW o \in OpsAt("subKey")
  PROVE  /\ AfterSub(o) \in ClientPcs \ {"idle", "addKey", "delVictim", "subKey", "promote"}
         /\ o \in OpsAt(AfterSub(o))
         /\ AfterSub(o) = "coldPut" => o \in Sets
<1>1. CASE o \in Sets  BY <1>1 DEF AfterSub, OpsAt, Sets, ClientPcs
<1>2. CASE o \in {"DEL", "RENAME"}  BY <1>2 DEF AfterSub, AfterRam, OpsAt, Sets, ClientPcs
<1>3. QED  BY <1>1, <1>2 DEF OpsAt

\* The steps of a call that only move the call on or end it.
LEMMA ControlSteps ==
  ASSUME IInv, NEW t \in Threads,
         \/ CheckNX(t) \/ CheckExists(t) \/ CheckLimit(t) \/ Exists(t) \/ ExistsCold(t)
         \/ AddKey(t) \/ SubKey(t)
  PROVE  TypesOK' /\ CallsOK'
<1> USE DEF IInv, TypeOK, TypesOK, OpsAt, Sets, LocalsOK, ClientPcs
<1>1. CASE CheckNX(t)
  <2>1. req[t].op \in Sets  BY <1>1, InCall DEF CheckNX
  <2>2. CallsOK' /\ ClientOK'
    <3>1. CASE Live(req[t].key)
      BY <1>1, <3>1, ReturnKeeps, AnswerType, YesNo DEF CheckNX, ClientOK
    <3>2. CASE ~Live(req[t].key)
      BY <1>1, <2>1, <3>2, InCall, GotoKeeps DEF CheckNX, ClientOK, Room
    <3>3. QED  BY <3>1, <3>2
  <2>3. QED
    BY <1>1, <2>2 DEF CheckNX, ram, chan, time, RamOK, ColdOK, ChanOK, JournalOK, TimeOK, JanOK
<1>2. CASE CheckExists(t) \/ CheckLimit(t)
  <2>1. req[t].op \in Sets  BY <1>2, InCall DEF CheckExists, CheckLimit
  <2>2. CallsOK' /\ ClientOK'
    BY <1>2, <2>1, InCall, GotoKeeps DEF CheckExists, CheckLimit, ClientOK
  <2>3. QED
    BY <1>2, <2>2 DEF CheckExists, CheckLimit, ram, chan, time, RamOK, ColdOK, ChanOK,
                      JournalOK, TimeOK, JanOK
<1>3. CASE Exists(t) \/ ExistsCold(t)
  <2>1. req[t].op = "EXISTS"  BY <1>3, InCall DEF Exists, ExistsCold
  <2>2. CallsOK' /\ ClientOK'
    <3>1. CASE Return(t) /\ (Answer(t, Yes) \/ Answer(t, No))
      BY <3>1, ReturnKeeps, AnswerType, YesNo DEF ClientOK
    <3>2. CASE pc[t] = "exists" /\ Goto(t, "existsCold") /\ UNCHANGED out
      BY <2>1, <3>2, InCall, GotoKeeps DEF ClientOK
    <3>3. QED  BY <1>3, <3>1, <3>2 DEF Exists, ExistsCold
  <2>3. QED
    BY <1>3, <2>2 DEF Exists, ExistsCold, ram, chan, time, RamOK, ColdOK, ChanOK,
                      JournalOK, TimeOK, JanOK
<1>4. CASE AddKey(t)
  <2>1. /\ AfterAdd(req[t].op) \in ClientPcs \ {"idle", "delVictim", "coldPut", "subKey", "promote"}
        /\ req[t].op \in OpsAt(AfterAdd(req[t].op))
    BY <1>4, InCall, AfterAddOps DEF AddKey
  <2>2. LocalsOK(AfterAdd(req[t].op), req[t], loc[t])
    BY <1>4, <2>1, InCall DEF AddKey
  <2>3. CallsOK' /\ ClientOK'
    BY <1>4, <2>1, <2>2, GotoKeeps DEF AddKey, ClientOK
  <2>4. QED
    BY <1>4, <2>3 DEF AddKey, chan, time, RamOK, ColdOK, ChanOK, JournalOK, TimeOK, JanOK
<1>5. CASE SubKey(t)
  <2>1. /\ AfterSub(req[t].op) \in ClientPcs \ {"idle", "delVictim", "subKey", "promote"}
        /\ req[t].op \in OpsAt(AfterSub(req[t].op))
        /\ AfterSub(req[t].op) = "coldPut" => req[t].op \in Sets
    BY <1>5, InCall, AfterSubOps DEF SubKey
  <2>2. LocalsOK(AfterSub(req[t].op), req[t], loc[t])
    BY <1>5, <2>1, InCall DEF SubKey
  <2>3. CallsOK' /\ ClientOK'
    BY <1>5, <2>1, <2>2, GotoKeeps DEF SubKey, ClientOK
  <2>4. QED
    BY <1>5, <2>3 DEF SubKey, chan, time, RamOK, ColdOK, ChanOK, JournalOK, TimeOK, JanOK
<1>6. QED  BY <1>1, <1>2, <1>3, <1>4, <1>5

\* The steps of Set.
LEMMA SetSteps ==
  ASSUME IInv, NEW t \in Threads,
         ScanShard(t) \/ DelVictim(t) \/ ColdPut(t) \/ SetShard(t)
  PROVE  TypesOK' /\ CallsOK'
<1> USE DEF IInv, TypeOK, TypesOK
<1>1. CASE ScanShard(t)
  <2>1. req[t].op \in Sets /\ pc[t] = "scan" /\ RequestOK(t, req[t])
    BY <1>1, InCall DEF ScanShard, OpsAt, Sets
  <2> DEFINE Bests(D) == {[loc[t] EXCEPT !.vic = k, !.val = items[k].val,
                                         !.exp = items[k].exp, !.acc = items[k].acc] :
                            k \in Better(loc[t], D)}
  <2>2. ASSUME NEW D \in SUBSET Shard(loc[t].sh), NEW b \in Bests(D) \cup {loc[t]}
        PROVE  b \in Locals /\ b.sh = loc[t].sh /\ (b.vic # None => b.val \in Value)
    <3>1. CASE b = loc[t]  BY <2>1, <3>1, InCall DEF LocalsOK
    <3>2. CASE b \in Bests(D)
      <4>1. PICK k \in D : b = [loc[t] EXCEPT !.vic = k, !.val = items[k].val,
                                              !.exp = items[k].exp, !.acc = items[k].acc]
        BY <3>2 DEF Better
      <4>2. k \in Keys /\ Found(k)  BY <4>1 DEF Shard
      <4>3. loc[t] \in Locals  BY <2>1, InCall
      <4>4. items[k].val \in Value /\ items[k].exp \in Nat /\ items[k].acc \in Nat
        BY <4>2, FoundType
      <4>5. QED  BY ONLY <4>1, <4>2, <4>3, <4>4 DEF Locals
    <3>3. QED  BY <2>2, <3>1, <3>2
  <2> DEFINE Scanned(b) == IF loc[t].sh < NumShards
                           THEN Move(t, "scan", [b EXCEPT !.sh = @ + 1])
                           ELSE Move(t, IF b.vic = None THEN "set" ELSE "delVictim", b)
  <2>a. PICK D \in SUBSET Shard(loc[t].sh) : \E b \in Bests(D) \cup {loc[t]} : Scanned(b)
    BY <1>1 DEF ScanShard, Samples
  <2>3. PICK b \in Bests(D) \cup {loc[t]} : Scanned(b)
    BY <2>a
  <2>4. b \in Locals /\ b.sh = loc[t].sh /\ (b.vic # None => b.val \in Value)
    BY <2>2
  <2>5. CallsOK' /\ ClientOK'
    <3>1. CASE loc[t].sh < NumShards
      <4>a. NumShards \in Nat /\ b.sh \in 1..NumShards /\ b.sh < NumShards
        BY <2>4, <3>1, CacheAssumptions DEF Locals
      <4>b. b.sh + 1 \in 1..NumShards  BY <4>a, NextShardIn
      <4>1. [b EXCEPT !.sh = @ + 1] \in Locals  BY ONLY <2>4, <4>b DEF Locals
      <4>2. Shape(t, "scan", req[t], [b EXCEPT !.sh = @ + 1])
        BY <2>1, <2>4 DEF Shape, OpsAt, Sets, LocalsOK, Locals
      <4>3. QED
        BY <1>1, <2>3, <3>1, <4>1, <4>2, MoveKeeps DEF ClientPcs, ClientOK, ScanShard
    <3>2. CASE ~(loc[t].sh < NumShards) /\ b.vic = None
      <4>1. Shape(t, "set", req[t], b)
        BY <2>1, <2>4 DEF Shape, OpsAt, Sets, LocalsOK
      <4>2. QED
        BY <1>1, <2>3, <2>4, <3>2, <4>1, MoveKeeps DEF ClientPcs, ClientOK, ScanShard
    <3>3. CASE ~(loc[t].sh < NumShards) /\ b.vic # None
      <4>1. Shape(t, "delVictim", req[t], b)
        BY <2>1, <2>4, <3>3 DEF Shape, OpsAt, Sets, LocalsOK
      <4>2. QED
        BY <1>1, <2>3, <2>4, <3>3, <4>1, MoveKeeps DEF ClientPcs, ClientOK, ScanShard
    <3>4. QED  BY <3>1, <3>2, <3>3
  <2>6. QED
    BY <1>1, <2>5 DEF ScanShard, ram, chan, time, RamOK, ColdOK, ChanOK, JournalOK, TimeOK, JanOK
<1>2. CASE DelVictim(t)
  <2>1. req[t].op \in Sets /\ loc[t].vic # None
    BY <1>2, InCall DEF DelVictim, OpsAt, Sets, LocalsOK
  <2>2. CallsOK' /\ ClientOK'
    BY <1>2, <2>1, InCall, GotoKeeps DEF DelVictim, OpsAt, Sets, LocalsOK, ClientPcs, ClientOK
  <2>3. RamOK'  BY <1>2, RemovedType DEF DelVictim, RamOK
  <2>4. QED
    BY <1>2, <2>2, <2>3 DEF DelVictim, chan, time, ColdOK, ChanOK, JournalOK, TimeOK, JanOK
<1>3. CASE ColdPut(t)
  <2>1. req[t].op \in Sets /\ loc[t].vic \in Keys /\ loc[t].val \in Value /\ loc[t].exp \in Nat
    BY <1>3, InCall DEF ColdPut, OpsAt, Sets, LocalsOK, Locals
  <2>2. CallsOK' /\ ClientOK'
    BY <1>3, <2>1, InCall, GotoKeeps DEF ColdPut, OpsAt, Sets, LocalsOK, ClientPcs, ClientOK
  <2>3. ColdOK'  BY <1>3, <2>1 DEF ColdPut, ColdOK, ColdItem
  <2>4. QED
    BY <1>3, <2>2, <2>3 DEF ColdPut, ram, chan, time, RamOK, ChanOK, JournalOK, TimeOK, JanOK
<1>4. CASE SetShard(t)
  <2>1. req[t].op \in Sets /\ req[t].val \in Value /\ req[t].key \in Keys /\ RequestOK(t, req[t])
    BY <1>4, InCall DEF SetShard, OpsAt, RequestOK, Sets
  <2>2. CallsOK' /\ ClientOK'
    <3>1. PICK l \in {"coldDelete", "log", "addKey"} : Move(t, l, Scratch)
      BY <1>4 DEF SetShard, AfterRam
    <3>2. Shape(t, l, req[t], Scratch)
      BY <2>1, ScratchType DEF Shape, OpsAt, Sets, LocalsOK
    <3>3. l \in ClientPcs \ {"idle"}  BY DEF ClientPcs
    <3>4. out' \in [Threads -> Value \cup {None}]
      BY <1>4, AnswerType, YesNo DEF SetShard
    <3>5. QED  BY <3>1, <3>2, <3>3, <3>4, ScratchType, MoveKeeps DEF ClientOK
  <2>3. RamOK'
    BY <1>4, <2>1, InCall, NewItemType, SetItemType DEF SetShard, RamOK
  <2>4. QED
    BY <1>4, <2>2, <2>3 DEF SetShard, chan, time, ColdOK, ChanOK, JournalOK, TimeOK, JanOK
<1>5. QED  BY <1>1, <1>2, <1>3, <1>4

\* What the two ends of a lookup do to the call.
LEMMA GetFoundKeeps ==
  ASSUME IInv, NEW t \in Threads, pc[t] \in {"get", "getExpired"}, NEW v \in Value, GetFound(t, v)
  PROVE  CallsOK' /\ ClientOK'
<1> USE DEF IInv, TypeOK, TypesOK
<1>1. CASE req[t].op = "APPEND"
  <2>1. Move(t, "log", [loc[t] EXCEPT !.val = v]) /\ out' = out  BY <1>1 DEF GetFound
  <2>2. [loc[t] EXCEPT !.val = v] \in Locals  BY InCall DEF Locals
  <2>3. Shape(t, "log", req[t], [loc[t] EXCEPT !.val = v])
    BY <1>1, InCall, CacheAssumptions DEF Shape, OpsAt, Sets, LocalsOK, Locals
  <2>4. QED  BY <2>1, <2>2, <2>3, MoveKeeps DEF ClientPcs, ClientOK
<1>2. CASE req[t].op # "APPEND"
  BY <1>2, ReturnKeeps, AnswerType DEF GetFound, ClientOK
<1>3. QED  BY <1>1, <1>2

LEMMA GetMissedKeeps ==
  ASSUME IInv, NEW t \in Threads, pc[t] \in {"get", "getExpired"}, GetMissed(t)
  PROVE  CallsOK' /\ ClientOK'
<1> USE DEF IInv, TypeOK, TypesOK
<1>1. CASE req[t].op = "APPEND"
  <2>1. Move(t, "log", [loc[t] EXCEPT !.val = Empty]) /\ out' = out  BY <1>1 DEF GetMissed
  <2>2. Empty \in Value  BY DEF Value
  <2>3. [loc[t] EXCEPT !.val = Empty] \in Locals  BY <2>2, InCall DEF Locals
  <2>4. Shape(t, "log", req[t], [loc[t] EXCEPT !.val = Empty])
    BY <1>1, <2>2, InCall DEF Shape, OpsAt, Sets, LocalsOK, Locals
  <2>5. QED  BY <2>1, <2>3, <2>4, MoveKeeps DEF ClientPcs, ClientOK
<1>2. CASE req[t].op = "GET" /\ HasCold
  BY <1>2, InCall, GotoKeeps DEF GetMissed, OpsAt, Sets, LocalsOK, ClientPcs, ClientOK
<1>3. CASE req[t].op # "APPEND" /\ ~(req[t].op = "GET" /\ HasCold)
  BY <1>3, ReturnKeeps, AnswerType DEF GetMissed, ClientOK
<1>4. QED  BY <1>1, <1>2, <1>3

\* The steps of Get.
LEMMA GetSteps ==
  ASSUME IInv, NEW t \in Threads,
         GetShard(t) \/ GetExpired(t) \/ ColdGet(t) \/ Promote(t) \/ ColdDelete(t)
  PROVE  TypesOK' /\ CallsOK'
<1> USE DEF IInv, TypeOK, TypesOK
<1>1. CASE GetShard(t)
  <2> DEFINE k == req[t].key
  <2>1. k \in Keys /\ pc[t] = "get" /\ pc[t] # "idle"
    BY <1>1, InCall DEF GetShard, OpsAt
  <2>2. CASE ~Found(k)
    <3>1. GetMissed(t) /\ items' = items  BY <1>1, <2>2 DEF GetShard, Live
    <3>2. QED
      BY <1>1, <2>1, <3>1, GetMissedKeeps
      DEF GetShard, chan, time, RamOK, ColdOK, ChanOK, JournalOK, TimeOK, JanOK
  <2>3. CASE Live(k)
    <3>1. GetFound(t, items[k].val) /\ Touch(k) /\ Found(k)
      BY <1>1, <2>3 DEF GetShard, Live
    <3>2. CallsOK' /\ ClientOK'  BY <2>1, <3>1, FoundType, GetFoundKeeps
    <3>3. RamOK'  BY <1>1, <2>1, <3>1, TouchType DEF GetShard, RamOK
    <3>4. QED
      BY <1>1, <3>2, <3>3 DEF GetShard, chan, time, ColdOK, ChanOK, JournalOK, TimeOK, JanOK
  <2>4. CASE Found(k) /\ ~Live(k)
    <3>1. Goto(t, "getExpired") /\ items' = items /\ out' = out
      BY <1>1, <2>4 DEF GetShard
    <3>2. CallsOK' /\ ClientOK'
      BY <2>1, <3>1, InCall, GotoKeeps DEF OpsAt, Sets, LocalsOK, ClientPcs, ClientOK
    <3>3. QED
      BY <1>1, <3>1, <3>2
      DEF GetShard, chan, time, RamOK, ColdOK, ChanOK, JournalOK, TimeOK, JanOK
  <2>5. QED  BY <2>2, <2>3, <2>4
<1>2. CASE GetExpired(t)
  <2> DEFINE k == req[t].key
  <2>1. k \in Keys /\ pc[t] = "getExpired" /\ pc[t] # "idle"
    BY <1>2, InCall DEF GetExpired, OpsAt
  <2>2. CASE Live(k)
    <3>1. GetFound(t, items[k].val) /\ Touch(k) /\ Found(k)
      BY <1>2, <2>2 DEF GetExpired, Live
    <3>2. CallsOK' /\ ClientOK'  BY <2>1, <3>1, FoundType, GetFoundKeeps
    <3>3. RamOK'  BY <1>2, <2>1, <3>1, TouchType DEF GetExpired, RamOK
    <3>4. QED
      BY <1>2, <3>2, <3>3 DEF GetExpired, chan, time, ColdOK, ChanOK, JournalOK, TimeOK, JanOK
  <2>3. CASE ~Live(k)
    <3>1. GetMissed(t) /\ items' = Removed({k})  BY <1>2, <2>3 DEF GetExpired
    <3>2. RamOK'  BY <1>2, <3>1, RemovedType DEF GetExpired, RamOK
    <3>3. QED
      BY <1>2, <2>1, <3>1, <3>2, GetMissedKeeps
      DEF GetExpired, chan, time, ColdOK, ChanOK, JournalOK, TimeOK, JanOK
  <2>4. QED  BY <2>2, <2>3
<1>3. CASE ColdGet(t)
  <2> DEFINE c == cold[req[t].key]
  <2>1. req[t].key \in Keys /\ req[t].op = "GET" /\ RequestOK(t, req[t])
    BY <1>3, InCall DEF ColdGet, OpsAt
  <2>2. CallsOK' /\ ClientOK'
    <3>1. CASE c = None
      BY <1>3, <3>1, ReturnKeeps, AnswerType DEF ColdGet, ClientOK
    <3>2. CASE c # None
      <4>1. c.val \in Value  BY <2>1, <3>2 DEF ColdOK, ColdItem
      <4>2. Move(t, "promote", [loc[t] EXCEPT !.val = c.val]) /\ out' = out
        BY <1>3, <3>2 DEF ColdGet
      <4>3. [loc[t] EXCEPT !.val = c.val] \in Locals  BY <1>3, <4>1, InCall DEF ColdGet, Locals
      <4>4. Shape(t, "promote", req[t], [loc[t] EXCEPT !.val = c.val])
        BY <1>3, <2>1, <4>1, InCall DEF ColdGet, Shape, OpsAt, Sets, LocalsOK, Locals
      <4>5. QED  BY <4>2, <4>3, <4>4, MoveKeeps DEF ClientPcs, ClientOK
    <3>3. QED  BY <3>1, <3>2
  <2>3. QED
    BY <1>3, <2>2 DEF ColdGet, ram, chan, time, RamOK, ColdOK, ChanOK, JournalOK, TimeOK, JanOK
<1>4. CASE Promote(t)
  <2>1. req[t].key \in Keys /\ req[t].op = "GET" /\ loc[t].val \in Value
    BY <1>4, InCall DEF Promote, OpsAt, LocalsOK
  <2>2. CallsOK' /\ ClientOK'
    BY <1>4, <2>1, InCall, GotoKeeps, AnswerType
    DEF Promote, OpsAt, Sets, LocalsOK, ClientPcs, ClientOK
  <2>3. RamOK'  BY <1>4, <2>1, NewItemType, SetItemType DEF Promote, RamOK
  <2>4. QED
    BY <1>4, <2>2, <2>3 DEF Promote, chan, time, ColdOK, ChanOK, JournalOK, TimeOK, JanOK
<1>5. CASE ColdDelete(t)
  <2>1. req[t].op \in Sets \cup {"GET", "DEL"}  BY <1>5, InCall DEF ColdDelete, OpsAt
  <2>2. CallsOK' /\ ClientOK'
    <3>1. CASE Return(t)  BY <1>5, <3>1, ReturnKeeps DEF ColdDelete, ClientOK
    <3>2. CASE req[t].op # "GET" /\ Goto(t, "log")
      BY <1>5, <2>1, <3>2, InCall, GotoKeeps
      DEF ColdDelete, OpsAt, Sets, LocalsOK, ClientPcs, ClientOK
    <3>3. QED  BY <1>5, <3>1, <3>2 DEF ColdDelete
  <2>3. ColdOK'  BY <1>5 DEF ColdDelete, ColdOK
  <2>4. QED
    BY <1>5, <2>2, <2>3 DEF ColdDelete, ram, chan, time, RamOK, ChanOK, JournalOK, TimeOK, JanOK
<1>6. QED  BY <1>1, <1>2, <1>3, <1>4, <1>5

\* The steps of Delete, IncrBy, Append, Expire and Persist.
LEMMA WriteSteps ==
  ASSUME IInv, NEW t \in Threads,
         DelShard(t) \/ IncrBy(t) \/ AppendVal(t) \/ Expire(t)
  PROVE  TypesOK' /\ CallsOK'
<1> USE DEF IInv, TypeOK, TypesOK
<1>1. CASE DelShard(t)
  <2>1. req[t].key \in Keys /\ req[t].op = "DEL"  BY <1>1, InCall DEF DelShard, OpsAt
  <2>2. PICK l \in {"subKey", "coldDelete", "log"} : Goto(t, l)
    BY <1>1 DEF DelShard, AfterRam
  <2>3. CallsOK' /\ ClientOK'
    BY <1>1, <2>1, <2>2, InCall, GotoKeeps, AnswerType, YesNo
    DEF DelShard, OpsAt, Sets, LocalsOK, ClientPcs, ClientOK
  <2>4. RamOK'  BY <1>1, RemovedType DEF DelShard, RamOK
  <2>5. QED
    BY <1>1, <2>3, <2>4 DEF DelShard, chan, time, ColdOK, ChanOK, JournalOK, TimeOK, JanOK
<1>2. CASE IncrBy(t)
  <2> DEFINE k == req[t].key
             delta == req[t].val
  <2>1. k \in Keys /\ req[t].op = "INCR" /\ delta \in Nat
    BY <1>2, InCall DEF IncrBy, OpsAt, RequestOK
  <2>2. ASSUME NEW l \in {"addKey", "log"}, NEW v \in Nat, Answer(t, v), Goto(t, l)
        PROVE  CallsOK' /\ ClientOK'
    BY <1>2, <2>1, <2>2, InCall, GotoKeeps, AnswerType
    DEF IncrBy, OpsAt, Sets, LocalsOK, ClientPcs, ClientOK, Value
  <2>3. CASE ~Live(k)
    <3>1. SetItem(k, NewItem(delta, 0)) /\ Answer(t, delta) /\ Goto(t, "addKey")
      BY <1>2, <2>3 DEF IncrBy
    <3>2. RamOK'
      BY <1>2, <2>1, <3>1, NewItemType, SetItemType DEF IncrBy, RamOK, Value
    <3>3. QED
      BY <1>2, <2>1, <2>2, <3>1, <3>2
      DEF IncrBy, chan, time, ColdOK, ChanOK, JournalOK, TimeOK, JanOK
  <2>4. CASE Live(k) /\ items[k].val \in Nat
    <3>1. /\ SetItem(k, [items[k] EXCEPT !.val = @ + delta, !.acc = clk])
          /\ Answer(t, items[k].val + delta) /\ Goto(t, "log")
      BY <1>2, <2>4 DEF IncrBy
    <3>2. items[k].val + delta \in Nat  BY ONLY <2>1, <2>4
    <3>3. items[k] \in Item  BY <2>1, <2>4, FoundType DEF Live
    <3>4. [items[k] EXCEPT !.val = @ + delta, !.acc = clk] \in Item
      BY <3>2, <3>3 DEF Item, TimeOK, Value
    <3>5. RamOK'  BY <1>2, <2>1, <3>1, <3>4, SetItemType DEF IncrBy, RamOK
    <3>6. QED
      BY <1>2, <2>2, <3>1, <3>2, <3>5
      DEF IncrBy, chan, time, ColdOK, ChanOK, JournalOK, TimeOK, JanOK
  <2>5. CASE Live(k) /\ items[k].val \notin Nat
    <3>1. items' = items /\ Answer(t, None) /\ Return(t)  BY <1>2, <2>5 DEF IncrBy
    <3>2. CallsOK' /\ ClientOK'  BY <3>1, ReturnKeeps, AnswerType DEF ClientOK
    <3>3. QED
      BY <1>2, <3>1, <3>2
      DEF IncrBy, chan, time, RamOK, ColdOK, ChanOK, JournalOK, TimeOK, JanOK
  <2>6. QED  BY <2>3, <2>4, <2>5
<1>3. CASE AppendVal(t)
  <2> DEFINE k == req[t].key
             suffix == req[t].val
  <2>1. k \in Keys /\ req[t].op = "APPEND" /\ suffix \in Nat /\ RequestOK(t, req[t])
    BY <1>3, InCall DEF AppendVal, OpsAt, RequestOK
  <2>2. CASE Live(k)
    <3> DEFINE v == Glue(items[k].val, suffix)
    <3>1. /\ SetItem(k, [items[k] EXCEPT !.val = v, !.acc = clk])
          /\ Answer(t, v) /\ Goto(t, "get")
      BY <1>3, <2>2 DEF AppendVal
    <3>2. items[k] \in Item /\ items[k].val \in Value  BY <2>1, <2>2, FoundType DEF Live
    <3>3. v \in Value  BY <2>1, <3>2, GlueType
    <3>4. [items[k] EXCEPT !.val = v, !.acc = clk] \in Item
      BY <3>2, <3>3 DEF Item, TimeOK
    <3>5. RamOK'  BY <1>3, <2>1, <3>1, <3>4, SetItemType DEF AppendVal, RamOK
    <3>6. CallsOK' /\ ClientOK'
      BY <1>3, <2>1, <3>1, <3>3, InCall, GotoKeeps, AnswerType
      DEF AppendVal, OpsAt, Sets, LocalsOK, ClientPcs, ClientOK
    <3>7. QED
      BY <1>3, <3>5, <3>6 DEF AppendVal, chan, time, ColdOK, ChanOK, JournalOK, TimeOK, JanOK
  <2>3. CASE ~Live(k)
    <3>1. /\ SetItem(k, NewItem(suffix, 0))
          /\ Answer(t, suffix) /\ Move(t, "addKey", [loc[t] EXCEPT !.val = suffix])
      BY <1>3, <2>3 DEF AppendVal
    <3>2. suffix \in Value  BY <2>1 DEF Value
    <3>3. RamOK'
      BY <1>3, <2>1, <3>1, <3>2, NewItemType, SetItemType DEF AppendVal, RamOK
    <3>4. [loc[t] EXCEPT !.val = suffix] \in Locals
      BY <1>3, <3>2, InCall DEF AppendVal, Locals
    <3>5. Shape(t, "addKey", req[t], [loc[t] EXCEPT !.val = suffix])
      BY <1>3, <2>1, <3>2, InCall DEF AppendVal, Shape, OpsAt, Sets, LocalsOK, Locals
    <3>6. CallsOK' /\ ClientOK'
      BY <3>1, <3>2, <3>4, <3>5, MoveKeeps, AnswerType DEF ClientPcs, ClientOK
    <3>7. QED
      BY <1>3, <3>3, <3>6 DEF AppendVal, chan, time, ColdOK, ChanOK, JournalOK, TimeOK, JanOK
  <2>4. QED  BY <2>2, <2>3
<1>4. CASE Expire(t)
  <2> DEFINE k == req[t].key
  <2>1. k \in Keys /\ req[t].exp \in Nat  BY <1>4, InCall DEF Expire, OpsAt
  <2>2. CallsOK' /\ ClientOK'
    BY <1>4, ReturnKeeps, AnswerType, YesNo DEF Expire, ClientOK
  <2>3. RamOK'
    <3>1. CASE Live(k)
      <4>1. SetItem(k, [items[k] EXCEPT !.exp = req[t].exp])  BY <1>4, <3>1 DEF Expire
      <4>2. items[k] \in Item  BY <2>1, <3>1, FoundType DEF Live
      <4>3. [items[k] EXCEPT !.exp = req[t].exp] \in Item  BY ONLY <2>1, <4>2 DEF Item
      <4>4. QED  BY <1>4, <2>1, <4>1, <4>3, SetItemType DEF Expire, RamOK
    <3>2. CASE ~Live(k)  BY <1>4, <3>2 DEF Expire, RamOK
    <3>3. QED  BY <3>1, <3>2
  <2>4. QED
    BY <1>4, <2>2, <2>3 DEF Expire, chan, time, ColdOK, ChanOK, JournalOK, TimeOK, JanOK
<1>5. QED  BY <1>1, <1>2, <1>3, <1>4

\* The steps of Rename, and the journal.
LEMMA RenameSteps ==
  ASSUME IInv, NEW t \in Threads,
         GetItem(t) \/ ReadExp(t) \/ DelSrc(t) \/ SetDst(t) \/ LogDel(t) \/ Log(t)
  PROVE  TypesOK' /\ CallsOK'
<1> USE DEF IInv, TypeOK, TypesOK
<1>1. CASE GetItem(t)
  <2> DEFINE k == req[t].key
             r == [loc[t] EXCEPT !.val = items[k].val, !.exp = items[k].exp]
  <2>1. k \in Keys /\ req[t].op = "RENAME" /\ RequestOK(t, req[t])
    BY <1>1, InCall DEF GetItem, OpsAt
  <2>2. CASE Live(k)
    <3>1. Move(t, "readExp", r) /\ out' = out  BY <1>1, <2>2 DEF GetItem
    <3>2. items[k].val \in Value /\ items[k].exp \in Nat  BY <2>1, <2>2, FoundType DEF Live
    <3>3. loc[t] \in Locals  BY <1>1, InCall DEF GetItem
    <3>4. r \in Locals  BY ONLY <3>2, <3>3 DEF Locals
    <3>5. r.val = items[k].val /\ r.vic = loc[t].vic  BY ONLY <3>3 DEF Locals
    <3>6. Shape(t, "readExp", req[t], r)
      BY <1>1, <2>1, <3>2, <3>5, InCall DEF GetItem, Shape, OpsAt, Sets, LocalsOK
    <3>7. CallsOK' /\ ClientOK'  BY <3>1, <3>4, <3>6, MoveKeeps DEF ClientPcs, ClientOK
    <3>8. QED
      BY <1>1, <3>7 DEF GetItem, ram, chan, time, RamOK, ColdOK, ChanOK, JournalOK, TimeOK, JanOK
  <2>3. CASE ~Live(k)
    <3>1. CallsOK' /\ ClientOK'
      BY <1>1, <2>3, ReturnKeeps, AnswerType, YesNo DEF GetItem, ClientOK
    <3>2. QED
      BY <1>1, <3>1 DEF GetItem, ram, chan, time, RamOK, ColdOK, ChanOK, JournalOK, TimeOK, JanOK
  <2>4. QED  BY <2>2, <2>3
<1>2. CASE ReadExp(t)
  <2> DEFINE k == req[t].key
  <2>1. k \in Keys /\ req[t].op = "RENAME" /\ RequestOK(t, req[t]) /\ loc[t].val \in Value
    BY <1>2, InCall DEF ReadExp, OpsAt, LocalsOK
  <2> DEFINE e == IF orphan[t] = None THEN items[k].exp ELSE orphan[t]
             r == [loc[t] EXCEPT !.exp = e]
  <2>2. Move(t, "delSrc", r) /\ out' = out  BY <1>2 DEF ReadExp
  <2>3. loc[t] \in Locals  BY <1>2, InCall DEF ReadExp
  <2>4. e \in Nat
    BY <1>2, <2>1, FoundType DEF ReadExp, HeldOK, OrphanOK
  <2>5. r \in Locals /\ r.val = loc[t].val /\ r.vic = loc[t].vic
    BY ONLY <2>3, <2>4 DEF Locals
  <2>6. Shape(t, "delSrc", req[t], r)
    BY <1>2, <2>1, <2>5, InCall DEF ReadExp, Shape, OpsAt, Sets, LocalsOK
  <2>7. CallsOK' /\ ClientOK'  BY <2>2, <2>5, <2>6, MoveKeeps DEF ClientPcs, ClientOK
  <2>8. QED
    BY <1>2, <2>7 DEF ReadExp, ram, chan, time, RamOK, ColdOK, ChanOK, JournalOK, TimeOK, JanOK
<1>3. CASE DelSrc(t)
  <2>1. CallsOK' /\ ClientOK'
    BY <1>3, InCall, GotoKeeps DEF DelSrc, OpsAt, Sets, LocalsOK, ClientPcs, ClientOK
  <2>2. RamOK'  BY <1>3, RemovedType DEF DelSrc, RamOK
  <2>3. QED
    BY <1>3, <2>1, <2>2 DEF DelSrc, chan, time, ColdOK, ChanOK, JournalOK, TimeOK, JanOK
<1>4. CASE SetDst(t)
  <2>1. req[t].op = "RENAME" /\ req[t].dst \in Keys /\ loc[t].val \in Value /\ loc[t].exp \in Nat
    BY <1>4, InCall DEF SetDst, OpsAt, LocalsOK, Locals
  <2>2. PICK l \in {"logDel", "addKey"} : Goto(t, l)  BY <1>4 DEF SetDst
  <2>3. CallsOK' /\ ClientOK'
    BY <1>4, <2>1, <2>2, InCall, GotoKeeps
    DEF SetDst, OpsAt, Sets, LocalsOK, ClientPcs, ClientOK
  <2>4. RamOK'  BY <1>4, <2>1, NewItemType, SetItemType DEF SetDst, RamOK
  <2>5. QED
    BY <1>4, <2>3, <2>4 DEF SetDst, chan, time, ColdOK, ChanOK, JournalOK, TimeOK, JanOK
<1>5. CASE LogDel(t)
  <2>1. req[t].key \in Keys  BY <1>5, InCall DEF LogDel, OpsAt
  <2>2. CallsOK' /\ ClientOK'
    BY <1>5, InCall, GotoKeeps, AnswerType, YesNo
    DEF LogDel, OpsAt, Sets, LocalsOK, ClientPcs, ClientOK
  <2>3. Record(req[t].key, None, 0) \in Records
    <3>1. None \in Value \cup {None} /\ 0 \in Int  OBVIOUS
    <3>2. QED  BY <2>1, <3>1, RecordType
  <2>4. JournalOK'  BY <1>5, <2>3 DEF LogDel, JournalOK
  <2>5. QED
    BY <1>5, <2>2, <2>4 DEF LogDel, ram, chan, time, RamOK, ColdOK, ChanOK, TimeOK, JanOK
<1>6. CASE Log(t)
  <2>1. /\ req[t].dst \in Keys /\ req[t].ttl \in Nat /\ req[t].val \in Value \cup {None}
        /\ loc[t] \in Locals
    BY <1>6, InCall DEF Log, OpsAt, Sets
  <2>2. ValueLogged(t) \in Value \cup {None}
    BY <2>1 DEF ValueLogged, ClientOK, Locals
  <2>3. loc[t].exp \in Nat /\ now \in Nat  BY <2>1 DEF Locals, TimeOK
  <2>4. loc[t].exp - now \in Int /\ req[t].ttl \in Int  BY ONLY <2>1, <2>3
  <2>5. RecordOf(t) \in Records  BY <2>1, <2>2, <2>4, RecordType DEF RecordOf
  <2>6. JournalOK'  BY <1>6, <2>5 DEF Log, JournalOK
  <2>7. CallsOK' /\ ClientOK'  BY <1>6, ReturnKeeps DEF Log, ClientOK
  <2>8. QED
    BY <1>6, <2>6, <2>7 DEF Log, ram, chan, time, RamOK, ColdOK, ChanOK, TimeOK, JanOK
<1>7. QED  BY <1>1, <1>2, <1>3, <1>4, <1>5, <1>6

\* The steps of FlushDB.
LEMMA FlushSteps ==
  ASSUME IInv, NEW t \in Threads, ClearShard(t) \/ ZeroKeys(t) \/ FlushAll(t)
  PROVE  TypesOK' /\ CallsOK'
<1> USE DEF IInv, TypeOK, TypesOK
<1>1. CASE ClearShard(t)
  <2>1. req[t].op = "FLUSHDB" /\ loc[t] \in Locals  BY <1>1, InCall DEF ClearShard, OpsAt
  <2>2. CallsOK' /\ ClientOK'
    <3>1. CASE loc[t].sh < NumShards
      <4>1. NumShards \in Nat /\ loc[t].sh \in 1..NumShards
        BY <2>1, CacheAssumptions DEF Locals
      <4>2. loc[t].sh + 1 \in 1..NumShards  BY <3>1, <4>1, NextShardIn
      <4>3. [loc[t] EXCEPT !.sh = @ + 1] \in Locals /\ [loc[t] EXCEPT !.sh = @ + 1].vic = loc[t].vic
        BY ONLY <2>1, <4>2 DEF Locals
      <4>4. [loc[t] EXCEPT !.sh = @ + 1].val = loc[t].val  BY ONLY <2>1 DEF Locals
      <4>5. Shape(t, "clear", req[t], [loc[t] EXCEPT !.sh = @ + 1])
        BY <1>1, <2>1, <4>3, <4>4, InCall DEF ClearShard, Shape, OpsAt, Sets, LocalsOK
      <4>6. QED
        BY <1>1, <3>1, <4>3, <4>5, MoveKeeps DEF ClearShard, ClientPcs, ClientOK
    <3>2. CASE ~(loc[t].sh < NumShards)
      BY <1>1, <2>1, <3>2, InCall, GotoKeeps
      DEF ClearShard, OpsAt, Sets, LocalsOK, ClientPcs, ClientOK
    <3>3. QED  BY <3>1, <3>2
  <2>3. RamOK'  BY <1>1, RemovedType DEF ClearShard, RamOK
  <2>4. QED
    BY <1>1, <2>2, <2>3 DEF ClearShard, chan, time, ColdOK, ChanOK, JournalOK, TimeOK, JanOK
<1>2. CASE ZeroKeys(t)
  <2>1. req[t].op = "FLUSHDB"  BY <1>2, InCall DEF ZeroKeys, OpsAt
  <2>2. CallsOK' /\ ClientOK'
    <3>1. CASE HasCold
      BY <1>2, <2>1, <3>1, InCall, GotoKeeps, AnswerType, YesNo
      DEF ZeroKeys, OpsAt, Sets, LocalsOK, ClientPcs, ClientOK
    <3>2. CASE ~HasCold
      BY <1>2, <3>2, ReturnKeeps, AnswerType, YesNo DEF ZeroKeys, ClientOK
    <3>3. QED  BY <3>1, <3>2
  <2>3. QED
    BY <1>2, <2>2 DEF ZeroKeys, chan, time, RamOK, ColdOK, ChanOK, JournalOK, TimeOK, JanOK
<1>3. CASE FlushAll(t)
  <2>1. CallsOK' /\ ClientOK'  BY <1>3, ReturnKeeps DEF FlushAll, ClientOK
  <2>2. QED
    BY <1>3, <2>1 DEF FlushAll, ram, chan, time, RamOK, ColdOK, ChanOK, JournalOK, TimeOK, JanOK
<1>4. QED  BY <1>1, <1>2, <1>3

\* A client calls an operation.
LEMMA CallStep ==
  ASSUME IInv, NEW t \in Threads, Call(t)
  PROVE  TypesOK' /\ CallsOK'
<1> USE DEF IInv, TypeOK, TypesOK
<1>1. PICK r \in RequestsOf(t) : /\ req' = [req EXCEPT ![t] = r]
                                 /\ pc' = [pc EXCEPT ![t] = Entry[r.op]]
  BY DEF Call
<1>2. loc' = loc /\ left' = [left EXCEPT ![t] = @ - 1] /\ Answer(t, None)
      /\ pc[t] = "idle" /\ left[t] > 0
  BY DEF Call
<1>3. Entry[r.op] \in ClientPcs \ {"idle"} /\ Shape(t, Entry[r.op], r, Scratch)
  <2>1. loc[t] = Scratch  BY <1>2 DEF CallsOK, ScratchOK
  <2>2. QED
    BY RequestsType, ScratchType DEF Shape, LocalsOK
<1>4. CallsOK'
  <2>1. ASSUME NEW u \in Threads PROVE CallOK(u)' /\ (pc'[u] = "idle" => loc'[u] = Scratch)
    <3>1. CASE u = t
      <4>1. pc'[u] = Entry[r.op] /\ loc'[u] = Scratch
        BY <1>1, <1>2, <3>1 DEF ClientOK, CallsOK, ScratchOK
      <4>2. Shape(u, pc'[u], r, loc'[u])  BY <1>3, <3>1, <4>1
      <4>3. req'[u] = r  BY <1>1, <3>1 DEF CallsOK
      <4>4. QED  BY <4>1, <4>2, <4>3 DEF CallOK
    <3>2. CASE u # t
      <4>1. pc'[u] = pc[u] /\ loc'[u] = loc[u] /\ (pc[u] # "idle" => req'[u] = req[u])
        BY <1>1, <1>2, <3>2 DEF ClientOK
      <4>2. QED  BY <4>1 DEF CallsOK, CallOK, ScratchOK
    <3>3. QED  BY <3>1, <3>2
  <2>2. DOMAIN req' = Threads  BY <1>1 DEF CallsOK
  <2>3. QED  BY <2>1, <2>2 DEF CallsOK, ScratchOK
<1>5. ClientOK'
  <2>1. left' \in [Threads -> Nat]  BY <1>2 DEF ClientOK
  <2>2. QED  BY <1>1, <1>2, <1>3, <2>1, AnswerType DEF ClientOK
<1>6. QED
  BY <1>4, <1>5 DEF Call, ram, chan, time, RamOK, ColdOK, ChanOK, JournalOK, TimeOK, JanOK

-------------------------------------------------------------------------------
(* The janitor, the workers and the clocks *)

LEMMA NextShardType ==
  ASSUME JanOK, NextShard
  PROVE  JanOK'
<1>1. NumShards \in Nat /\ 1 \in 1..NumShards /\ jan.sh \in 1..NumShards
  BY CacheAssumptions DEF JanOK
<1>2. CASE jan.sh < NumShards
  <2>1. jan.sh + 1 \in 1..NumShards  BY <1>1, <1>2, NextShardIn
  <2>2. jan' = [jan EXCEPT !.sh = @ + 1]  BY <1>2 DEF NextShard
  <2>3. QED  BY ONLY JanOK, <2>1, <2>2 DEF JanOK
<1>3. CASE ~(jan.sh < NumShards)
  <2>1. jan' = [task |-> "idle", now |-> 0, sh |-> 1]  BY <1>3 DEF NextShard
  <2>2. QED  BY ONLY <1>1, <2>1 DEF JanOK
<1>4. QED  BY <1>2, <1>3

\* What leaves the clients' variables alone leaves their calls right.
LEMMA ClientsIdle ==
  ASSUME ClientOK, CallsOK, UNCHANGED client
  PROVE  ClientOK' /\ CallsOK'
<1>1. pc' = pc /\ req' = req /\ loc' = loc /\ out' = out /\ left' = left  BY DEF client
<1>2. QED  BY <1>1 DEF ClientOK, CallsOK, ScratchOK, CallOK

LEMMA SampleSizes ==
  ASSUME NEW n \in Nat, NEW S \in SUBSET Keys, NEW D \in Samples(n, S)
  PROVE  /\ D \subseteq S /\ IsFiniteSet(D)
         /\ Cardinality(D) \in Nat /\ Cardinality(D) <= n
<1>1. IsFiniteSet(S) /\ D \subseteq S  BY FS_Subset, CacheAssumptions DEF Samples
<1>2. IsFiniteSet(D)  BY <1>1, FS_Subset
<1>3. Cardinality(S) \in Nat /\ Cardinality(D) \in Nat  BY <1>1, <1>2, FS_CardinalityType
<1>4. Cardinality(D) = AtMost(n, S)  BY DEF Samples
<1>5. AtMost(n, S) <= n  BY <1>3 DEF AtMost
<1>6. QED  BY <1>1, <1>2, <1>3, <1>4, <1>5

LEMMA ConcatType ==
  ASSUME NEW M, NEW s \in Seq(M), NEW u \in Seq(M)
  PROVE  s \o u \in Seq(M) /\ Len(s \o u) = Len(s) + Len(u)
OBVIOUS

\* The janitor's steps.
LEMMA JanitorSteps ==
  ASSUME IInv, JanitorShard \/ \E task \in Tickers : JanitorTick(task)
  PROVE  TypesOK' /\ CallsOK'
<1> USE DEF IInv, TypeOK, TypesOK
<1>1. CASE \E task \in Tickers : JanitorTick(task)
  <2>1. PICK task \in Tickers : JanitorTick(task)  BY <1>1
  <2>2. task \in {"ttl", "cold"} /\ 1 \in 1..NumShards  BY CacheAssumptions
  <2>3. JanOK'  BY <2>1, <2>2 DEF JanitorTick, JanOK, TimeOK
  <2>4. QED
    BY <2>1, <2>3, ClientsIdle DEF JanitorTick, ram, chan, time, RamOK, ColdOK, ChanOK, JournalOK, TimeOK
<1>2. CASE ExpireByTTL
  <2>1. PICK D \in Samples(MaxPerShard, Due(jan.sh)) :
               items' = Removed(D) /\ totalKeys' = totalKeys - Cardinality(D)
    BY <1>2 DEF ExpireByTTL
  <2>2. Due(jan.sh) \in SUBSET Keys /\ MaxPerShard \in Nat
    BY CacheAssumptions DEF Due, Shard
  <2>3. Cardinality(D) \in Nat  BY <2>2, SampleSizes
  <2>4. totalKeys - Cardinality(D) \in Int  BY <2>3 DEF RamOK
  <2>5. RamOK'  BY <2>1, <2>4, RemovedType DEF RamOK
  <2>6. JanOK'  BY <1>2, NextShardType DEF ExpireByTTL
  <2>7. QED
    BY <1>2, <2>5, <2>6, ClientsIdle DEF ExpireByTTL, chan, time, ColdOK, ChanOK, JournalOK, TimeOK
<1>3. CASE EvictCold
  <2> DEFINE n == FlushCap - Len(flushCh)
             Batch(q) == [i \in DOMAIN q |-> [key |-> q[i], val |-> items[q[i]].val,
                                              exp |-> items[q[i]].exp]]
             Leave(S, q) == /\ flushCh' = flushCh \o Batch(q)
                            /\ items' = Removed(S)
                            /\ totalKeys' = totalKeys - Cardinality(S)
  <2>1. PICK D \in Samples(SampleSize, Shard(jan.sh)) :
               \E S \in Samples(n, Idle(D)) : \E q \in Orders(S) : Leave(S, q)
    BY <1>3 DEF EvictCold
  <2>2. PICK S \in Samples(n, Idle(D)) : \E q \in Orders(S) : Leave(S, q)  BY <2>1
  <2>3. PICK q \in Orders(S) : Leave(S, q)  BY <2>2
  <2>4. Len(flushCh) \in Nat /\ FlushCap \in Nat /\ Len(flushCh) <= FlushCap
    BY CacheAssumptions DEF ChanOK
  <2>5. n \in Nat  BY ONLY <2>4
  <2>6. D \subseteq Shard(jan.sh)  BY DEF Samples
  <2>7. Idle(D) \subseteq Shard(jan.sh) /\ Shard(jan.sh) \subseteq Keys
    BY <2>6 DEF Idle, Shard
  <2>8. Idle(D) \in SUBSET Keys  BY <2>7
  <2>9. /\ S \subseteq Idle(D)
        /\ Cardinality(S) \in Nat /\ Cardinality(S) <= n
    BY <2>5, <2>8, SampleSizes
  <2>10. q \in [1..Cardinality(S) -> S]  BY DEF Orders
  <2>11. \A k \in S : k \in Keys /\ items[k].val \in Value /\ items[k].exp \in Nat
    BY <2>7, <2>9, FoundType DEF Shard
  <2>12. Batch(q) \in [1..Cardinality(S) -> Moved]
    BY <2>10, <2>11 DEF Moved
  <2>13. Batch(q) \in Seq(Moved) /\ Len(Batch(q)) = Cardinality(S)
    BY <2>9, <2>12
  <2>14. flushCh' \in Seq(Moved) /\ Len(flushCh') = Len(flushCh) + Cardinality(S)
    <3>1. flushCh' = flushCh \o Batch(q) /\ flushCh \in Seq(Moved)  BY <2>3 DEF ChanOK
    <3>2. QED  BY <2>13, <3>1, ConcatType
  <2>15. Len(flushCh') <= FlushCap  BY ONLY <2>4, <2>9, <2>14
  <2>16. ChanOK'  BY <1>3, <2>14, <2>15 DEF EvictCold, ChanOK
  <2>17. totalKeys - Cardinality(S) \in Int  BY <2>9 DEF RamOK
  <2>18. RamOK'  BY <2>3, <2>17, RemovedType DEF RamOK
  <2>19. JanOK'  BY <1>3, NextShardType DEF EvictCold
  <2>20. QED
    BY <1>3, <2>16, <2>18, <2>19, ClientsIdle DEF EvictCold, time, ColdOK, JournalOK, TimeOK
<1>4. QED  BY <1>1, <1>2, <1>3 DEF JanitorShard

\* A batch that is put leaves cold items in the cold store.
LEMMA PutAllType ==
  ASSUME ColdOK, NEW b \in Seq(Moved)
  PROVE  PutAll(b) \in [Keys -> ColdItem \cup {None}]
<1>1. ASSUME NEW k \in Keys PROVE PutAll(b)[k] \in ColdItem \cup {None}
  <2>1. CASE \E i \in DOMAIN b : LastOf(b, i, k)
    <3> DEFINE i == CHOOSE j \in DOMAIN b : LastOf(b, j, k)
    <3>1. i \in DOMAIN b  BY <2>1
    <3>2. b[i] \in Moved  BY <3>1
    <3>3. PutAll(b)[k] = [val |-> b[i].val, exp |-> b[i].exp]  BY <2>1 DEF PutAll
    <3>4. QED  BY <3>2, <3>3 DEF Moved, ColdItem
  <2>2. CASE ~\E i \in DOMAIN b : LastOf(b, i, k)
    BY <2>2 DEF PutAll, ColdOK
  <2>3. QED  BY <2>1, <2>2
<1>2. QED  BY <1>1 DEF PutAll

\* The workers' steps.
LEMMA WorkerSteps ==
  ASSUME IInv, NEW w \in Workers, Worker(w)
  PROVE  TypesOK' /\ CallsOK'
<1> USE DEF IInv, TypeOK, TypesOK
<1>1. CASE Take(w)
  <2>1. batch[w] \in Seq(Moved) /\ flushCh \in Seq(Moved) /\ flushCh # <<>>
        /\ Len(batch[w]) < BatchMax /\ BatchMax \in Nat
    BY <1>1, CacheAssumptions DEF Take, ChanOK
  <2>2. Head(flushCh) \in Moved /\ Tail(flushCh) \in Seq(Moved) /\ Len(Tail(flushCh)) < Len(flushCh)
    BY <2>1
  <2>3. Append(batch[w], Head(flushCh)) \in Seq(Moved)
        /\ Len(Append(batch[w], Head(flushCh))) <= BatchMax
    BY <2>1, <2>2
  <2>4. batch' = [batch EXCEPT ![w] = Append(batch[w], Head(flushCh))] /\ flushCh' = Tail(flushCh)
        /\ wpc' = wpc
    BY <1>1 DEF Take
  <2>5. Len(flushCh') <= FlushCap
    <3>1. Len(flushCh) <= FlushCap /\ FlushCap \in Nat /\ Len(flushCh) \in Nat
      BY CacheAssumptions DEF ChanOK
    <3>2. Len(Tail(flushCh)) \in Nat  BY <2>2
    <3>3. QED  BY <2>2, <2>4, <3>1, <3>2
  <2>6. ChanOK'  BY <2>2, <2>3, <2>4, <2>5 DEF ChanOK
  <2>7. QED
    BY <1>1, <2>6, ClientsIdle DEF Take, ram, time, RamOK, ColdOK, JournalOK, TimeOK, JanOK
<1>2. CASE Drained(w)
  <2>1. ChanOK'  BY <1>2 DEF Drained, ChanOK
  <2>2. QED
    BY <1>2, <2>1, ClientsIdle DEF Drained, ram, time, RamOK, ColdOK, JournalOK, TimeOK, JanOK
<1>3. CASE PutBatch(w)
  <2>1. ColdOK'  BY <1>3, PutAllType DEF PutBatch, ChanOK, ColdOK
  <2>2. <<>> \in Seq(Moved) /\ Len(<<>>) <= BatchMax  BY CacheAssumptions
  <2>3. ChanOK'  BY <1>3, <2>2 DEF PutBatch, ChanOK
  <2>4. QED
    BY <1>3, <2>1, <2>3, ClientsIdle DEF PutBatch, ram, time, RamOK, JournalOK, TimeOK, JanOK
<1>4. QED  BY <1>1, <1>2, <1>3 DEF Worker

\* Time passes.
LEMMA ClockSteps ==
  ASSUME IInv, Tick \/ RefreshClock
  PROVE  TypesOK' /\ CallsOK'
<1> USE DEF IInv, TypeOK, TypesOK
<1>1. TimeOK'  BY DEF Tick, RefreshClock, TimeOK
<1>2. UNCHANGED <<ram, cold, chan, journal, jan, client>>  BY DEF Tick, RefreshClock
<1>3. QED
  BY <1>1, <1>2, ClientsIdle DEF ram, chan, RamOK, ColdOK, ChanOK, JournalOK, JanOK

-------------------------------------------------------------------------------
(* What a Rename keeps of an item that leaves the map *)

\* t goes to m, where its call is over or has the request it had.
Goes(t, m) == /\ pc' = [pc EXCEPT ![t] = m]
              /\ req' = req \/ (m = "idle" /\ req' = [req EXCEPT ![t] = None])

LEMMA WaysToGo ==
  ASSUME NEW t \in Threads
  PROVE  /\ Return(t) => Goes(t, "idle")
         /\ \A l, r : Move(t, l, r) => Goes(t, l)
         /\ \A l : Goto(t, l) => Goes(t, l)
BY DEF Return, Move, Goto, Goes

\* Every Rename that has found its item can still tell when it expires.
Holding == /\ OrphanOK'
           /\ \A u \in Threads : pc[u] = "readExp" /\ orphan'[u] = None => items'[req[u].key] # None

LEMMA Detaching ==
  ASSUME IInv, NEW D, Detach(D), \A k \in Keys \ D : Found(k) => items'[k] # None
  PROVE  /\ OrphanOK'
         /\ \A u \in Threads : pc[u] = "readExp" /\ orphan'[u] = None => items'[req[u].key] # None
<1>1. ASSUME NEW u \in Threads
      PROVE  /\ orphan'[u] \in Nat \cup {None}
             /\ pc[u] = "readExp" /\ orphan'[u] = None => items'[req[u].key] # None
  <2>1. orphan[u] \in Nat \cup {None}  BY DEF IInv, TypeOK, OrphanOK
  <2>2. CASE pc[u] = "readExp" /\ orphan[u] = None /\ req[u].key \in D /\ Found(req[u].key)
    <3>1. orphan'[u] = items[req[u].key].exp  BY <2>2 DEF Detach
    <3>2. req[u].key \in Keys
      <4>1. req[u].op = "RENAME"  BY <2>2, InCall DEF OpsAt
      <4>2. QED  BY <2>2, <4>1, InCall
    <3>3. orphan'[u] \in Nat  BY <2>2, <3>1, <3>2, FoundType DEF IInv, TypeOK
    <3>4. None \notin Nat  BY CacheAssumptions DEF Value
    <3>5. QED  BY <3>3, <3>4
  <2>3. CASE ~(pc[u] = "readExp" /\ orphan[u] = None /\ req[u].key \in D /\ Found(req[u].key))
    <3>1. orphan'[u] = orphan[u]  BY <2>3 DEF Detach
    <3>2. CASE pc[u] = "readExp" /\ orphan[u] = None
      <4>1. req[u].op = "RENAME"  BY <3>2, InCall DEF OpsAt
      <4>2. req[u].key \in Keys  BY <3>2, <4>1, InCall
      <4>3. Found(req[u].key)  BY <3>2 DEF IInv, HeldOK
      <4>4. req[u].key \notin D  BY <2>3, <3>2, <4>3
      <4>5. QED  BY <2>1, <3>1, <4>2, <4>3, <4>4
    <3>3. QED  BY <2>1, <3>1, <3>2
  <2>4. QED  BY <2>2, <2>3
<1>2. orphan' \in [Threads -> Nat \cup {None}]  BY <1>1 DEF Detach
<1>3. QED  BY <1>1, <1>2 DEF OrphanOK

LEMMA Removing ==
  ASSUME IInv, NEW D, items' = Removed(D), Detach(D)
  PROVE  Holding
<1>1. \A k \in Keys \ D : Found(k) => items'[k] # None  BY DEF Removed, Found
<1>2. QED  BY <1>1, Detaching DEF Holding, Found

LEMMA Attached ==
  ASSUME IInv, orphan' = orphan, \A k \in Keys : Found(k) => items'[k] # None
  PROVE  Holding
<1>1. ASSUME NEW u \in Threads, pc[u] = "readExp", orphan'[u] = None
      PROVE  items'[req[u].key] # None
  <2>1. req[u].op = "RENAME"  BY <1>1, InCall DEF OpsAt
  <2>2. req[u].key \in Keys  BY <1>1, <2>1, InCall
  <2>3. Found(req[u].key)  BY <1>1 DEF IInv, HeldOK
  <2>4. QED  BY <2>2, <2>3
<1>2. OrphanOK'  BY DEF IInv, TypeOK, OrphanOK
<1>3. QED  BY <1>1, <1>2 DEF Holding, Found

LEMMA Setting ==
  ASSUME IInv, NEW k, NEW i, SetItem(k, i), i # None
  PROVE  \A j \in Keys : Found(j) => items'[j] # None
BY DEF IInv, TypeOK, RamOK, SetItem, Found

\* t goes to a place that does not count
Passes(t) == \E m : pc' = [pc EXCEPT ![t] = m] /\ m \notin {"addKey", "subKey"}

LEMMA WaysToPass ==
  ASSUME NEW t \in Threads
  PROVE  /\ Return(t) => Passes(t)
         /\ \A l, r : l \notin {"addKey", "subKey"} /\ Move(t, l, r) => Passes(t)
         /\ \A l : l \notin {"addKey", "subKey"} /\ Goto(t, l) => Passes(t)
<1>1. ASSUME NEW l, l \notin {"addKey", "subKey"}, pc' = [pc EXCEPT ![t] = l] PROVE Passes(t)
  BY <1>1, Zenon DEF Passes
<1>2. QED  BY <1>1 DEF Return, Move, Goto

\* Where a lookup takes the call is not a place that counts.
LEMMA LookupMoves ==
  ASSUME NEW t \in Threads, NEW v, GetFound(t, v) \/ GetMissed(t)
  PROVE  Passes(t)
BY WaysToPass DEF GetFound, GetMissed

\* A write leaves an item under its key, or changes nothing.
LEMMA Rewriting ==
  ASSUME IInv, NEW t \in Threads,
         SetShard(t) \/ Promote(t) \/ IncrBy(t) \/ AppendVal(t) \/ Expire(t)
  PROVE  \/ /\ \E i \in Item : SetItem(req[t].key, i)
            /\ \E m : /\ pc' = [pc EXCEPT ![t] = m] /\ m # "subKey"
                      /\ ~Found(req[t].key) => m = "addKey"
         \/ items' = items /\ orphan' = orphan /\ Passes(t)
<1> USE DEF IInv, TypeOK
<1> DEFINE k == req[t].key
<1>1. /\ k \in Keys /\ pc[t] \notin {"addKey", "subKey"} /\ totalKeys' = totalKeys
      /\ RequestOK(t, req[t]) /\ LocalsOK(pc[t], req[t], loc[t]) /\ req[t].op \in OpsAt(pc[t])
  BY InCall DEF SetShard, Promote, IncrBy, AppendVal, Expire, OpsAt, Sets
<1>2. CASE SetShard(t)
  <2>1. NewItem(req[t].val, req[t].exp) \in Item
    BY <1>1, <1>2, NewItemType DEF SetShard, OpsAt, Sets, RequestOK
  <2>2. QED  BY <1>2, <2>1 DEF SetShard, Move, AfterRam
<1>3. CASE Promote(t)
  <2>1. NewItem(loc[t].val, 0) \in Item  BY <1>1, <1>3, NewItemType DEF Promote, LocalsOK
  <2>2. QED  BY <1>3, <2>1 DEF Promote, Goto, Move
<1>4. CASE IncrBy(t)
  <2> DEFINE delta == req[t].val
  <2>1. delta \in Nat  BY <1>1, <1>4 DEF IncrBy, OpsAt, RequestOK
  <2>2. CASE ~Live(k)
    <3>1. NewItem(delta, 0) \in Item  BY <2>1, NewItemType DEF Value
    <3>2. QED  BY <1>4, <2>2, <3>1 DEF IncrBy, Goto, Move
  <2>3. CASE Live(k) /\ items[k].val \in Nat
    <3>1. items[k] \in Item /\ Found(k)  BY <1>1, <2>3, FoundType DEF Live
    <3>2. items[k].val + delta \in Nat  BY ONLY <2>1, <2>3
    <3>3. [items[k] EXCEPT !.val = @ + delta, !.acc = clk] \in Item
      BY <3>1, <3>2 DEF Item, TimeOK, Value
    <3>4. QED  BY <1>4, <2>3, <3>1, <3>3 DEF IncrBy, Goto, Move
  <2>4. CASE Live(k) /\ items[k].val \notin Nat  BY <1>4, <2>4, WaysToPass DEF IncrBy
  <2>5. QED  BY <2>2, <2>3, <2>4
<1>5. CASE AppendVal(t)
  <2> DEFINE suffix == req[t].val
  <2>1. suffix \in Nat  BY <1>1, <1>5 DEF AppendVal, OpsAt, RequestOK
  <2>2. CASE Live(k)
    <3>1. items[k] \in Item /\ items[k].val \in Value /\ Found(k)
      BY <1>1, <2>2, FoundType DEF Live
    <3>2. Glue(items[k].val, suffix) \in Value  BY <2>1, <3>1, GlueType
    <3>3. [items[k] EXCEPT !.val = Glue(items[k].val, suffix), !.acc = clk] \in Item
      BY <3>1, <3>2 DEF Item, TimeOK
    <3>4. QED  BY <1>5, <2>2, <3>1, <3>3 DEF AppendVal, Goto, Move
  <2>3. CASE ~Live(k)
    <3>1. NewItem(suffix, 0) \in Item  BY <2>1, NewItemType DEF Value
    <3>2. QED  BY <1>5, <2>3, <3>1 DEF AppendVal, Move
  <2>4. QED  BY <2>2, <2>3
<1>6. CASE Expire(t)
  <2>1. CASE Live(k)
    <3>1. items[k] \in Item /\ Found(k)  BY <1>1, <2>1, FoundType DEF Live
    <3>2. [items[k] EXCEPT !.exp = req[t].exp] \in Item
      BY <1>1, <3>1 DEF Item, RequestOK
    <3>3. QED  BY <1>6, <2>1, <3>1, <3>2 DEF Expire, Return
  <2>2. CASE ~Live(k)  BY <1>6, <2>2, WaysToPass DEF Expire
  <2>3. QED  BY <2>1, <2>2
<1>7. QED  BY <1>2, <1>3, <1>4, <1>5, <1>6

LEMMA Written ==
  ASSUME IInv, NEW t \in Threads,
         SetShard(t) \/ Promote(t) \/ IncrBy(t) \/ AppendVal(t) \/ Expire(t)
  PROVE  Holding
<1> DEFINE k == req[t].key
<1>1. \A j \in Keys : Found(j) => items'[j] # None
  <2>1. CASE \E i \in Item : SetItem(k, i)
    <3>1. PICK i \in Item : SetItem(k, i)  BY <2>1
    <3>2. i # None  BY CacheAssumptions DEF Item
    <3>3. QED  BY <3>1, <3>2, Setting
  <2>2. CASE items' = items  BY <2>2 DEF Found
  <2>3. QED  BY <2>1, <2>2, Rewriting
<1>2. orphan' = orphan \/ Detach({k})
  BY DEF SetShard, Promote, IncrBy, AppendVal, Expire
<1>3. CASE orphan' = orphan  BY <1>1, <1>3, Attached
<1>4. CASE Detach({k})
  <2>1. \A j \in Keys \ {k} : Found(j) => items'[j] # None  BY <1>1
  <2>2. QED  BY <1>1, <1>4, <2>1, Detaching DEF Holding, Found
<1>5. QED  BY <1>2, <1>3, <1>4

\* t goes to a place where it reads nothing through a pointer.
GoesOn(t) == \E m : m # "readExp" /\ Goes(t, m)

LEMMA WaysToGoOn ==
  ASSUME NEW t \in Threads
  PROVE  /\ Return(t) => GoesOn(t)
         /\ \A l, r : l # "readExp" /\ Move(t, l, r) => GoesOn(t)
         /\ \A l : l # "readExp" /\ Goto(t, l) => GoesOn(t)
<1>1. ASSUME NEW l, l # "readExp", Goes(t, l) PROVE GoesOn(t)  BY <1>1, Zenon DEF GoesOn
<1>2. QED  BY <1>1, WaysToGo

LEMMA HoldsOn ==
  ASSUME IInv, NEW t \in Threads, Holding, GoesOn(t)
  PROVE  OrphanOK' /\ HeldOK'
<1>1. PICK m : m # "readExp" /\ Goes(t, m)  BY DEF GoesOn
<1>2. ASSUME NEW u \in Threads, pc'[u] = "readExp", orphan'[u] = None PROVE items'[req'[u].key] # None
  <2>1. pc \in [Threads -> ClientPcs] /\ DOMAIN req = Threads
    BY DEF IInv, TypeOK, ClientOK, CallsOK
  <2>2. u # t  BY <1>1, <1>2, <2>1 DEF Goes
  <2>3. pc[u] = "readExp" /\ req'[u] = req[u]  BY <1>1, <1>2, <2>1, <2>2 DEF Goes
  <2>4. QED  BY <1>2, <2>3 DEF Holding, Found
<1>3. QED  BY <1>2 DEF Holding, HeldOK, Found

LEMMA HeldByClients ==
  ASSUME IInv, NEW t \in Threads, ClientStep(t) \/ Call(t)
  PROVE  OrphanOK' /\ HeldOK'
<1> USE WaysToGoOn
<1>1. CASE CheckNX(t) \/ CheckExists(t) \/ CheckLimit(t) \/ Exists(t) \/ ExistsCold(t)
           \/ ColdPut(t) \/ ColdDelete(t) \/ Log(t) \/ ColdGet(t) \/ LogDel(t) \/ FlushAll(t)
           \/ ZeroKeys(t)
  <2>1. items' = items /\ orphan' = orphan
    BY <1>1 DEF CheckNX, CheckExists, CheckLimit, Exists, ExistsCold, ColdPut, ColdDelete, Log,
                ColdGet, LogDel, FlushAll, ZeroKeys, ram
  <2>2. GoesOn(t)
    BY <1>1 DEF CheckNX, CheckExists, CheckLimit, Exists, ExistsCold, ColdPut, ColdDelete, Log,
                ColdGet, LogDel, FlushAll, ZeroKeys, Room
  <2>3. QED  BY <2>1, <2>2, Attached, HoldsOn DEF Found
<1>2. CASE ScanShard(t)
  <2>1. PICK m \in {"scan", "set", "delVictim"} : \E r : Move(t, m, r)  BY <1>2 DEF ScanShard
  <2>2. GoesOn(t)  BY <2>1
  <2>3. items' = items /\ orphan' = orphan  BY <1>2 DEF ScanShard, ram
  <2>4. QED  BY <2>2, <2>3, Attached, HoldsOn DEF Found
<1>3. CASE AddKey(t)
  <2>1. req[t].op \in OpsAt("addKey")  BY <1>3, InCall DEF AddKey
  <2>2. AfterAdd(req[t].op) # "readExp"
    BY <2>1 DEF OpsAt, Sets, AfterAdd, AfterRam
  <2>3. GoesOn(t) /\ items' = items /\ orphan' = orphan  BY <1>3, <2>2 DEF AddKey
  <2>4. QED  BY <2>3, Attached, HoldsOn DEF Found
<1>4. CASE SubKey(t)
  <2>1. req[t].op \in OpsAt("subKey")  BY <1>4, InCall DEF SubKey
  <2>2. AfterSub(req[t].op) # "readExp"
    BY <2>1 DEF OpsAt, Sets, AfterSub, AfterRam
  <2>3. GoesOn(t) /\ items' = items /\ orphan' = orphan  BY <1>4, <2>2 DEF SubKey
  <2>4. QED  BY <2>3, Attached, HoldsOn DEF Found
<1>5. CASE SetShard(t) \/ Promote(t) \/ IncrBy(t) \/ AppendVal(t) \/ Expire(t)
  <2>1. GoesOn(t)
    BY <1>5 DEF SetShard, Promote, IncrBy, AppendVal, Expire, AfterRam
  <2>2. QED  BY <1>5, <2>1, Written, HoldsOn
<1>6. CASE GetShard(t) \/ GetExpired(t)
  <2> DEFINE k == req[t].key
  <2>1. k \in Keys  BY <1>6, InCall DEF GetShard, GetExpired, OpsAt
  <2>2. GoesOn(t)
    BY <1>6 DEF GetShard, GetExpired, GetFound, GetMissed
  <2>3. CASE Live(k) /\ Touch(k) /\ orphan' = orphan
    <3>1. items[k] \in Item /\ Found(k)
      BY <2>1, <2>3, FoundType DEF Live, IInv, TypeOK
    <3>2. [items[k] EXCEPT !.acc = clk] \in Item  BY <3>1 DEF Item, IInv, TypeOK, TimeOK
    <3>3. [items[k] EXCEPT !.acc = clk] # None  BY ONLY <3>2, CacheAssumptions DEF Item
    <3>4. QED  BY <2>2, <2>3, <3>3, Setting, Attached, HoldsOn DEF Touch
  <2>4. CASE items' = Removed({k}) /\ Detach({k})  BY <2>2, <2>4, Removing, HoldsOn
  <2>5. CASE items' = items /\ orphan' = orphan  BY <2>2, <2>5, Attached, HoldsOn DEF Found
  <2>6. QED  BY <1>6, <2>3, <2>4, <2>5 DEF GetShard, GetExpired, Live
<1>7. CASE DelVictim(t) \/ DelShard(t) \/ DelSrc(t) \/ ClearShard(t)
  <2>1. GoesOn(t)  BY <1>7 DEF DelVictim, DelShard, DelSrc, ClearShard, AfterRam
  <2>2. \E D : items' = Removed(D) /\ Detach(D)
    BY <1>7 DEF DelVictim, DelShard, DelSrc, ClearShard
  <2>3. QED  BY <2>1, <2>2, Removing, HoldsOn
<1>8. CASE SetDst(t)
  <2>1. req[t].op = "RENAME" /\ req[t].dst \in Keys /\ loc[t].val \in Value /\ loc[t].exp \in Nat
    BY <1>8, InCall DEF SetDst, OpsAt, LocalsOK, Locals
  <2>2. NewItem(loc[t].val, loc[t].exp) \in Item  BY <2>1, NewItemType DEF IInv, TypeOK
  <2>3. NewItem(loc[t].val, loc[t].exp) # None  BY ONLY <2>2, CacheAssumptions DEF Item
  <2>4. \A j \in Keys : Found(j) => items'[j] # None  BY <1>8, <2>3, Setting DEF SetDst
  <2>5. GoesOn(t) /\ orphan' = orphan  BY <1>8 DEF SetDst
  <2>6. QED  BY <2>4, <2>5, Attached, HoldsOn
<1>9. CASE GetItem(t) \/ ReadExp(t) \/ Call(t)
  <2>1. ASSUME NEW u \in Threads
        PROVE  /\ orphan'[u] \in Nat \cup {None}
               /\ pc'[u] = "readExp" /\ orphan'[u] = None => items'[req'[u].key] # None
    <3>1. items' = items /\ pc \in [Threads -> ClientPcs] /\ DOMAIN req = Threads
      BY <1>9 DEF GetItem, ReadExp, Call, ram, IInv, TypeOK, ClientOK, CallsOK
    <3>2. orphan \in [Threads -> Nat \cup {None}]  BY DEF IInv, TypeOK, OrphanOK
    <3>3. orphan'[u] = orphan[u] \/ orphan'[u] = None
      BY <1>9, <3>2 DEF GetItem, ReadExp, Call, ram
    <3>4. CASE u = t
      <4>1. CASE pc'[u] = "readExp"
        <5>1. ~ReadExp(t)  BY <3>1, <3>4, <4>1 DEF ReadExp, Move
        <5>2. ~Call(t)
          <6>1. SUFFICES ASSUME Call(t) PROVE FALSE  OBVIOUS
          <6>2. PICK r \in RequestsOf(t) : pc' = [pc EXCEPT ![t] = Entry[r.op]]
            BY <6>1 DEF Call
          <6>3. r.op \in OpNames
            <7>1. RequestOK(t, r)  BY RequestsType DEF IInv, TypeOK
            <7>2. QED  BY <7>1, CacheAssumptions DEF RequestOK
          <6>4. Entry[r.op] # "readExp"  BY <6>3 DEF OpNames, Entry, Room
          <6>5. QED  BY <3>1, <3>4, <4>1, <6>2, <6>4
        <5>3. GetItem(t)  BY <1>9, <5>1, <5>2
        <5>4. Live(req[t].key)
          BY <3>1, <3>4, <4>1, <5>3 DEF GetItem, Return
        <5>5. req' = req  BY <5>3, <5>4 DEF GetItem, Move
        <5>6. QED  BY <3>1, <3>2, <3>3, <3>4, <5>4, <5>5 DEF Live, Found
      <4>2. QED  BY <3>2, <3>3, <4>1
    <3>5. CASE u # t
      <4>1. pc'[u] = pc[u] /\ req'[u] = req[u] /\ orphan'[u] = orphan[u]
        BY <1>9, <3>1, <3>2, <3>5 DEF GetItem, ReadExp, Call, Move, Return, ram
      <4>2. QED  BY <3>1, <3>2, <4>1 DEF IInv, HeldOK, Found
    <3>6. QED  BY <3>4, <3>5
  <2>2. orphan' \in [Threads -> Nat \cup {None}]
    <3>1. orphan' = orphan \/ orphan' = [orphan EXCEPT ![t] = None]
      BY <1>9 DEF GetItem, ReadExp, Call, ram
    <3>2. QED  BY <3>1 DEF IInv, TypeOK, OrphanOK
  <2>3. QED  BY <2>1, <2>2 DEF OrphanOK, HeldOK, Found
<1>10. QED
  BY <1>1, <1>2, <1>3, <1>4, <1>5, <1>6, <1>7, <1>8, <1>9 DEF ClientStep

LEMMA HeldByOthers ==
  ASSUME IInv,
         \/ \E task \in Tickers : JanitorTick(task)
         \/ JanitorShard \/ (\E w \in Workers : Worker(w)) \/ Tick \/ RefreshClock
         \/ UNCHANGED vars
  PROVE  OrphanOK' /\ HeldOK'
<1>1. pc' = pc /\ req' = req
  BY DEF JanitorTick, JanitorShard, ExpireByTTL, EvictCold, Worker, Take, Drained, PutBatch,
         Tick, RefreshClock, vars, client
<1>2. Holding
  <2>1. CASE ExpireByTTL
    <3>1. PICK D \in Samples(MaxPerShard, Due(jan.sh)) : items' = Removed(D) /\ Detach(D)
      BY <2>1 DEF ExpireByTTL
    <3>2. QED  BY <3>1, Removing
  <2>2. CASE EvictCold
    <3>1. \E D, S : items' = Removed(S) /\ Detach(S)  BY <2>2 DEF EvictCold
    <3>2. QED  BY <3>1, Removing
  <2>3. CASE ~JanitorShard
    <3>1. items' = items /\ orphan' = orphan
      BY <2>3 DEF JanitorTick, Worker, Take, Drained, PutBatch, Tick, RefreshClock, vars, ram
    <3>2. QED  BY <3>1, Attached DEF Found
  <2>4. QED  BY <2>1, <2>2, <2>3 DEF JanitorShard
<1>3. QED  BY <1>1, <1>2 DEF Holding, HeldOK, Found

-------------------------------------------------------------------------------
(* Type correctness *)

LEMMA Initial == Init => IInv
<1> SUFFICES ASSUME Init PROVE IInv  OBVIOUS
<1>1. /\ NumShards \in Nat \ {0} /\ FlushCap \in Nat /\ BatchMax \in Nat /\ MaxOps \in Nat
  BY CacheAssumptions
<1>2. RamOK /\ ColdOK /\ JournalOK /\ TimeOK
  BY DEF Init, RamOK, ColdOK, JournalOK, TimeOK
<1>3. ChanOK  BY <1>1 DEF Init, ChanOK
<1>4. JanOK  BY <1>1 DEF Init, JanOK
<1>5. ClientOK  BY <1>1, ScratchType DEF Init, ClientOK, ClientPcs
<1>6. CallsOK  BY DEF Init, CallsOK, ScratchOK, CallOK
<1>7. OrphanOK /\ HeldOK  BY DEF Init, OrphanOK, HeldOK
<1>8. QED  BY <1>2, <1>3, <1>4, <1>5, <1>6, <1>7 DEF IInv, TypeOK

LEMMA Stuttering == IInv /\ UNCHANGED vars => TypesOK' /\ CallsOK'
<1> SUFFICES ASSUME IInv, UNCHANGED vars PROVE TypesOK' /\ CallsOK'  OBVIOUS
<1>1. UNCHANGED client  BY DEF vars, client
<1>2. QED
  BY <1>1, ClientsIdle
  DEF vars, IInv, TypeOK, TypesOK, RamOK, ColdOK, ChanOK, JournalOK, TimeOK, JanOK

LEMMA Inductive == IInv /\ [Next]_vars => IInv'
<1> SUFFICES ASSUME IInv, [Next]_vars PROVE TypesOK' /\ CallsOK'
  <2>1. ASSUME IInv, [Next]_vars PROVE OrphanOK' /\ HeldOK'
    BY <2>1, HeldByClients, HeldByOthers DEF Next
  <2>2. QED  BY <2>1 DEF IInv, TypeOK, TypesOK
<1>1. ASSUME NEW t \in Threads, Call(t) PROVE TypesOK' /\ CallsOK'  BY <1>1, CallStep
<1>2. ASSUME NEW t \in Threads, ClientStep(t) PROVE TypesOK' /\ CallsOK'
  BY <1>2, ControlSteps, SetSteps, GetSteps, WriteSteps, RenameSteps, FlushSteps DEF ClientStep
<1>3. CASE JanitorShard \/ \E task \in Tickers : JanitorTick(task)  BY <1>3, JanitorSteps
<1>4. ASSUME NEW w \in Workers, Worker(w) PROVE TypesOK' /\ CallsOK'  BY <1>4, WorkerSteps
<1>5. CASE Tick \/ RefreshClock  BY <1>5, ClockSteps
<1>6. CASE UNCHANGED vars  BY <1>6, Stuttering
<1>7. QED  BY <1>1, <1>2, <1>3, <1>4, <1>5, <1>6 DEF Next

\* Whatever the clients call, in whatever order their steps, the janitor's and
\* the workers' come, the maps hold items, the channel and every batch stay
\* within their capacities, and every call is at a place its operation has.
THEOREM TypeCorrect == Spec => []TypeOK
<1>1. IInv => TypeOK  BY DEF IInv
<1>2. QED  BY Initial, Inductive, <1>1, PTL DEF Spec

-------------------------------------------------------------------------------
(* The counter.  CountKeys never reports fewer keys than RAM holds, for    *)
(* any number of clients, keys, shards and workers, as long as nobody      *)
(* calls RENAME or FLUSHDB: the one counts a key down that may already be  *)
(* gone, the other sets the counter to zero while sets are under way.  The *)
(* argument is a balance.  Every step that makes a key appear leaves its   *)
(* thread at the step that counts it up, and a thread gets to the step     *)
(* that counts down only if it has taken a key away.                       *)

NoRenameNoFlush == \A t \in Threads : Ops[t] \cap {"RENAME", "FLUSHDB"} = {}

\* 1 if a thread at l is at m
Is(l, m) == IF l = m THEN 1 ELSE 0

LEMMA Finite ==
  ASSUME NEW l
  PROVE  /\ Cardinality(At(l)) \in Nat /\ IsFiniteSet(At(l))
         /\ Cardinality(RamKeys) \in Nat /\ IsFiniteSet(RamKeys)
<1>1. At(l) \subseteq Threads /\ RamKeys \subseteq Keys  BY DEF At, RamKeys
<1>2. IsFiniteSet(At(l)) /\ IsFiniteSet(RamKeys)  BY <1>1, FS_Subset, CacheAssumptions
<1>3. QED  BY <1>2, FS_CardinalityType

\* How many threads are at l after t has gone to m.
LEMMA AtMoves ==
  ASSUME ClientOK, NEW t \in Threads, NEW m, NEW l, pc' = [pc EXCEPT ![t] = m]
  PROVE  Cardinality(At(l)') = Cardinality(At(l)) + Is(m, l) - Is(pc[t], l)
<1>1. IsFiniteSet(At(l)) /\ Cardinality(At(l)) \in Nat  BY Finite
<1>2. CASE m = l /\ pc[t] # l
  <2>1. At(l)' = At(l) \cup {t} /\ t \notin At(l)  BY <1>2 DEF At, ClientOK
  <2>2. QED  BY <1>1, <1>2, <2>1, FS_AddElement DEF Is
<1>3. CASE m # l /\ pc[t] = l
  <2>1. At(l)' = At(l) \ {t} /\ t \in At(l)  BY <1>3 DEF At, ClientOK
  <2>2. QED  BY <1>1, <1>3, <2>1, FS_RemoveElement DEF Is
<1>4. CASE (m = l) = (pc[t] = l)
  <2>1. At(l)' = At(l)  BY <1>4 DEF At, ClientOK
  <2>2. QED  BY <1>1, <1>4, <2>1 DEF Is
<1>5. QED  BY <1>2, <1>3, <1>4

\* How many keys RAM holds after one has been written or some are removed.
LEMMA SetItemCounts ==
  ASSUME RamOK, NEW k \in Keys, NEW i \in Item, SetItem(k, i)
  PROVE  /\ Found(k) => Cardinality(RamKeys') = Cardinality(RamKeys)
         /\ ~Found(k) => Cardinality(RamKeys') = Cardinality(RamKeys) + 1
         /\ Cardinality(RamKeys') <= Cardinality(RamKeys) + 1
<1>1. IsFiniteSet(RamKeys) /\ Cardinality(RamKeys) \in Nat  BY Finite
<1>2. i # None  BY CacheAssumptions DEF Item
<1>3. RamKeys' = RamKeys \cup {k}  BY <1>2 DEF RamOK, SetItem, RamKeys, Found
<1>4. CASE k \in RamKeys
  <2>1. RamKeys' = RamKeys /\ Found(k)  BY <1>3, <1>4 DEF RamKeys
  <2>2. QED  BY <1>1, <2>1
<1>5. CASE k \notin RamKeys
  <2>1. Cardinality(RamKeys') = Cardinality(RamKeys) + 1  BY <1>1, <1>3, <1>5, FS_AddElement
  <2>2. ~Found(k)  BY <1>5 DEF RamKeys
  <2>3. QED  BY <1>1, <2>1, <2>2
<1>6. QED  BY <1>4, <1>5

LEMMA RemovedCounts ==
  ASSUME RamOK, NEW D \in SUBSET RamKeys, items' = Removed(D)
  PROVE  Cardinality(RamKeys') = Cardinality(RamKeys) - Cardinality(D)
<1>1. IsFiniteSet(RamKeys) /\ Cardinality(RamKeys) \in Nat  BY Finite
<1>2. IsFiniteSet(D) /\ Cardinality(D) \in Nat  BY <1>1, FS_Subset, FS_CardinalityType
<1>3. RamKeys' = RamKeys \ D  BY DEF RamOK, Removed, RamKeys, Found
<1>4. RamKeys \cap D = D  OBVIOUS
<1>5. Cardinality(RamKeys \ D) = Cardinality(RamKeys) - Cardinality(RamKeys \cap D)
  BY <1>1, FS_Difference
<1>6. QED  BY <1>3, <1>4, <1>5

LEMMA RemovedOneCounts ==
  ASSUME RamOK, NEW k \in Keys, items' = Removed({k})
  PROVE  Cardinality(RamKeys') = IF Found(k) THEN Cardinality(RamKeys) - 1
                                 ELSE Cardinality(RamKeys)
<1>1. CASE Found(k)
  <2>1. {k} \in SUBSET RamKeys  BY <1>1 DEF RamKeys
  <2>2. Cardinality({k}) = 1  BY FS_Singleton
  <2>3. QED  BY <1>1, <2>1, <2>2, RemovedCounts
<1>2. CASE ~Found(k)
  <2>1. RamKeys' = RamKeys  BY <1>2 DEF RamOK, Removed, RamKeys, Found
  <2>2. QED  BY <1>2, <2>1
<1>3. QED  BY <1>1, <1>2

\* The balance of one step of thread t, which goes to m and adds at most r keys
\* and exactly d to the counter.
LEMMA Balance ==
  ASSUME RamOK, ClientOK, CountCoversKeys, NEW t \in Threads, NEW m,
         pc' = [pc EXCEPT ![t] = m],
         NEW r \in Int, NEW d \in Int,
         Cardinality(RamKeys') <= Cardinality(RamKeys) + r,
         totalKeys' = totalKeys + d,
         r + Is(m, "subKey") - Is(pc[t], "subKey") <= d + Is(m, "addKey") - Is(pc[t], "addKey")
  PROVE  CountCoversKeys'
<1> DEFINE R1 == Cardinality(RamKeys)
           R2 == Cardinality(RamKeys')
           A1 == Cardinality(At("addKey"))
           A2 == Cardinality(At("addKey")')
           S1 == Cardinality(At("subKey"))
           S2 == Cardinality(At("subKey")')
<1>1. /\ A2 = A1 + Is(m, "addKey") - Is(pc[t], "addKey")
      /\ S2 = S1 + Is(m, "subKey") - Is(pc[t], "subKey")
  BY AtMoves
<1>2. R1 \in Nat /\ A1 \in Nat /\ S1 \in Nat /\ totalKeys \in Int  BY Finite DEF RamOK
<1>3. \A a, b : Is(a, b) \in Int  BY DEF Is
<1>4. R2 \in Nat
  <2>1. IsFiniteSet(RamKeys')
    <3>1. RamKeys' \subseteq Keys  BY DEF RamKeys
    <3>2. QED  BY <3>1, FS_Subset, CacheAssumptions
  <2>2. QED  BY <2>1, FS_CardinalityType
<1>5. R1 + S1 <= totalKeys + A1  BY DEF CountCoversKeys
<1>6. R2 <= R1 + r  OBVIOUS
<1>7. R2 + S2 <= totalKeys' + A2
  <2> HIDE DEF R1, R2, A1, A2, S1, S2
  <2>1. /\ Is(m, "subKey") \in Int /\ Is(pc[t], "subKey") \in Int
        /\ Is(m, "addKey") \in Int /\ Is(pc[t], "addKey") \in Int
    BY <1>3
  <2>2. QED  BY <1>1, <1>2, <1>4, <1>5, <1>6, <2>1
<1>8. QED  BY <1>7 DEF CountCoversKeys

\* A step of t that leaves RAM and the counter alone and has nothing to do with
\* counting.
LEMMA Elsewhere ==
  ASSUME RamOK, ClientOK, CountCoversKeys, NEW t \in Threads, NEW m, pc' = [pc EXCEPT ![t] = m],
         UNCHANGED <<items, totalKeys>>,
         m \notin {"addKey", "subKey"}, pc[t] \notin {"addKey", "subKey"}
  PROVE  CountCoversKeys'
<1>1. items' = items /\ totalKeys' = totalKeys /\ totalKeys \in Int  BY DEF RamOK
<1>2. Cardinality(RamKeys') <= Cardinality(RamKeys) + 0 /\ totalKeys' = totalKeys + 0
  BY <1>1, Finite DEF RamKeys, Found
<1>3. 0 + Is(m, "subKey") - Is(pc[t], "subKey") <= 0 + Is(m, "addKey") - Is(pc[t], "addKey")
  BY DEF Is
<1>4. 0 \in Int  OBVIOUS
<1>5. QED  BY <1>2, <1>3, <1>4, Balance

\* A step of t that writes an item: it may appear, and is then counted or
\* already was.
LEMMA Writes ==
  ASSUME RamOK, ClientOK, CountCoversKeys, NEW t \in Threads, NEW m, pc' = [pc EXCEPT ![t] = m],
         NEW k \in Keys, NEW i \in Item, SetItem(k, i), totalKeys' = totalKeys,
         m # "subKey", ~Found(k) => m = "addKey", pc[t] \notin {"addKey", "subKey"}
  PROVE  CountCoversKeys'
<1>1. totalKeys' = totalKeys + 0 /\ Cardinality(RamKeys) \in Nat /\ 0 \in Int /\ 1 \in Int
  BY Finite DEF RamOK
<1>2. CASE m = "addKey"
  <2>1. Cardinality(RamKeys') <= Cardinality(RamKeys) + 1  BY SetItemCounts
  <2>2. 1 + Is(m, "subKey") - Is(pc[t], "subKey") <= 0 + Is(m, "addKey") - Is(pc[t], "addKey")
    BY <1>2 DEF Is
  <2>3. QED  BY <1>1, <2>1, <2>2, Balance
<1>3. CASE m # "addKey"
  <2>1. Cardinality(RamKeys') <= Cardinality(RamKeys) + 0  BY <1>1, <1>3, SetItemCounts
  <2>2. 0 + Is(m, "subKey") - Is(pc[t], "subKey") <= 0 + Is(m, "addKey") - Is(pc[t], "addKey")
    BY <1>3 DEF Is
  <2>3. QED  BY <1>1, <2>1, <2>2, Balance
<1>4. QED  BY <1>2, <1>3

\* A step of t that removes an item, and goes to count it down only if it was there.
LEMMA Removes ==
  ASSUME RamOK, ClientOK, CountCoversKeys, NEW t \in Threads, NEW m, pc' = [pc EXCEPT ![t] = m],
         NEW k \in Keys, items' = Removed({k}), totalKeys' = totalKeys,
         m # "addKey", ~Found(k) => m # "subKey", pc[t] \notin {"addKey", "subKey"}
  PROVE  CountCoversKeys'
<1>1. totalKeys' = totalKeys + 0 /\ Cardinality(RamKeys) \in Nat /\ 0 \in Int /\ -1 \in Int
  BY Finite DEF RamOK
<1>2. CASE Found(k)
  <2>1. Cardinality(RamKeys') <= Cardinality(RamKeys) + (-1)
    BY <1>1, <1>2, RemovedOneCounts
  <2>2. -1 + Is(m, "subKey") - Is(pc[t], "subKey") <= 0 + Is(m, "addKey") - Is(pc[t], "addKey")
    BY DEF Is
  <2>3. QED  BY <1>1, <2>1, <2>2, Balance
<1>3. CASE ~Found(k)
  <2>1. Cardinality(RamKeys') <= Cardinality(RamKeys) + 0
    BY <1>1, <1>3, RemovedOneCounts
  <2>2. 0 + Is(m, "subKey") - Is(pc[t], "subKey") <= 0 + Is(m, "addKey") - Is(pc[t], "addKey")
    BY <1>3 DEF Is
  <2>3. QED  BY <1>1, <2>1, <2>2, Balance
<1>4. QED  BY <1>2, <1>3

-------------------------------------------------------------------------------
(* The steps, by what they do to RAM *)

LEMMA CountPassing ==
  ASSUME IInv, CountCoversKeys, NEW t \in Threads,
         \/ Call(t) \/ CheckNX(t) \/ CheckExists(t) \/ CheckLimit(t) \/ ScanShard(t) \/ ColdPut(t)
         \/ ColdDelete(t) \/ Log(t) \/ Exists(t) \/ ExistsCold(t) \/ ColdGet(t)
  PROVE  CountCoversKeys'
<1> USE DEF IInv, TypeOK
<1>1. CASE Call(t)
  <2>1. PICK r \in RequestsOf(t) : pc' = [pc EXCEPT ![t] = Entry[r.op]]  BY <1>1 DEF Call
  <2>2. r.op \in OpsAt(Entry[r.op]) /\ RequestOK(t, r)  BY RequestsType
  <2>3. r.op \in OpNames  BY <2>2, CacheAssumptions DEF RequestOK
  <2>4. Entry[r.op] \notin {"addKey", "subKey"}  BY <2>3 DEF OpNames, Entry, Room
  <2>5. QED  BY <1>1, <2>1, <2>4, Elsewhere DEF Call, ram
<1>2. CASE ~Call(t)
  <2>1. Passes(t)
    <3>1. CASE CheckNX(t)  BY <3>1, WaysToPass DEF CheckNX, Room
    <3>2. CASE CheckExists(t) \/ CheckLimit(t)
      BY <3>2, WaysToPass DEF CheckExists, CheckLimit
    <3>3. CASE ScanShard(t)
      <4>1. PICK m \in {"scan", "set", "delVictim"} : \E r : Move(t, m, r)
        BY <3>3 DEF ScanShard
      <4>2. QED  BY <4>1, WaysToPass
    <3>4. CASE ColdPut(t) \/ ColdDelete(t) \/ Log(t)
      BY <3>4, WaysToPass DEF ColdPut, ColdDelete, Log
    <3>5. CASE Exists(t) \/ ExistsCold(t)
      BY <3>5, WaysToPass DEF Exists, ExistsCold
    <3>6. CASE ColdGet(t)  BY <3>6, WaysToPass DEF ColdGet
    <3>7. QED  BY <1>2, <3>1, <3>2, <3>3, <3>4, <3>5, <3>6
  <2>2. UNCHANGED ram /\ pc[t] \notin {"addKey", "subKey"}
    BY <1>2 DEF CheckNX, CheckExists, CheckLimit, ScanShard, ColdPut, ColdDelete, Log, Exists,
                ExistsCold, ColdGet
  <2>3. QED  BY <2>1, <2>2, Elsewhere DEF Passes, ram
<1>3. QED  BY <1>1, <1>2

LEMMA CountCounting ==
  ASSUME IInv, CountCoversKeys, NEW t \in Threads, AddKey(t) \/ SubKey(t)
  PROVE  CountCoversKeys'
<1> USE DEF IInv, TypeOK
<1>1. Cardinality(RamKeys') <= Cardinality(RamKeys) + 0
  <2>1. RamKeys' = RamKeys  BY DEF AddKey, SubKey, RamKeys, Found
  <2>2. QED  BY <2>1, Finite
<1>2. CASE AddKey(t)
  <2>1. AfterAdd(req[t].op) \notin {"addKey", "subKey"}
    BY <1>2, InCall, AfterAddOps DEF AddKey
  <2>2. 0 + Is(AfterAdd(req[t].op), "subKey") - Is(pc[t], "subKey")
          <= 1 + Is(AfterAdd(req[t].op), "addKey") - Is(pc[t], "addKey")
    BY <1>2, <2>1 DEF AddKey, Is
  <2>3. pc' = [pc EXCEPT ![t] = AfterAdd(req[t].op)] /\ totalKeys' = totalKeys + 1
    BY <1>2 DEF AddKey, Goto, Move
  <2>4. 0 \in Int /\ 1 \in Int  OBVIOUS
  <2>5. QED  BY <1>1, <2>2, <2>3, <2>4, Balance
<1>3. CASE SubKey(t)
  <2>1. AfterSub(req[t].op) \notin {"addKey", "subKey"}
    BY <1>3, InCall, AfterSubOps DEF SubKey
  <2>2. 0 + Is(AfterSub(req[t].op), "subKey") - Is(pc[t], "subKey")
          <= -1 + Is(AfterSub(req[t].op), "addKey") - Is(pc[t], "addKey")
    BY <1>3, <2>1 DEF SubKey, Is
  <2>3. pc' = [pc EXCEPT ![t] = AfterSub(req[t].op)] /\ totalKeys' = totalKeys + (-1)
    BY <1>3 DEF SubKey, Goto, Move, RamOK
  <2>4. 0 \in Int /\ -1 \in Int  OBVIOUS
  <2>5. QED  BY <1>1, <2>2, <2>3, <2>4, Balance
<1>4. QED  BY <1>2, <1>3

LEMMA CountLookup ==
  ASSUME IInv, CountCoversKeys, NEW t \in Threads, GetShard(t) \/ GetExpired(t)
  PROVE  CountCoversKeys'
<1> USE DEF IInv, TypeOK
<1> DEFINE k == req[t].key
<1>1. k \in Keys /\ pc[t] \notin {"addKey", "subKey"} /\ totalKeys' = totalKeys
  BY InCall DEF GetShard, GetExpired, OpsAt
<1>2. CASE Live(k) /\ GetFound(t, items[k].val) /\ Touch(k)
  <2>1. items[k] \in Item /\ Found(k)  BY <1>1, <1>2, FoundType DEF Live
  <2>2. [items[k] EXCEPT !.acc = clk] \in Item  BY <2>1 DEF Item, TimeOK
  <2>3. SetItem(k, [items[k] EXCEPT !.acc = clk])  BY <1>2 DEF Touch
  <2>4. PICK m : pc' = [pc EXCEPT ![t] = m] /\ m \notin {"addKey", "subKey"}
    BY <1>2, LookupMoves DEF Passes
  <2>5. QED  BY <1>1, <2>1, <2>2, <2>3, <2>4, Writes
<1>3. CASE GetMissed(t) /\ items' = Removed({k})
  <2>1. PICK m : pc' = [pc EXCEPT ![t] = m] /\ m \notin {"addKey", "subKey"}
    BY <1>3, LookupMoves DEF Passes
  <2>2. QED  BY <1>1, <1>3, <2>1, Removes
<1>4. CASE (GetMissed(t) \/ Goto(t, "getExpired")) /\ items' = items
  <2>1. PICK m : pc' = [pc EXCEPT ![t] = m] /\ m \notin {"addKey", "subKey"}
    BY <1>4, LookupMoves, WaysToPass DEF Passes
  <2>2. QED  BY <1>1, <1>4, <2>1, Elsewhere
<1>5. QED  BY <1>2, <1>3, <1>4 DEF GetShard, GetExpired, Live

LEMMA CountRemoving ==
  ASSUME IInv, CountCoversKeys, NEW t \in Threads, DelVictim(t) \/ DelShard(t)
  PROVE  CountCoversKeys'
<1> USE DEF IInv, TypeOK
<1>1. CASE DelVictim(t)
  <2>1. loc[t].vic \in Keys
    BY <1>1, InCall DEF DelVictim, LocalsOK, Locals
  <2>2. PICK m \in {"subKey", "set"} :
               pc' = [pc EXCEPT ![t] = m] /\ (~Found(loc[t].vic) => m = "set")
    BY <1>1 DEF DelVictim, Goto, Move
  <2>3. QED  BY <1>1, <2>1, <2>2, Removes DEF DelVictim
<1>2. CASE DelShard(t)
  <2>1. req[t].key \in Keys  BY <1>2, InCall DEF DelShard, OpsAt
  <2>2. PICK m \in {"subKey", "coldDelete", "log"} :
               pc' = [pc EXCEPT ![t] = m] /\ (~Found(req[t].key) => m # "subKey")
    BY <1>2 DEF DelShard, Goto, Move, AfterRam
  <2>3. QED  BY <1>2, <2>1, <2>2, Removes DEF DelShard
<1>3. QED  BY <1>1, <1>2

LEMMA CountWriting ==
  ASSUME IInv, CountCoversKeys, NEW t \in Threads,
         SetShard(t) \/ Promote(t) \/ IncrBy(t) \/ AppendVal(t) \/ Expire(t)
  PROVE  CountCoversKeys'
<1> USE DEF IInv, TypeOK
<1> DEFINE k == req[t].key
<1>1. k \in Keys /\ pc[t] \notin {"addKey", "subKey"} /\ totalKeys' = totalKeys
  BY InCall DEF SetShard, Promote, IncrBy, AppendVal, Expire, OpsAt, Sets
<1>2. QED  BY <1>1, Rewriting, Writes, Elsewhere DEF ram, Passes

\* What only RENAME and FLUSHDB do is not done.
LEMMA NotTaken ==
  ASSUME IInv, NoRenameNoFlush, NEW t \in Threads
  PROVE  ~(\/ GetItem(t) \/ ReadExp(t) \/ DelSrc(t) \/ SetDst(t) \/ LogDel(t)
           \/ ClearShard(t) \/ ZeroKeys(t) \/ FlushAll(t))
<1> SUFFICES ASSUME pc[t] \in {"getItem", "readExp", "delSrc", "setDst", "logDel",
                               "clear", "zero", "flushAll"}
             PROVE  FALSE
  BY DEF GetItem, ReadExp, DelSrc, SetDst, LogDel, ClearShard, ZeroKeys, FlushAll
<1>1. req[t].op \in Ops[t] /\ req[t].op \in OpsAt(pc[t])  BY InCall DEF RequestOK
<1>2. req[t].op \in {"RENAME", "FLUSHDB"}  BY <1>1 DEF OpsAt
<1>3. QED  BY <1>1, <1>2 DEF NoRenameNoFlush

\* The janitor takes keys away and counts them down in one critical section.
LEMMA JanitorRemoves ==
  ASSUME JanitorShard
  PROVE  \E D \in SUBSET RamKeys :
           items' = Removed(D) /\ totalKeys' = totalKeys - Cardinality(D)
<1>1. CASE ExpireByTTL
  <2>1. PICK D \in Samples(MaxPerShard, Due(jan.sh)) :
               items' = Removed(D) /\ totalKeys' = totalKeys - Cardinality(D)
    BY <1>1 DEF ExpireByTTL
  <2>2. D \in SUBSET RamKeys  BY DEF Samples, Due, Shard, RamKeys
  <2>3. QED  BY <2>1, <2>2
<1>2. CASE EvictCold
  <2> DEFINE n == FlushCap - Len(flushCh)
             Leaves(S) == items' = Removed(S) /\ totalKeys' = totalKeys - Cardinality(S)
  <2>1. PICK D \in Samples(SampleSize, Shard(jan.sh)) : \E S \in Samples(n, Idle(D)) : Leaves(S)
    BY <1>2 DEF EvictCold
  <2>2. PICK S \in Samples(n, Idle(D)) : Leaves(S)  BY <2>1
  <2>3. S \in SUBSET RamKeys  BY DEF Samples, Idle, Shard, RamKeys
  <2>4. QED  BY <2>2, <2>3
<1>3. QED  BY <1>1, <1>2 DEF JanitorShard

LEMMA CountJanitor ==
  ASSUME IInv, CountCoversKeys, JanitorShard
  PROVE  CountCoversKeys'
<1> USE DEF IInv, TypeOK
<1>1. PICK D \in SUBSET RamKeys : items' = Removed(D) /\ totalKeys' = totalKeys - Cardinality(D)
  BY JanitorRemoves
<1> DEFINE R1 == Cardinality(RamKeys)
           R2 == Cardinality(RamKeys')
           A1 == Cardinality(At("addKey"))
           S1 == Cardinality(At("subKey"))
           d == Cardinality(D)
<1>2. R2 = R1 - d  BY <1>1, RemovedCounts
<1>3. R1 \in Nat /\ A1 \in Nat /\ S1 \in Nat /\ totalKeys \in Int  BY Finite DEF RamOK
<1>4. d \in Nat
  <2>1. IsFiniteSet(RamKeys)  BY Finite
  <2>2. QED  BY <2>1, FS_Subset, FS_CardinalityType
<1>5. UNCHANGED pc  BY DEF JanitorShard, ExpireByTTL, EvictCold, client
<1>6. At("addKey")' = At("addKey") /\ At("subKey")' = At("subKey")  BY <1>5 DEF At
<1>7. R1 + S1 <= totalKeys + A1  BY DEF CountCoversKeys
<1>8. R2 + S1 <= totalKeys - d + A1
  <2> HIDE DEF R1, R2, A1, S1, d
  <2>1. QED  BY <1>2, <1>3, <1>4, <1>7
<1>9. QED  BY <1>1, <1>6, <1>8 DEF CountCoversKeys

\* What changes neither RAM nor the counter nor where the clients are.
LEMMA CountUntouched ==
  ASSUME CountCoversKeys, UNCHANGED <<items, totalKeys, pc>>
  PROVE  CountCoversKeys'
<1>1. RamKeys' = RamKeys /\ At("addKey")' = At("addKey") /\ At("subKey")' = At("subKey")
  BY DEF RamKeys, Found, At
<1>2. QED  BY <1>1 DEF CountCoversKeys

-------------------------------------------------------------------------------
LEMMA CountInitially == Init => CountCoversKeys
<1> SUFFICES ASSUME Init PROVE CountCoversKeys  OBVIOUS
<1>1. RamKeys = {} /\ At("addKey") = {} /\ At("subKey") = {} /\ totalKeys = 0
  BY DEF Init, RamKeys, Found, At
<1>2. Cardinality({}) = 0  BY FS_EmptySet
<1>3. QED  BY <1>1, <1>2 DEF CountCoversKeys

LEMMA CountInductive ==
  ASSUME NoRenameNoFlush
  PROVE  IInv /\ CountCoversKeys /\ [Next]_vars => CountCoversKeys'
<1> SUFFICES ASSUME IInv, CountCoversKeys, [Next]_vars PROVE CountCoversKeys'  OBVIOUS
<1>1. ASSUME NEW t \in Threads, Call(t) \/ ClientStep(t) PROVE CountCoversKeys'
  BY <1>1, NotTaken, CountPassing, CountCounting, CountLookup, CountRemoving, CountWriting
  DEF ClientStep
<1>2. CASE JanitorShard  BY <1>2, CountJanitor
<1>3. ASSUME NEW task \in Tickers, JanitorTick(task) PROVE CountCoversKeys'
  BY <1>3, CountUntouched DEF JanitorTick, ram, client
<1>4. ASSUME NEW w \in Workers, Worker(w) PROVE CountCoversKeys'
  BY <1>4, CountUntouched DEF Worker, Take, Drained, PutBatch, ram, client
<1>5. CASE Tick \/ RefreshClock
  BY <1>5, CountUntouched DEF Tick, RefreshClock, ram, client
<1>6. CASE UNCHANGED vars  BY <1>6, CountUntouched DEF vars
<1>7. QED  BY <1>1, <1>2, <1>3, <1>4, <1>5, <1>6 DEF Next

\* Where nobody calls RENAME or FLUSHDB, totalKeys and the additions under way
\* cover the keys in RAM and the subtractions under way, at every moment: the
\* comparison of Set with MaxKeys never sees fewer keys than there are.
THEOREM CountCovered ==
  ASSUME NoRenameNoFlush
  PROVE  Spec => []CountCoversKeys
<1>1. IInv /\ CountCoversKeys /\ [Next]_vars => IInv' /\ CountCoversKeys'
  BY Inductive, CountInductive
<1>2. Init => IInv /\ CountCoversKeys  BY Initial, CountInitially
<1>3. QED  BY <1>1, <1>2, PTL DEF Spec

-------------------------------------------------------------------------------
(* The counter is exact, and not only high enough, where besides no key has *)
(* a time to live, because lazy expiry does not count, and where a key that *)
(* comes back from the cold store has one client, because promotion counts  *)
(* it whether or not it is there.                                           *)

OneByOne == /\ NoRenameNoFlush
            /\ TTLs \subseteq {0} /\ \A t \in Threads : "EXPIRE" \notin Ops[t]
            /\ HasCold => \A k \in Keys : OneWriter(k)

CountsExactly == Cardinality(RamKeys) + Cardinality(At("subKey"))
                   = totalKeys + Cardinality(At("addKey"))

Eternal == \A k \in Keys : Found(k) => items[k].exp = 0

\* A call at l with request q on its own key, which is not in RAM if it is looked for
\* in the cold store; i is RAM.
Untimed(t, l, q, i) ==
  /\ q.exp = 0 /\ l # "getExpired" /\ q.key \in KeysOf[t]
  /\ l \in {"coldGet", "promote"} => HasCold /\ i[q.key] = None

AllUntimed == \A t \in Threads : pc[t] # "idle" => Untimed(t, pc[t], req[t], items)

XInv == IInv /\ Eternal /\ AllUntimed /\ CountsExactly

\* The balance of one step of thread t, which goes to m, adds exactly r keys and
\* exactly d to the counter.
LEMMA ExactBalance ==
  ASSUME RamOK, ClientOK, CountsExactly, NEW t \in Threads, NEW m,
         pc' = [pc EXCEPT ![t] = m],
         NEW r \in Int, NEW d \in Int,
         Cardinality(RamKeys') = Cardinality(RamKeys) + r,
         totalKeys' = totalKeys + d,
         r + Is(m, "subKey") - Is(pc[t], "subKey") = d + Is(m, "addKey") - Is(pc[t], "addKey")
  PROVE  CountsExactly'
<1> DEFINE R1 == Cardinality(RamKeys)
           R2 == Cardinality(RamKeys')
           A1 == Cardinality(At("addKey"))
           A2 == Cardinality(At("addKey")')
           S1 == Cardinality(At("subKey"))
           S2 == Cardinality(At("subKey")')
<1>1. /\ A2 = A1 + Is(m, "addKey") - Is(pc[t], "addKey")
      /\ S2 = S1 + Is(m, "subKey") - Is(pc[t], "subKey")
  BY AtMoves
<1>2. R1 \in Nat /\ A1 \in Nat /\ S1 \in Nat /\ totalKeys \in Int  BY Finite DEF RamOK
<1>3. /\ Is(m, "subKey") \in Int /\ Is(pc[t], "subKey") \in Int
      /\ Is(m, "addKey") \in Int /\ Is(pc[t], "addKey") \in Int
  BY DEF Is
<1>4. R1 + S1 = totalKeys + A1  BY DEF CountsExactly
<1>5. R2 = R1 + r  OBVIOUS
<1>6. R2 + S2 = totalKeys' + A2
  <2> HIDE DEF R1, R2, A1, A2, S1, S2
  <2>1. QED  BY <1>1, <1>2, <1>3, <1>4, <1>5
<1>7. QED  BY <1>6 DEF CountsExactly

\* t goes on to m and adds or takes away a key just if it goes to count it.
LEMMA ExactSteps ==
  ASSUME RamOK, ClientOK, CountsExactly, NEW t \in Threads, NEW m, pc' = [pc EXCEPT ![t] = m],
         pc[t] \notin {"addKey", "subKey"}, totalKeys' = totalKeys,
         \/ items' = items /\ m \notin {"addKey", "subKey"}
         \/ \E k \in Keys : \E i \in Item :
              SetItem(k, i) /\ m # "subKey" /\ (m = "addKey" <=> ~Found(k))
         \/ \E k \in Keys : items' = Removed({k}) /\ m # "addKey" /\ (m = "subKey" <=> Found(k))
  PROVE  CountsExactly'
<1>1. Cardinality(RamKeys) \in Nat /\ totalKeys \in Int  BY Finite DEF RamOK
<1>2. totalKeys' = totalKeys + 0 /\ 0 \in Int /\ 1 \in Int /\ -1 \in Int  BY <1>1
<1>3. Is(pc[t], "addKey") = 0 /\ Is(pc[t], "subKey") = 0  BY DEF Is
<1>4. CASE items' = items /\ m \notin {"addKey", "subKey"}
  <2>1. Cardinality(RamKeys') = Cardinality(RamKeys) + 0  BY <1>1, <1>4 DEF RamKeys, Found
  <2>2. Is(m, "addKey") = 0 /\ Is(m, "subKey") = 0  BY <1>4 DEF Is
  <2>3. QED  BY <1>2, <1>3, <2>1, <2>2, ExactBalance
<1>5. CASE \E k \in Keys : \E i \in Item :
             SetItem(k, i) /\ m # "subKey" /\ (m = "addKey" <=> ~Found(k))
  <2>1. PICK k \in Keys : \E i \in Item :
               SetItem(k, i) /\ m # "subKey" /\ (m = "addKey" <=> ~Found(k))
    BY <1>5
  <2>2. PICK i \in Item : SetItem(k, i) /\ m # "subKey" /\ (m = "addKey" <=> ~Found(k))
    BY <2>1
  <2>3. Is(m, "subKey") = 0 /\ Is(m, "addKey") = IF Found(k) THEN 0 ELSE 1  BY <2>2 DEF Is
  <2>4. CASE Found(k)
    <3>1. Cardinality(RamKeys') = Cardinality(RamKeys) + 0  BY <1>1, <2>2, <2>4, SetItemCounts
    <3>2. QED  BY <1>2, <1>3, <2>3, <2>4, <3>1, ExactBalance
  <2>5. CASE ~Found(k)
    <3>1. Cardinality(RamKeys') = Cardinality(RamKeys) + 1  BY <2>2, <2>5, SetItemCounts
    <3>2. 1 + Is(m, "subKey") - Is(pc[t], "subKey") = 0 + Is(m, "addKey") - Is(pc[t], "addKey")
      BY <1>3, <2>3, <2>5
    <3>3. QED  BY <1>2, <3>1, <3>2, ExactBalance
  <2>6. QED  BY <2>4, <2>5
<1>6. CASE \E k \in Keys : items' = Removed({k}) /\ m # "addKey" /\ (m = "subKey" <=> Found(k))
  <2>1. PICK k \in Keys : items' = Removed({k}) /\ m # "addKey" /\ (m = "subKey" <=> Found(k))
    BY <1>6
  <2>2. Is(m, "addKey") = 0 /\ Is(m, "subKey") = IF Found(k) THEN 1 ELSE 0  BY <2>1 DEF Is
  <2>3. CASE Found(k)
    <3>1. Cardinality(RamKeys') = Cardinality(RamKeys) + (-1)
      BY <1>1, <2>1, <2>3, RemovedOneCounts
    <3>2. -1 + Is(m, "subKey") - Is(pc[t], "subKey") = 0 + Is(m, "addKey") - Is(pc[t], "addKey")
      BY <1>3, <2>2, <2>3
    <3>3. QED  BY <1>2, <3>1, <3>2, ExactBalance
  <2>4. CASE ~Found(k)
    <3>1. Cardinality(RamKeys') = Cardinality(RamKeys) + 0
      BY <1>1, <2>1, <2>4, RemovedOneCounts
    <3>2. QED  BY <1>2, <1>3, <2>2, <2>4, <3>1, ExactBalance
  <2>5. QED  BY <2>3, <2>4
<1>7. QED  BY <1>4, <1>5, <1>6

\* RAM as i gains eternal items only, and keys of t only.
Gains(t, i) == \A k \in Keys : i[k] # None => i[k].exp = 0 /\ (Found(k) \/ k \in KeysOf[t])

LEMMA OthersUntimed ==
  ASSUME OneByOne, XInv, NEW t \in Threads, Gains(t, items'),
         \A u \in Threads \ {t} : pc'[u] = pc[u] /\ req'[u] = req[u],
         pc'[t] # "idle" => Untimed(t, pc'[t], req'[t], items')
  PROVE  Eternal' /\ AllUntimed'
<1>1. Eternal'  BY DEF Gains, Eternal, Found
<1>2. ASSUME NEW u \in Threads, pc'[u] # "idle" PROVE Untimed(u, pc'[u], req'[u], items')
  <2>1. CASE u = t  BY <1>2, <2>1
  <2>2. CASE u # t
    <3>1. pc'[u] = pc[u] /\ req'[u] = req[u]  BY <2>2
    <3>2. Untimed(u, pc[u], req[u], items)  BY <1>2, <3>1 DEF XInv, AllUntimed
    <3>3. ASSUME pc[u] \in {"coldGet", "promote"} PROVE items'[req[u].key] = None
      <4> DEFINE k == req[u].key
      <4>1. HasCold /\ ~Found(k) /\ k \in KeysOf[u]  BY <3>2, <3>3 DEF Untimed, Found
      <4>2. k \in Keys /\ OneWriter(k)  BY <4>1, CacheAssumptions DEF OneByOne
      <4>3. k \notin KeysOf[t]  BY <2>2, <4>1, <4>2, OnlyOne
      <4>4. QED  BY <4>1, <4>2, <4>3 DEF Gains
    <3>4. QED  BY <3>1, <3>2, <3>3 DEF Untimed
  <2>3. QED  BY <2>1, <2>2
<1>3. QED  BY <1>1, <1>2 DEF AllUntimed

\* A step of a call that counts nothing.
LEMMA ExactGoing ==
  ASSUME OneByOne, XInv, NEW t \in Threads, pc[t] \notin {"idle", "addKey", "subKey"},
         NEW m, Goes(t, m), totalKeys' = totalKeys,
         m # "getExpired", m \in {"coldGet", "promote"} => HasCold /\ items'[req[t].key] = None,
         \/ items' = items /\ m \notin {"addKey", "subKey"}
         \/ \E i \in Item : /\ SetItem(req[t].key, i) /\ i.exp = 0
                            /\ m # "subKey" /\ (m = "addKey" <=> ~Found(req[t].key))
         \/ \E k \in Keys : items' = Removed({k}) /\ m # "addKey" /\ (m = "subKey" <=> Found(k))
  PROVE  Eternal' /\ AllUntimed' /\ CountsExactly'
<1> USE DEF XInv, IInv, TypeOK
<1>1. pc' = [pc EXCEPT ![t] = m]  BY DEF Goes
<1>2. /\ Untimed(t, pc[t], req[t], items)
      /\ req[t].key \in KeysOf[t] /\ req[t].key \in Keys
  BY CacheAssumptions DEF AllUntimed, Untimed
<1>3. CountsExactly'  BY <1>1, <1>2, ExactSteps
<1>4. \A u \in Threads \ {t} : pc'[u] = pc[u] /\ req'[u] = req[u]
  BY DEF Goes, ClientOK, CallsOK
<1>5. pc'[t] = m /\ (m # "idle" => req'[t] = req[t])
  BY DEF Goes, ClientOK
<1>6. m # "idle" => Untimed(t, m, req[t], items')
  BY <1>2 DEF Untimed
<1>7. Gains(t, items')
  <2>1. CASE items' = items  BY <2>1 DEF Gains, Eternal, Found
  <2>2. CASE \E i \in Item : SetItem(req[t].key, i) /\ i.exp = 0
    BY <1>2, <2>2 DEF Gains, Eternal, Found, SetItem, RamOK
  <2>3. CASE \E k \in Keys : items' = Removed({k})
    BY <2>3 DEF Gains, Eternal, Found, Removed, RamOK
  <2>4. QED  BY <2>1, <2>2, <2>3
<1>8. QED  BY <1>3, <1>4, <1>5, <1>6, <1>7, OthersUntimed

LEMMA ExactCall ==
  ASSUME OneByOne, XInv, NEW t \in Threads, Call(t)
  PROVE  Eternal' /\ AllUntimed' /\ CountsExactly'
<1> USE DEF XInv, IInv, TypeOK
<1>1. PICK q \in RequestsOf(t) : /\ req' = [req EXCEPT ![t] = q]
                                 /\ pc' = [pc EXCEPT ![t] = Entry[q.op]]
  BY DEF Call
<1>2. q.op \in OpNames \ {"RENAME", "EXPIRE", "FLUSHDB"}
  BY RequestFields, CacheAssumptions DEF OneByOne, NoRenameNoFlush
<1>3. pc[t] = "idle" /\ items' = items /\ totalKeys' = totalKeys  BY DEF Call, ram
<1>4. q.key \in KeysOf[t] /\ q.exp = 0  BY <1>2, RequestFields DEF OneByOne
<1>5. Entry[q.op] \notin {"addKey", "subKey", "getExpired", "coldGet", "promote"}
  BY <1>2 DEF Entry, OpNames, Room
<1>6. CountsExactly'  BY <1>1, <1>3, <1>5, ExactSteps
<1>7. Untimed(t, Entry[q.op], q, items')  BY <1>4, <1>5 DEF Untimed
<1>8. pc'[t] = Entry[q.op] /\ req'[t] = q  BY <1>1 DEF ClientOK, CallsOK
<1>9. \A u \in Threads \ {t} : pc'[u] = pc[u] /\ req'[u] = req[u]
  BY <1>1 DEF ClientOK, CallsOK
<1>10. Gains(t, items')  BY <1>3 DEF Gains, Eternal, Found
<1>11. QED  BY <1>6, <1>7, <1>8, <1>9, <1>10, OthersUntimed

LEMMA ExactPassing ==
  ASSUME OneByOne, XInv, NEW t \in Threads,
         \/ CheckNX(t) \/ CheckExists(t) \/ CheckLimit(t) \/ ScanShard(t) \/ ColdPut(t)
         \/ ColdDelete(t) \/ Log(t) \/ Exists(t) \/ ExistsCold(t) \/ ColdGet(t)
  PROVE  Eternal' /\ AllUntimed' /\ CountsExactly'
<1>1. items' = items /\ totalKeys' = totalKeys
  BY DEF CheckNX, CheckExists, CheckLimit, ScanShard, ColdPut, ColdDelete, Log, Exists,
         ExistsCold, ColdGet, ram
<1>2. pc[t] \notin {"idle", "addKey", "subKey"}
  BY DEF CheckNX, CheckExists, CheckLimit, ScanShard, ColdPut, ColdDelete, Log, Exists,
         ExistsCold, ColdGet
<1>3. CASE ~ColdGet(t)
  <2> DEFINE Places == {"idle", "room", "set", "limit", "scan", "delVictim", "log", "existsCold"}
  <2>1. \E m \in Places : Goes(t, m)
    <3>1. CASE CheckNX(t)  BY <3>1, WaysToGo DEF CheckNX, Room
    <3>2. CASE CheckExists(t) \/ CheckLimit(t)  BY <3>2, WaysToGo DEF CheckExists, CheckLimit
    <3>3. CASE ScanShard(t)
      <4>1. PICK m \in {"scan", "set", "delVictim"} : \E r : Move(t, m, r)
        BY <3>3 DEF ScanShard
      <4>2. QED  BY <4>1, WaysToGo
    <3>4. CASE ColdPut(t) \/ ColdDelete(t) \/ Log(t)
      BY <3>4, WaysToGo DEF ColdPut, ColdDelete, Log
    <3>5. CASE Exists(t) \/ ExistsCold(t)  BY <3>5, WaysToGo DEF Exists, ExistsCold
    <3>6. QED  BY <1>3, <3>1, <3>2, <3>3, <3>4, <3>5
  <2>2. PICK m \in Places : Goes(t, m)  BY <2>1
  <2>3. QED  BY <1>1, <1>2, <2>2, ExactGoing
<1>4. CASE ColdGet(t)
  <2>1. HasCold /\ items[req[t].key] = None
    BY <1>4 DEF ColdGet, XInv, AllUntimed, Untimed
  <2>2. PICK m \in {"idle", "promote"} : Goes(t, m)  BY <1>4, WaysToGo DEF ColdGet
  <2>3. QED  BY <1>1, <1>2, <2>1, <2>2, ExactGoing
<1>5. QED  BY <1>3, <1>4

LEMMA ExactCounting ==
  ASSUME OneByOne, XInv, NEW t \in Threads, AddKey(t) \/ SubKey(t)
  PROVE  Eternal' /\ AllUntimed' /\ CountsExactly'
<1> USE DEF XInv, IInv, TypeOK
<1>1. items' = items  BY DEF AddKey, SubKey
<1>2. Cardinality(RamKeys') = Cardinality(RamKeys) + 0
  BY <1>1, Finite DEF RamKeys, Found
<1>3. PICK m \in ClientPcs \ {"idle", "addKey", "subKey", "promote"} :
             /\ Goto(t, m)
             /\ AddKey(t) => m = AfterAdd(req[t].op)
             /\ SubKey(t) => m = AfterSub(req[t].op)
  BY InCall, AfterAddOps, AfterSubOps DEF AddKey, SubKey
<1>4. Goes(t, m) /\ pc[t] # "idle"  BY <1>3, WaysToGo DEF AddKey, SubKey
<1>5. pc' = [pc EXCEPT ![t] = m] /\ req' = req  BY <1>3 DEF Goto, Move
<1>6. m \notin {"getExpired", "coldGet"}
  <2>1. req[t].op \in OpsAt(pc[t])  BY <1>4, InCall
  <2>2. CASE AddKey(t)
    BY <1>3, <2>1, <2>2 DEF AddKey, OpsAt, Sets, AfterAdd, AfterRam
  <2>3. CASE SubKey(t)
    BY <1>3, <2>1, <2>3 DEF SubKey, OpsAt, Sets, AfterSub, AfterRam
  <2>4. QED  BY <2>2, <2>3
<1>7. CountsExactly'
  <2>1. 0 \in Int /\ 1 \in Int /\ -1 \in Int /\ totalKeys \in Int  BY DEF RamOK
  <2>2. CASE AddKey(t)
    <3>1. totalKeys' = totalKeys + 1  BY <2>2 DEF AddKey
    <3>2. 0 + Is(m, "subKey") - Is(pc[t], "subKey") = 1 + Is(m, "addKey") - Is(pc[t], "addKey")
      BY <2>2, <1>3 DEF AddKey, Is
    <3>3. QED  BY <1>2, <1>5, <2>1, <3>1, <3>2, ExactBalance
  <2>3. CASE SubKey(t)
    <3>1. totalKeys' = totalKeys + (-1)  BY <2>3 DEF SubKey, RamOK
    <3>2. 0 + Is(m, "subKey") - Is(pc[t], "subKey") = -1 + Is(m, "addKey") - Is(pc[t], "addKey")
      BY <2>3, <1>3 DEF SubKey, Is
    <3>3. QED  BY <1>2, <1>5, <2>1, <3>1, <3>2, ExactBalance
  <2>4. QED  BY <2>2, <2>3
<1>8. Gains(t, items')  BY <1>1 DEF Gains, Eternal, Found
<1>9. Untimed(t, m, req'[t], items')
  BY <1>3, <1>4, <1>5, <1>6 DEF AllUntimed, Untimed
<1>10. \A u \in Threads \ {t} : pc'[u] = pc[u] /\ req'[u] = req[u]
  BY <1>5 DEF ClientOK
<1>11. pc'[t] = m  BY <1>5 DEF ClientOK
<1>12. QED  BY <1>7, <1>8, <1>9, <1>10, <1>11, OthersUntimed

\* In RAM a key is found just if it is live.
LEMMA EternalLives ==
  ASSUME XInv, NEW k \in Keys
  PROVE  Live(k) <=> Found(k)
BY DEF XInv, Eternal, Live, IsExpired

LEMMA ExactLookup ==
  ASSUME OneByOne, XInv, NEW t \in Threads, GetShard(t) \/ GetExpired(t)
  PROVE  Eternal' /\ AllUntimed' /\ CountsExactly'
<1> DEFINE k == req[t].key
<1>1. ~GetExpired(t)  BY DEF GetExpired, XInv, AllUntimed, Untimed
<1>2. /\ k \in Keys /\ pc[t] = "get" /\ totalKeys' = totalKeys
      /\ req[t].op \in {"GET", "APPEND"}
  BY <1>1, InCall DEF GetShard, OpsAt, XInv
<1>3. CASE Found(k)
  <2>1. Live(k)  BY <1>2, <1>3, EternalLives
  <2>2. GetFound(t, items[k].val) /\ Touch(k)  BY <1>1, <1>3, <2>1 DEF GetShard
  <2>3. PICK m \in {"log", "idle"} : Goes(t, m)  BY <2>2, WaysToGo DEF GetFound
  <2>4. items[k] \in Item /\ items[k].exp = 0
    BY <1>2, <1>3, FoundType DEF XInv, IInv, TypeOK, Eternal
  <2>5. [items[k] EXCEPT !.acc = clk] \in Item /\ [items[k] EXCEPT !.acc = clk].exp = 0
    BY <2>4 DEF Item, XInv, IInv, TypeOK, TimeOK
  <2>6. SetItem(k, [items[k] EXCEPT !.acc = clk])  BY <2>2 DEF Touch
  <2>7. QED  BY <1>2, <1>3, <2>3, <2>5, <2>6, ExactGoing
<1>4. CASE ~Found(k)
  <2>1. GetMissed(t) /\ items' = items  BY <1>1, <1>4 DEF GetShard, Live
  <2>2. PICK m \in {"log", "idle", "coldGet"} : Goes(t, m) /\ (m = "coldGet" => HasCold)
    BY <2>1, WaysToGo DEF GetMissed
  <2>3. QED  BY <1>2, <1>4, <2>1, <2>2, ExactGoing DEF Found
<1>5. QED  BY <1>3, <1>4

LEMMA ExactRemoving ==
  ASSUME OneByOne, XInv, NEW t \in Threads, DelVictim(t) \/ DelShard(t)
  PROVE  Eternal' /\ AllUntimed' /\ CountsExactly'
<1>1. CASE DelVictim(t)
  <2>1. loc[t].vic \in Keys  BY <1>1, InCall DEF DelVictim, LocalsOK, Locals, XInv
  <2>2. PICK m \in {"subKey", "set"} : Goes(t, m) /\ (m = "subKey" <=> Found(loc[t].vic))
    BY <1>1, WaysToGo DEF DelVictim
  <2>3. QED  BY <1>1, <2>1, <2>2, ExactGoing DEF DelVictim
<1>2. CASE DelShard(t)
  <2>1. req[t].key \in Keys  BY <1>2, InCall DEF DelShard, OpsAt, XInv
  <2>2. PICK m \in {"subKey", "coldDelete", "log"} :
               Goes(t, m) /\ (m = "subKey" <=> Found(req[t].key))
    BY <1>2, WaysToGo DEF DelShard, AfterRam
  <2>3. QED  BY <1>2, <2>1, <2>2, ExactGoing DEF DelShard
<1>3. QED  BY <1>1, <1>2

\* A new value for an item.
LEMMA Rewritten ==
  ASSUME TimeOK, NEW i \in Item, NEW v \in Value
  PROVE  /\ [i EXCEPT !.val = v, !.acc = clk] \in Item
         /\ [i EXCEPT !.val = v, !.acc = clk].exp = i.exp
BY DEF Item, TimeOK

LEMMA ExactWriting ==
  ASSUME OneByOne, XInv, NEW t \in Threads,
         SetShard(t) \/ Promote(t) \/ IncrBy(t) \/ AppendVal(t) \/ Expire(t)
  PROVE  Eternal' /\ AllUntimed' /\ CountsExactly'
<1> USE DEF XInv, IInv, TypeOK
<1> DEFINE k == req[t].key
<1>1. /\ k \in Keys /\ pc[t] \notin {"idle", "addKey", "subKey"} /\ totalKeys' = totalKeys
      /\ RequestOK(t, req[t]) /\ LocalsOK(pc[t], req[t], loc[t]) /\ req[t].op \in OpsAt(pc[t])
  BY InCall DEF SetShard, Promote, IncrBy, AppendVal, Expire, OpsAt, Sets
<1>2. Untimed(t, pc[t], req[t], items)  BY <1>1 DEF AllUntimed
<1>3. Found(k) => items[k] \in Item /\ items[k].exp = 0 /\ Live(k)
  BY <1>1, FoundType, EternalLives DEF Eternal
<1> DEFINE Writing(m, i) == /\ Goes(t, m) /\ SetItem(k, i) /\ i.exp = 0
                            /\ m \in {"addKey", "idle", "log", "coldDelete", "get"}
                            /\ m = "addKey" <=> ~Found(k)
<1>4. SUFFICES \/ \E i \in Item : \E m : Writing(m, i)
               \/ items' = items /\ Goes(t, "idle")
  <2>1. ASSUME NEW i \in Item, NEW m, Writing(m, i) PROVE Eternal' /\ AllUntimed' /\ CountsExactly'
    BY <1>1, <2>1, ExactGoing
  <2>2. CASE items' = items /\ Goes(t, "idle")  BY <1>1, <2>2, ExactGoing
  <2>3. QED  BY <1>4, <2>1, <2>2
<1>5. CASE SetShard(t)
  <2> DEFINE i == NewItem(req[t].val, req[t].exp)
  <2>1. i \in Item /\ i.exp = 0
    BY <1>1, <1>2, <1>5, NewItemType DEF SetShard, OpsAt, Sets, RequestOK, Untimed, NewItem
  <2>2. PICK m \in {"addKey", "coldDelete", "log"} : Goes(t, m) /\ (m = "addKey" <=> ~Found(k))
    BY <1>5, WaysToGo DEF SetShard, AfterRam
  <2>3. QED  BY <1>5, <2>1, <2>2 DEF SetShard
<1>6. CASE Promote(t)
  <2> DEFINE i == NewItem(loc[t].val, 0)
  <2>1. i \in Item /\ i.exp = 0
    BY <1>1, <1>6, NewItemType DEF Promote, LocalsOK, NewItem
  <2>2. ~Found(k)  BY <1>2, <1>6 DEF Promote, Untimed, Found
  <2>3. QED  BY <1>6, <2>1, <2>2, WaysToGo DEF Promote
<1>7. CASE IncrBy(t)
  <2> DEFINE delta == req[t].val
  <2>1. delta \in Nat  BY <1>1, <1>7 DEF IncrBy, OpsAt, RequestOK
  <2>2. CASE ~Live(k)
    <3>1. NewItem(delta, 0) \in Item /\ NewItem(delta, 0).exp = 0
      BY <2>1, NewItemType DEF Value, NewItem
    <3>2. SetItem(k, NewItem(delta, 0)) /\ Goes(t, "addKey")
      BY <1>7, <2>2, WaysToGo DEF IncrBy
    <3>3. QED  BY <1>3, <2>2, <3>1, <3>2
  <2>3. CASE Live(k) /\ items[k].val \in Nat
    <3> DEFINE i == [items[k] EXCEPT !.val = @ + delta, !.acc = clk]
    <3>1. Found(k)  BY <2>3 DEF Live
    <3>2. items[k].val + delta \in Nat  BY ONLY <2>1, <2>3
    <3>3. i \in Item /\ i.exp = 0
      <4>1. items[k].val + delta \in Value  BY <3>2 DEF Value
      <4>2. QED  BY <1>3, <3>1, <4>1, Rewritten
    <3>4. SetItem(k, i) /\ Goes(t, "log")  BY <1>7, <2>3, WaysToGo DEF IncrBy
    <3> HIDE DEF i
    <3>5. QED  BY <3>1, <3>3, <3>4
  <2>4. CASE Live(k) /\ items[k].val \notin Nat  BY <1>7, <2>4, WaysToGo DEF IncrBy
  <2>5. QED  BY <2>2, <2>3, <2>4
<1>8. CASE AppendVal(t)
  <2> DEFINE suffix == req[t].val
  <2>1. suffix \in Nat  BY <1>1, <1>8 DEF AppendVal, OpsAt, RequestOK
  <2>2. CASE Live(k)
    <3> DEFINE v == Glue(items[k].val, suffix)
               i == [items[k] EXCEPT !.val = v, !.acc = clk]
    <3>1. Found(k) /\ items[k].val \in Value  BY <1>1, <2>2, FoundType DEF Live
    <3>2. v \in Value  BY <2>1, <3>1, GlueType
    <3>3. i \in Item /\ i.exp = 0  BY <1>3, <3>1, <3>2, Rewritten
    <3>4. SetItem(k, i) /\ Goes(t, "get")  BY <1>8, <2>2, WaysToGo DEF AppendVal
    <3> HIDE DEF i
    <3>5. QED  BY <3>1, <3>3, <3>4
  <2>3. CASE ~Live(k)
    <3>1. NewItem(suffix, 0) \in Item /\ NewItem(suffix, 0).exp = 0
      BY <2>1, NewItemType DEF Value, NewItem
    <3>2. SetItem(k, NewItem(suffix, 0)) /\ Goes(t, "addKey")
      BY <1>8, <2>3, WaysToGo DEF AppendVal
    <3>3. QED  BY <1>3, <2>3, <3>1, <3>2
  <2>4. QED  BY <2>2, <2>3
<1>9. CASE Expire(t)
  <2>1. CASE Live(k)
    <3> DEFINE i == [items[k] EXCEPT !.exp = req[t].exp]
    <3>1. Found(k)  BY <2>1 DEF Live
    <3>2. items[k] \in Item /\ req[t].exp = 0  BY <1>2, <1>3, <3>1 DEF Untimed
    <3>3. i \in Item /\ i.exp = 0  BY ONLY <3>2 DEF Item
    <3>4. SetItem(k, i) /\ Goes(t, "idle")  BY <1>9, <2>1, WaysToGo DEF Expire
    <3> HIDE DEF i
    <3>5. QED  BY <3>1, <3>3, <3>4
  <2>2. CASE ~Live(k)  BY <1>9, <2>2, WaysToGo DEF Expire
  <2>3. QED  BY <2>1, <2>2
<1>10. QED  BY <1>5, <1>6, <1>7, <1>8, <1>9

LEMMA ExactJanitor ==
  ASSUME XInv, JanitorShard
  PROVE  Eternal' /\ AllUntimed' /\ CountsExactly'
<1> USE DEF XInv, IInv, TypeOK
<1>1. PICK D \in SUBSET RamKeys : items' = Removed(D) /\ totalKeys' = totalKeys - Cardinality(D)
  BY JanitorRemoves
<1>2. pc' = pc /\ req' = req  BY DEF JanitorShard, ExpireByTTL, EvictCold, client
<1>3. \A k \in Keys : items'[k] # None => items'[k] = items[k]  BY <1>1 DEF Removed
<1>4. Eternal'  BY <1>3 DEF Eternal, Found
<1>5. AllUntimed'
  <2>1. ASSUME NEW t \in Threads, pc[t] # "idle" PROVE Untimed(t, pc[t], req[t], items')
    <3>1. Untimed(t, pc[t], req[t], items) /\ KeysOf[t] \subseteq Keys
      BY <2>1, CacheAssumptions DEF AllUntimed
    <3>2. QED  BY <1>3, <3>1 DEF Untimed
  <2>2. QED  BY <1>2, <2>1 DEF AllUntimed
<1> DEFINE R1 == Cardinality(RamKeys)
           R2 == Cardinality(RamKeys')
           A1 == Cardinality(At("addKey"))
           S1 == Cardinality(At("subKey"))
           d == Cardinality(D)
<1>6. R2 = R1 - d  BY <1>1, RemovedCounts
<1>7. R1 \in Nat /\ A1 \in Nat /\ S1 \in Nat /\ totalKeys \in Int  BY Finite DEF RamOK
<1>8. d \in Nat
  <2>1. IsFiniteSet(RamKeys)  BY Finite
  <2>2. QED  BY <2>1, FS_Subset, FS_CardinalityType
<1>9. At("addKey")' = At("addKey") /\ At("subKey")' = At("subKey")  BY <1>2 DEF At
<1>10. R1 + S1 = totalKeys + A1  BY DEF CountsExactly
<1>11. R2 + S1 = totalKeys - d + A1
  <2> HIDE DEF R1, R2, A1, S1, d
  <2>1. QED  BY <1>6, <1>7, <1>8, <1>10
<1>12. QED  BY <1>1, <1>4, <1>5, <1>9, <1>11 DEF CountsExactly

LEMMA ExactUntouched ==
  ASSUME XInv, UNCHANGED <<items, totalKeys, pc, req>>
  PROVE  Eternal' /\ AllUntimed' /\ CountsExactly'
<1>1. RamKeys' = RamKeys /\ At("addKey")' = At("addKey") /\ At("subKey")' = At("subKey")
  BY DEF RamKeys, Found, At
<1>2. QED  BY <1>1 DEF XInv, CountsExactly, Eternal, AllUntimed, Found

LEMMA ExactInitially == Init => XInv
<1> SUFFICES ASSUME Init PROVE XInv  OBVIOUS
<1>1. RamKeys = {} /\ At("addKey") = {} /\ At("subKey") = {} /\ totalKeys = 0
  BY DEF Init, RamKeys, Found, At
<1>2. Cardinality({}) = 0  BY FS_EmptySet
<1>3. CountsExactly  BY <1>1, <1>2 DEF CountsExactly
<1>4. Eternal /\ AllUntimed  BY DEF Init, Eternal, AllUntimed, Found
<1>5. QED  BY <1>3, <1>4, Initial DEF XInv

LEMMA ExactInductive ==
  ASSUME OneByOne
  PROVE  XInv /\ [Next]_vars => XInv'
<1> SUFFICES ASSUME XInv, [Next]_vars PROVE XInv'  OBVIOUS
<1>1. IInv'  BY Inductive DEF XInv
<1>2. Eternal' /\ AllUntimed' /\ CountsExactly'
  <2>1. ASSUME NEW t \in Threads, Call(t) \/ ClientStep(t)
        PROVE  Eternal' /\ AllUntimed' /\ CountsExactly'
    BY <2>1, NotTaken, ExactCall, ExactPassing, ExactCounting, ExactLookup, ExactRemoving,
       ExactWriting
    DEF ClientStep, OneByOne, XInv
  <2>2. CASE JanitorShard  BY <2>2, ExactJanitor
  <2>3. CASE \/ \E task \in Tickers : JanitorTick(task)
             \/ (\E w \in Workers : Worker(w)) \/ Tick \/ RefreshClock \/ UNCHANGED vars
    <3>1. UNCHANGED <<items, totalKeys, pc, req>>
      BY <2>3 DEF JanitorTick, Worker, Take, Drained, PutBatch, Tick, RefreshClock, vars, ram, client
    <3>2. QED  BY <3>1, ExactUntouched
  <2>4. QED  BY <2>1, <2>2, <2>3 DEF Next
<1>3. QED  BY <1>1, <1>2 DEF XInv

\* For any number of clients, keys, shards and workers, with LRU eviction, the
\* janitor's eviction and promotion: when no call is under way, CountKeys is the
\* number of keys in RAM, where nobody calls RENAME, FLUSHDB or EXPIRE or sets a
\* time to live, and where with a cold store each key has one client.
THEOREM CountExact ==
  ASSUME OneByOne
  PROVE  Spec => []CountIsExact
<1>1. XInv => CountIsExact
  <2> SUFFICES ASSUME XInv, Quiet PROVE totalKeys = Cardinality(RamKeys)
    BY DEF CountIsExact
  <2>1. At("addKey") = {} /\ At("subKey") = {}  BY DEF Quiet, At
  <2>2. Cardinality({}) = 0 /\ Cardinality(RamKeys) \in Nat /\ totalKeys \in Int
    BY Finite, FS_EmptySet DEF XInv, IInv, TypeOK, RamOK
  <2>3. QED  BY <2>1, <2>2 DEF XInv, CountsExactly
<1>2. QED  BY <1>1, ExactInitially, ExactInductive, PTL DEF Spec

-------------------------------------------------------------------------------
(* The operations of the cache that stay in RAM are linearizable, for any    *)
(* number of clients and keys: Cache implements KVStore.  Each call has one  *)
(* step that takes effect, the one in which it gets its answer; the other    *)
(* steps, of this call and of the janitor, leave what KVStore has alone or   *)
(* drop keys whose time has come.                                            *)

\* Nothing leaves RAM for the cold store or for the limit on keys, and nobody
\* calls SETNX, RENAME or FLUSHDB, which take effect in several steps.
RamOnly == /\ ~HasCold /\ MaxKeys = 0
           /\ \A t \in Threads : Ops[t] \subseteq {"SET", "GET", "EXISTS", "DEL", "INCR",
                                                   "APPEND", "EXPIRE", "PERSIST"}

\* A call has its answer exactly from the step that takes effect onwards.
Effective(l, o, r) ==
  \/ l = "idle"
  \/ l \in {"set", "exists", "del", "incr", "append", "expire"} /\ r = None
  \/ l \in {"get", "getExpired"} /\ o = "GET" /\ r = None
  \/ l \in {"get", "getExpired"} /\ o = "APPEND" /\ r # None
  \/ l = "addKey" /\ o \in {"SET", "INCR", "APPEND"} /\ r # None
  \/ l = "subKey" /\ o = "DEL" /\ r # None
  \/ l = "log" /\ r # None

AnswersOK == \A t \in Threads : Effective(pc[t], req[t].op, out[t])

\* The clock never goes back behind the time the janitor has read.
ClockOK == now \in 1..MaxTime /\ jan.task # "cold" /\ jan.now \in Nat /\ jan.now <= now

LInv == IInv /\ AnswersOK /\ ClockOK

-------------------------------------------------------------------------------
(* What a step of one thread does to the calls *)

\* t goes on at l with request q and answer r, and the others stay where they are.
Becomes(t, l, q, r) ==
  /\ pc'[t] = l /\ req'[t] = q /\ out'[t] = r
  /\ \A u \in Threads \ {t} : pc'[u] = pc[u] /\ req'[u] = req[u] /\ out'[u] = out[u]

LEMMA MoveBecomes ==
  ASSUME IInv, NEW t \in Threads, NEW l, NEW x, NEW r, Move(t, l, x),
         Answer(t, r) \/ (out' = out /\ r = out[t])
  PROVE  Becomes(t, l, req[t], r)
BY DEF IInv, TypeOK, ClientOK, CallsOK, Move, Answer, Becomes

LEMMA ReturnBecomes ==
  ASSUME IInv, NEW t \in Threads, NEW r, Return(t), Answer(t, r) \/ (out' = out /\ r = out[t])
  PROVE  Becomes(t, "idle", None, r)
BY DEF IInv, TypeOK, ClientOK, CallsOK, Return, Answer, Becomes

LEMMA AnswersKept ==
  ASSUME AnswersOK, NEW t \in Threads, NEW l, NEW q, NEW r, Becomes(t, l, q, r),
         Effective(l, q.op, r)
  PROVE  AnswersOK'
<1>1. ASSUME NEW u \in Threads PROVE Effective(pc'[u], req'[u].op, out'[u])
  <2>1. CASE u = t  BY <2>1 DEF Becomes
  <2>2. CASE u # t
    <3>1. pc'[u] = pc[u] /\ req'[u] = req[u] /\ out'[u] = out[u]  BY <2>2 DEF Becomes
    <3>2. QED  BY <3>1 DEF AnswersOK
  <2>3. QED  BY <2>1, <2>2
<1>2. QED  BY <1>1 DEF AnswersOK

\* A step of t after which it waits for its answer no less and no more than before.
LEMMA WaitingKept ==
  ASSUME NEW t \in Threads, NEW l, NEW q, Becomes(t, l, q, out[t]), pc[t] # "idle",
         l = "idle" => out[t] # None, l # "idle" => q = req[t]
  PROVE  Waiting' = Waiting
<1>1. ASSUME NEW u \in Threads
      PROVE  (Pending(u)' <=> Pending(u)) /\ (Pending(u) => req'[u] = req[u])
  BY DEF Becomes, Pending
<1>2. QED  BY <1>1 DEF Waiting, Asked

\* A step of t in which it gets its answer.
LEMMA WaitingEnds ==
  ASSUME NEW t \in Threads, NEW l, NEW q, NEW r, Becomes(t, l, q, r), l = "idle" \/ r # None
  PROVE  Waiting' = [Waiting EXCEPT ![t] = None]
<1>1. ~Pending(t)'  BY DEF Becomes, Pending
<1>2. ASSUME NEW u \in Threads \ {t}
      PROVE  (Pending(u)' <=> Pending(u)) /\ req'[u] = req[u]
  BY DEF Becomes, Pending
<1>3. QED  BY <1>1, <1>2 DEF Waiting, Asked

\* What t asks for while it waits.
LEMMA WaitsFor ==
  ASSUME IInv, RamOnly, NEW t \in Threads, Pending(t)
  PROVE  /\ Waiting[t] = Asked(t) /\ Waiting[t] # None
         /\ Waiting[t].op = req[t].op /\ Waiting[t].key = req[t].key
         /\ Waiting[t].val = req[t].val /\ Waiting[t].exp = req[t].exp
         /\ req[t].key \in Keys /\ req[t].exp \in Nat
<1>1. RequestOK(t, req[t]) /\ req[t].op \in OpNames /\ req[t].op # "FLUSHDB"
  BY InCall DEF Pending, RequestOK, RamOnly
<1>2. req[t].key \in Keys /\ req[t].exp \in Nat /\ req[t].val \in Value \cup {None}
  BY <1>1 DEF RequestOK
<1>3. Asked(t) \in [op : OpNames, key : Keys, val : Value \cup {None}, exp : Nat]
  BY <1>1, <1>2 DEF Asked
<1>4. Asked(t) # None  BY <1>3, CacheAssumptions
<1>5. QED  BY <1>2, <1>4 DEF Waiting, Asked

-------------------------------------------------------------------------------
(* What is shown of RAM *)

LEMMA ShownSame ==
  ASSUME items' = items, now' = now
  PROVE  Shown' = Shown
BY DEF Shown, Live, Found, IsExpired

LEMMA ShownSet ==
  ASSUME IInv, NEW k \in Keys, NEW i \in Item, SetItem(k, i), now' = now
  PROVE  Shown' = [Shown EXCEPT ![k] = Store!EntryAt(i.val, i.exp, now)]
<1>1. i # None  BY CacheAssumptions DEF Item
<1>2. items'[k] = i /\ \A j \in Keys \ {k} : items'[j] = items[j]
  BY DEF IInv, TypeOK, RamOK, SetItem
<1>3. QED  BY <1>1, <1>2 DEF Shown, Live, Found, IsExpired, Store!EntryAt

LEMMA ShownRemoved ==
  ASSUME NEW D, items' = Removed(D), now' = now
  PROVE  Shown' = [k \in Keys |-> IF k \in D THEN None ELSE Shown[k]]
BY DEF Shown, Live, Found, IsExpired, Removed

LEMMA ShownOf ==
  ASSUME IInv, NEW k \in Keys
  PROVE  /\ ~Live(k) => Shown[k] = None
         /\ Live(k) => /\ Shown[k] # None
                       /\ Shown[k].val = items[k].val /\ Shown[k].exp = items[k].exp
                       /\ Shown[k] = Store!EntryAt(items[k].val, items[k].exp, now)
                       /\ items[k].val \in Value /\ items[k].exp \in Nat
<1>1. CASE Live(k)
  <2>1. items[k].val \in Value /\ items[k].exp \in Nat  BY <1>1, FoundType DEF IInv, TypeOK, Live
  <2>2. [val |-> items[k].val, exp |-> items[k].exp] # None  BY <2>1, CacheAssumptions
  <2>3. QED  BY <1>1, <2>1, <2>2 DEF Shown, Live, IsExpired, Store!EntryAt
<1>2. QED  BY <1>1 DEF Shown

-------------------------------------------------------------------------------
(* Steps that have no effect, and steps that have *)

Refines == [Store!Next]_(Store!vars)

LEMMA Silent ==
  ASSUME NEW t \in Threads, NEW l, NEW q, Becomes(t, l, q, out[t]), pc[t] # "idle",
         l = "idle" => out[t] # None, l # "idle" => q = req[t],
         out' = out, now' = now, Shown' = Shown
  PROVE  Refines
BY WaitingKept DEF Refines, Store!vars

LEMMA Effects ==
  ASSUME IInv, RamOnly, NEW t \in Threads, NEW l, NEW q, NEW r, Becomes(t, l, q, r),
         l = "idle" \/ r # None, Answer(t, r), now' = now
  PROVE  Store!Answer(t, r)
BY WaitingEnds DEF Store!Answer, Answer

\* The step of t that takes effect is that of the operation it was called for.
LEMMA Done ==
  ASSUME IInv, RamOnly, NEW t \in Threads, Pending(t),
         \/ Store!Get(t) \/ Store!Exists(t) \/ Store!Set(t) \/ Store!Del(t)
         \/ Store!Expire(t) \/ Store!Incr(t) \/ Store!Append(t)
  PROVE  Refines
BY WaitsFor DEF Refines, Store!Next, Store!Do

\* Which operations a call at l may be here, and that it has its answer or not.
LEMMA Here ==
  ASSUME LInv, RamOnly, NEW t \in Threads, pc[t] # "idle"
  PROVE  /\ Effective(pc[t], req[t].op, out[t]) /\ req[t].op \in OpsAt(pc[t])
         /\ RequestOK(t, req[t]) /\ req[t].key \in Keys /\ req[t].exp \in Nat
         /\ req[t].op \in {"SET", "GET", "EXISTS", "DEL", "INCR", "APPEND", "EXPIRE", "PERSIST"}
         /\ out[t] \in Value \cup {None} /\ ~HasCold
<1>1. RequestOK(t, req[t]) /\ req[t].op \in OpsAt(pc[t])  BY InCall DEF LInv
<1>2. req[t].op \in Ops[t]  BY <1>1 DEF RequestOK
<1>3. QED
  BY <1>1, <1>2 DEF LInv, IInv, TypeOK, ClientOK, AnswersOK, RamOnly, RequestOK

LEMMA ValueIsSomething ==
  ASSUME NEW v \in Value
  PROVE  v # None
BY CacheAssumptions

\* The steps that only count, log or move on.
LEMMA CountingSteps ==
  ASSUME LInv, RamOnly, NEW t \in Threads, AddKey(t) \/ SubKey(t) \/ Log(t)
  PROVE  AnswersOK' /\ Refines
<1> USE DEF LInv
<1>1. Shown' = Shown /\ out' = out /\ now' = now /\ pc[t] \in {"addKey", "subKey", "log"}
  BY ShownSame DEF AddKey, SubKey, Log, ram, time
<1>2. out[t] # None /\ req[t].op \in {"SET", "INCR", "APPEND", "DEL"}
  BY <1>1, Here DEF Effective, OpsAt, Sets
<1>3. CASE AddKey(t) \/ SubKey(t)
  <2>1. Move(t, "log", loc[t])
    BY <1>2, <1>3, Here DEF AddKey, SubKey, Goto, AfterAdd, AfterSub, AfterRam, Sets,
                            Effective, OpsAt
  <2>2. Becomes(t, "log", req[t], out[t])  BY <1>1, <2>1, MoveBecomes
  <2>3. AnswersOK'  BY <1>2, <2>2, AnswersKept DEF Effective
  <2>4. QED  BY <1>1, <2>2, <2>3, Silent
<1>4. CASE Log(t)
  <2>1. Becomes(t, "idle", None, out[t])  BY <1>1, <1>4, ReturnBecomes DEF Log
  <2>2. AnswersOK'  BY <2>1, AnswersKept DEF Effective
  <2>3. QED  BY <1>1, <1>2, <2>1, <2>2, Silent
<1>5. QED  BY <1>3, <1>4

\* Set takes effect when it writes the item.
LEMMA SetTakesEffect ==
  ASSUME LInv, RamOnly, NEW t \in Threads, SetShard(t)
  PROVE  AnswersOK' /\ Refines
<1> USE DEF LInv
<1> DEFINE k == req[t].key
           i == NewItem(req[t].val, req[t].exp)
<1>1. pc[t] = "set" /\ out[t] = None /\ req[t].op = "SET" /\ now' = now
  BY Here DEF SetShard, Effective, OpsAt, Sets, time
<1>2. k \in Keys /\ i \in Item /\ i.val = req[t].val /\ i.exp = req[t].exp
  BY <1>1, Here, NewItemType DEF RequestOK, Sets, IInv, TypeOK, NewItem
<1>3. Shown' = [Shown EXCEPT ![k] = Store!EntryAt(req[t].val, req[t].exp, now)]
  BY <1>1, <1>2, ShownSet DEF SetShard
<1>4. PICK l \in {"log", "addKey"} : Move(t, l, Scratch)
  BY Here, <1>1 DEF SetShard, AfterRam
<1>5. Yes # None  BY YesNo, ValueIsSomething
<1>6. Becomes(t, l, req[t], Yes)  BY <1>4, MoveBecomes DEF SetShard
<1>7. AnswersOK'  BY <1>1, <1>5, <1>6, AnswersKept DEF Effective
<1>8. Store!Answer(t, Yes)  BY <1>1, <1>5, <1>6, Effects DEF SetShard
<1>9. Pending(t)  BY <1>1 DEF Pending
<1>10. Store!Set(t)
  BY <1>1, <1>3, <1>8, <1>9, WaitsFor DEF Store!Set, Store!Put, Store!Key, Store!Entry, Store!Yes, Yes
<1>11. QED  BY <1>7, <1>9, <1>10, Done

\* Get takes effect when it looks at the item, under whichever lock that is.
LEMMA FoundTakesEffect ==
  ASSUME LInv, RamOnly, NEW t \in Threads, pc[t] \in {"get", "getExpired"}, Live(req[t].key),
         GetFound(t, items[req[t].key].val), Shown' = Shown, now' = now
  PROVE  AnswersOK' /\ Refines
<1> USE DEF LInv
<1> DEFINE k == req[t].key
<1>1. k \in Keys  BY Here
<1>2. Shown[k] # None /\ Shown[k].val = items[k].val /\ items[k].val # None
  BY <1>1, ShownOf, ValueIsSomething
<1>3. CASE req[t].op = "APPEND"
  <2>1. out[t] # None /\ out' = out  BY <1>3, Here DEF Effective, GetFound
  <2>2. Becomes(t, "log", req[t], out[t])  BY <1>3, <2>1, MoveBecomes DEF GetFound
  <2>3. AnswersOK'  BY <2>1, <2>2, AnswersKept DEF Effective
  <2>4. QED  BY <2>1, <2>2, <2>3, Silent
<1>4. CASE req[t].op # "APPEND"
  <2>1. req[t].op = "GET" /\ out[t] = None  BY <1>4, Here DEF Effective
  <2>2. Becomes(t, "idle", None, items[k].val) /\ Answer(t, items[k].val)
    BY <1>4, ReturnBecomes DEF GetFound
  <2>3. AnswersOK'  BY <2>2, AnswersKept DEF Effective
  <2>4. Pending(t)  BY <2>1 DEF Pending
  <2>5. Store!Answer(t, items[k].val)  BY <2>2, Effects
  <2>6. Store!Get(t)  BY <1>2, <2>1, <2>4, <2>5, WaitsFor DEF Store!Get, Store!Key
  <2>7. QED  BY <2>3, <2>4, <2>6, Done
<1>5. QED  BY <1>3, <1>4

LEMMA MissTakesEffect ==
  ASSUME LInv, RamOnly, NEW t \in Threads, pc[t] \in {"get", "getExpired"}, ~Live(req[t].key),
         GetMissed(t), Shown' = Shown, now' = now
  PROVE  AnswersOK' /\ Refines
<1> USE DEF LInv
<1> DEFINE k == req[t].key
<1>1. k \in Keys /\ Shown[k] = None /\ ~HasCold  BY Here, ShownOf
<1>2. CASE req[t].op = "APPEND"
  <2>1. out[t] # None /\ out' = out  BY <1>2, Here DEF Effective, GetMissed
  <2>2. Becomes(t, "log", req[t], out[t])  BY <1>2, <2>1, MoveBecomes DEF GetMissed
  <2>3. AnswersOK'  BY <2>1, <2>2, AnswersKept DEF Effective
  <2>4. QED  BY <2>1, <2>2, <2>3, Silent
<1>3. CASE req[t].op # "APPEND"
  <2>1. req[t].op = "GET" /\ out[t] = None  BY <1>3, Here DEF Effective
  <2>2. Becomes(t, "idle", None, None) /\ Answer(t, None)
    BY <1>1, <1>3, ReturnBecomes DEF GetMissed
  <2>3. AnswersOK'  BY <2>2, AnswersKept DEF Effective
  <2>4. Pending(t)  BY <2>1 DEF Pending
  <2>5. Store!Answer(t, None)  BY <2>2, Effects
  <2>6. Store!Get(t)  BY <1>1, <2>1, <2>4, <2>5, WaitsFor DEF Store!Get, Store!Key
  <2>7. QED  BY <2>3, <2>4, <2>6, Done
<1>4. QED  BY <1>2, <1>3

LEMMA GetTakesEffect ==
  ASSUME LInv, RamOnly, NEW t \in Threads, GetShard(t) \/ GetExpired(t)
  PROVE  AnswersOK' /\ Refines
<1> USE DEF LInv
<1> DEFINE k == req[t].key
<1>1. pc[t] \in {"get", "getExpired"} /\ now' = now /\ k \in Keys
  BY Here DEF GetShard, GetExpired, time
<1>2. CASE Live(k)
  <2>1. GetFound(t, items[k].val) /\ Touch(k) /\ Found(k)
    BY <1>2 DEF GetShard, GetExpired, Live
  <2>2. Shown' = Shown
    <3> DEFINE i == [items[k] EXCEPT !.acc = clk]
    <3>1. i \in Item /\ i.val = items[k].val /\ i.exp = items[k].exp /\ SetItem(k, i)
      BY <1>1, <2>1, FoundType DEF Touch, Item, IInv, TypeOK, TimeOK
    <3>2. Shown' = [Shown EXCEPT ![k] = Store!EntryAt(i.val, i.exp, now)]
      BY <1>1, <3>1, ShownSet
    <3>3. Shown[k] = Store!EntryAt(items[k].val, items[k].exp, now)  BY <1>1, <1>2, ShownOf
    <3>4. QED  BY <1>1, <3>1, <3>2, <3>3 DEF Shown
  <2>3. QED  BY <1>1, <1>2, <2>1, <2>2, FoundTakesEffect
<1>3. CASE ~Live(k) /\ (GetExpired(t) \/ ~Found(k))
  <2>1. GetMissed(t) /\ (items' = items \/ items' = Removed({k}))
    BY <1>3 DEF GetShard, GetExpired, Live
  <2>2. Shown' = Shown
    <3>1. Shown[k] = None  BY <1>1, <1>3, ShownOf
    <3>2. CASE items' = items  BY <1>1, <3>2, ShownSame
    <3>3. CASE items' = Removed({k})
      <4>1. Shown' = [j \in Keys |-> IF j \in {k} THEN None ELSE Shown[j]]
        BY <1>1, <3>3, ShownRemoved
      <4>2. QED  BY <3>1, <4>1 DEF Shown
    <3>4. QED  BY <2>1, <3>2, <3>3
  <2>3. QED  BY <1>1, <1>3, <2>1, <2>2, MissTakesEffect
<1>4. CASE GetShard(t) /\ ~Live(k) /\ Found(k)
  <2>1. Goto(t, "getExpired") /\ items' = items /\ out' = out /\ pc[t] = "get"
    BY <1>4 DEF GetShard
  <2>2. Becomes(t, "getExpired", req[t], out[t])  BY <2>1, MoveBecomes DEF Goto
  <2>3. Effective("getExpired", req[t].op, out[t])  BY <2>1, Here DEF Effective
  <2>4. AnswersOK'  BY <2>2, <2>3, AnswersKept
  <2>5. QED  BY <1>1, <2>1, <2>2, <2>4, ShownSame, Silent
<1>5. QED  BY <1>2, <1>3, <1>4

\* The calls that are over with the critical section that takes effect.
LEMMA ExistsTakesEffect ==
  ASSUME LInv, RamOnly, NEW t \in Threads, Exists(t)
  PROVE  AnswersOK' /\ Refines
<1> USE DEF LInv
<1> DEFINE k == req[t].key
           r == IF Live(k) THEN Yes ELSE No
<1>1. pc[t] = "exists" /\ req[t].op = "EXISTS" /\ out[t] = None /\ k \in Keys /\ ~HasCold
  BY Here DEF Exists, Effective, OpsAt
<1>2. Return(t) /\ Answer(t, r) /\ items' = items /\ now' = now
  BY <1>1 DEF Exists, ram, time
<1>3. Becomes(t, "idle", None, r)  BY <1>2, ReturnBecomes
<1>4. AnswersOK'  BY <1>3, AnswersKept DEF Effective
<1>5. Shown' = Shown /\ Pending(t)  BY <1>1, <1>2, ShownSame DEF Pending
<1>6. Store!Answer(t, r)  BY <1>2, <1>3, Effects
<1>7. (Shown[k] = None) <=> ~Live(k)  BY <1>1, ShownOf
<1>8. Store!Exists(t)
  BY <1>1, <1>5, <1>6, <1>7, WaitsFor DEF Store!Exists, Store!Key, Store!Yes, Store!No, Yes, No
<1>9. QED  BY <1>4, <1>5, <1>8, Done

LEMMA ExpireTakesEffect ==
  ASSUME LInv, RamOnly, NEW t \in Threads, Expire(t)
  PROVE  AnswersOK' /\ Refines
<1> USE DEF LInv
<1> DEFINE k == req[t].key
           i == [items[k] EXCEPT !.exp = req[t].exp]
<1>1. /\ pc[t] = "expire" /\ req[t].op \in {"EXPIRE", "PERSIST"} /\ out[t] = None
      /\ k \in Keys /\ req[t].exp \in Nat /\ now' = now /\ Return(t)
  BY Here DEF Expire, Effective, OpsAt, time
<1>2. Pending(t)  BY <1>1 DEF Pending
<1>3. CASE Live(k)
  <2>1. SetItem(k, i) /\ Answer(t, Yes)  BY <1>3 DEF Expire
  <2>2. i \in Item /\ i.val = items[k].val /\ i.exp = req[t].exp
    BY <1>1, <1>3, FoundType DEF IInv, TypeOK, Live, Item
  <2>3. Shown' = [Shown EXCEPT ![k] = Store!EntryAt(items[k].val, req[t].exp, now)]
    BY <1>1, <2>1, <2>2, ShownSet
  <2>4. Becomes(t, "idle", None, Yes)  BY <1>1, <2>1, ReturnBecomes
  <2>5. Store!Answer(t, Yes)  BY <1>1, <2>1, <2>4, Effects
  <2>6. Shown[k] # None /\ Shown[k].val = items[k].val  BY <1>1, <1>3, ShownOf
  <2>7. Store!Expire(t)
    BY <1>1, <1>2, <2>3, <2>5, <2>6, WaitsFor
    DEF Store!Expire, Store!Key, Store!Put, Store!Entry, Store!Yes, Yes
  <2>8. QED  BY <1>2, <2>4, <2>7, AnswersKept, Done DEF Effective
<1>4. CASE ~Live(k)
  <2>1. items' = items /\ Answer(t, No)  BY <1>4 DEF Expire
  <2>2. Becomes(t, "idle", None, No)  BY <1>1, <2>1, ReturnBecomes
  <2>3. Store!Answer(t, No) /\ Shown' = Shown /\ Shown[k] = None
    BY <1>1, <1>4, <2>1, <2>2, Effects, ShownSame, ShownOf
  <2>4. Store!Expire(t)
    BY <1>1, <1>2, <2>3, WaitsFor DEF Store!Expire, Store!Key, Store!No, No
  <2>5. QED  BY <1>2, <2>2, <2>4, AnswersKept, Done DEF Effective
<1>5. QED  BY <1>3, <1>4

LEMMA DelTakesEffect ==
  ASSUME LInv, RamOnly, NEW t \in Threads, DelShard(t)
  PROVE  AnswersOK' /\ Refines
<1> USE DEF LInv
<1> DEFINE k == req[t].key
<1>1. /\ pc[t] = "del" /\ req[t].op = "DEL" /\ out[t] = None /\ k \in Keys /\ now' = now
      /\ items' = Removed({k}) /\ Answer(t, Yes) /\ ~HasCold
  BY Here DEF DelShard, Effective, OpsAt, time
<1>2. PICK l \in {"subKey", "log"} : Move(t, l, loc[t])
  BY <1>1 DEF DelShard, AfterRam, Goto
<1>3. Becomes(t, l, req[t], Yes)  BY <1>1, <1>2, MoveBecomes
<1>4. Yes # None  BY YesNo, ValueIsSomething
<1>5. AnswersOK'  BY <1>1, <1>3, <1>4, AnswersKept DEF Effective
<1>6. Store!Answer(t, Yes) /\ Pending(t)  BY <1>1, <1>3, <1>4, Effects DEF Pending
<1>7. Shown' = [Shown EXCEPT ![k] = None]
  <2>1. Shown' = [j \in Keys |-> IF j \in {k} THEN None ELSE Shown[j]]
    BY <1>1, ShownRemoved
  <2>2. QED  BY <2>1 DEF Shown
<1>8. Store!Del(t)
  BY <1>1, <1>6, <1>7, WaitsFor DEF Store!Del, Store!Key, Store!Put, Store!Yes, Yes
<1>9. QED  BY <1>5, <1>6, <1>8, Done

LEMMA IncrTakesEffect ==
  ASSUME LInv, RamOnly, NEW t \in Threads, IncrBy(t)
  PROVE  AnswersOK' /\ Refines
<1> USE DEF LInv
<1> DEFINE k == req[t].key
           delta == req[t].val
<1>1. /\ pc[t] = "incr" /\ req[t].op = "INCR" /\ out[t] = None /\ k \in Keys /\ now' = now
      /\ delta \in Nat
  BY Here DEF IncrBy, Effective, OpsAt, RequestOK, time
<1>2. Pending(t)  BY <1>1 DEF Pending
<1>3. \A n \in Nat : n \in Value /\ n # None  BY ValueIsSomething DEF Value
<1>4. CASE ~Live(k)
  <2>1. SetItem(k, NewItem(delta, 0)) /\ Answer(t, delta) /\ Move(t, "addKey", loc[t])
    BY <1>4 DEF IncrBy, Goto
  <2>2. NewItem(delta, 0) \in Item /\ NewItem(delta, 0).val = delta /\ NewItem(delta, 0).exp = 0
    BY <1>1, <1>3, NewItemType DEF IInv, TypeOK, NewItem
  <2>3. Shown' = [Shown EXCEPT ![k] = Store!EntryAt(delta, 0, now)]
    BY <1>1, <2>1, <2>2, ShownSet
  <2>4. Becomes(t, "addKey", req[t], delta)  BY <2>1, MoveBecomes
  <2>5. Store!Answer(t, delta)  BY <1>1, <1>3, <2>1, <2>4, Effects
  <2>6. Shown[k] = None  BY <1>1, <1>4, ShownOf
  <2>7. Store!Incr(t)
    BY <1>1, <1>2, <2>3, <2>5, <2>6, WaitsFor DEF Store!Incr, Store!Key, Store!Put, Store!Entry
  <2>8. AnswersOK'  BY <1>1, <1>3, <2>4, AnswersKept DEF Effective
  <2>9. QED  BY <1>2, <2>7, <2>8, Done
<1>5. CASE Live(k) /\ items[k].val \in Nat
  <2> DEFINE n == items[k].val + delta
             i == [items[k] EXCEPT !.val = n, !.acc = clk]
  <2>1. SetItem(k, i) /\ Answer(t, n) /\ Move(t, "log", loc[t])  BY <1>5 DEF IncrBy, Goto
  <2>2. n \in Nat  BY <1>1, <1>5
  <2>3. i \in Item /\ i.val = n /\ i.exp = items[k].exp
    BY <1>1, <1>3, <1>5, <2>2, FoundType DEF IInv, TypeOK, TimeOK, Live, Item
  <2>4. Shown' = [Shown EXCEPT ![k] = Store!EntryAt(n, items[k].exp, now)]
    BY <1>1, <2>1, <2>3, ShownSet
  <2>5. Becomes(t, "log", req[t], n)  BY <2>1, MoveBecomes
  <2>6. Store!Answer(t, n)  BY <1>1, <1>3, <2>1, <2>2, <2>5, Effects
  <2>7. /\ Shown[k] # None /\ Shown[k].val = items[k].val /\ Shown[k].exp = items[k].exp
        /\ items[k].val # Empty
    BY <1>1, <1>5, ShownOf, CacheAssumptions
  <2>8. Store!Incr(t)
    BY <1>1, <1>2, <2>4, <2>6, <2>7, WaitsFor DEF Store!Incr, Store!Key, Store!Put, Store!Entry
  <2>9. AnswersOK'  BY <1>1, <1>3, <2>2, <2>5, AnswersKept DEF Effective
  <2>10. QED  BY <1>2, <2>8, <2>9, Done
<1>6. CASE Live(k) /\ items[k].val \notin Nat
  <2>1. items' = items /\ Answer(t, None) /\ Return(t)  BY <1>6 DEF IncrBy
  <2>2. Becomes(t, "idle", None, None)  BY <2>1, ReturnBecomes
  <2>3. Store!Answer(t, None) /\ Shown' = Shown  BY <1>1, <2>1, <2>2, Effects, ShownSame
  <2>4. Shown[k] # None /\ Shown[k].val = Empty
    BY <1>1, <1>6, ShownOf DEF Value
  <2>5. Store!Incr(t)  BY <1>1, <1>2, <2>3, <2>4, WaitsFor DEF Store!Incr, Store!Key
  <2>6. AnswersOK'  BY <2>2, AnswersKept DEF Effective
  <2>7. QED  BY <1>2, <2>5, <2>6, Done
<1>7. QED  BY <1>4, <1>5, <1>6

LEMMA AppendTakesEffect ==
  ASSUME LInv, RamOnly, NEW t \in Threads, AppendVal(t)
  PROVE  AnswersOK' /\ Refines
<1> USE DEF LInv
<1> DEFINE k == req[t].key
           suffix == req[t].val
<1>1. /\ pc[t] = "append" /\ req[t].op = "APPEND" /\ out[t] = None /\ k \in Keys /\ now' = now
      /\ suffix \in Nat
  BY Here DEF AppendVal, Effective, OpsAt, RequestOK, time
<1>2. Pending(t) /\ suffix \in Value /\ suffix # None
  BY <1>1, ValueIsSomething DEF Pending, Value
<1>3. CASE ~Live(k)
  <2>1. /\ SetItem(k, NewItem(suffix, 0)) /\ Answer(t, suffix)
        /\ Move(t, "addKey", [loc[t] EXCEPT !.val = suffix])
    BY <1>3 DEF AppendVal
  <2>2. /\ NewItem(suffix, 0) \in Item
        /\ NewItem(suffix, 0).val = suffix /\ NewItem(suffix, 0).exp = 0
    BY <1>2, NewItemType DEF IInv, TypeOK, NewItem
  <2>3. Shown' = [Shown EXCEPT ![k] = Store!EntryAt(suffix, 0, now)]
    BY <1>1, <2>1, <2>2, ShownSet
  <2>4. Becomes(t, "addKey", req[t], suffix)  BY <2>1, MoveBecomes
  <2>5. Store!Answer(t, suffix)  BY <1>1, <1>2, <2>1, <2>4, Effects
  <2>6. Shown[k] = None  BY <1>1, <1>3, ShownOf
  <2>7. Store!EntryAt(suffix, 0, now).val = suffix  BY DEF Store!EntryAt
  <2>8. Store!Append(t)
    BY <1>1, <1>2, <2>3, <2>5, <2>6, <2>7, WaitsFor
    DEF Store!Append, Store!Key, Store!Put, Store!Entry
  <2>9. AnswersOK'  BY <1>1, <1>2, <2>4, AnswersKept DEF Effective
  <2>10. QED  BY <1>2, <2>8, <2>9, Done
<1>4. CASE Live(k)
  <2> DEFINE v == Glue(items[k].val, suffix)
             i == [items[k] EXCEPT !.val = v, !.acc = clk]
  <2>1. SetItem(k, i) /\ Answer(t, v) /\ Move(t, "get", loc[t])  BY <1>4 DEF AppendVal, Goto
  <2>2. v \in Value /\ v # None  BY <1>1, <1>4, ShownOf, GlueType, ValueIsSomething
  <2>3. i \in Item /\ i.val = v /\ i.exp = items[k].exp
    BY <1>1, <1>4, <2>2, FoundType DEF IInv, TypeOK, TimeOK, Live, Item
  <2>4. Shown' = [Shown EXCEPT ![k] = Store!EntryAt(v, items[k].exp, now)]
    BY <1>1, <2>1, <2>3, ShownSet
  <2>5. Becomes(t, "get", req[t], v)  BY <2>1, MoveBecomes
  <2>6. Store!Answer(t, v)  BY <1>1, <2>1, <2>2, <2>5, Effects
  <2>7. Shown[k] # None /\ Shown[k].val = items[k].val /\ Shown[k].exp = items[k].exp
    BY <1>1, <1>4, ShownOf
  <2>8. Store!EntryAt(v, items[k].exp, now).val = v
    BY <1>4 DEF Store!EntryAt, Live, IsExpired
  <2>9. Store!Append(t)
    <3>1. Waiting[t].op = "APPEND" /\ Waiting[t].key = k /\ Waiting[t].val = suffix
      BY <1>1, <1>2, WaitsFor
    <3>2. Glue(Shown[k].val, Waiting[t].val) = v  BY <2>7, <3>1
    <3>3. Store!EntryAt(Glue(Shown[k].val, Waiting[t].val), Shown[k].exp, now)
            = Store!EntryAt(v, items[k].exp, now)
      BY <2>7, <3>2
    <3> HIDE DEF v, k
    <3>4. QED
      BY <2>4, <2>6, <2>7, <2>8, <3>1, <3>3 DEF Store!Append, Store!Key, Store!Put, Store!Entry
  <2>10. AnswersOK'  BY <1>1, <2>2, <2>5, AnswersKept DEF Effective
  <2>11. QED  BY <1>2, <2>9, <2>10, Done
<1>5. QED  BY <1>3, <1>4

-------------------------------------------------------------------------------
(* Calls, the janitor and the clock *)

LEMMA CallIsCall ==
  ASSUME LInv, RamOnly, NEW t \in Threads, Call(t)
  PROVE  AnswersOK' /\ Refines
<1> USE DEF LInv
<1>1. PICK r \in RequestsOf(t) : req' = [req EXCEPT ![t] = r] /\ pc' = [pc EXCEPT ![t] = Entry[r.op]]
  BY DEF Call
<1>2. RequestOK(t, r) /\ Entry[r.op] # "idle"
  BY RequestsType DEF IInv, TypeOK
<1>3. r.op \in Ops[t] /\ r.key \in Keys
      /\ r.op \in {"SET", "GET", "EXISTS", "DEL", "INCR", "APPEND", "EXPIRE", "PERSIST"}
  BY <1>2 DEF RequestOK, RamOnly
<1>4. pc[t] = "idle" /\ out' = [out EXCEPT ![t] = None] /\ items' = items /\ now' = now
  BY DEF Call, Answer, ram, time
<1>5. Becomes(t, Entry[r.op], r, None)
  BY <1>1, <1>4 DEF IInv, TypeOK, ClientOK, CallsOK, Becomes
<1>6. Effective(Entry[r.op], r.op, None)
  BY <1>3 DEF Effective, Entry, Room, RamOnly
<1>7. AnswersOK'  BY <1>5, <1>6, AnswersKept
<1>8. Waiting[t] = None  BY <1>4 DEF Waiting, Pending
<1> DEFINE q == [op |-> r.op, key |-> r.key, val |-> r.val, exp |-> r.exp]
<1>9. Waiting' = [Waiting EXCEPT ![t] = q]
  <2>1. Pending(t)' /\ req'[t] = r  BY <1>2, <1>5 DEF Becomes, Pending
  <2>2. ASSUME NEW u \in Threads \ {t} PROVE (Pending(u)' <=> Pending(u)) /\ req'[u] = req[u]
    BY <1>5 DEF Becomes, Pending
  <2>3. QED  BY <2>1, <2>2 DEF Waiting, Asked
<1>10. r.val \in Vals \cup {None} /\ r.exp \in Deadlines
  <2>1. r.ttl \in TTLs => now + r.ttl \in Deadlines  BY DEF ClockOK, Deadlines
  <2>2. 0 \in Deadlines  BY DEF Deadlines
  <2>3. QED  BY <2>1, <2>2, RequestFields
<1>11. q \in AnyRequest
  <2>1. r.op \in UNION {Ops[u] : u \in Threads}  BY <1>3
  <2>2. QED  BY <1>3, <1>10, <2>1 DEF AnyRequest
<1>12. Store!Call(t)
  <2>1. Shown' = Shown  BY <1>4, ShownSame
  <2> HIDE DEF q
  <2>2. QED  BY <1>4, <1>8, <1>9, <1>11, <2>1 DEF Store!Call
<1>13. QED  BY <1>7, <1>12 DEF Refines, Store!Next

\* The steps that RamOnly leaves no occasion for.
LEMMA NotHere ==
  ASSUME LInv, RamOnly, NEW t \in Threads, pc[t] # "idle"
  PROVE  pc[t] \in {"set", "exists", "del", "incr", "append", "expire", "get", "getExpired",
                    "addKey", "subKey", "log"}
BY Here DEF Effective

LEMMA StepTakesEffect ==
  ASSUME LInv, RamOnly, NEW t \in Threads, ClientStep(t)
  PROVE  AnswersOK' /\ Refines
<1>1. pc[t] # "idle"
  BY DEF ClientStep, CheckNX, CheckExists, CheckLimit, ScanShard, DelVictim, ColdPut, SetShard,
         AddKey, SubKey, ColdDelete, Log, GetShard, GetExpired, ColdGet, Promote, Exists,
         ExistsCold, DelShard, IncrBy, AppendVal, Expire, GetItem, ReadExp, DelSrc, SetDst,
         LogDel, ClearShard, ZeroKeys, FlushAll
<1>2. \/ SetShard(t) \/ AddKey(t) \/ SubKey(t) \/ Log(t) \/ GetShard(t) \/ GetExpired(t)
      \/ Exists(t) \/ DelShard(t) \/ IncrBy(t) \/ AppendVal(t) \/ Expire(t)
  BY <1>1, NotHere
  DEF ClientStep, CheckNX, CheckExists, CheckLimit, ScanShard, DelVictim, ColdPut, ColdDelete,
      ColdGet, Promote, ExistsCold, GetItem, ReadExp, DelSrc, SetDst, LogDel, ClearShard,
      ZeroKeys, FlushAll
<1>3. QED
  BY <1>2, CountingSteps, SetTakesEffect, GetTakesEffect, ExistsTakesEffect, DelTakesEffect,
     IncrTakesEffect, AppendTakesEffect, ExpireTakesEffect

\* What the other goroutines do to nobody's call.
LEMMA CallsUntouched ==
  ASSUME LInv, UNCHANGED client
  PROVE  AnswersOK' /\ Waiting' = Waiting /\ out' = out
<1>1. pc' = pc /\ req' = req /\ out' = out  BY DEF client
<1>2. QED  BY <1>1 DEF LInv, AnswersOK, Waiting, Pending, Asked

\* The janitor removes what has expired by a time it has read before.
LEMMA JanitorDrops ==
  ASSUME LInv, RamOnly, JanitorShard
  PROVE  AnswersOK' /\ Refines
<1> USE DEF LInv
<1>1. ExpireByTTL  BY DEF JanitorShard, EvictCold, ClockOK
<1>2. PICK D \in SUBSET Due(jan.sh) : items' = Removed(D)
  BY <1>1 DEF ExpireByTTL, Samples
<1>3. now' = now /\ AnswersOK' /\ Waiting' = Waiting /\ out' = out
  BY <1>1, CallsUntouched DEF ExpireByTTL, time
<1>4. Shown' = [k \in Keys |-> IF k \in D THEN None ELSE Shown[k]]
  BY <1>2, <1>3, ShownRemoved
<1> DEFINE E == {k \in D : Shown[k] # None}
<1>5. Shown' = [k \in Keys |-> IF k \in E THEN None ELSE Shown[k]]
  BY <1>4 DEF Shown
<1>6. ASSUME NEW k \in E PROVE k \in Keys /\ Shown[k].exp > 0 /\ Shown[k].exp <= now
  <2>1. k \in Keys /\ Found(k) /\ items[k].exp > 0 /\ items[k].exp <= jan.now
    BY <1>2, <1>6 DEF Due, Shard
  <2>2. items[k].exp \in Nat /\ jan.now \in Nat /\ now \in Nat /\ jan.now <= now
    BY <2>1, FoundType DEF IInv, TypeOK, TimeOK, ClockOK
  <2>3. Live(k) /\ Shown[k].exp = items[k].exp  BY <1>6, <2>1, ShownOf
  <2>4. QED  BY <2>1, <2>2, <2>3
<1>7. E \in SUBSET Keys /\ Store!Drop(E)
  BY <1>3, <1>5, <1>6 DEF Store!Drop
<1>8. QED  BY <1>3, <1>7 DEF Refines, Store!Next

LEMMA TimePasses ==
  ASSUME LInv, Tick
  PROVE  AnswersOK' /\ Refines
<1> USE DEF LInv
<1>1. now' = now + 1 /\ items' = items /\ UNCHANGED client /\ now \in Nat
  BY DEF Tick, ram, IInv, TypeOK, TimeOK
<1>2. AnswersOK' /\ Waiting' = Waiting /\ out' = out  BY <1>1, CallsUntouched
<1>3. ASSUME NEW k \in Keys
      PROVE  Shown'[k] = IF Shown[k] = None THEN None
                         ELSE Store!EntryAt(Shown[k].val, Shown[k].exp, now + 1)
  <2>1. CASE Found(k)
    <3>1. items[k].exp \in Nat  BY <2>1, FoundType DEF IInv, TypeOK
    <3>2. items[k].val \in Value  BY <2>1, FoundType DEF IInv, TypeOK
    <3>3. [val |-> items[k].val, exp |-> items[k].exp] # None
      BY <3>1, <3>2, CacheAssumptions
    <3>4. QED  BY <1>1, <2>1, <3>1, <3>3 DEF Shown, Live, Found, IsExpired, Store!EntryAt
  <2>2. CASE ~Found(k)  BY <1>1, <2>2 DEF Shown, Live, Found
  <2>3. QED  BY <2>1, <2>2
<1>4. Shown' = [k \in Keys |-> IF Shown[k] = None THEN None
                               ELSE Store!EntryAt(Shown[k].val, Shown[k].exp, now + 1)]
  BY <1>3 DEF Shown
<1>5. Store!Tick  BY <1>1, <1>2, <1>4 DEF Store!Tick
<1>6. QED  BY <1>2, <1>5 DEF Refines, Store!Next

\* A step that KVStore does not see.
LEMMA Unseen ==
  ASSUME LInv, UNCHANGED client, items' = items, now' = now
  PROVE  AnswersOK' /\ Refines
BY CallsUntouched, ShownSame DEF Refines, Store!vars

-------------------------------------------------------------------------------
LEMMA ClockKept == LInv /\ RamOnly /\ [Next]_vars => ClockOK'
<1> SUFFICES ASSUME LInv, RamOnly, [Next]_vars PROVE ClockOK'  OBVIOUS
<1> USE DEF LInv
<1>1. now \in 1..MaxTime /\ MaxTime \in Nat /\ jan.now \in Nat /\ jan.now <= now
      /\ "cold" \notin Tickers /\ jan.task # "cold"
  BY CacheAssumptions DEF ClockOK, RamOnly
<1>2. CASE jan' = jan /\ now' = now  BY <1>1, <1>2 DEF ClockOK
<1>3. CASE Tick  BY <1>1, <1>3 DEF ClockOK, Tick
<1>4. ASSUME NEW task \in Tickers, JanitorTick(task) PROVE ClockOK'
  BY <1>1, <1>4 DEF ClockOK, JanitorTick, time
<1>5. CASE JanitorShard
  <2>1. now' = now /\ NextShard  BY <1>5 DEF JanitorShard, ExpireByTTL, EvictCold, time
  <2>2. jan'.task \in {jan.task, "idle"} /\ jan'.now \in {jan.now, 0}
    BY <2>1 DEF NextShard, IInv, TypeOK, JanOK
  <2>3. QED  BY <1>1, <2>1, <2>2 DEF ClockOK
<1>6. ASSUME NEW t \in Threads, Call(t) \/ ClientStep(t) PROVE jan' = jan /\ now' = now
  BY <1>6
  DEF Call, ClientStep, CheckNX, CheckExists, CheckLimit, ScanShard, DelVictim, ColdPut, SetShard,
      AddKey, SubKey, ColdDelete, Log, GetShard, GetExpired, ColdGet, Promote, Exists,
      ExistsCold, DelShard, IncrBy, AppendVal, Expire, GetItem, ReadExp, DelSrc, SetDst,
      LogDel, ClearShard, ZeroKeys, FlushAll, time
<1>7. ASSUME NEW w \in Workers, Worker(w) PROVE jan' = jan /\ now' = now
  BY <1>7 DEF Worker, Take, Drained, PutBatch, time
<1>8. CASE RefreshClock \/ UNCHANGED vars  BY <1>2, <1>8 DEF RefreshClock, vars
<1>9. QED  BY <1>2, <1>3, <1>4, <1>5, <1>6, <1>7, <1>8 DEF Next

LEMMA LinearStep == LInv /\ RamOnly /\ [Next]_vars => LInv' /\ Refines
<1> SUFFICES ASSUME LInv, RamOnly, [Next]_vars PROVE AnswersOK' /\ Refines
  BY ClockKept, Inductive DEF LInv
<1>1. ASSUME NEW t \in Threads, Call(t) \/ ClientStep(t) PROVE AnswersOK' /\ Refines
  BY <1>1, CallIsCall, StepTakesEffect
<1>2. CASE JanitorShard  BY <1>2, JanitorDrops
<1>3. ASSUME NEW task \in Tickers, JanitorTick(task) PROVE AnswersOK' /\ Refines
  BY <1>3, Unseen DEF JanitorTick, ram, time
<1>4. ASSUME NEW w \in Workers, Worker(w) PROVE AnswersOK' /\ Refines
  BY <1>4, Unseen DEF Worker, Take, Drained, PutBatch, ram, time
<1>5. CASE Tick  BY <1>5, TimePasses
<1>6. CASE RefreshClock  BY <1>6, Unseen DEF RefreshClock, ram
<1>7. CASE UNCHANGED vars
  <2>1. UNCHANGED client /\ items' = items /\ now' = now  BY <1>7 DEF vars, client
  <2>2. QED  BY <2>1, Unseen
<1>8. QED  BY <1>1, <1>2, <1>3, <1>4, <1>5, <1>6, <1>7 DEF Next

LEMMA LinearInit == Init => LInv /\ Store!Init
<1> SUFFICES ASSUME Init PROVE LInv /\ Store!Init  OBVIOUS
<1>1. IInv  BY Initial
<1>2. AnswersOK  BY DEF Init, AnswersOK, Effective
<1>3. ClockOK  BY CacheAssumptions DEF Init, ClockOK
<1>4. Store!Init
  BY DEF Init, Store!Init, Shown, Waiting, Live, Found, Pending
<1>5. QED  BY <1>1, <1>2, <1>3, <1>4 DEF LInv

\* For any number of callers of Set, Get, Exists, Delete, IncrBy, Append, Expire and
\* Persist, and with the janitor expiring keys beside them, every operation takes effect
\* at one instant between its call and its return, although a call locks its shard once
\* or twice, changes the counter and writes the journal in separate steps.
THEOREM RamIsLinearizable ==
  ASSUME RamOnly
  PROVE  Spec => Linearizable
<1>1. Init => LInv /\ Store!Init  BY LinearInit
<1>2. LInv /\ [Next]_vars => LInv' /\ [Store!Next]_(Store!vars)  BY LinearStep DEF Refines
<1>3. QED  BY <1>1, <1>2, PTL DEF Spec, Linearizable, Store!Spec
===============================================================================
