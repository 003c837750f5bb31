---------------------------- MODULE CacheStoresProofs ----------------------------
(***************************************************************************)
(* What the stores of the cache have of its values: the journal of what    *)
(* RAM serves, the cold store of what RAM has given up.  In the middle of  *)
(* a call a value may be in both stores, in neither, or not yet in a       *)
(* record; some call then owes it or carries it.                           *)
(***************************************************************************)
EXTENDS CacheProofs

-------------------------------------------------------------------------------
(* What the journal has of RAM, for any number of clients, where there is    *)
(* no cold store.  A client writes its record after it has let go of the     *)
(* shard, so that records may come in another order than the writes they are *)
(* of.  Still no write is left without a record: between the two steps       *)
(* somebody owes it.                                                         *)

Recorded(k, v) == \E i \in DOMAIN journal : journal[i].key = k /\ journal[i].val = v

\* What a call at l with request q, locals r and answer o records in the end.
Logged(q, r, o) == CASE q.op = "INCR" -> o
                     [] q.op \in {"APPEND", "RENAME"} -> r.val
                     [] OTHER -> q.val

\* It is about to record that k has the value v, or to look what k has and record that.
Debt(l, q, r, o, k, v) ==
  \/ l \in {"addKey", "logDel", "log"} /\ q.dst = k /\ Logged(q, r, o) = v
  \/ l \in {"get", "getExpired"} /\ q.op = "APPEND" /\ q.dst = k

Owes(t, k, v) == Debt(pc[t], req[t], loc[t], out[t], k, v)

WriteRecorded == \A k \in Keys : Found(k) =>
  Recorded(k, items[k].val) \/ \E t \in Threads : Owes(t, k, items[k].val)

\* Without cold store no call is at a step for it, and none but RENAME has two keys.
NoColdSteps == \A t \in Threads :
  /\ pc[t] \notin {"coldPut", "coldDelete", "coldGet", "promote", "existsCold", "flushAll"}
  /\ pc[t] = "addKey" => req[t].op # "GET"
  /\ pc[t] # "idle" /\ req[t].op # "RENAME" => req[t].dst = req[t].key

JInv == IInv /\ NoColdSteps /\ WriteRecorded

-------------------------------------------------------------------------------
\* A step of t: the other threads stay where they are, and nothing leaves the journal.
StepOf(t) ==
  /\ \A u \in Threads \ {t} : /\ pc'[u] = pc[u] /\ req'[u] = req[u]
                              /\ loc'[u] = loc[u] /\ out'[u] = out[u]
  /\ \A k, v : Recorded(k, v) => Recorded(k, v)'

LEMMA RecordedStays ==
  ASSUME IInv, NEW r, journal' = journal \/ journal' = Append(journal, r)
  PROVE  \A k, v : Recorded(k, v) => Recorded(k, v)'
BY DEF IInv, TypeOK, JournalOK, Recorded

\* The four ways in which a step goes on.
LEMMA Steps ==
  ASSUME IInv, NEW t \in Threads, NEW l, NEW x,
         Move(t, l, x) \/ Goto(t, l) \/ Return(t), NEW r, Answer(t, r) \/ out' = out,
         NEW rec, journal' = journal \/ journal' = Append(journal, rec)
  PROVE  StepOf(t)
BY RecordedStays DEF IInv, TypeOK, ClientOK, CallsOK, Move, Goto, Return, Answer, StepOf

LEMMA WritesNoRecord ==
  ASSUME IInv, NEW t \in Threads, journal' = journal,
         Return(t) \/ \E l : Goto(t, l) \/ \E x : Move(t, l, x),
         out' = out \/ \E r : Answer(t, r)
  PROVE  StepOf(t)
<1>1. (\E l, x : Move(t, l, x)) \/ Return(t)  BY DEF Goto
<1>2. QED  BY <1>1, Steps

\* It is enough to look at what t owed or owes.
LEMMA EnoughAboutOne ==
  ASSUME WriteRecorded, NEW t \in Threads, StepOf(t),
         \A k \in Keys : Found(k)' =>
           \/ Recorded(k, items[k].val)' /\ items'[k].val = items[k].val
           \/ Owes(t, k, items[k].val)'
           \/ /\ Found(k) /\ items'[k].val = items[k].val
              /\ Owes(t, k, items[k].val) => Owes(t, k, items[k].val)' \/ Recorded(k, items[k].val)'
  PROVE  WriteRecorded'
<1> SUFFICES ASSUME NEW k \in Keys, Found(k)'
             PROVE  Recorded(k, items[k].val)' \/ \E u \in Threads : Owes(u, k, items[k].val)'
  BY DEF WriteRecorded
<1>1. CASE /\ Found(k) /\ items'[k].val = items[k].val
           /\ Owes(t, k, items[k].val) => Owes(t, k, items[k].val)' \/ Recorded(k, items[k].val)'
  <2>1. CASE Recorded(k, items[k].val)
    BY <1>1, <2>1 DEF StepOf
  <2>2. ASSUME NEW u \in Threads, Owes(u, k, items[k].val)
        PROVE  Recorded(k, items[k].val)' \/ Owes(u, k, items[k].val)'
    <3>1. CASE u = t  BY <1>1, <2>2, <3>1
    <3>2. CASE u # t
      <4>1. pc'[u] = pc[u] /\ req'[u] = req[u] /\ loc'[u] = loc[u] /\ out'[u] = out[u]
        BY <3>2 DEF StepOf
      <4>2. QED  BY <1>1, <2>2, <4>1 DEF Owes
    <3>3. QED  BY <3>1, <3>2
  <2>3. QED  BY <1>1, <2>1, <2>2 DEF WriteRecorded
<1>2. QED  BY <1>1

\* A step that changes no value, of a thread that owes nothing.
LEMMA NothingOwed ==
  ASSUME WriteRecorded, NEW t \in Threads, StepOf(t),
         pc[t] \notin {"addKey", "logDel", "log", "get", "getExpired"},
         \A k \in Keys : Found(k)' => Found(k) /\ items'[k].val = items[k].val
  PROVE  WriteRecorded'
BY EnoughAboutOne DEF Owes, Debt

LEMMA RemovedKeeps ==
  ASSUME NEW D, items' = Removed(D), NEW k \in Keys, Found(k)'
  PROVE  Found(k) /\ items'[k] = items[k]
BY DEF Removed, Found

LEMMA LookingSteps ==
  ASSUME JInv, NEW t \in Threads,
         \/ Call(t) \/ CheckNX(t) \/ CheckExists(t) \/ CheckLimit(t) \/ ScanShard(t) \/ SubKey(t)
         \/ Exists(t) \/ GetItem(t) \/ ReadExp(t) \/ ZeroKeys(t)
  PROVE  WriteRecorded'
<1> USE DEF JInv
<1>1. items' = items /\ journal' = journal
  BY DEF Call, CheckNX, CheckExists, CheckLimit, ScanShard, SubKey, Exists, GetItem, ReadExp,
         ZeroKeys, ram
<1>2. pc[t] \notin {"addKey", "logDel", "log", "get", "getExpired"}
  BY DEF Call, CheckNX, CheckExists, CheckLimit, ScanShard, SubKey, Exists, GetItem, ReadExp, ZeroKeys
<1>3. StepOf(t)
  <2>1. CASE Call(t)
    BY <1>1, <2>1, RecordedStays DEF Call, Answer, IInv, TypeOK, ClientOK, CallsOK, StepOf
  <2>2. CASE ScanShard(t)
    <3>1. (\E l, x : Move(t, l, x)) /\ out' = out  BY <2>2 DEF ScanShard
    <3>2. QED  BY <1>1, <3>1, Steps
  <2>3. CASE \/ CheckNX(t) \/ CheckExists(t) \/ CheckLimit(t) \/ SubKey(t)
             \/ Exists(t) \/ GetItem(t) \/ ReadExp(t) \/ ZeroKeys(t)
    <3>1. /\ Return(t) \/ (\E l, x : Move(t, l, x))
          /\ (\E r : Answer(t, r)) \/ out' = out
      BY <2>3 DEF CheckNX, CheckExists, CheckLimit, SubKey, Exists, GetItem, ReadExp, ZeroKeys, Goto
    <3>2. QED  BY <1>1, <3>1, Steps
  <2>4. QED  BY <2>1, <2>2, <2>3
<1>4. QED  BY <1>1, <1>2, <1>3, NothingOwed DEF Found

LEMMA RemovingSteps ==
  ASSUME JInv, NEW t \in Threads, DelVictim(t) \/ DelShard(t) \/ DelSrc(t) \/ ClearShard(t)
  PROVE  WriteRecorded'
<1> USE DEF JInv
<1>1. /\ \E D : items' = Removed(D)
      /\ journal' = journal
      /\ pc[t] \notin {"addKey", "logDel", "log", "get", "getExpired"}
  BY DEF DelVictim, DelShard, DelSrc, ClearShard
<1>2. /\ \E l, x : Move(t, l, x)
      /\ (\E r : Answer(t, r)) \/ out' = out
  BY DEF DelVictim, DelShard, DelSrc, ClearShard, Goto
<1>3. StepOf(t)  BY <1>1, <1>2, Steps
<1>4. QED  BY <1>1, <1>3, RemovedKeeps, NothingOwed

\* What is owed is owed until Log records it.
LEMMA OwingSteps ==
  ASSUME ~HasCold, JInv, NEW t \in Threads, AddKey(t) \/ LogDel(t) \/ Log(t)
  PROVE  WriteRecorded'
<1> USE DEF JInv
<1>1. items' = items  BY DEF AddKey, LogDel, Log, ram
<1>2. CASE AddKey(t) \/ LogDel(t)
  <2>1. req[t].op \in {"SET", "SETNX", "INCR", "APPEND", "RENAME"}
        /\ (LogDel(t) => req[t].op = "RENAME")
    BY <1>2, InCall DEF AddKey, LogDel, NoColdSteps, OpsAt, Sets
  <2>2. PICK l \in {"log", "logDel"} : Move(t, l, loc[t])
    BY <1>2, <2>1 DEF AddKey, LogDel, AfterAdd, AfterRam, Goto
  <2>3. PICK r : (Answer(t, r) /\ req[t].op = "RENAME") \/ out' = out
    BY <1>2, <2>1 DEF AddKey, LogDel
  <2>4. PICK rec : journal' = journal \/ journal' = Append(journal, rec)
    BY <1>2 DEF AddKey, LogDel
  <2>5. StepOf(t)  BY <2>2, <2>3, <2>4, Steps
  <2>6. pc'[t] = l /\ req' = req /\ loc'[t] = loc[t]
    BY <2>2 DEF Move, IInv, TypeOK, ClientOK
  <2>7. Logged(req'[t], loc'[t], out'[t]) = Logged(req[t], loc[t], out[t])
    BY <2>1, <2>3, <2>6 DEF Logged
  <2>8. ASSUME NEW k \in Keys, Owes(t, k, items[k].val) PROVE Owes(t, k, items[k].val)'
    <3>1. req[t].dst = k /\ Logged(req[t], loc[t], out[t]) = items[k].val
      BY <1>2, <2>8 DEF Owes, Debt, AddKey, LogDel
    <3>2. QED  BY <1>1, <2>6, <2>7, <3>1 DEF Owes, Debt
  <2>9. QED  BY <1>1, <2>5, <2>8, EnoughAboutOne DEF Found
<1>3. CASE Log(t)
  <2>1. journal' = Append(journal, RecordOf(t)) /\ Return(t) /\ out' = out  BY <1>3 DEF Log
  <2>2. StepOf(t)  BY <2>1, Steps
  <2>3. ASSUME NEW k \in Keys, Owes(t, k, items[k].val) PROVE Recorded(k, items[k].val)'
    <3>1. RecordOf(t).key = k /\ RecordOf(t).val = items[k].val
      BY <1>3, <2>3 DEF Log, Owes, Debt, Logged, ValueLogged, RecordOf, Record
    <3>2. journal \in Seq(Records)  BY DEF IInv, TypeOK, JournalOK
    <3>3. /\ Len(journal) + 1 \in DOMAIN Append(journal, RecordOf(t))
          /\ Append(journal, RecordOf(t))[Len(journal) + 1] = RecordOf(t)
      BY <3>2
    <3>4. QED  BY <1>1, <2>1, <3>1, <3>3 DEF Recorded
  <2>4. QED  BY <1>1, <2>2, <2>3, EnoughAboutOne DEF Found
<1>4. QED  BY <1>2, <1>3

\* Whoever writes a value owes a record of it.
LEMMA WroteOwes ==
  ASSUME JInv, NEW t \in Threads, StepOf(t), NEW w \in Keys, NEW i,
         pc[t] \notin {"addKey", "logDel", "log", "get", "getExpired"},
         SetItem(w, i), Debt(pc'[t], req'[t], loc'[t], out'[t], w, i.val)
  PROVE  WriteRecorded'
<1> USE DEF JInv
<1>1. items' \in [Keys -> {items'[k] : k \in Keys}] /\ items'[w] = i
  BY DEF SetItem, IInv, TypeOK, RamOK
<1>2. ASSUME NEW k \in Keys, k # w PROVE items'[k] = items[k]
  BY <1>2 DEF SetItem, IInv, TypeOK, RamOK
<1>3. ASSUME NEW k \in Keys PROVE ~Owes(t, k, items[k].val)
  BY DEF Owes, Debt
<1>4. Owes(t, w, items[w].val)'  BY <1>1 DEF Owes
<1>5. QED  BY <1>2, <1>3, <1>4, EnoughAboutOne DEF Found

LEMMA WritingSteps ==
  ASSUME ~HasCold, JInv, NEW t \in Threads, SetShard(t) \/ AppendVal(t) \/ SetDst(t)
  PROVE  WriteRecorded'
<1> USE DEF JInv
<1>1. /\ journal' = journal /\ pc[t] # "idle"
      /\ pc[t] \notin {"addKey", "logDel", "log", "get", "getExpired"}
  BY DEF SetShard, AppendVal, SetDst
<1>2. req[t].key \in Keys /\ req[t].dst \in Keys
  BY InCall DEF SetShard, AppendVal, SetDst, OpsAt, Sets
<1>3. CASE SetShard(t)
  <2>1. PICK l \in {"log", "addKey"} : Move(t, l, Scratch)
    BY <1>3 DEF SetShard, AfterRam
  <2>2. req[t].op \in {"SET", "SETNX"} /\ req[t].dst = req[t].key
    BY <1>1, <1>3, InCall DEF SetShard, NoColdSteps, OpsAt, Sets
  <2>3. pc'[t] = l /\ req' = req  BY <2>1 DEF Move, IInv, TypeOK, ClientOK
  <2>4. StepOf(t)  BY <1>1, <1>3, <2>1, WritesNoRecord DEF SetShard
  <2>5. Debt(pc'[t], req'[t], loc'[t], out'[t], req[t].key, NewItem(req[t].val, req[t].exp).val)
    BY <2>2, <2>3 DEF Debt, Logged, NewItem
  <2>6. QED  BY <1>1, <1>2, <1>3, <2>4, <2>5, WroteOwes DEF SetShard
<1>4. CASE AppendVal(t)
  <2>1. req[t].op = "APPEND" /\ req[t].dst = req[t].key
    BY <1>1, <1>4, InCall DEF AppendVal, NoColdSteps, OpsAt
  <2>2. PICK i : SetItem(req[t].key, i) /\ \E r : Answer(t, r)
    BY <1>4 DEF AppendVal
  <2>3. CASE Live(req[t].key)
    <3>1. Goto(t, "get")  BY <1>4, <2>3 DEF AppendVal
    <3>2. StepOf(t)  BY <1>1, <2>2, <3>1, WritesNoRecord
    <3>3. Debt(pc'[t], req'[t], loc'[t], out'[t], req[t].key, i.val)
      BY <2>1, <3>1 DEF Goto, Move, Debt, IInv, TypeOK, ClientOK
    <3>4. QED  BY <1>1, <1>2, <2>2, <3>2, <3>3, WroteOwes
  <2>4. CASE ~Live(req[t].key)
    <3>1. /\ Move(t, "addKey", [loc[t] EXCEPT !.val = req[t].val])
          /\ SetItem(req[t].key, NewItem(req[t].val, 0))
      BY <1>4, <2>4 DEF AppendVal
    <3>2. StepOf(t)  BY <1>1, <2>2, <3>1, WritesNoRecord
    <3>3. /\ pc'[t] = "addKey" /\ req' = req
          /\ loc'[t].val = req[t].val
      BY <1>1, <3>1, InCall DEF Move, IInv, TypeOK, ClientOK, Locals
    <3>4. Debt(pc'[t], req'[t], loc'[t], out'[t], req[t].key, NewItem(req[t].val, 0).val)
      BY <2>1, <3>3 DEF Debt, Logged, NewItem
    <3>5. QED  BY <1>1, <1>2, <3>1, <3>2, <3>4, WroteOwes
  <2>5. QED  BY <2>3, <2>4
<1>5. CASE SetDst(t)
  <2>1. PICK l \in {"logDel", "addKey"} : Move(t, l, loc[t])
    BY <1>5 DEF SetDst, Goto
  <2>2. req[t].op = "RENAME"  BY <1>1, <1>5, InCall DEF SetDst, OpsAt
  <2>3. pc'[t] = l /\ req' = req /\ loc'[t] = loc[t]
    BY <2>1 DEF Move, IInv, TypeOK, ClientOK
  <2>4. StepOf(t)  BY <1>1, <1>5, <2>1, WritesNoRecord DEF SetDst
  <2>5. Debt(pc'[t], req'[t], loc'[t], out'[t], req[t].dst, NewItem(loc[t].val, loc[t].exp).val)
    BY <2>2, <2>3 DEF Debt, Logged, NewItem
  <2>6. QED  BY <1>1, <1>2, <1>5, <2>4, <2>5, WroteOwes DEF SetDst
<1>6. QED  BY <1>3, <1>4, <1>5

LEMMA IncrSteps ==
  ASSUME JInv, NEW t \in Threads, IncrBy(t)
  PROVE  WriteRecorded'
<1> USE DEF JInv
<1>1. journal' = journal /\ pc[t] = "incr"  BY DEF IncrBy
<1>2. req[t].op = "INCR" /\ req[t].dst = req[t].key /\ req[t].key \in Keys
  BY <1>1, InCall DEF NoColdSteps, OpsAt
<1>3. ASSUME NEW l \in {"addKey", "log"}, Goto(t, l), NEW v, Answer(t, v), NEW i, i.val = v,
             SetItem(req[t].key, i)
      PROVE  WriteRecorded'
  <2>1. pc'[t] = l /\ req' = req /\ out'[t] = v
    BY <1>3 DEF Goto, Move, Answer, IInv, TypeOK, ClientOK
  <2>2. StepOf(t)  BY <1>1, <1>3, WritesNoRecord
  <2>3. Debt(pc'[t], req'[t], loc'[t], out'[t], req[t].key, i.val)
    BY <1>2, <1>3, <2>1 DEF Debt, Logged
  <2>4. QED  BY <1>1, <1>2, <1>3, <2>2, <2>3, WroteOwes
<1>4. CASE ~Live(req[t].key)
  <2>1. NewItem(req[t].val, 0).val = req[t].val  BY DEF NewItem
  <2>2. QED  BY <1>3, <1>4, <2>1 DEF IncrBy
<1>5. CASE Live(req[t].key) /\ items[req[t].key].val \in Nat
  <2> DEFINE n == items[req[t].key].val + req[t].val
             i == [items[req[t].key] EXCEPT !.val = n, !.acc = clk]
  <2>1. items[req[t].key] \in Item
    BY <1>2, <1>5, FoundType DEF Live, IInv, TypeOK
  <2>2. i.val = n  BY <2>1 DEF Item
  <2>3. SetItem(req[t].key, i) /\ Answer(t, n) /\ Goto(t, "log")
    BY <1>5 DEF IncrBy
  <2> HIDE DEF n, i
  <2>4. QED  BY <1>3, <2>2, <2>3
<1>6. CASE Live(req[t].key) /\ items[req[t].key].val \notin Nat
  <2>1. items' = items /\ Return(t) /\ Answer(t, None)  BY <1>6 DEF IncrBy
  <2>2. StepOf(t)  BY <1>1, <2>1, WritesNoRecord
  <2>3. QED  BY <1>1, <2>1, <2>2, NothingOwed DEF Found
<1>7. QED  BY <1>4, <1>5, <1>6

LEMMA ExpireSteps ==
  ASSUME JInv, NEW t \in Threads, Expire(t)
  PROVE  WriteRecorded'
<1> USE DEF JInv
<1>1. journal' = journal /\ pc[t] = "expire" /\ Return(t) /\ \E r : Answer(t, r)
  BY DEF Expire
<1>2. StepOf(t)  BY <1>1, WritesNoRecord
<1>3. CASE Live(req[t].key)
  <2> DEFINE k == req[t].key
             i == [items[k] EXCEPT !.exp = req[t].exp]
  <2>1. k \in Keys  BY <1>1, InCall DEF OpsAt
  <2>2. items[k] \in Item /\ Found(k)
    BY <1>3, <2>1, FoundType DEF Live, IInv, TypeOK
  <2>3. i.val = items[k].val /\ items' = [items EXCEPT ![k] = i]
    BY <1>3, <2>2 DEF Expire, SetItem, Item
  <2> HIDE DEF k, i
  <2>4. ASSUME NEW j \in Keys, Found(j)' PROVE Found(j) /\ items'[j].val = items[j].val
    <3>1. CASE j = k  BY <2>2, <2>3, <3>1 DEF IInv, TypeOK, RamOK
    <3>2. CASE j # k  BY <2>3, <2>4, <3>2 DEF IInv, TypeOK, RamOK, Found
    <3>3. QED  BY <3>1, <3>2
  <2>5. QED  BY <1>1, <1>2, <2>4, NothingOwed
<1>4. CASE ~Live(req[t].key)
  <2>1. items' = items  BY <1>4 DEF Expire
  <2>2. QED  BY <1>1, <1>2, <2>1, NothingOwed DEF Found
<1>5. QED  BY <1>3, <1>4

\* A lookup reads back what Append has written, or finds that it is gone.
LEMMA ReadBackSteps ==
  ASSUME ~HasCold, JInv, NEW t \in Threads, GetShard(t) \/ GetExpired(t)
  PROVE  WriteRecorded'
<1> USE DEF JInv
<1> DEFINE k == req[t].key
<1>1. journal' = journal /\ pc[t] \in {"get", "getExpired"}  BY DEF GetShard, GetExpired
<1>2. k \in Keys /\ req[t].dst = k  BY <1>1, InCall DEF NoColdSteps, OpsAt
<1>3. CASE GetFound(t, items[k].val) /\ Touch(k) /\ Live(k)
  <2>1. StepOf(t)  BY <1>1, <1>3, WritesNoRecord DEF GetFound
  <2> DEFINE i == [items[k] EXCEPT !.acc = clk]
  <2>2. items[k] \in Item  BY <1>2, <1>3, FoundType DEF Live, IInv, TypeOK
  <2>3. i.val = items[k].val /\ items' = [items EXCEPT ![k] = i]
    BY <1>3, <2>2 DEF Touch, SetItem, Item
  <2> HIDE DEF i
  <2>4. ASSUME NEW j \in Keys, Found(j)' PROVE Found(j) /\ items'[j].val = items[j].val
    <3>1. CASE j = k  BY <1>3, <2>3, <3>1 DEF IInv, TypeOK, RamOK, Live
    <3>2. CASE j # k  BY <2>3, <2>4, <3>2 DEF IInv, TypeOK, RamOK, Found
    <3>3. QED  BY <3>1, <3>2
  <2>5. ASSUME NEW j \in Keys, Owes(t, j, items[j].val) PROVE Owes(t, j, items[j].val)'
    <3>1. req[t].op = "APPEND" /\ j = k  BY <1>1, <1>2, <2>5 DEF Owes, Debt
    <3>2. Move(t, "log", [loc[t] EXCEPT !.val = items[k].val])  BY <1>3, <3>1 DEF GetFound
    <3>3. loc[t] \in Locals  BY <1>1, InCall
    <3>4. pc'[t] = "log" /\ req' = req /\ loc'[t].val = items[k].val
      BY <3>2, <3>3 DEF Move, Locals, IInv, TypeOK, ClientOK
    <3>5. items'[k].val = items[k].val  BY <1>2, <2>3 DEF IInv, TypeOK, RamOK
    <3>6. QED  BY <1>2, <3>1, <3>4, <3>5 DEF Owes, Debt, Logged
  <2>6. QED  BY <2>1, <2>4, <2>5, EnoughAboutOne
<1>4. CASE GetMissed(t) /\ items'[k] = None /\ (items' = items \/ items' = Removed({k}))
  <2>1. StepOf(t)  BY <1>1, <1>4, WritesNoRecord DEF GetMissed
  <2>2. ASSUME NEW j \in Keys, Found(j)' PROVE Found(j) /\ items'[j] = items[j] /\ j # k
    BY <1>4, <2>2, RemovedKeeps DEF Found
  <2>3. ASSUME NEW j \in Keys, j # k PROVE ~Owes(t, j, items[j].val)
    BY <1>1, <1>2, <2>3 DEF Owes, Debt
  <2>4. QED  BY <2>1, <2>2, <2>3, EnoughAboutOne
<1>5. CASE Goto(t, "getExpired") /\ items' = items /\ out' = out
  <2>1. StepOf(t)  BY <1>1, <1>5, WritesNoRecord
  <2>2. pc'[t] = "getExpired" /\ req' = req  BY <1>5 DEF Goto, Move, IInv, TypeOK, ClientOK
  <2>3. ASSUME NEW j \in Keys, Owes(t, j, items[j].val) PROVE Owes(t, j, items[j].val)'
    BY <1>1, <2>2, <2>3 DEF Owes, Debt
  <2>4. QED  BY <1>5, <2>1, <2>3, EnoughAboutOne DEF Found
<1>6. QED
  <2>1. ~Found(k) /\ items' = items => items'[k] = None  BY DEF Found
  <2>2. items' = Removed({k}) => items'[k] = None  BY <1>2 DEF Removed, Found
  <2>3. CASE GetShard(t)
    <3>1. CASE ~Found(k)
      BY <1>4, <2>1, <2>3, <3>1 DEF GetShard, Live
    <3>2. CASE Live(k)  BY <1>3, <2>3, <3>2 DEF GetShard, Live
    <3>3. CASE Found(k) /\ ~Live(k)  BY <1>5, <2>3, <3>3 DEF GetShard
    <3>4. QED  BY <3>1, <3>2, <3>3
  <2>4. CASE GetExpired(t)
    BY <1>3, <1>4, <2>2, <2>4 DEF GetExpired
  <2>5. QED  BY <2>3, <2>4

\* The janitor removes items and writes none.
LEMMA OtherSteps ==
  ASSUME JInv, UNCHANGED client, journal' = journal,
         items' = items \/ \E D : items' = Removed(D)
  PROVE  WriteRecorded'
<1> USE DEF JInv
<1>1. pc' = pc /\ req' = req /\ loc' = loc /\ out' = out  BY DEF client
<1>2. ASSUME NEW k \in Keys, Found(k)' PROVE Found(k) /\ items'[k] = items[k]
  BY <1>2, RemovedKeeps DEF Found
<1>3. ASSUME NEW k, NEW v PROVE Recorded(k, v)' <=> Recorded(k, v)
  BY DEF Recorded
<1>4. ASSUME NEW k \in Keys, Found(k)'
      PROVE  Recorded(k, items[k].val)' \/ \E t \in Threads : Owes(t, k, items[k].val)'
  <2>1. Found(k) /\ items'[k] = items[k]  BY <1>2, <1>4
  <2>2. CASE Recorded(k, items[k].val)
    BY <2>1, <2>2 DEF Recorded
  <2>3. ASSUME NEW t \in Threads, Owes(t, k, items[k].val) PROVE Owes(t, k, items[k].val)'
    BY <1>1, <2>1, <2>3 DEF Owes
  <2>4. QED  BY <2>1, <2>2, <2>3 DEF WriteRecorded
<1>5. QED  BY <1>4 DEF WriteRecorded

LEMMA RestSteps ==
  ASSUME JInv,
         \/ \E task \in Tickers : JanitorTick(task)
         \/ JanitorShard \/ (\E w \in Workers : Worker(w)) \/ Tick \/ RefreshClock
         \/ UNCHANGED vars
  PROVE  WriteRecorded' /\ UNCHANGED client
<1>1. UNCHANGED client /\ journal' = journal
  BY DEF JanitorTick, JanitorShard, ExpireByTTL, EvictCold, Worker, Take, Drained, PutBatch,
         Tick, RefreshClock, vars, client
<1>2. items' = items \/ \E D : items' = Removed(D)
  BY DEF JanitorTick, JanitorShard, ExpireByTTL, EvictCold, Worker, Take, Drained, PutBatch,
         Tick, RefreshClock, vars, ram
<1>3. QED  BY <1>1, <1>2, OtherSteps

-------------------------------------------------------------------------------
\* Without cold store no call gets to a step for it.
LEMMA NoColdKept ==
  ASSUME ~HasCold, JInv, [Next]_vars
  PROVE  NoColdSteps'
<1> USE DEF JInv
<1>1. ASSUME NEW t \in Threads, NEW l, NEW x, Move(t, l, x), pc[t] # "idle",
             l \notin {"coldPut", "coldDelete", "coldGet", "promote", "existsCold", "flushAll"},
             l = "addKey" => req[t].op # "GET"
      PROVE  NoColdSteps'
  <2>1. pc' = [pc EXCEPT ![t] = l] /\ req' = req  BY <1>1 DEF Move
  <2>2. QED  BY <1>1, <2>1 DEF NoColdSteps, IInv, TypeOK, ClientOK
<1>2. ASSUME NEW t \in Threads, Return(t) PROVE NoColdSteps'
  <2>1. pc' = [pc EXCEPT ![t] = "idle"] /\ req' = [req EXCEPT ![t] = None]
    BY <1>2 DEF Return
  <2>2. ASSUME NEW u \in Threads, u # t PROVE pc'[u] = pc[u] /\ req'[u] = req[u]
    BY <2>1, <2>2 DEF IInv, TypeOK, ClientOK, CallsOK
  <2>3. pc'[t] = "idle"  BY <2>1 DEF IInv, TypeOK, ClientOK
  <2>4. QED  BY <2>2, <2>3 DEF NoColdSteps
<1>3. ASSUME NEW t \in Threads, Call(t) PROVE NoColdSteps'
  <2>1. PICK r \in RequestsOf(t) : /\ req' = [req EXCEPT ![t] = r]
                                   /\ pc' = [pc EXCEPT ![t] = Entry[r.op]]
    BY <1>3 DEF Call
  <2>2. Entry[r.op] \in {Room, "nx", "get", "exists", "del", "incr", "append", "expire",
                         "getItem", "clear"}
    BY RequestParts, CacheAssumptions DEF Entry, Request, OpNames
  <2>3. r.op # "RENAME" => r.dst = r.key
    BY RequestParts DEF Request
  <2>4. ASSUME NEW u \in Threads, u # t PROVE pc'[u] = pc[u] /\ req'[u] = req[u]
    BY <2>1, <2>4 DEF IInv, TypeOK, ClientOK, CallsOK
  <2>5. pc'[t] = Entry[r.op] /\ req'[t] = r
    BY <2>1 DEF IInv, TypeOK, ClientOK, CallsOK
  <2>6. QED  BY <2>2, <2>3, <2>4, <2>5 DEF NoColdSteps, Room
<1>4. ASSUME NEW t \in Threads, ClientStep(t) PROVE NoColdSteps'
  <2>1. CASE \/ CheckNX(t) \/ CheckExists(t) \/ CheckLimit(t) \/ SubKey(t) \/ Log(t)
             \/ Exists(t) \/ DelShard(t) \/ Expire(t) \/ GetItem(t) \/ ReadExp(t) \/ DelSrc(t)
             \/ LogDel(t) \/ ClearShard(t) \/ ZeroKeys(t) \/ DelVictim(t) \/ ScanShard(t)
    <3>1. pc[t] = "subKey" => req[t].op \in {"SET", "SETNX", "DEL", "RENAME"}
      BY InCall DEF OpsAt, Sets
    <3> DEFINE Places == {Room, "set", "limit", "scan", "delVictim", "subKey", "log", "readExp",
                          "delSrc", "clear", "zero", "setDst"}
    <3>2. Return(t) \/ \E x : \E l \in Places : Move(t, l, x)
      <4>1. CASE CheckNX(t) \/ CheckExists(t) \/ CheckLimit(t) \/ ScanShard(t) \/ DelVictim(t)
        BY <4>1 DEF CheckNX, CheckExists, CheckLimit, ScanShard, DelVictim, Goto
      <4>2. CASE SubKey(t)
        BY <3>1, <4>2 DEF SubKey, Goto, AfterSub, AfterRam
      <4>3. CASE Log(t) \/ Exists(t) \/ DelShard(t) \/ Expire(t) \/ LogDel(t)
        BY <4>3 DEF Log, Exists, DelShard, Expire, LogDel, Goto, AfterRam
      <4>4. CASE GetItem(t) \/ ReadExp(t) \/ DelSrc(t) \/ ClearShard(t) \/ ZeroKeys(t)
        BY <4>4 DEF GetItem, ReadExp, DelSrc, ClearShard, ZeroKeys, Goto
      <4>5. QED  BY <2>1, <4>1, <4>2, <4>3, <4>4
    <3>3. pc[t] # "idle"
      BY <2>1 DEF CheckNX, CheckExists, CheckLimit, SubKey, Log, Exists, DelShard, Expire,
        GetItem, ReadExp, DelSrc, LogDel, ClearShard, ZeroKeys, DelVictim, ScanShard
    <3>4. QED  BY <1>1, <1>2, <3>2, <3>3 DEF Room
  <2>2. CASE SetShard(t) \/ AddKey(t) \/ IncrBy(t) \/ AppendVal(t) \/ SetDst(t)
    <3>1. pc[t] # "idle" /\ req[t].op \in {"SET", "SETNX", "INCR", "APPEND", "RENAME"}
      BY <2>2, InCall DEF SetShard, AddKey, IncrBy, AppendVal, SetDst, OpsAt, Sets, NoColdSteps
    <3>2. Return(t) \/ \E x : \E l \in {"addKey", "log", "logDel", "get"} : Move(t, l, x)
      <4>1. CASE AddKey(t)
        BY <3>1, <4>1 DEF AddKey, Goto, AfterRam, AfterAdd
      <4>2. CASE SetShard(t) \/ IncrBy(t) \/ AppendVal(t) \/ SetDst(t)
        BY <4>2 DEF SetShard, IncrBy, AppendVal, SetDst, Goto, AfterRam
      <4>3. QED  BY <2>2, <4>1, <4>2
    <3>3. QED  BY <1>1, <1>2, <3>1, <3>2
  <2>3. CASE GetShard(t) \/ GetExpired(t)
    <3>1. Return(t) \/ \E x : \E l \in {"log", "getExpired"} : Move(t, l, x)
      BY <2>3 DEF GetShard, GetExpired, GetFound, GetMissed, Goto
    <3>2. QED  BY <1>1, <1>2, <2>3, <3>1 DEF GetShard, GetExpired
  <2>4. ~(ColdPut(t) \/ ColdDelete(t) \/ ColdGet(t) \/ Promote(t) \/ ExistsCold(t) \/ FlushAll(t))
    BY DEF NoColdSteps, ColdPut, ColdDelete, ColdGet, Promote, ExistsCold, FlushAll
  <2>5. QED  BY <1>4, <2>1, <2>2, <2>3, <2>4 DEF ClientStep
<1>5. ASSUME UNCHANGED client PROVE NoColdSteps'
  BY <1>5 DEF client, NoColdSteps
<1>6. QED  BY <1>3, <1>4, <1>5, RestSteps DEF Next

LEMMA JournalStep ==
  ASSUME ~HasCold
  PROVE  JInv /\ [Next]_vars => JInv'
<1> SUFFICES ASSUME JInv, [Next]_vars PROVE JInv'
  OBVIOUS
<1>1. IInv'  BY Inductive DEF JInv
<1>2. NoColdSteps'  BY NoColdKept
<1>3. WriteRecorded'
  <2>1. ASSUME NEW t \in Threads, Call(t) \/ ClientStep(t) PROVE WriteRecorded'
    <3>1. ~(ColdPut(t) \/ ColdDelete(t) \/ ColdGet(t) \/ Promote(t) \/ ExistsCold(t) \/ FlushAll(t))
      BY DEF JInv, NoColdSteps, ColdPut, ColdDelete, ColdGet, Promote, ExistsCold, FlushAll
    <3>2. QED
      BY <2>1, <3>1, LookingSteps, RemovingSteps, OwingSteps, WritingSteps, IncrSteps,
         ExpireSteps, ReadBackSteps
      DEF ClientStep
  <2>2. QED  BY <2>1, RestSteps DEF Next
<1>4. QED  BY <1>1, <1>2, <1>3 DEF JInv

LEMMA JournalInit == Init => JInv
<1> SUFFICES ASSUME Init PROVE JInv  OBVIOUS
<1>1. \A k \in Keys : ~Found(k)  BY DEF Init, Found
<1>2. \A t \in Threads : pc[t] = "idle"  BY DEF Init
<1>3. QED  BY <1>1, <1>2, Initial DEF JInv, NoColdSteps, WriteRecorded

\* Without cold store, for any number of clients, keys and shards: when no call
\* is under way, what RAM serves is in some record, in whatever order the
\* writers got from the shard lock to persister.Write.  (With a cold store an
\* APPEND that reads back what it wrote may find it evicted, and log "".)
THEOREM RamStaysJournaled ==
  ASSUME ~HasCold
  PROVE  Spec => []RamIsJournaled
<1>1. JInv => RamIsJournaled
  <2> SUFFICES ASSUME JInv, Quiet, NEW k \in Keys, Live(k)
               PROVE  \E i \in DOMAIN journal : journal[i].key = k /\ journal[i].val = items[k].val
    BY DEF RamIsJournaled
  <2>1. \A t \in Threads : ~Owes(t, k, items[k].val)  BY DEF Quiet, Owes, Debt
  <2>2. QED  BY <2>1 DEF JInv, WriteRecorded, Recorded, Live
<1>2. QED  BY <1>1, JournalInit, JournalStep, PTL DEF Spec

-------------------------------------------------------------------------------
(* What a restart restores, where nothing leaves RAM without a record: no   *)
(* cold store, no limit, no time to live and no FLUSHDB.  For a key that    *)
(* one client alone calls on, the last record of the key says what RAM has, *)
(* or that client is about to make it say so.                               *)

NothingForgotten == /\ ~HasCold /\ MaxKeys = 0 /\ TTLs \subseteq {0}
                    /\ \A t \in Threads : Ops[t] \cap {"EXPIRE", "FLUSHDB"} = {}

\* The last record of k in j has the value v, or there is none and v is None.
LastIs(j, k, v) ==
  \/ v = None /\ \A i \in DOMAIN j : j[i].key # k
  \/ \E i \in DOMAIN j : /\ j[i].key = k /\ j[i].val = v
                         /\ \A n \in DOMAIN j : j[n].key = k => n <= i

ValOf(i) == IF i = None THEN None ELSE i.val

\* What a call at l and the journal j have of k, whose item is i.
Fits(l, q, r, o, i, j, k) ==
  IF l \in {"addKey", "log", "logDel"} /\ q.dst = k THEN ValOf(i) = Logged(q, r, o)
  ELSE IF l = "get" /\ q.op = "APPEND" /\ q.key = k THEN i # None
  ELSE IF l \in {"subKey", "setDst", "addKey", "logDel"} /\ q.key = k THEN i = None
  ELSE LastIs(j, k, ValOf(i))

FitsFor(t, k) == Fits(pc[t], req[t], loc[t], out[t], items[k], journal, k)

KeyFits(k) == /\ \A t \in Threads : k \in KeysOf[t] => FitsFor(t, k)
              /\ (\A t \in Threads : k \notin KeysOf[t]) => LastIs(journal, k, ValOf(items[k]))

\* A call on t's keys that sets no time to live.
Plain(t, l, q, r) ==
  /\ l \notin {"room", "limit", "scan", "delVictim", "getExpired", "clear", "zero"}
  /\ l = "subKey" => q.op \notin Sets
  /\ q.key \in KeysOf[t] /\ q.dst \in KeysOf[t]
  /\ q.exp = 0 /\ q.ttl = 0 /\ r.exp = 0
  /\ q.op = "DEL" => q.val = None

NoExpiry == /\ \A k \in Keys : Found(k) => items[k].exp = 0
            /\ \A i \in DOMAIN journal : journal[i].exp = 0

AllPlain == \A t \in Threads : pc[t] # "idle" => Plain(t, pc[t], req[t], loc[t])

OwnKeysFit == \A k \in Keys : OneWriter(k) => KeyFits(k)

\* What a Rename has looked up has no expiry time, even when it has left RAM.
OrphansEternal == \A t \in Threads : orphan[t] \in {None, 0}

AInv == /\ JInv /\ AllPlain /\ NoExpiry /\ OwnKeysFit /\ jan.task # "cold"
        /\ OrphansEternal

LEMMA LastAppended ==
  ASSUME NEW j \in Seq(Records), NEW r \in Records, NEW k
  PROVE  /\ r.key = k => LastIs(Append(j, r), k, r.val)
         /\ \A v : r.key # k /\ LastIs(j, k, v) => LastIs(Append(j, r), k, v)
<1>1. /\ DOMAIN Append(j, r) = 1..Len(j) + 1 /\ DOMAIN j = 1..Len(j) /\ Len(j) \in Nat
      /\ Append(j, r)[Len(j) + 1] = r
      /\ \A i \in 1..Len(j) : Append(j, r)[i] = j[i]
  OBVIOUS
<1> DEFINE a == Append(j, r)
<1> HIDE DEF a
<1>2. /\ DOMAIN a = 1..Len(j) + 1 /\ Len(j) \in Nat /\ a[Len(j) + 1] = r
      /\ \A i \in 1..Len(j) : a[i] = j[i]
  BY <1>1 DEF a
<1>3. ASSUME r.key = k PROVE LastIs(a, k, r.val)
  BY <1>2, <1>3 DEF LastIs
<1>4. ASSUME NEW v, r.key # k, LastIs(j, k, v) PROVE LastIs(a, k, v)
  <2>1. CASE v = None /\ \A i \in DOMAIN j : j[i].key # k
    BY <1>1, <1>2, <1>4, <2>1 DEF LastIs
  <2>2. CASE \E i \in DOMAIN j : /\ j[i].key = k /\ j[i].val = v
                                 /\ \A n \in DOMAIN j : j[n].key = k => n <= i
    <3>1. PICK i \in DOMAIN j : /\ j[i].key = k /\ j[i].val = v
                                /\ \A n \in DOMAIN j : j[n].key = k => n <= i
      BY <2>2
    <3>2. i \in DOMAIN a /\ a[i].key = k /\ a[i].val = v  BY <1>1, <1>2, <3>1
    <3>3. ASSUME NEW n \in DOMAIN a, a[n].key = k PROVE n <= i
      BY <1>1, <1>2, <1>4, <3>1, <3>3
    <3>4. QED  BY <3>2, <3>3 DEF LastIs
  <2>3. QED  BY <1>4, <2>1, <2>2 DEF LastIs
<1>5. QED  BY <1>3, <1>4 DEF a

\* What Open restores of a key is what its last record says.
LEMMA RecoversLast ==
  ASSUME NoExpiry, JournalOK, NEW k, NEW v, LastIs(journal, k, v)
  PROVE  Recovered(k) = v
<1> DEFINE I == {i \in DOMAIN journal : journal[i].key = k /\ Replayed(journal[i])}
<1>1. I = {i \in DOMAIN journal : journal[i].key = k}
  BY DEF NoExpiry, Replayed
<1>2. CASE v = None /\ \A i \in DOMAIN journal : journal[i].key # k
  BY <1>1, <1>2 DEF Recovered
<1>3. CASE \E i \in DOMAIN journal : /\ journal[i].key = k /\ journal[i].val = v
                                     /\ \A n \in DOMAIN journal : journal[n].key = k => n <= i
  <2>1. PICK i \in I : journal[i].val = v /\ \A n \in I : n <= i
    BY <1>1, <1>3
  <2>2. I \subseteq Nat  BY DEF JournalOK
  <2>3. ASSUME NEW m \in I, \A n \in I : n <= m PROVE m = i
    BY <2>1, <2>2, <2>3
  <2>4. (CHOOSE m \in I : \A n \in I : n <= m) = i
    BY <2>1, <2>3
  <2>5. QED  BY <2>1, <2>4 DEF Recovered
<1>4. QED  BY <1>2, <1>3 DEF LastIs

\* t leaves k and its records alone.
Aside(k) == items'[k] = items[k] /\ \A v : LastIs(journal, k, v) => LastIs(journal', k, v)

\* t has k as it should after its step.
FitsNext(t, k) == Fits(pc'[t], req'[t], loc'[t], out'[t], items'[k], journal', k)

\* Only the keys of the thread that steps are looked at.
LEMMA OthersFit ==
  ASSUME AInv, NEW t \in Threads, StepOf(t),
         \A k \in Keys : k \notin KeysOf[t] => Aside(k),
         \A k \in KeysOf[t] : FitsFor(t, k) => FitsNext(t, k)
  PROVE  OwnKeysFit'
<1> SUFFICES ASSUME NEW k \in Keys, OneWriter(k) PROVE KeyFits(k)'
  BY DEF OwnKeysFit, OneWriter
<1>1. KeyFits(k)  BY DEF AInv, OwnKeysFit
<1>2. ASSUME NEW u \in Threads, k \in KeysOf[u] PROVE FitsFor(u, k)'
  <2>1. FitsFor(u, k)  BY <1>1, <1>2 DEF KeyFits
  <2>2. CASE u = t  BY <1>2, <2>1, <2>2 DEF FitsNext, FitsFor
  <2>3. CASE u # t
    <3>1. k \notin KeysOf[t]  BY <1>2, <2>3, OnlyOne
    <3>2. Aside(k)  BY <3>1
    <3>3. pc'[u] = pc[u] /\ req'[u] = req[u] /\ loc'[u] = loc[u] /\ out'[u] = out[u]
      BY <2>3 DEF StepOf
    <3>4. Fits(pc[u], req[u], loc[u], out[u], items'[k], journal', k)
      BY <2>1, <3>2 DEF Fits, FitsFor, Aside
    <3>5. QED  BY <3>3, <3>4 DEF FitsFor
  <2>4. QED  BY <2>2, <2>3
<1>3. ASSUME \A u \in Threads : k \notin KeysOf[u] PROVE LastIs(journal', k, ValOf(items'[k]))
  <2>1. LastIs(journal, k, ValOf(items[k]))  BY <1>1, <1>3 DEF KeyFits
  <2>2. Aside(k)  BY <1>3
  <2>3. QED  BY <2>1, <2>2 DEF Aside
<1>4. QED  BY <1>2, <1>3 DEF KeyFits

\* What a step of t has to do for all to fit.
StepFits(t) == /\ pc'[t] # "idle" => Plain(t, pc'[t], req'[t], loc'[t])
               /\ \A k \in Keys : k \notin KeysOf[t] => Aside(k)
               /\ \A k \in KeysOf[t] : FitsFor(t, k) => FitsNext(t, k)
               /\ NoExpiry'

LEMMA Fitting ==
  ASSUME AInv, NEW t \in Threads, StepOf(t), StepFits(t)
  PROVE  AllPlain' /\ NoExpiry' /\ OwnKeysFit'
<1>1. OwnKeysFit'  BY OthersFit DEF StepFits
<1>2. AllPlain'
  BY DEF AInv, AllPlain, StepFits, StepOf
<1>3. QED  BY <1>1, <1>2 DEF StepFits

\* The call that t is in.
LEMMA Doing ==
  ASSUME AInv, NEW t \in Threads, pc[t] # "idle"
  PROVE  /\ Plain(t, pc[t], req[t], loc[t]) /\ req[t].op \in OpsAt(pc[t])
         /\ req[t].key \in Keys /\ req[t].dst \in Keys
         /\ req[t].op # "RENAME" => req[t].dst = req[t].key
<1>1. Plain(t, pc[t], req[t], loc[t])  BY DEF AInv, AllPlain
<1>2. req[t].op \in OpsAt(pc[t])  BY InCall DEF AInv, JInv
<1>3. KeysOf[t] \subseteq Keys  BY CacheAssumptions
<1>4. QED  BY <1>1, <1>2, <1>3 DEF Plain, AInv, JInv, NoColdSteps

\* A key has not expired.
LEMMA FoundIsLive ==
  ASSUME AInv, NEW k \in Keys
  PROVE  Found(k) <=> Live(k)
BY DEF AInv, NoExpiry, Live, IsExpired

LEMMA LookingFits ==
  ASSUME NothingForgotten, AInv, NEW t \in Threads, CheckNX(t) \/ Exists(t) \/ GetItem(t) \/ ReadExp(t)
  PROVE  StepFits(t)
<1>1. items' = items /\ journal' = journal
  BY DEF CheckNX, Exists, GetItem, ReadExp, ram
<1>2. pc[t] \in {"nx", "exists", "getItem", "readExp"}
  BY DEF CheckNX, Exists, GetItem, ReadExp
<1>3. Plain(t, pc[t], req[t], loc[t]) /\ req[t].op \in OpsAt(pc[t]) /\ req[t].key \in Keys
  BY <1>2, Doing
<1>4. pc'[t] \in {"idle", "set", "readExp", "delSrc"}
      /\ (pc'[t] # "idle" => req'[t] = req[t] /\ loc'[t].exp = 0)
  <2> USE DEF AInv, JInv, IInv, TypeOK, ClientOK
  <2>1. loc[t] \in Locals  OBVIOUS
  <2>2. CASE Return(t)  BY <2>2 DEF Return
  <2>3. CASE CheckNX(t) /\ Goto(t, Room)
    <3>1. Room = "set"  BY <1>2 DEF NothingForgotten, Room
    <3>2. pc'[t] = "set" /\ req'[t] = req[t] /\ loc'[t] = loc[t]  BY <2>1, <2>3, <3>1 DEF Goto, Move
    <3>3. QED  BY <1>3, <3>2 DEF Plain
  <2>4. CASE GetItem(t) /\ ~Return(t)
    <3>1. Live(req[t].key)  BY <2>4 DEF GetItem
    <3>2. items[req[t].key].exp = 0  BY <1>3, <3>1 DEF Live, NoExpiry
    <3> DEFINE l == [loc[t] EXCEPT !.val = items[req[t].key].val, !.exp = items[req[t].key].exp]
    <3>3. Move(t, "readExp", l)  BY <2>4, <3>1 DEF GetItem
    <3>4. pc'[t] = "readExp" /\ req'[t] = req[t] /\ loc'[t] = l  BY <3>3 DEF Move
    <3>5. l.exp = items[req[t].key].exp  BY <2>1 DEF Locals
    <3>6. QED  BY <3>2, <3>4, <3>5
  <2>5. CASE ReadExp(t)
    <3> DEFINE e == IF orphan[t] = None THEN items[req[t].key].exp ELSE orphan[t]
               l == [loc[t] EXCEPT !.exp = e]
    <3>1. orphan[t] = None => Found(req[t].key)  BY <2>5 DEF ReadExp, HeldOK
    <3>2. e = 0  BY <1>3, <3>1 DEF NoExpiry, OrphansEternal
    <3>3. pc'[t] = "delSrc" /\ req'[t] = req[t] /\ loc'[t] = l  BY <2>5 DEF ReadExp, Move
    <3>4. l.exp = e  BY <2>1 DEF Locals
    <3>5. QED  BY <3>2, <3>3, <3>4
  <2>6. QED  BY <2>2, <2>3, <2>4, <2>5 DEF CheckNX, Exists, NothingForgotten
<1>5. pc'[t] # "idle" => Plain(t, pc'[t], req'[t], loc'[t])
  BY <1>3, <1>4 DEF Plain
<1>6. \A k \in KeysOf[t] : FitsFor(t, k) => FitsNext(t, k)
  BY <1>1, <1>2, <1>4 DEF FitsFor, FitsNext, Fits
<1>7. NoExpiry'  BY <1>1 DEF AInv, NoExpiry, Found
<1>8. QED  BY <1>1, <1>5, <1>6, <1>7 DEF StepFits, Aside

\* A step of t that changes no value and sets no expiry time.
SameValue(k) == /\ items'[k] = None <=> items[k] = None
                /\ ValOf(items'[k]) = ValOf(items[k])
                /\ Found(k) => items'[k].exp = 0

LEMMA TouchFits ==
  ASSUME AInv, NEW k \in Keys, NEW i \in Item, i.val = items[k].val, i.exp = 0, Found(k),
         SetItem(k, i)
  PROVE  \A j \in Keys : SameValue(j) /\ (j # k => items'[j] = items[j])
<1>1. i # None  BY CacheAssumptions DEF Item
<1>2. items' = [items EXCEPT ![k] = i] /\ items \in [Keys -> Item \cup {None}]
  BY DEF SetItem, AInv, JInv, IInv, TypeOK, RamOK
<1>3. items'[k] = i /\ \A j \in Keys : j # k => items'[j] = items[j]
  BY <1>2
<1>4. QED  BY <1>1, <1>3 DEF SameValue, ValOf, Found, AInv, NoExpiry

LEMMA SameExpiry ==
  ASSUME AInv, journal' = journal, \A k \in Keys : SameValue(k)
  PROVE  NoExpiry'
BY DEF AInv, NoExpiry, SameValue, Found

LEMMA GetFits ==
  ASSUME NothingForgotten, AInv, NEW t \in Threads, GetShard(t)
  PROVE  StepFits(t)
<1> USE DEF AInv, JInv, IInv, TypeOK
<1> DEFINE k == req[t].key
<1>1. pc[t] = "get" /\ journal' = journal  BY DEF GetShard
<1>2. Plain(t, pc[t], req[t], loc[t]) /\ req[t].op \in {"GET", "APPEND"} /\ k \in Keys
      /\ req[t].dst = k
  BY <1>1, Doing DEF OpsAt
<1>3. Found(k) <=> Live(k)  BY <1>2, FoundIsLive
<1>4. CASE Found(k)
  <2>1. GetFound(t, items[k].val) /\ Touch(k)  BY <1>3, <1>4 DEF GetShard
  <2> DEFINE i == [items[k] EXCEPT !.acc = clk]
  <2>2. items[k] \in Item /\ items[k].exp = 0  BY <1>2, <1>4, FoundType DEF NoExpiry
  <2>3. i \in Item /\ i.val = items[k].val /\ i.exp = 0
    BY <2>2 DEF Item, TimeOK
  <2>4. SetItem(k, i)  BY <2>1 DEF Touch
  <2> HIDE DEF i, k
  <2>5. \A j \in Keys : SameValue(j) /\ (j # k => items'[j] = items[j])
    BY <1>2, <1>4, <2>3, <2>4, TouchFits
  <2>6. CASE req[t].op = "GET"
    <3>1. pc'[t] = "idle"  BY <2>1, <2>6 DEF GetFound, Return, ClientOK
    <3>2. ASSUME NEW j \in KeysOf[t], FitsFor(t, j) PROVE FitsNext(t, j)
      <4>1. j \in Keys  BY CacheAssumptions
      <4>2. LastIs(journal, j, ValOf(items[j]))  BY <1>1, <2>6, <3>2 DEF FitsFor, Fits
      <4>3. LastIs(journal', j, ValOf(items'[j]))  BY <1>1, <2>5, <4>1, <4>2 DEF SameValue
      <4>4. QED  BY <3>1, <4>3 DEF FitsNext, Fits
    <3>3. QED
      BY <1>1, <1>2, <2>5, <3>1, <3>2, SameExpiry DEF StepFits, Aside, k, Plain
  <2>7. CASE req[t].op = "APPEND"
    <3>1. Move(t, "log", [loc[t] EXCEPT !.val = items[k].val])
      BY <2>1, <2>7 DEF GetFound
    <3>2. pc'[t] = "log" /\ req'[t] = req[t] /\ loc'[t].val = items[k].val /\ loc'[t].exp = 0
      BY <1>2, <3>1 DEF Move, ClientOK, Locals, Plain
    <3>3. ASSUME NEW j \in KeysOf[t], FitsFor(t, j) PROVE FitsNext(t, j)
      <4>1. j \in Keys  BY CacheAssumptions
      <4>2. CASE j = k
        <5>1. ValOf(items'[k]) = items[k].val
          BY <1>2, <1>4, <2>5 DEF SameValue, ValOf, Found
        <5>2. QED  BY <1>2, <2>7, <3>2, <4>2, <5>1 DEF FitsNext, Fits, Logged, k
      <4>3. CASE j # k
        <5>1. LastIs(journal, j, ValOf(items[j]))
          BY <1>1, <1>2, <3>3, <4>3 DEF FitsFor, Fits, k
        <5>2. LastIs(journal', j, ValOf(items'[j]))  BY <1>1, <2>5, <4>1, <4>3, <5>1
        <5>3. QED  BY <1>2, <3>2, <4>3, <5>2 DEF FitsNext, Fits, k
      <4>4. QED  BY <4>2, <4>3
    <3>4. Plain(t, "log", req[t], loc'[t])  BY <1>2, <3>2, <2>7 DEF Plain
    <3>5. QED
      BY <1>1, <1>2, <2>5, <3>2, <3>3, <3>4, SameExpiry DEF StepFits, Aside, k, Plain
  <2>8. QED  BY <1>2, <2>6, <2>7
<1>5. CASE ~Found(k)
  <2>1. GetMissed(t) /\ items' = items  BY <1>3, <1>5 DEF GetShard
  <2>2. \A j \in Keys : SameValue(j)
    BY <2>1 DEF SameValue, NoExpiry
  <2>3. CASE req[t].op = "GET"
    <3>1. pc'[t] = "idle"  BY <2>1, <2>3 DEF GetMissed, Return, ClientOK, NothingForgotten
    <3>2. ASSUME NEW j \in KeysOf[t], FitsFor(t, j) PROVE FitsNext(t, j)
      BY <1>1, <2>1, <2>3, <3>1, <3>2 DEF FitsFor, FitsNext, Fits
    <3>3. QED  BY <1>1, <2>1, <2>2, <3>1, <3>2, SameExpiry DEF StepFits, Aside
  <2>4. CASE req[t].op = "APPEND"
    <3>1. Move(t, "log", [loc[t] EXCEPT !.val = Empty])  BY <2>1, <2>4 DEF GetMissed
    <3>2. pc'[t] = "log" /\ req'[t] = req[t] /\ loc'[t].exp = 0
      BY <1>2, <3>1 DEF Move, ClientOK, Locals, Plain
    <3>3. ASSUME NEW j \in KeysOf[t], FitsFor(t, j) PROVE FitsNext(t, j)
      <4>1. j # k  BY <1>1, <1>5, <2>4, <3>3 DEF FitsFor, Fits, Found
      <4>2. QED  BY <1>1, <1>2, <2>1, <3>2, <3>3, <4>1 DEF FitsFor, FitsNext, Fits
    <3>4. Plain(t, "log", req[t], loc'[t])  BY <1>2, <2>4, <3>2 DEF Plain
    <3>5. QED  BY <1>1, <2>1, <2>2, <3>2, <3>3, <3>4, SameExpiry DEF StepFits, Aside
  <2>5. QED  BY <1>2, <2>3, <2>4
<1>6. QED  BY <1>4, <1>5

LEMMA PersistFits ==
  ASSUME NothingForgotten, AInv, NEW t \in Threads, Expire(t)
  PROVE  StepFits(t)
<1> USE DEF AInv, JInv, IInv, TypeOK
<1> DEFINE k == req[t].key
<1>1. pc[t] = "expire" /\ journal' = journal /\ pc'[t] = "idle"
  BY DEF Expire, Return, ClientOK
<1>2. Plain(t, pc[t], req[t], loc[t]) /\ k \in Keys  BY <1>1, Doing
<1>3. \A j \in Keys : SameValue(j) /\ (j # k => items'[j] = items[j])
  <2>1. CASE Live(k)
    <3> DEFINE i == [items[k] EXCEPT !.exp = req[t].exp]
    <3>1. items[k] \in Item /\ Found(k)  BY <1>2, <2>1, FoundType DEF Live
    <3>2. i \in Item /\ i.val = items[k].val /\ i.exp = 0
      BY <1>2, <3>1 DEF Item, Plain
    <3>3. SetItem(k, i)  BY <2>1 DEF Expire
    <3> HIDE DEF i, k
    <3>4. QED  BY <1>2, <3>1, <3>2, <3>3, TouchFits
  <2>2. CASE ~Live(k)
    <3>1. items' = items  BY <2>2 DEF Expire
    <3>2. QED  BY <3>1 DEF SameValue, NoExpiry
  <2>3. QED  BY <2>1, <2>2
<1> HIDE DEF k
<1>4. ASSUME NEW j \in KeysOf[t], FitsFor(t, j) PROVE FitsNext(t, j)
  <2>1. j \in Keys  BY CacheAssumptions
  <2>2. LastIs(journal, j, ValOf(items[j]))  BY <1>1, <1>4 DEF FitsFor, Fits
  <2>3. LastIs(journal', j, ValOf(items'[j]))  BY <1>1, <1>3, <2>1, <2>2 DEF SameValue
  <2>4. QED  BY <1>1, <2>3 DEF FitsNext, Fits
<1>5. k \in KeysOf[t]  BY <1>2 DEF Plain, k
<1>6. QED  BY <1>1, <1>3, <1>4, <1>5, SameExpiry DEF StepFits, Aside

\* A step of t that writes item i, which does not expire, to the key w, and
\* goes to l with the record of it still to be written.
LEMMA WriteFits ==
  ASSUME AInv, NEW t \in Threads, NEW w \in KeysOf[t], req[t].dst = w, NEW i \in Item, i.exp = 0,
         NEW l \in {"addKey", "log", "logDel", "get"},
         SetItem(w, i), journal' = journal, pc'[t] = l, req'[t] = req[t], loc'[t].exp = 0,
         \/ pc[t] \in {"set", "incr", "append"} /\ req[t].key = w
         \/ pc[t] = "setDst" /\ l \in {"addKey", "logDel"},
         IF l = "get" THEN req[t].op = "APPEND" ELSE i.val = Logged(req[t], loc'[t], out'[t])
  PROVE  StepFits(t)
<1> USE DEF AInv, JInv, IInv, TypeOK
<1>1. Plain(t, pc[t], req[t], loc[t]) /\ KeysOf[t] \subseteq Keys
  BY Doing, CacheAssumptions
<1>2. i # None  BY CacheAssumptions DEF Item
<1>3. items'[w] = i /\ \A j \in Keys : j # w => items'[j] = items[j]
  BY <1>1 DEF SetItem, RamOK
<1>4. NoExpiry'  BY <1>3 DEF NoExpiry, Found
<1>5. ASSUME NEW k \in KeysOf[t], FitsFor(t, k) PROVE FitsNext(t, k)
  <2>1. CASE k = w
    <3>1. CASE l = "get"
      <4>1. req[t].key = w  BY <3>1
      <4>2. QED  BY <1>2, <1>3, <2>1, <3>1, <4>1 DEF FitsNext, Fits
    <3>2. CASE l # "get"
      BY <1>2, <1>3, <2>1, <3>2 DEF FitsNext, Fits, ValOf
    <3>3. QED  BY <3>1, <3>2
  <2>2. CASE k # w
    <3>1. items'[k] = items[k]  BY <1>1, <1>3, <2>2
    <3>2. CASE req[t].key = k
      BY <1>5, <2>2, <3>1, <3>2 DEF FitsFor, FitsNext, Fits
    <3>3. CASE req[t].key # k
      BY <1>5, <2>2, <3>1, <3>3 DEF FitsFor, FitsNext, Fits
    <3>4. QED  BY <3>2, <3>3
  <2>3. QED  BY <2>1, <2>2
<1>6. Plain(t, l, req[t], loc'[t])  BY <1>1 DEF Plain
<1>7. \A k \in Keys : k \notin KeysOf[t] => Aside(k)  BY <1>3 DEF Aside
<1>8. QED  BY <1>4, <1>5, <1>6, <1>7 DEF StepFits

LEMMA SettingFits ==
  ASSUME NothingForgotten, AInv, NEW t \in Threads, SetShard(t) \/ SetDst(t)
  PROVE  StepFits(t)
<1> USE DEF AInv, JInv, IInv, TypeOK
<1>1. pc[t] \in {"set", "setDst"} /\ journal' = journal  BY DEF SetShard, SetDst
<1>2. /\ Plain(t, pc[t], req[t], loc[t])
      /\ req[t].dst \in KeysOf[t] /\ req[t].op \in OpsAt(pc[t])
      /\ RequestOK(t, req[t]) /\ LocalsOK(pc[t], req[t], loc[t]) /\ loc[t] \in Locals
  BY <1>1, Doing, InCall DEF Plain
<1>3. CASE SetShard(t)
  <2>1. req[t].op \in Sets /\ req[t].val \in Value /\ req[t].dst = req[t].key
    BY <1>2, <1>3, Doing DEF SetShard, OpsAt, RequestOK, Sets
  <2>2. PICK l \in {"log", "addKey"} : Move(t, l, Scratch)
    BY <1>3 DEF SetShard, AfterRam, NothingForgotten
  <2>3. pc'[t] = l /\ req'[t] = req[t] /\ loc'[t].exp = 0
    BY <2>2 DEF Move, ClientOK, Scratch
  <2> DEFINE i == NewItem(req[t].val, req[t].exp)
  <2>4. i \in Item /\ i.exp = 0 /\ i.val = req[t].val
    BY <1>2, <2>1 DEF NewItem, Item, TimeOK, Plain
  <2>5. SetItem(req[t].dst, i)  BY <1>3, <2>1 DEF SetShard
  <2>6. Logged(req[t], loc'[t], out'[t]) = req[t].val  BY <2>1 DEF Logged, Sets
  <2> HIDE DEF i
  <2>7. pc[t] = "set"  BY <1>3 DEF SetShard
  <2>8. QED  BY <1>1, <1>2, <2>1, <2>3, <2>4, <2>5, <2>6, <2>7, WriteFits
<1>4. CASE SetDst(t)
  <2>1. req[t].op = "RENAME" /\ loc[t].val \in Value
    BY <1>2, <1>4 DEF SetDst, OpsAt, LocalsOK
  <2>2. PICK l \in {"logDel", "addKey"} : Move(t, l, loc[t])
    BY <1>4 DEF SetDst, Goto
  <2>3. pc'[t] = l /\ req'[t] = req[t] /\ loc'[t] = loc[t] /\ loc[t].exp = 0
    BY <1>2, <2>2 DEF Move, ClientOK, Plain
  <2> DEFINE i == NewItem(loc[t].val, loc[t].exp)
  <2>4. i \in Item /\ i.exp = 0 /\ i.val = loc[t].val
    BY <2>1, <2>3 DEF NewItem, Item, TimeOK
  <2>5. SetItem(req[t].dst, i)  BY <1>4 DEF SetDst
  <2>6. Logged(req[t], loc'[t], out'[t]) = loc[t].val  BY <2>1, <2>3 DEF Logged
  <2> HIDE DEF i
  <2>7. pc[t] = "setDst"  BY <1>4 DEF SetDst
  <2>8. QED  BY <1>1, <1>2, <2>2, <2>3, <2>4, <2>5, <2>6, <2>7, WriteFits
<1>5. QED  BY <1>3, <1>4

LEMMA IncrFits ==
  ASSUME NothingForgotten, AInv, NEW t \in Threads, IncrBy(t)
  PROVE  StepFits(t)
<1> USE DEF AInv, JInv, IInv, TypeOK
<1> DEFINE k == req[t].key
           n == IF Live(k) THEN items[k].val + req[t].val ELSE req[t].val
<1>1. pc[t] = "incr" /\ journal' = journal  BY DEF IncrBy
<1>2. /\ Plain(t, pc[t], req[t], loc[t])
      /\ req[t].dst = k /\ k \in KeysOf[t] /\ k \in Keys /\ req[t].op = "INCR"
      /\ req[t].val \in Nat
  BY <1>1, Doing, InCall DEF Plain, OpsAt, RequestOK
<1>3. ASSUME NEW i \in Item, i.exp = 0, i.val = n, SetItem(k, i), Answer(t, n),
             NEW l \in {"addKey", "log"}, Goto(t, l)
      PROVE  StepFits(t)
  <2>1. pc'[t] = l /\ req'[t] = req[t] /\ loc'[t].exp = 0 /\ out'[t] = n
    BY <1>2, <1>3 DEF Goto, Move, Answer, ClientOK, Plain
  <2>2. Logged(req[t], loc'[t], out'[t]) = n  BY <1>2, <2>1 DEF Logged
  <2> HIDE DEF n
  <2>3. QED  BY <1>1, <1>2, <1>3, <2>1, <2>2, WriteFits
<1>4. CASE ~Live(k)
  <2> DEFINE i == NewItem(req[t].val, 0)
  <2>1. i \in Item /\ i.exp = 0 /\ i.val = n  BY <1>2, <1>4 DEF NewItem, Item, TimeOK, Value
  <2>2. SetItem(k, i) /\ Answer(t, n) /\ Goto(t, "addKey")  BY <1>4 DEF IncrBy
  <2> HIDE DEF i, k, n
  <2>3. QED  BY <1>3, <2>1, <2>2
<1>5. CASE Live(k) /\ items[k].val \in Nat
  <2> DEFINE i == [items[k] EXCEPT !.val = @ + req[t].val, !.acc = clk]
  <2>1. items[k] \in Item /\ items[k].exp = 0  BY <1>2, <1>5, FoundType DEF Live, NoExpiry
  <2>2. items[k].val + req[t].val \in Nat  BY <1>2, <1>5
  <2>3. i \in Item /\ i.exp = 0 /\ i.val = n  BY <1>5, <2>1, <2>2 DEF Item, TimeOK, Value
  <2>4. SetItem(k, i) /\ Answer(t, n) /\ Goto(t, "log")  BY <1>5 DEF IncrBy
  <2> HIDE DEF i, k, n
  <2>5. QED  BY <1>3, <2>3, <2>4
<1>6. CASE Live(k) /\ items[k].val \notin Nat
  <2>1. items' = items /\ Return(t)  BY <1>6 DEF IncrBy
  <2>2. pc'[t] = "idle"  BY <2>1 DEF Return, ClientOK
  <2>3. \A j \in Keys : SameValue(j)  BY <2>1 DEF SameValue, NoExpiry
  <2>4. \A j \in KeysOf[t] : FitsFor(t, j) => FitsNext(t, j)
    BY <1>1, <2>1, <2>2 DEF FitsFor, FitsNext, Fits
  <2>5. QED  BY <1>1, <2>1, <2>2, <2>3, <2>4, SameExpiry DEF StepFits, Aside
<1>7. QED  BY <1>4, <1>5, <1>6

LEMMA AppendFits ==
  ASSUME NothingForgotten, AInv, NEW t \in Threads, AppendVal(t)
  PROVE  StepFits(t)
<1> USE DEF AInv, JInv, IInv, TypeOK
<1> DEFINE k == req[t].key
<1>1. pc[t] = "append" /\ journal' = journal  BY DEF AppendVal
<1>2. /\ Plain(t, pc[t], req[t], loc[t]) /\ loc[t] \in Locals
      /\ req[t].dst = k /\ k \in KeysOf[t] /\ k \in Keys /\ req[t].op = "APPEND"
      /\ req[t].val \in Nat
  BY <1>1, Doing, InCall DEF Plain, OpsAt, RequestOK
<1>3. CASE Live(k)
  <2> DEFINE v == Glue(items[k].val, req[t].val)
             i == [items[k] EXCEPT !.val = v, !.acc = clk]
  <2>1. items[k] \in Item /\ items[k].exp = 0 /\ items[k].val \in Value
    BY <1>2, <1>3, FoundType DEF Live, NoExpiry
  <2>2. v \in Value  BY <1>2, <2>1, GlueType
  <2> HIDE DEF v
  <2>3. i \in Item /\ i.exp = 0  BY <2>1, <2>2 DEF Item, TimeOK
  <2>4. SetItem(k, i) /\ Goto(t, "get")  BY <1>3 DEF AppendVal, v
  <2>5. pc'[t] = "get" /\ req'[t] = req[t] /\ loc'[t].exp = 0
    BY <1>2, <2>4 DEF Goto, Move, ClientOK, Plain
  <2> HIDE DEF i, k
  <2>6. QED  BY <1>1, <1>2, <2>3, <2>4, <2>5, WriteFits DEF k
<1>4. CASE ~Live(k)
  <2> DEFINE i == NewItem(req[t].val, 0)
  <2>1. i \in Item /\ i.exp = 0 /\ i.val = req[t].val
    BY <1>2 DEF NewItem, Item, TimeOK, Value
  <2>2. SetItem(k, i) /\ Move(t, "addKey", [loc[t] EXCEPT !.val = req[t].val])
    BY <1>4 DEF AppendVal
  <2>3. pc'[t] = "addKey" /\ req'[t] = req[t] /\ loc'[t].exp = 0 /\ loc'[t].val = req[t].val
    BY <1>2, <2>2 DEF Move, ClientOK, Plain, Locals
  <2>4. Logged(req[t], loc'[t], out'[t]) = req[t].val  BY <1>2, <2>3 DEF Logged
  <2> HIDE DEF i, k
  <2>5. QED  BY <1>1, <1>2, <2>1, <2>2, <2>3, <2>4, WriteFits DEF k
<1>5. QED  BY <1>3, <1>4

LEMMA DeletingFits ==
  ASSUME NothingForgotten, AInv, NEW t \in Threads, DelShard(t) \/ DelSrc(t)
  PROVE  StepFits(t)
<1> USE DEF AInv, JInv, IInv, TypeOK
<1> DEFINE k == req[t].key
<1>1. pc[t] \in {"del", "delSrc"} /\ journal' = journal /\ items' = Removed({k})
  BY DEF DelShard, DelSrc
<1>2. /\ Plain(t, pc[t], req[t], loc[t])
      /\ k \in KeysOf[t] /\ k \in Keys /\ KeysOf[t] \subseteq Keys
      /\ req[t].op \in OpsAt(pc[t]) /\ (req[t].op # "RENAME" => req[t].dst = k)
  BY <1>1, Doing, CacheAssumptions DEF Plain
<1>3. req[t].op = IF pc[t] = "del" THEN "DEL" ELSE "RENAME"  BY <1>1, <1>2 DEF OpsAt
<1>4. PICK l \in {"subKey", "log"} : Goto(t, l) /\ (l = "log" => pc[t] = "del")
  BY DEF DelShard, DelSrc, AfterRam, NothingForgotten
<1>5. pc'[t] = l /\ req'[t] = req[t] /\ loc'[t] = loc[t]
  BY <1>4 DEF Goto, Move, ClientOK
<1>6. items'[k] = None /\ \A j \in Keys : j # k => items'[j] = items[j]
  BY <1>1, <1>2 DEF Removed
<1>7. ASSUME NEW j \in KeysOf[t], FitsFor(t, j) PROVE FitsNext(t, j)
  <2>1. CASE j = k
    <3>1. CASE l = "subKey"  BY <1>5, <1>6, <2>1, <3>1 DEF FitsNext, Fits
    <3>2. CASE l = "log"
      <4>1. req[t].op = "DEL" /\ req[t].dst = k /\ req[t].val = None
        BY <1>2, <1>3, <1>4, <3>2 DEF Plain
      <4>2. QED  BY <1>5, <1>6, <2>1, <3>2, <4>1 DEF FitsNext, Fits, Logged, ValOf
    <3>3. QED  BY <3>1, <3>2
  <2>2. CASE j # k
    <3>1. items'[j] = items[j]  BY <1>2, <1>6, <2>2
    <3>2. l = "log" => req[t].dst = k  BY <1>2, <1>3, <1>4
    <3>3. LastIs(journal, j, ValOf(items[j]))  BY <1>1, <1>7 DEF FitsFor, Fits
    <3>4. QED  BY <1>1, <1>5, <2>2, <3>1, <3>2, <3>3 DEF FitsNext, Fits
  <2>3. QED  BY <2>1, <2>2
<1>8. Plain(t, l, req[t], loc[t])  BY <1>2, <1>3 DEF Plain, Sets
<1>9. NoExpiry'  BY <1>1, <1>6 DEF NoExpiry, Found
<1>10. \A j \in Keys : j \notin KeysOf[t] => Aside(j)  BY <1>1, <1>2, <1>6 DEF Aside
<1>11. QED  BY <1>5, <1>7, <1>8, <1>9, <1>10 DEF StepFits

LEMMA CountingFits ==
  ASSUME NothingForgotten, AInv, NEW t \in Threads, AddKey(t) \/ SubKey(t)
  PROVE  StepFits(t)
<1> USE DEF AInv, JInv, IInv, TypeOK
<1> DEFINE k == req[t].key
<1>1. pc[t] \in {"addKey", "subKey"} /\ items' = items /\ journal' = journal /\ out' = out
  BY DEF AddKey, SubKey
<1>2. /\ Plain(t, pc[t], req[t], loc[t])
      /\ req[t].op \in OpsAt(pc[t]) /\ (req[t].op # "RENAME" => req[t].dst = k)
      /\ pc[t] = "addKey" => req[t].op # "GET"
  BY <1>1, Doing DEF NoColdSteps
<1>3. PICK l : Goto(t, l) /\ l = IF pc[t] = "addKey" THEN AfterAdd(req[t].op)
                                                     ELSE AfterSub(req[t].op)
  BY DEF AddKey, SubKey
<1>4. pc'[t] = l /\ req'[t] = req[t] /\ loc'[t] = loc[t] /\ out'[t] = out[t]
  BY <1>1, <1>3 DEF Goto, Move, ClientOK
<1>5. CASE pc[t] = "addKey"
  <2>1. l = IF req[t].op = "RENAME" THEN "logDel" ELSE "log"
    BY <1>2, <1>3, <1>5 DEF OpsAt, AfterAdd, AfterRam, Sets, NothingForgotten
  <2>2. \A j \in KeysOf[t] : FitsFor(t, j) => FitsNext(t, j)
    BY <1>1, <1>2, <1>4, <1>5, <2>1 DEF FitsFor, FitsNext, Fits
  <2>3. Plain(t, l, req[t], loc[t])  BY <1>2, <2>1 DEF Plain
  <2>4. NoExpiry'  BY <1>1 DEF NoExpiry, Found
  <2>5. QED  BY <1>1, <1>4, <2>2, <2>3, <2>4 DEF StepFits, Aside
<1>6. CASE pc[t] = "subKey"
  <2>1. req[t].op \in {"DEL", "RENAME"}  BY <1>2, <1>6 DEF OpsAt, Plain, Sets
  <2>2. l = IF req[t].op = "RENAME" THEN "setDst" ELSE "log"
    BY <1>3, <1>6, <2>1 DEF AfterSub, AfterRam, NothingForgotten
  <2>3. ASSUME NEW j \in KeysOf[t], FitsFor(t, j) PROVE FitsNext(t, j)
    <3>1. CASE req[t].op = "RENAME"
      BY <1>1, <1>4, <1>6, <2>2, <2>3, <3>1 DEF FitsFor, FitsNext, Fits
    <3>2. CASE req[t].op = "DEL" /\ j = k
      <4>1. items[j] = None /\ req[t].dst = j /\ req[t].val = None
        BY <1>2, <1>6, <2>3, <3>2 DEF FitsFor, Fits, Plain
      <4>2. QED  BY <1>1, <1>4, <2>2, <3>2, <4>1 DEF FitsNext, Fits, Logged, ValOf
    <3>3. CASE req[t].op = "DEL" /\ j # k
      BY <1>1, <1>2, <1>4, <1>6, <2>2, <2>3, <3>3 DEF FitsFor, FitsNext, Fits
    <3>4. QED  BY <2>1, <3>1, <3>2, <3>3
  <2>4. Plain(t, l, req[t], loc[t])  BY <1>2, <2>1, <2>2 DEF Plain
  <2>5. NoExpiry'  BY <1>1 DEF NoExpiry, Found
  <2>6. QED  BY <1>1, <1>4, <2>3, <2>4, <2>5 DEF StepFits, Aside
<1>7. QED  BY <1>1, <1>5, <1>6

\* What the two records of a call do to the journal.
LEMMA RecordFits ==
  ASSUME AInv, NEW t \in Threads, NEW r \in Records, r.exp = 0, r.key \in KeysOf[t],
         journal' = Append(journal, r), items' = items
  PROVE  /\ NoExpiry'
         /\ \A k \in Keys : k \notin KeysOf[t] => Aside(k)
         /\ \A k : r.key = k => LastIs(journal', k, r.val)
         /\ \A k, v : r.key # k /\ LastIs(journal, k, v) => LastIs(journal', k, v)
<1>1. journal \in Seq(Records)  BY DEF AInv, JInv, IInv, TypeOK, JournalOK
<1>2. /\ \A k : r.key = k => LastIs(journal', k, r.val)
      /\ \A k, v : r.key # k /\ LastIs(journal, k, v) => LastIs(journal', k, v)
  BY <1>1, LastAppended
<1>3. \A i \in DOMAIN Append(journal, r) : Append(journal, r)[i].exp = 0
  BY <1>1 DEF AInv, NoExpiry
<1>4. NoExpiry'  BY <1>3 DEF AInv, NoExpiry, Found
<1>5. QED  BY <1>2, <1>4 DEF Aside

LEMMA EternalRecord ==
  ASSUME NEW k \in Keys, NEW v \in Value \cup {None}
  PROVE  Record(k, v, 0) \in Records
BY DEF Record, Records

LEMMA RecordingFits ==
  ASSUME NothingForgotten, AInv, NEW t \in Threads, LogDel(t) \/ Log(t)
  PROVE  StepFits(t)
<1> USE DEF AInv, JInv, IInv, TypeOK
<1>1. pc[t] \in {"logDel", "log"} /\ items' = items  BY DEF LogDel, Log, ram
<1>2. /\ Plain(t, pc[t], req[t], loc[t])
      /\ req[t].op \in OpsAt(pc[t]) /\ (req[t].op # "RENAME" => req[t].dst = req[t].key)
      /\ req[t].key \in Keys /\ req[t].dst \in Keys
      /\ loc[t] \in Locals /\ RequestOK(t, req[t])
  BY <1>1, Doing, InCall
<1>3. CASE LogDel(t)
  <2> DEFINE r == Record(req[t].key, None, 0)
  <2>1. r \in Records  BY ONLY <1>2, EternalRecord
  <2>2. r.key = req[t].key /\ r.val = None /\ r.exp = 0  BY DEF Record
  <2>3. journal' = Append(journal, r)  BY <1>3 DEF LogDel
  <2> HIDE DEF r
  <2>4. /\ NoExpiry' /\ \A k \in Keys : k \notin KeysOf[t] => Aside(k)
        /\ \A k : req[t].key = k => LastIs(journal', k, None)
        /\ \A k, v : req[t].key # k /\ LastIs(journal, k, v) => LastIs(journal', k, v)
    BY <1>1, <1>2, <2>1, <2>2, <2>3, RecordFits DEF Plain
  <2>5. pc[t] = "logDel" /\ req[t].op = "RENAME"  BY <1>2, <1>3 DEF LogDel, OpsAt
  <2>6. pc'[t] = "log" /\ req'[t] = req[t] /\ loc'[t] = loc[t]
    BY <1>3 DEF LogDel, Goto, Move, ClientOK
  <2>7. ASSUME NEW k \in KeysOf[t], FitsFor(t, k) PROVE FitsNext(t, k)
    <3>1. CASE req[t].dst = k
      BY <1>1, <2>5, <2>6, <2>7, <3>1 DEF FitsFor, FitsNext, Fits, Logged
    <3>2. CASE req[t].dst # k /\ req[t].key = k
      <4>1. ValOf(items'[k]) = None  BY <1>1, <2>5, <2>7, <3>2 DEF FitsFor, Fits, ValOf
      <4>2. QED  BY <2>4, <2>6, <3>2, <4>1 DEF FitsNext, Fits
    <3>3. CASE req[t].dst # k /\ req[t].key # k
      BY <1>1, <2>4, <2>5, <2>6, <2>7, <3>3 DEF FitsFor, FitsNext, Fits
    <3>4. QED  BY <3>1, <3>2, <3>3
  <2>8. Plain(t, "log", req[t], loc[t])  BY <1>2 DEF Plain
  <2>9. QED  BY <2>4, <2>6, <2>7, <2>8 DEF StepFits
<1>4. CASE Log(t)
  <2> DEFINE r == RecordOf(t)
  <2>1. loc[t].exp = 0 /\ req[t].ttl = 0  BY <1>2 DEF Plain
  <2>2. r = Record(req[t].dst, ValueLogged(t), 0)  BY <2>1 DEF RecordOf
  <2>3. ValueLogged(t) \in Value \cup {None}
    BY <1>2 DEF ValueLogged, RequestOK, Locals, ClientOK
  <2>4. r \in Records
    <3>1. Record(req[t].dst, ValueLogged(t), 0) \in Records
      BY ONLY <1>2, <2>3, EternalRecord
    <3>2. QED  BY <2>2, <3>1
  <2>5. r.key = req[t].dst /\ r.val = Logged(req[t], loc[t], out[t]) /\ r.exp = 0
    BY <2>2 DEF Record, ValueLogged, Logged
  <2>6. journal' = Append(journal, r) /\ Return(t)  BY <1>4 DEF Log
  <2> HIDE DEF r
  <2>7. /\ NoExpiry' /\ \A k \in Keys : k \notin KeysOf[t] => Aside(k)
        /\ \A k : req[t].dst = k => LastIs(journal', k, Logged(req[t], loc[t], out[t]))
        /\ \A k, v : req[t].dst # k /\ LastIs(journal, k, v) => LastIs(journal', k, v)
    BY <1>1, <1>2, <2>4, <2>5, <2>6, RecordFits DEF Plain
  <2>8. pc[t] = "log" /\ pc'[t] = "idle"  BY <1>4, <2>6 DEF Log, Return, ClientOK
  <2>9. ASSUME NEW k \in KeysOf[t], FitsFor(t, k) PROVE FitsNext(t, k)
    <3>1. CASE req[t].dst = k
      BY <1>1, <2>7, <2>8, <2>9, <3>1 DEF FitsFor, FitsNext, Fits
    <3>2. CASE req[t].dst # k
      BY <1>1, <2>7, <2>8, <2>9, <3>2 DEF FitsFor, FitsNext, Fits
    <3>3. QED  BY <3>1, <3>2
  <2>10. QED  BY <2>7, <2>8, <2>9 DEF StepFits
<1>5. QED  BY <1>3, <1>4

LEMMA CallFits ==
  ASSUME NothingForgotten, AInv, NEW t \in Threads, Call(t)
  PROVE  StepFits(t)
<1>1. PICK q \in RequestsOf(t) : /\ req' = [req EXCEPT ![t] = q]
                                 /\ pc' = [pc EXCEPT ![t] = Entry[q.op]]
  BY DEF Call
<1> USE DEF AInv, JInv, IInv, TypeOK
<1>2. pc[t] = "idle" /\ items' = items /\ journal' = journal /\ loc' = loc
  BY DEF Call, ram
<1>3. req'[t] = q /\ pc'[t] = Entry[q.op]  BY <1>1 DEF ClientOK, CallsOK
<1>4. q.op \in OpNames \ {"EXPIRE", "FLUSHDB"}
  BY RequestFields, CacheAssumptions DEF NothingForgotten
<1>5. /\ q.key \in KeysOf[t] /\ q.dst \in KeysOf[t] /\ q.exp = 0 /\ q.ttl = 0
      /\ (q.op = "DEL" => q.val = None)
  BY <1>4, RequestFields DEF NothingForgotten
<1>6. /\ Entry[q.op] \in {"set", "nx", "get", "exists", "del", "incr", "append", "expire",
                         "getItem"}
      /\ Entry[q.op] = "get" => q.op = "GET"
  BY <1>4 DEF Entry, OpNames, Room, NothingForgotten
<1>7. loc'[t].exp = 0  BY <1>2 DEF ScratchOK, CallsOK, Scratch
<1>8. Plain(t, pc'[t], req'[t], loc'[t])  BY <1>3, <1>5, <1>6, <1>7 DEF Plain
<1>9. \A j \in KeysOf[t] : FitsFor(t, j) => FitsNext(t, j)
  BY <1>2, <1>3, <1>5, <1>6 DEF FitsFor, FitsNext, Fits
<1>10. NoExpiry'  BY <1>2 DEF NoExpiry, Found
<1>11. QED  BY <1>2, <1>8, <1>9, <1>10 DEF StepFits, Aside

\* Steps no plain call gets to.
LEMMA Unreached ==
  ASSUME AInv, NEW t \in Threads
  PROVE  ~(\/ CheckExists(t) \/ CheckLimit(t) \/ ScanShard(t) \/ DelVictim(t) \/ ColdPut(t)
           \/ ColdDelete(t) \/ GetExpired(t) \/ ColdGet(t) \/ Promote(t) \/ ExistsCold(t)
           \/ ClearShard(t) \/ ZeroKeys(t) \/ FlushAll(t))
<1>1. pc[t] \notin {"room", "limit", "scan", "delVictim", "getExpired", "clear", "zero"}
  BY DEF AInv, AllPlain, Plain
<1>2. pc[t] \notin {"coldPut", "coldDelete", "coldGet", "promote", "existsCold", "flushAll"}
  BY DEF AInv, JInv, NoColdSteps
<1>3. QED
  BY <1>1, <1>2 DEF CheckExists, CheckLimit, ScanShard, DelVictim, ColdPut, ColdDelete, GetExpired,
     ColdGet, Promote, ExistsCold, ClearShard, ZeroKeys, FlushAll

LEMMA ClientStepOf ==
  ASSUME AInv, NEW t \in Threads, Call(t) \/ ClientStep(t)
  PROVE  StepOf(t)
<1> USE DEF AInv, JInv
<1>1. CASE Call(t)
  BY <1>1, RecordedStays DEF Call, Answer, IInv, TypeOK, ClientOK, CallsOK, StepOf
<1>2. CASE Log(t)
  <2>1. Return(t) /\ out' = out /\ journal' = Append(journal, RecordOf(t))  BY <1>2 DEF Log
  <2>2. QED  BY <2>1, Steps
<1>3. CASE LogDel(t)
  <2>1. Move(t, "log", loc[t]) /\ Answer(t, Yes)
        /\ journal' = Append(journal, Record(req[t].key, None, 0))
    BY <1>3 DEF LogDel, Goto
  <2>2. QED  BY <2>1, Steps
<1>4. CASE \/ CheckNX(t) \/ SetShard(t) \/ AddKey(t) \/ SubKey(t) \/ Exists(t) \/ DelShard(t)
           \/ IncrBy(t) \/ Expire(t) \/ GetItem(t) \/ ReadExp(t) \/ DelSrc(t) \/ SetDst(t)
  <2>1. journal' = journal
    BY <1>4 DEF CheckNX, SetShard, AddKey, SubKey, Exists, DelShard, IncrBy, Expire, GetItem,
       ReadExp, DelSrc, SetDst
  <2>2. Return(t) \/ \E l : Goto(t, l) \/ \E x : Move(t, l, x)
    BY <1>4 DEF CheckNX, SetShard, AddKey, SubKey, Exists, DelShard, IncrBy, Expire, GetItem,
       ReadExp, DelSrc, SetDst
  <2>3. out' = out \/ \E r : Answer(t, r)
    BY <1>4 DEF CheckNX, SetShard, AddKey, SubKey, Exists, DelShard, IncrBy, Expire, GetItem,
       ReadExp, DelSrc, SetDst
  <2>4. QED  BY <2>1, <2>2, <2>3, WritesNoRecord
<1>5. CASE GetShard(t) \/ AppendVal(t)
  <2>1. journal' = journal  BY <1>5 DEF GetShard, AppendVal
  <2>2. Return(t) \/ \E l : Goto(t, l) \/ \E x : Move(t, l, x)
    BY <1>5 DEF GetShard, AppendVal, GetFound, GetMissed
  <2>3. out' = out \/ \E r : Answer(t, r)
    BY <1>5 DEF GetShard, AppendVal, GetFound, GetMissed
  <2>4. QED  BY <2>1, <2>2, <2>3, WritesNoRecord
<1>6. QED  BY <1>1, <1>2, <1>3, <1>4, <1>5, Unreached DEF ClientStep

LEMMA ClientFits ==
  ASSUME NothingForgotten, AInv, NEW t \in Threads, Call(t) \/ ClientStep(t)
  PROVE  StepFits(t)
BY Unreached, CallFits, LookingFits, GetFits, PersistFits, SettingFits, IncrFits, AppendFits,
   DeletingFits, CountingFits, RecordingFits
DEF ClientStep

\* Nothing expires and nothing is evicted: the others leave RAM as it is.
LEMMA OthersLeave ==
  ASSUME NothingForgotten, AInv,
         \/ \E task \in Tickers : JanitorTick(task)
         \/ JanitorShard \/ (\E w \in Workers : Worker(w)) \/ Tick \/ RefreshClock
         \/ UNCHANGED vars
  PROVE  items' = items /\ journal' = journal /\ UNCHANGED client /\ jan'.task # "cold"
<1>1. UNCHANGED client /\ journal' = journal
  BY DEF JanitorTick, JanitorShard, ExpireByTTL, EvictCold, Worker, Take, Drained, PutBatch,
         Tick, RefreshClock, vars, client
<1>2. CASE ExpireByTTL
  <2>1. Due(jan.sh) = {}  BY DEF Due, Shard, AInv, NoExpiry
  <2>2. PICK D \in Samples(MaxPerShard, Due(jan.sh)) : items' = Removed(D)
    BY <1>2 DEF ExpireByTTL
  <2>3. D = {}  BY <2>1 DEF Samples
  <2>4. items' = items
    BY <2>2, <2>3 DEF Removed, AInv, JInv, IInv, TypeOK, RamOK
  <2>5. jan'.task # "cold"
    BY <1>2 DEF ExpireByTTL, NextShard, AInv, JInv, IInv, TypeOK, JanOK
  <2>6. QED  BY <1>1, <2>4, <2>5
<1>3. CASE \E task \in Tickers : JanitorTick(task)
  <2>1. "cold" \notin Tickers  BY CacheAssumptions DEF NothingForgotten
  <2>2. QED  BY <1>1, <1>3, <2>1 DEF JanitorTick, ram
<1>4. CASE (\E w \in Workers : Worker(w)) \/ Tick \/ RefreshClock \/ UNCHANGED vars
  <2>1. items' = items /\ jan' = jan
    BY <1>4 DEF Worker, Take, Drained, PutBatch, Tick, RefreshClock, vars, ram
  <2>2. QED  BY <1>1, <2>1 DEF AInv
<1>5. ~EvictCold  BY DEF EvictCold, AInv
<1>6. QED  BY <1>2, <1>3, <1>4, <1>5 DEF JanitorShard

\* An orphan's time stays, is read, or is that of an item that leaves the map.
OrphanMoves == \/ orphan' = orphan
               \/ \E D : Detach(D)
               \/ \E t \in Threads : orphan' = [orphan EXCEPT ![t] = None]

LEMMA ClientOrphans ==
  ASSUME NEW t \in Threads, Call(t) \/ ClientStep(t)
  PROVE  OrphanMoves
<1>1. CASE Call(t) \/ CheckNX(t) \/ CheckExists(t) \/ CheckLimit(t) \/ ScanShard(t)
  BY <1>1 DEF OrphanMoves, Call, CheckNX, CheckExists, CheckLimit, ScanShard, ram
<1>2. CASE DelVictim(t) \/ ColdPut(t) \/ SetShard(t) \/ AddKey(t) \/ SubKey(t) \/ ColdDelete(t)
  BY <1>2 DEF OrphanMoves, DelVictim, ColdPut, SetShard, AddKey, SubKey, ColdDelete, ram
<1>3. CASE Log(t) \/ GetExpired(t) \/ ColdGet(t) \/ Promote(t) \/ Exists(t) \/ ExistsCold(t)
  BY <1>3 DEF OrphanMoves, Log, GetExpired, ColdGet, Promote, Exists, ExistsCold, ram
<1>4. CASE GetShard(t) \/ DelShard(t)
  BY <1>4 DEF OrphanMoves, GetShard, DelShard, Touch, ram
<1>5. CASE IncrBy(t)
  BY <1>5 DEF OrphanMoves, IncrBy, ram
<1>6. CASE AppendVal(t) \/ Expire(t)
  BY <1>6 DEF OrphanMoves, AppendVal, Expire, ram
<1>7. CASE GetItem(t) \/ ReadExp(t) \/ DelSrc(t) \/ SetDst(t) \/ LogDel(t)
  BY <1>7 DEF OrphanMoves, GetItem, ReadExp, DelSrc, SetDst, LogDel, ram
<1>8. CASE ClearShard(t) \/ ZeroKeys(t) \/ FlushAll(t)
  BY <1>8 DEF OrphanMoves, ClearShard, ZeroKeys, FlushAll, ram
<1>9. QED  BY <1>1, <1>2, <1>3, <1>4, <1>5, <1>6, <1>7, <1>8 DEF ClientStep

LEMMA OrphansMove == ASSUME [Next]_vars PROVE OrphanMoves
<1>1. CASE \E t \in Threads : Call(t) \/ ClientStep(t)
  BY <1>1, ClientOrphans
<1>2. CASE JanitorShard
  BY <1>2 DEF OrphanMoves, JanitorShard, ExpireByTTL, EvictCold
<1>3. CASE (\E task \in Tickers : JanitorTick(task)) \/ \E w \in Workers : Worker(w)
  BY <1>3 DEF OrphanMoves, JanitorTick, Worker, Take, Drained, PutBatch, ram
<1>4. CASE Tick \/ RefreshClock \/ UNCHANGED vars
  BY <1>4 DEF OrphanMoves, Tick, RefreshClock, vars, ram
<1>5. QED  BY <1>1, <1>2, <1>3, <1>4 DEF Next

LEMMA OrphansStay ==
  ASSUME AInv, [Next]_vars
  PROVE  OrphansEternal'
<1>1. \/ orphan' = orphan
      \/ \E D : Detach(D)
      \/ \E t \in Threads : orphan' = [orphan EXCEPT ![t] = None]
  BY OrphansMove DEF OrphanMoves
<1>2. CASE orphan' = orphan  BY <1>2 DEF AInv, OrphansEternal
<1>3. CASE \E t \in Threads : orphan' = [orphan EXCEPT ![t] = None]
  BY <1>3 DEF AInv, JInv, IInv, TypeOK, OrphanOK, OrphansEternal
<1>4. ASSUME NEW D, Detach(D), NEW u \in Threads PROVE orphan'[u] \in {None, 0}
  <2>1. orphan[u] \in {None, 0}  BY DEF AInv, OrphansEternal
  <2>2. CASE pc[u] = "readExp" /\ orphan[u] = None /\ req[u].key \in D /\ Found(req[u].key)
    <3>1. orphan'[u] = items[req[u].key].exp  BY <1>4, <2>2 DEF Detach
    <3>2. req[u].op = "RENAME"  BY <2>2, InCall DEF OpsAt, AInv, JInv
    <3>3. req[u].key \in Keys  BY <2>2, <3>2, InCall DEF AInv, JInv
    <3>4. QED  BY <2>2, <3>1, <3>3 DEF AInv, NoExpiry
  <2>3. CASE ~(pc[u] = "readExp" /\ orphan[u] = None /\ req[u].key \in D /\ Found(req[u].key))
    BY <1>4, <2>1, <2>3 DEF Detach
  <2>4. QED  BY <2>2, <2>3
<1>5. QED  BY <1>1, <1>2, <1>3, <1>4 DEF OrphansEternal

LEMMA OwnKeysStep ==
  ASSUME NothingForgotten
  PROVE  AInv /\ [Next]_vars => AInv'
<1> SUFFICES ASSUME AInv, [Next]_vars PROVE AInv'  OBVIOUS
<1>1. JInv'  BY JournalStep DEF AInv, NothingForgotten
<1>2. ASSUME NEW t \in Threads, Call(t) \/ ClientStep(t)
      PROVE  AllPlain' /\ NoExpiry' /\ OwnKeysFit' /\ jan'.task # "cold"
  <2>1. jan' = jan
    BY <1>2 DEF Call, ClientStep, CheckNX, CheckExists, CheckLimit, ScanShard, DelVictim, ColdPut,
       SetShard, AddKey, SubKey, ColdDelete, Log, GetShard, GetExpired, ColdGet, Promote, Exists,
       ExistsCold, DelShard, IncrBy, AppendVal, Expire, GetItem, ReadExp, DelSrc, SetDst, LogDel,
       ClearShard, ZeroKeys, FlushAll
  <2>2. QED  BY <1>2, <2>1, ClientFits, ClientStepOf, Fitting DEF AInv
<1>3. ASSUME items' = items, journal' = journal, UNCHANGED client
      PROVE  AllPlain' /\ NoExpiry' /\ OwnKeysFit'
  BY <1>3 DEF client, AInv, AllPlain, NoExpiry, OwnKeysFit, KeyFits, FitsFor, OneWriter, Found
<1>4. CASE \/ \E task \in Tickers : JanitorTick(task)
           \/ JanitorShard \/ (\E w \in Workers : Worker(w)) \/ Tick \/ RefreshClock
           \/ UNCHANGED vars
  BY <1>1, <1>3, <1>4, OthersLeave, OrphansStay DEF AInv
<1>5. QED  BY <1>1, <1>2, <1>4, OrphansStay DEF Next, AInv

LEMMA OwnKeysInit == Init => AInv
<1> SUFFICES ASSUME Init PROVE AInv  OBVIOUS
<1>1. \A k \in Keys : items[k] = None  BY DEF Init
<1>2. journal = <<>> /\ jan.task = "idle" /\ \A t \in Threads : pc[t] = "idle"  BY DEF Init
<1>3. \A k \in Keys : LastIs(journal, k, ValOf(items[k]))  BY <1>1, <1>2 DEF LastIs, ValOf
<1>4. QED
  BY <1>1, <1>2, <1>3, JournalInit
  DEF AInv, AllPlain, NoExpiry, Found, OwnKeysFit, KeyFits, FitsFor, Fits, OrphansEternal, Init

\* For any number of clients and keys, where no key is forgotten without a
\* record (no cold store, no limit, no time to live, no FLUSHDB): when no call
\* is under way, a restart would restore of a key that one client alone calls
\* on exactly what RAM serves, whatever the others write in the meantime, and
\* also when RENAME writes its two records one after the other.
THEOREM OwnKeysStayDurable ==
  ASSUME NothingForgotten
  PROVE  Spec => []OwnKeysAgree
<1>1. AInv => OwnKeysAgree
  <2> SUFFICES ASSUME AInv, Quiet, NEW k \in Keys, OneWriter(k)
               PROVE  Recovered(k) = RamValue(k)
    BY DEF OwnKeysAgree
  <2>1. KeyFits(k)  BY DEF AInv, OwnKeysFit
  <2>2. LastIs(journal, k, ValOf(items[k]))
    BY <2>1 DEF KeyFits, FitsFor, Fits, Quiet
  <2>3. Recovered(k) = ValOf(items[k])
    BY <2>2, RecoversLast DEF AInv, JInv, IInv, TypeOK
  <2>4. ValOf(items[k]) = RamValue(k)  BY FoundIsLive DEF ValOf, RamValue, Found
  <2>5. QED  BY <2>3, <2>4
<1>2. QED  BY <1>1, OwnKeysInit, OwnKeysStep, PTL DEF Spec

-------------------------------------------------------------------------------
(* RAM and the cold store together, for one client of a cache that evicts    *)
(* by LRU.  A value that leaves RAM for the cold store, or comes back, is    *)
(* for some steps in neither or in both; the client that carries it knows.   *)

\* One client, none of whose operations looks in RAM only, and no EvictCold.
OneClient == /\ HasCold /\ "cold" \notin Tickers
             /\ \E t : Threads = {t}
             /\ \A t \in Threads : Ops[t] \cap {"INCR", "APPEND", "RENAME"} = {}

\* Nothing is on its way to the workers.
NoTransit == /\ jan.task # "cold" /\ flushCh = <<>>
             /\ \A w \in Workers : batch[w] = <<>> /\ wpc[w] = "take"

\* A key of the items i is in the cold index c only while the call that has put
\* it into RAM is about to delete it there, and a victim in a call's hands is
\* not in RAM.
Settled(l, q, r, i, c) ==
  /\ \A k \in Keys : i[k] # None /\ c[k] # None => l \in {"addKey", "coldDelete"} /\ q.key = k
  /\ l \in {"subKey", "coldPut"} /\ q.op \in Sets => i[r.vic] = None

HInv == /\ IInv /\ NoTransit
        /\ \A t \in Threads : Settled(pc[t], req[t], loc[t], items, cold)

-------------------------------------------------------------------------------
\* The call that t is in.
LEMMA OneCall ==
  ASSUME OneClient, HInv, NEW t \in Threads, pc[t] # "idle"
  PROVE  /\ req[t].op \in OpsAt(pc[t]) /\ req[t].op \notin {"INCR", "APPEND", "RENAME"}
         /\ RequestOK(t, req[t]) /\ LocalsOK(pc[t], req[t], loc[t]) /\ loc[t] \in Locals
         /\ req[t].op # "FLUSHDB" => req[t].key \in Keys
         /\ Settled(pc[t], req[t], loc[t], items, cold)
<1>1. /\ RequestOK(t, req[t]) /\ req[t].op \in OpsAt(pc[t]) /\ loc[t] \in Locals
      /\ LocalsOK(pc[t], req[t], loc[t])
      /\ req[t].op # "FLUSHDB" => req[t].key \in Keys
  BY InCall DEF HInv
<1>2. req[t].op \in Ops[t]  BY <1>1 DEF RequestOK
<1>3. QED  BY <1>1, <1>2 DEF OneClient, HInv

LEMMA NotReached ==
  ASSUME OneClient, HInv, NEW t \in Threads
  PROVE  ~(IncrBy(t) \/ AppendVal(t) \/ GetItem(t) \/ ReadExp(t) \/ DelSrc(t) \/ SetDst(t)
           \/ LogDel(t))
<1> SUFFICES ASSUME pc[t] \in {"incr", "append", "getItem", "readExp", "delSrc", "setDst", "logDel"}
             PROVE  FALSE
  BY DEF IncrBy, AppendVal, GetItem, ReadExp, DelSrc, SetDst, LogDel
<1>1. req[t].op \in OpsAt(pc[t]) /\ req[t].op \notin {"INCR", "APPEND", "RENAME"}  BY OneCall
<1>2. QED  BY <1>1 DEF OpsAt

\* The items of i are of those that are there now.
NoneNew(i) == \A k \in Keys : i[k] # None => Found(k)

LEMMA TouchesNone ==
  ASSUME HInv, NEW k \in Keys, Found(k), NEW i, SetItem(k, i)
  PROVE  NoneNew(items')
BY DEF HInv, IInv, TypeOK, RamOK, SetItem, NoneNew, Found

LEMMA RemovesSome ==
  ASSUME HInv, NEW D, items' = Removed(D)
  PROVE  NoneNew(items')
BY DEF Removed, NoneNew, Found

\* A step that brings nothing to either store, of a thread that has nothing in both.
LEMMA SettledStays ==
  ASSUME HInv, NEW t \in Threads,
         NoneNew(items'), \A k \in Keys : cold'[k] # None => cold[k] # None,
         pc[t] \notin {"addKey", "coldDelete"},
         pc'[t] # "coldPut", pc'[t] = "subKey" => req'[t].op \notin Sets
  PROVE  Settled(pc'[t], req'[t], loc'[t], items', cold')
BY DEF HInv, Settled, NoneNew, Found

-------------------------------------------------------------------------------
(* The steps that keep the stores apart because they bring nothing to either *)

LEMMA LooksSettled ==
  ASSUME OneClient, HInv, NEW t \in Threads,
         \/ Call(t) \/ CheckNX(t) \/ CheckExists(t) \/ CheckLimit(t) \/ ScanShard(t) \/ Log(t)
         \/ ColdGet(t) \/ Exists(t) \/ ExistsCold(t) \/ ZeroKeys(t)
  PROVE  Settled(pc'[t], req'[t], loc'[t], items', cold')
<1> USE DEF HInv, IInv, TypeOK, ClientOK, CallsOK
<1>1. items' = items /\ cold' = cold
  BY DEF Call, CheckNX, CheckExists, CheckLimit, ScanShard, Log, ColdGet, Exists, ExistsCold,
         ZeroKeys, ram
<1>2. pc[t] \notin {"addKey", "coldDelete"}
  BY DEF Call, CheckNX, CheckExists, CheckLimit, ScanShard, Log, ColdGet, Exists, ExistsCold,
         ZeroKeys
<1>3. pc'[t] \notin {"subKey", "coldPut"}
  <2>1. CASE Call(t)
    <3>1. PICK q \in RequestsOf(t) : pc' = [pc EXCEPT ![t] = Entry[q.op]]  BY <2>1 DEF Call
    <3>2. q.op \in OpNames  BY RequestFields, CacheAssumptions
    <3>3. QED  BY <3>1, <3>2 DEF Entry, OpNames, Room
  <2>2. CASE CheckNX(t) \/ CheckExists(t) \/ CheckLimit(t)
    BY <2>2 DEF CheckNX, CheckExists, CheckLimit, Goto, Move, Return, Room
  <2>3. CASE ScanShard(t)
    BY <2>3 DEF ScanShard, Move
  <2>4. CASE Log(t) \/ ColdGet(t) \/ Exists(t) \/ ExistsCold(t) \/ ZeroKeys(t)
    BY <2>4 DEF Log, ColdGet, Exists, ExistsCold, ZeroKeys, Goto, Move, Return
  <2>5. QED  BY <2>1, <2>2, <2>3, <2>4
<1>4. NoneNew(items')  BY <1>1 DEF NoneNew, Found
<1>5. QED  BY <1>1, <1>2, <1>3, <1>4, SettledStays

LEMMA GetSettled ==
  ASSUME OneClient, HInv, NEW t \in Threads, GetShard(t) \/ GetExpired(t)
  PROVE  Settled(pc'[t], req'[t], loc'[t], items', cold')
<1> USE DEF HInv, IInv, TypeOK, ClientOK
<1>1. pc[t] \in {"get", "getExpired"} /\ cold' = cold  BY DEF GetShard, GetExpired
<1>2. req[t].key \in Keys  BY <1>1, OneCall DEF OpsAt
<1>3. NoneNew(items')
  <2>1. CASE items' = items  BY <2>1 DEF NoneNew, Found
  <2>2. CASE Live(req[t].key) /\ Touch(req[t].key)
    BY <1>2, <2>2, TouchesNone DEF Live, Touch
  <2>3. CASE items' = Removed({req[t].key})  BY <2>3, RemovesSome
  <2>4. QED  BY <2>1, <2>2, <2>3 DEF GetShard, GetExpired
<1>4. \E l \in {"log", "coldGet", "idle", "getExpired"} : pc' = [pc EXCEPT ![t] = l]
  BY DEF GetShard, GetExpired, GetFound, GetMissed, Goto, Move, Return
<1>5. QED  BY <1>1, <1>3, <1>4, SettledStays

LEMMA WritesSettled ==
  ASSUME OneClient, HInv, NEW t \in Threads,
         DelShard(t) \/ Expire(t) \/ ClearShard(t) \/ FlushAll(t)
  PROVE  Settled(pc'[t], req'[t], loc'[t], items', cold')
<1> USE DEF HInv, IInv, TypeOK, ClientOK
<1>1. pc[t] \in {"del", "expire", "clear", "flushAll"}
  BY DEF DelShard, Expire, ClearShard, FlushAll
<1>2. /\ req[t].op \in OpsAt(pc[t])
      /\ pc[t] = "expire" => req[t].key \in Keys
  BY <1>1, OneCall DEF OpsAt
<1>3. NoneNew(items')
  <2>1. CASE items' = items  BY <2>1 DEF NoneNew, Found
  <2>2. CASE Expire(t) /\ items' # items
    <3>1. pc[t] = "expire" /\ Live(req[t].key)
          /\ SetItem(req[t].key, [items[req[t].key] EXCEPT !.exp = req[t].exp])
      BY <2>2 DEF Expire
    <3>2. QED  BY <1>2, <3>1, TouchesNone DEF Live
  <2>3. CASE \E D : items' = Removed(D)  BY <2>3, RemovesSome
  <2>4. QED  BY <2>1, <2>2, <2>3 DEF DelShard, ClearShard, FlushAll, ram
<1>4. \A k \in Keys : cold'[k] # None => cold[k] # None
  BY DEF DelShard, Expire, ClearShard, FlushAll
<1>5. pc'[t] # "coldPut" /\ (pc'[t] = "subKey" => req'[t] = req[t] /\ pc[t] = "del")
  BY DEF DelShard, Expire, ClearShard, FlushAll, Goto, Move, Return, AfterRam
<1>6. pc[t] = "del" => req[t].op = "DEL"  BY <1>2 DEF OpsAt
<1>7. QED  BY <1>1, <1>3, <1>4, <1>5, <1>6, SettledStays DEF Sets

-------------------------------------------------------------------------------
(* The steps that take a value from one store to the other *)

LEMMA CarrySettled ==
  ASSUME OneClient, HInv, NEW t \in Threads, DelVictim(t) \/ SubKey(t) \/ ColdPut(t)
  PROVE  Settled(pc'[t], req'[t], loc'[t], items', cold')
<1> USE DEF HInv, IInv, TypeOK, ClientOK
<1> DEFINE v == loc[t].vic
<1>1. pc[t] \in {"delVictim", "subKey", "coldPut"}  BY DEF DelVictim, SubKey, ColdPut
<1>2. /\ req[t].op \in OpsAt(pc[t]) /\ req[t].op # "RENAME"
      /\ LocalsOK(pc[t], req[t], loc[t]) /\ loc[t] \in Locals
      /\ Settled(pc[t], req[t], loc[t], items, cold)
  BY <1>1, OneCall
<1>3. \A k \in Keys : items[k] = None \/ cold[k] = None  BY <1>1, <1>2 DEF Settled
<1>4. CASE DelVictim(t)
  <2>1. v \in Keys  BY <1>2, <1>4 DEF DelVictim, LocalsOK, Locals
  <2>2. items'[v] = None /\ cold' = cold /\ loc'[t] = loc[t]
    BY <1>4, <2>1 DEF DelVictim, Removed, Goto, Move
  <2>3. NoneNew(items')  BY <1>4, RemovesSome DEF DelVictim
  <2>4. QED  BY <1>3, <2>2, <2>3 DEF Settled, NoneNew, Found
<1>5. CASE SubKey(t)
  <2>1. items' = items /\ cold' = cold /\ loc'[t] = loc[t] /\ req'[t] = req[t]
    BY <1>5 DEF SubKey, Goto, Move
  <2>2. req[t].op \in Sets => items[v] = None  BY <1>2, <1>5 DEF SubKey, Settled
  <2>3. QED  BY <1>3, <2>1, <2>2 DEF Settled
<1>6. CASE ColdPut(t)
  <2>1. v \in Keys /\ req[t].op \in Sets
    BY <1>2, <1>6 DEF ColdPut, LocalsOK, Locals, OpsAt
  <2>2. items[v] = None  BY <1>2, <1>6, <2>1 DEF ColdPut, Settled
  <2>3. items' = items /\ pc'[t] = "set"  BY <1>6 DEF ColdPut, Goto, Move, ram
  <2>4. \A k \in Keys : k # v => cold'[k] = cold[k]
    BY <1>6 DEF ColdPut, ColdOK
  <2>5. QED  BY <1>3, <2>2, <2>3, <2>4 DEF Settled
<1>7. QED  BY <1>4, <1>5, <1>6

LEMMA BringSettled ==
  ASSUME OneClient, HInv, NEW t \in Threads,
         SetShard(t) \/ Promote(t) \/ AddKey(t) \/ ColdDelete(t)
  PROVE  Settled(pc'[t], req'[t], loc'[t], items', cold')
<1> USE DEF HInv, IInv, TypeOK, ClientOK
<1> DEFINE k == req[t].key
<1>1. pc[t] \in {"set", "promote", "addKey", "coldDelete"}
  BY DEF SetShard, Promote, AddKey, ColdDelete
<1>2. /\ req[t].op \in OpsAt(pc[t]) /\ req[t].op \notin {"INCR", "APPEND", "RENAME"} /\ k \in Keys
      /\ Settled(pc[t], req[t], loc[t], items, cold)
  BY <1>1, OneCall DEF OpsAt, Sets
<1>3. CASE SetShard(t) \/ Promote(t)
  <2>1. /\ \A j \in Keys : j # k => items'[j] = items[j]
        /\ cold' = cold /\ req'[t] = req[t] /\ pc'[t] \in {"addKey", "coldDelete"}
    BY <1>3 DEF SetShard, Promote, SetItem, Goto, Move, AfterRam, OneClient, RamOK
  <2>2. \A j \in Keys : items[j] = None \/ cold[j] = None
    BY <1>2, <1>3 DEF SetShard, Promote, Settled
  <2>3. QED  BY <2>1, <2>2 DEF Settled
<1>4. CASE AddKey(t)
  <2>1. AfterAdd(req[t].op) = "coldDelete"
    BY <1>2, <1>4 DEF AddKey, OpsAt, Sets, AfterAdd, AfterRam, OneClient
  <2>2. /\ items' = items /\ cold' = cold /\ req'[t] = req[t] /\ pc'[t] = "coldDelete"
    BY <1>4, <2>1 DEF AddKey, Goto, Move
  <2>3. QED  BY <1>2, <2>2 DEF Settled
<1>5. CASE ColdDelete(t)
  <2>1. items' = items /\ pc'[t] \in {"idle", "log"}
    BY <1>5 DEF ColdDelete, Goto, Move, Return, ram
  <2>2. cold'[k] = None /\ \A j \in Keys : j # k => cold'[j] = cold[j]
    BY <1>2, <1>5 DEF ColdDelete, ColdOK
  <2>3. QED  BY <1>2, <2>1, <2>2 DEF Settled
<1>6. QED  BY <1>3, <1>4, <1>5

LEMMA ClientSettled ==
  ASSUME OneClient, HInv, NEW t \in Threads, Call(t) \/ ClientStep(t)
  PROVE  /\ Settled(pc'[t], req'[t], loc'[t], items', cold')
         /\ UNCHANGED <<chan, jan>>
<1>1. Settled(pc'[t], req'[t], loc'[t], items', cold')
  BY NotReached, LooksSettled, GetSettled, WritesSettled, CarrySettled, BringSettled
  DEF ClientStep
<1>2. UNCHANGED <<chan, jan>>
  BY DEF Call, ClientStep, CheckNX, CheckExists, CheckLimit, ScanShard, DelVictim, ColdPut,
     SetShard, AddKey, SubKey, ColdDelete, Log, GetShard, GetExpired, ColdGet, Promote, Exists,
     ExistsCold, DelShard, IncrBy, AppendVal, Expire, GetItem, ReadExp, DelSrc, SetDst, LogDel,
     ClearShard, ZeroKeys, FlushAll
<1>3. QED  BY <1>1, <1>2

\* The janitor only expires, and the workers have nothing to do.
LEMMA OthersSettled ==
  ASSUME OneClient, HInv,
         \/ \E task \in Tickers : JanitorTick(task)
         \/ JanitorShard \/ (\E w \in Workers : Worker(w)) \/ Tick \/ RefreshClock
         \/ UNCHANGED vars
  PROVE  /\ NoTransit' /\ cold' = cold /\ UNCHANGED <<client, journal>>
         /\ NoneNew(items') /\ (~ExpireByTTL => items' = items)
<1> USE DEF HInv, NoTransit
<1>1. ~EvictCold /\ \A w \in Workers : ~Worker(w)
  BY DEF EvictCold, Worker, Take, Drained, PutBatch
<1>2. CASE ExpireByTTL
  <2>1. /\ UNCHANGED <<cold, chan, client, journal>>
        /\ \E D : items' = Removed(D)
    BY <1>2 DEF ExpireByTTL
  <2>2. NoneNew(items')  BY <2>1, RemovesSome
  <2>3. jan'.task # "cold"
    BY <1>2 DEF ExpireByTTL, NextShard, IInv, TypeOK, JanOK
  <2>4. QED  BY <1>2, <2>1, <2>2, <2>3 DEF chan
<1>3. CASE \E task \in Tickers : JanitorTick(task)
  BY <1>3 DEF JanitorTick, OneClient, chan, ram, NoneNew, Found
<1>4. CASE Tick \/ RefreshClock \/ UNCHANGED vars
  BY <1>4 DEF Tick, RefreshClock, vars, chan, client, ram, NoneNew, Found
<1>5. QED  BY <1>1, <1>2, <1>3, <1>4 DEF JanitorShard

LEMMA HomeStep ==
  ASSUME OneClient
  PROVE  HInv /\ [Next]_vars => HInv'
<1> SUFFICES ASSUME HInv, [Next]_vars PROVE HInv'  OBVIOUS
<1>1. IInv'  BY Inductive DEF HInv
<1>2. ASSUME NEW t \in Threads, Call(t) \/ ClientStep(t) PROVE HInv'
  <2>1. Settled(pc'[t], req'[t], loc'[t], items', cold') /\ UNCHANGED <<chan, jan>>
    BY <1>2, ClientSettled
  <2>2. \A u \in Threads : u = t  BY DEF OneClient
  <2>3. \A u \in Threads : Settled(pc'[u], req'[u], loc'[u], items', cold')
    BY ONLY <2>1, <2>2
  <2>4. NoTransit'  BY <2>1 DEF HInv, NoTransit, chan
  <2>5. QED  BY <1>1, <2>3, <2>4 DEF HInv
<1>3. CASE \/ \E task \in Tickers : JanitorTick(task)
           \/ JanitorShard \/ (\E w \in Workers : Worker(w)) \/ Tick \/ RefreshClock
           \/ UNCHANGED vars
  <2>1. NoTransit' /\ cold' = cold /\ UNCHANGED client /\ NoneNew(items')
    BY <1>3, OthersSettled
  <2>2. ASSUME NEW u \in Threads
        PROVE  Settled(pc'[u], req'[u], loc'[u], items', cold')
    <3>1. Settled(pc[u], req[u], loc[u], items, cold)  BY DEF HInv
    <3>2. Settled(pc[u], req[u], loc[u], items', cold)
      <4>1. pc[u] \in {"subKey", "coldPut"} /\ req[u].op \in Sets => loc[u].vic \in Keys
        BY OneCall DEF LocalsOK, Locals
      <4>2. QED  BY <2>1, <3>1, <4>1 DEF Settled, NoneNew, Found
    <3>3. QED  BY <2>1, <3>2 DEF client
  <2>3. QED  BY <1>1, <2>1, <2>2 DEF HInv
<1>4. QED  BY <1>2, <1>3 DEF Next

LEMMA HomeInit == Init => HInv
BY Initial, CacheAssumptions DEF Init, HInv, NoTransit, Settled

\* One client, with LRU eviction, promotion, times to live, NX, FLUSHDB and the
\* janitor's expiry: when no call is under way, a key that is in RAM has no copy in
\* the cold store, which would come back when RAM has lost it.  Set, Delete, Get
\* and evictLRU each change the two stores in steps of their own.
THEOREM EachHasOneHome ==
  ASSUME OneClient
  PROVE  Spec => []OneHome
<1>1. HInv => OneHome
  <2> SUFFICES ASSUME HInv, Quiet, NEW k \in Keys, Found(k) PROVE cold[k] = None
    BY DEF OneHome
  <2>1. PICK t \in Threads : TRUE  BY DEF OneClient
  <2>2. Settled(pc[t], req[t], loc[t], items, cold) /\ pc[t] = "idle"
    BY DEF HInv, Quiet
  <2>3. QED  BY <2>2 DEF Settled, Found
<1>2. QED  BY <1>1, HomeInit, HomeStep, PTL DEF Spec

-------------------------------------------------------------------------------
(* Where nothing expires and nothing is forgotten without a record, what the  *)
(* two stores have of a key, RAM first, is what its last record says.         *)

OneEternal == /\ OneClient /\ TTLs \subseteq {0}
              /\ \A t \in Threads : Ops[t] \cap {"EXPIRE", "FLUSHDB"} = {}

\* What items i and cold index c have of k.
Place(i, c, k) == IF i[k] # None THEN i[k].val ELSE ValOf(c[k])

\* Key k has been written by a call at l that has not recorded it yet.
Unrecorded(l, q, k) ==
  /\ q.key = k
  /\ \/ l \in {"addKey", "coldDelete", "log"} /\ q.op \in Sets
     \/ l \in {"subKey", "coldDelete", "log"} /\ q.op = "DEL"

\* A call at l has the value of k in its hands.
Carried(l, q, r, k) == l \in {"subKey", "coldPut"} /\ q.op \in Sets /\ r.vic = k

\* The stores agree with the journal j about k, up to what a call at l still does.
Held(l, q, r, i, c, j, k) ==
  IF Unrecorded(l, q, k) THEN ValOf(i[k]) = q.val /\ (l = "log" => Place(i, c, k) = q.val)
  ELSE IF Carried(l, q, r, k) THEN i[k] = None /\ LastIs(j, k, r.val)
  ELSE LastIs(j, k, Place(i, c, k))

\* What a call at l has seen of the stores still holds.
Noted(l, q, r, i, c) ==
  /\ l \in {"nx", "room", "limit"} => r.vic = None
  /\ l \in {"scan", "delVictim"} /\ r.vic # None => ValOf(i[r.vic]) = r.val
  /\ l \in {"coldGet", "promote"} => i[q.key] = None
  /\ l = "promote" => ValOf(c[q.key]) = r.val
  /\ l \in {"addKey", "coldDelete"} /\ q.op = "GET" => i[q.key] # None
  /\ l # "idle" => /\ q.exp = 0 /\ q.ttl = 0 /\ q.dst = q.key
                   /\ q.op = "DEL" => q.val = None
  /\ l # "getExpired"

NInv == /\ HInv /\ NoExpiry
        /\ \A t \in Threads : /\ Noted(pc[t], req[t], loc[t], items, cold)
                              /\ \A k \in Keys : Held(pc[t], req[t], loc[t], items, cold, journal, k)

\* What a step of t has to keep.
Keeps(t) == /\ Noted(pc'[t], req'[t], loc'[t], items', cold')
            /\ \A k \in Keys : Held(pc'[t], req'[t], loc'[t], items', cold', journal', k)
            /\ NoExpiry'

\* At none of these does a call owe or carry anything.
Busy == {"addKey", "coldDelete", "log", "subKey", "coldPut"}

\* The items of i have the values that those of RAM have.
SameValues(i) == \A k \in Keys : ValOf(i[k]) = ValOf(items[k]) /\ (i[k] = None <=> ~Found(k))

LEMMA Carrying ==
  ASSUME OneEternal, NInv, NEW t \in Threads, pc[t] # "idle"
  PROVE  /\ req[t].op \in OpsAt(pc[t]) \ {"INCR", "APPEND", "RENAME", "EXPIRE", "FLUSHDB"}
         /\ RequestOK(t, req[t]) /\ LocalsOK(pc[t], req[t], loc[t]) /\ loc[t] \in Locals
         /\ req[t].key \in Keys
         /\ Noted(pc[t], req[t], loc[t], items, cold)
         /\ \A k \in Keys : Held(pc[t], req[t], loc[t], items, cold, journal, k)
<1>1. /\ req[t].op \in OpsAt(pc[t]) /\ req[t].op \notin {"INCR", "APPEND", "RENAME"}
      /\ RequestOK(t, req[t]) /\ LocalsOK(pc[t], req[t], loc[t]) /\ loc[t] \in Locals
      /\ req[t].op # "FLUSHDB" => req[t].key \in Keys
  BY OneCall DEF OneEternal, NInv
<1>2. req[t].op \in Ops[t]  BY <1>1 DEF RequestOK
<1>3. QED  BY <1>1, <1>2 DEF OneEternal, NInv

LEMMA AllLive ==
  ASSUME NInv, NEW k \in Keys
  PROVE  Live(k) <=> Found(k)
BY DEF NInv, NoExpiry, Live, IsExpired

LEMMA ItemValue ==
  ASSUME NInv, NEW k \in Keys, Found(k)
  PROVE  /\ ValOf(items[k]) = items[k].val /\ items[k].val \in Value /\ items[k].val # None
         /\ items[k] \in Item /\ items[k].exp = 0
BY FoundType, CacheAssumptions DEF NInv, HInv, IInv, TypeOK, ValOf, Found, NoExpiry

\* A step between two places at which nothing is owed, that leaves the stores as they are.
LEMMA QuietHolds ==
  ASSUME NInv, NEW t \in Threads, pc[t] \notin Busy, pc'[t] \notin Busy,
         SameValues(items'), cold' = cold, journal' = journal
  PROVE  \A k \in Keys : Held(pc'[t], req'[t], loc'[t], items', cold', journal', k)
<1> SUFFICES ASSUME NEW k \in Keys
             PROVE  LastIs(journal, k, Place(items', cold, k))
  BY DEF Held, Unrecorded, Carried, Busy
<1>1. LastIs(journal, k, Place(items, cold, k))
  BY DEF NInv, Held, Unrecorded, Carried, Busy
<1>2. Place(items', cold, k) = Place(items, cold, k)
  BY DEF SameValues, Place, ValOf, Found
<1>3. QED  BY <1>1, <1>2

LEMMA SameIsSame ==
  ASSUME items' = items
  PROVE  SameValues(items')
BY DEF SameValues, Found

LEMMA SetIsSame ==
  ASSUME NInv, NEW k \in Keys, Found(k), NEW i \in Item, i.val = items[k].val, i.exp = 0,
         SetItem(k, i), journal' = journal
  PROVE  SameValues(items') /\ NoExpiry'
<1>1. items' = [items EXCEPT ![k] = i] /\ items \in [Keys -> Item \cup {None}]
  BY DEF SetItem, NInv, HInv, IInv, TypeOK, RamOK
<1>2. items'[k] = i /\ \A j \in Keys : j # k => items'[j] = items[j]  BY <1>1
<1>3. i # None  BY CacheAssumptions DEF Item
<1>4. SameValues(items')  BY <1>2, <1>3 DEF SameValues, ValOf, Found
<1>5. NoExpiry'  BY <1>2 DEF NInv, NoExpiry, Found
<1>6. QED  BY <1>4, <1>5

-------------------------------------------------------------------------------
(* The steps that look *)

LEMMA CallHolds ==
  ASSUME OneEternal, NInv, NEW t \in Threads, Call(t)
  PROVE  Keeps(t)
<1> USE DEF NInv, HInv, IInv, TypeOK
<1>1. PICK q \in RequestsOf(t) : /\ req' = [req EXCEPT ![t] = q]
                                 /\ pc' = [pc EXCEPT ![t] = Entry[q.op]]
  BY DEF Call
<1>2. /\ pc[t] = "idle" /\ items' = items /\ cold' = cold /\ journal' = journal /\ loc' = loc
  BY DEF Call, ram
<1>3. req'[t] = q /\ pc'[t] = Entry[q.op]  BY <1>1 DEF ClientOK, CallsOK
<1>4. q.op \in OpNames \ {"INCR", "APPEND", "RENAME", "EXPIRE", "FLUSHDB"}
  BY RequestFields, CacheAssumptions DEF OneEternal, OneClient
<1>5. q.exp = 0 /\ q.ttl = 0 /\ (q.op = "DEL" => q.val = None)
  BY <1>4, RequestFields DEF OneEternal
<1>6. q.dst = q.key  BY <1>4, RequestParts DEF Request
<1>7. Entry[q.op] \in {"room", "set", "nx", "get", "exists", "del", "expire"}
  BY <1>4 DEF Entry, OpNames, Room
<1>8. loc'[t].vic = None  BY <1>2, ScratchType DEF ScratchOK, CallsOK
<1>9. Noted(pc'[t], req'[t], loc'[t], items', cold')
  BY <1>3, <1>5, <1>6, <1>7, <1>8 DEF Noted
<1>10. NoExpiry'  BY <1>2 DEF NoExpiry, Found
<1>11. pc[t] \notin Busy /\ pc'[t] \notin Busy  BY <1>2, <1>3, <1>7 DEF Busy
<1>12. \A k \in Keys : Held(pc'[t], req'[t], loc'[t], items', cold', journal', k)
  BY <1>2, <1>11, QuietHolds, SameIsSame
<1>13. QED  BY <1>9, <1>10, <1>12 DEF Keeps

LEMMA LookHolds ==
  ASSUME OneEternal, NInv, NEW t \in Threads,
         CheckNX(t) \/ CheckExists(t) \/ CheckLimit(t) \/ Exists(t) \/ ExistsCold(t) \/ ColdGet(t)
  PROVE  Keeps(t)
<1> USE DEF NInv, HInv, IInv, TypeOK, ClientOK
<1>1. items' = items /\ cold' = cold /\ journal' = journal
  BY DEF CheckNX, CheckExists, CheckLimit, Exists, ExistsCold, ColdGet, ram
<1>2. pc[t] \in {"nx", "room", "limit", "exists", "existsCold", "coldGet"}
  BY DEF CheckNX, CheckExists, CheckLimit, Exists, ExistsCold, ColdGet
<1>3. Noted(pc[t], req[t], loc[t], items, cold) /\ loc[t] \in Locals /\ req[t].key \in Keys
  BY <1>2, Carrying
<1>4. Noted(pc'[t], req'[t], loc'[t], items', cold') /\ pc'[t] \notin Busy
  <2>1. CASE Return(t)  BY <2>1 DEF Return, Noted, Busy
  <2>2. CASE (CheckNX(t) \/ CheckExists(t) \/ CheckLimit(t) \/ Exists(t)) /\ ~Return(t)
    <3>1. PICK l \in {"room", "set", "limit", "scan", "existsCold"} : Goto(t, l)
      BY <2>2 DEF CheckNX, CheckExists, CheckLimit, Exists, Room
    <3>2. l \in {"room", "limit", "scan"} => pc[t] \in {"nx", "room", "limit"}
      BY <2>2, <3>1 DEF CheckNX, CheckExists, CheckLimit, Exists, Goto, Move
    <3>3. pc'[t] = l /\ req'[t] = req[t] /\ loc'[t] = loc[t]  BY <3>1 DEF Goto, Move
    <3>4. QED  BY <1>1, <1>2, <1>3, <3>2, <3>3 DEF Noted, Busy
  <2>3. CASE ColdGet(t) /\ ~Return(t)
    <3>1. /\ pc[t] = "coldGet" /\ cold[req[t].key] # None
          /\ Move(t, "promote", [loc[t] EXCEPT !.val = cold[req[t].key].val])
      BY <2>3 DEF ColdGet
    <3>2. pc'[t] = "promote" /\ req'[t] = req[t] /\ loc'[t].val = cold[req[t].key].val
      BY <1>3, <3>1 DEF Move, Locals
    <3>3. QED  BY <1>1, <1>3, <3>1, <3>2 DEF Noted, Busy, ValOf
  <2>4. QED  BY <2>1, <2>2, <2>3 DEF ExistsCold
<1>5. NoExpiry'  BY <1>1 DEF NoExpiry, Found
<1>6. \A k \in Keys : Held(pc'[t], req'[t], loc'[t], items', cold', journal', k)
  BY <1>1, <1>2, <1>4, QuietHolds, SameIsSame DEF Busy
<1>7. QED  BY <1>4, <1>5, <1>6 DEF Keeps

LEMMA ScanHolds ==
  ASSUME OneEternal, NInv, NEW t \in Threads, ScanShard(t)
  PROVE  Keeps(t)
<1> USE DEF NInv, HInv, IInv, TypeOK, ClientOK
<1>1. pc[t] = "scan" /\ items' = items /\ cold' = cold /\ journal' = journal /\ req'[t] = req[t]
  BY DEF ScanShard, ram, Move
<1>2. Noted(pc[t], req[t], loc[t], items, cold) /\ loc[t] \in Locals
  BY <1>1, Carrying
<1>3. PICK D \in Samples(LruSample, Shard(loc[t].sh)) :
      \E best \in IF Better(loc[t], D) = {} THEN {loc[t]}
                  ELSE {[loc[t] EXCEPT !.vic = k, !.val = items[k].val,
                                       !.exp = items[k].exp, !.acc = items[k].acc] :
                          k \in Better(loc[t], D)} :
        IF loc[t].sh < NumShards
        THEN Move(t, "scan", [best EXCEPT !.sh = @ + 1])
        ELSE Move(t, IF best.vic = None THEN "set" ELSE "delVictim", best)
  BY DEF ScanShard
<1>4. PICK best \in IF Better(loc[t], D) = {} THEN {loc[t]}
                    ELSE {[loc[t] EXCEPT !.vic = k, !.val = items[k].val,
                                         !.exp = items[k].exp, !.acc = items[k].acc] :
                            k \in Better(loc[t], D)} :
        IF loc[t].sh < NumShards
        THEN Move(t, "scan", [best EXCEPT !.sh = @ + 1])
        ELSE Move(t, IF best.vic = None THEN "set" ELSE "delVictim", best)
  BY ONLY <1>3
<1>5. best \in Locals /\ (best.vic # None => ValOf(items[best.vic]) = best.val)
  <2>1. CASE best = loc[t]  BY <1>1, <1>2, <2>1 DEF Noted
  <2>2. CASE \E k \in Better(loc[t], D) :
               best = [loc[t] EXCEPT !.vic = k, !.val = items[k].val,
                                     !.exp = items[k].exp, !.acc = items[k].acc]
    <3>1. PICK k \in Better(loc[t], D) :
               best = [loc[t] EXCEPT !.vic = k, !.val = items[k].val,
                                     !.exp = items[k].exp, !.acc = items[k].acc]
      BY <2>2
    <3>2. k \in Keys /\ Found(k)  BY <1>3, <3>1 DEF Samples, Shard, Better
    <3>3. items[k].val \in Value /\ items[k].exp \in Nat /\ items[k].acc \in Nat
      BY <3>2, FoundType
    <3>4. best.vic = k /\ best.val = items[k].val /\ best \in Locals
      BY <1>2, <3>1, <3>2, <3>3 DEF Locals
    <3>5. QED  BY <3>2, <3>4, ItemValue
  <2>3. QED  BY <1>4, <2>1, <2>2
<1>6. [best EXCEPT !.sh = @ + 1].vic = best.vic /\ [best EXCEPT !.sh = @ + 1].val = best.val
  BY <1>5 DEF Locals
<1>7. loc'[t].vic = best.vic /\ loc'[t].val = best.val /\ pc'[t] \in {"scan", "set", "delVictim"}
  <2> DEFINE next == [best EXCEPT !.sh = @ + 1]
  <2>1. next.vic = best.vic /\ next.val = best.val  BY <1>6
  <2>2. Move(t, "scan", next) \/ Move(t, "set", best) \/ Move(t, "delVictim", best)  BY <1>4
  <2> HIDE DEF next
  <2>3. QED  BY <2>1, <2>2 DEF Move
<1>8. Noted(pc'[t], req'[t], loc'[t], items', cold')
  BY <1>1, <1>2, <1>5, <1>7 DEF Noted
<1>9. NoExpiry'  BY <1>1 DEF NoExpiry, Found
<1>10. \A k \in Keys : Held(pc'[t], req'[t], loc'[t], items', cold', journal', k)
  BY <1>1, <1>7, QuietHolds, SameIsSame DEF Busy
<1>11. QED  BY <1>8, <1>9, <1>10 DEF Keeps

LEMMA GetHolds ==
  ASSUME OneEternal, NInv, NEW t \in Threads, GetShard(t)
  PROVE  Keeps(t)
<1> USE DEF NInv, HInv, IInv, TypeOK, ClientOK
<1> DEFINE k == req[t].key
<1>1. pc[t] = "get" /\ cold' = cold /\ journal' = journal  BY DEF GetShard
<1>2. Noted(pc[t], req[t], loc[t], items, cold) /\ k \in Keys /\ req[t].op = "GET"
  BY <1>1, Carrying DEF OpsAt
<1>3. CASE ~Found(k)
  <2>1. items' = items /\ Goto(t, "coldGet")
    BY <1>2, <1>3 DEF GetShard, GetMissed, Live, OneEternal, OneClient
  <2>2. pc'[t] = "coldGet" /\ req'[t] = req[t] /\ loc'[t] = loc[t]
    BY <2>1 DEF Goto, Move
  <2>3. Noted(pc'[t], req'[t], loc'[t], items', cold')
    BY <1>1, <1>2, <1>3, <2>1, <2>2 DEF Noted, Found
  <2>4. \A j \in Keys : Held(pc'[t], req'[t], loc'[t], items', cold', journal', j)
    BY <1>1, <2>1, <2>2, QuietHolds, SameIsSame DEF Busy
  <2>5. NoExpiry'  BY <1>1, <2>1 DEF NoExpiry, Found
  <2>6. QED  BY <2>3, <2>4, <2>5 DEF Keeps
<1>4. CASE Found(k)
  <2>1. Live(k)  BY <1>2, <1>4, AllLive
  <2>2. Return(t) /\ Touch(k)  BY <1>2, <1>4, <2>1 DEF GetShard, GetFound
  <2>3. pc'[t] = "idle"  BY <2>2 DEF Return
  <2>4. SameValues(items') /\ NoExpiry'
    <3> DEFINE i == [items[k] EXCEPT !.acc = clk]
    <3>1. items[k] \in Item /\ items[k].exp = 0  BY <1>2, <1>4, ItemValue
    <3>2. i \in Item /\ i.val = items[k].val /\ i.exp = 0  BY <3>1 DEF Item, TimeOK
    <3>3. SetItem(k, i)  BY <2>2 DEF Touch
    <3> HIDE DEF i, k
    <3>4. QED  BY <1>1, <1>2, <1>4, <3>2, <3>3, SetIsSame
  <2>5. \A j \in Keys : Held(pc'[t], req'[t], loc'[t], items', cold', journal', j)
    BY <1>1, <2>3, <2>4, QuietHolds DEF Busy
  <2>6. QED  BY <2>3, <2>4, <2>5 DEF Keeps, Noted
<1>5. QED  BY <1>3, <1>4

LEMMA PersistHolds ==
  ASSUME OneEternal, NInv, NEW t \in Threads, Expire(t)
  PROVE  Keeps(t)
<1> USE DEF NInv, HInv, IInv, TypeOK, ClientOK
<1> DEFINE k == req[t].key
<1>1. pc[t] = "expire" /\ cold' = cold /\ journal' = journal /\ Return(t)  BY DEF Expire
<1>2. Noted(pc[t], req[t], loc[t], items, cold) /\ k \in Keys /\ req[t].exp = 0
  BY <1>1, Carrying DEF Noted
<1>3. pc'[t] = "idle"  BY <1>1 DEF Return
<1>4. SameValues(items') /\ NoExpiry'
  <2>1. CASE ~Live(k)
    <3>1. items' = items  BY <2>1 DEF Expire
    <3>2. QED  BY <1>1, <3>1, SameIsSame DEF NoExpiry, Found
  <2>2. CASE Live(k)
    <3> DEFINE i == [items[k] EXCEPT !.exp = req[t].exp]
    <3>1. Found(k) /\ items[k] \in Item  BY <1>2, <2>2, AllLive, ItemValue
    <3>2. i \in Item /\ i.val = items[k].val /\ i.exp = 0  BY <1>2, <3>1 DEF Item
    <3>3. SetItem(k, i)  BY <2>2 DEF Expire
    <3> HIDE DEF i, k
    <3>4. QED  BY <1>1, <1>2, <3>1, <3>2, <3>3, SetIsSame
  <2>3. QED  BY <2>1, <2>2
<1>5. \A j \in Keys : Held(pc'[t], req'[t], loc'[t], items', cold', journal', j)
  BY <1>1, <1>3, <1>4, QuietHolds DEF Busy
<1>6. QED  BY <1>3, <1>4, <1>5 DEF Keeps, Noted

-------------------------------------------------------------------------------
(* The steps that carry a victim to the cold store *)

LEMMA VictimHolds ==
  ASSUME OneEternal, NInv, NEW t \in Threads, DelVictim(t)
  PROVE  Keeps(t)
<1> USE DEF NInv, HInv, IInv, TypeOK, ClientOK
<1> DEFINE v == loc[t].vic
<1>1. pc[t] = "delVictim" /\ cold' = cold /\ journal' = journal /\ items' = Removed({v})
  BY DEF DelVictim
<1>2. /\ Noted(pc[t], req[t], loc[t], items, cold) /\ req[t].op \in Sets
      /\ v \in Keys /\ loc[t].val \in Value
      /\ \A k \in Keys : Held(pc[t], req[t], loc[t], items, cold, journal, k)
  BY <1>1, Carrying DEF OpsAt, LocalsOK, Locals
<1>3. Found(v) /\ items[v].val = loc[t].val
  BY <1>1, <1>2, CacheAssumptions DEF Noted, ValOf, Found
<1>4. pc'[t] = "subKey" /\ req'[t] = req[t] /\ loc'[t] = loc[t]
  BY <1>3 DEF DelVictim, Goto, Move
<1>5. items'[v] = None /\ \A k \in Keys : k # v => items'[k] = items[k]
  BY <1>1, <1>2 DEF Removed
<1>6. \A k \in Keys : LastIs(journal, k, Place(items, cold, k))
  BY <1>1, <1>2 DEF Held, Unrecorded, Carried
<1>7. \A k \in Keys : Held(pc'[t], req'[t], loc'[t], items', cold', journal', k)
  <2> SUFFICES ASSUME NEW k \in Keys
               PROVE  Held("subKey", req[t], loc[t], items', cold, journal, k)
    BY <1>1, <1>4
  <2>1. ~Unrecorded("subKey", req[t], k)  BY <1>2 DEF Unrecorded, Sets
  <2>2. CASE k = v
    <3>1. LastIs(journal, k, loc[t].val)  BY <1>3, <1>6, <2>2 DEF Place, Found
    <3>2. Carried("subKey", req[t], loc[t], k)  BY <1>2, <2>2 DEF Carried
    <3>3. QED  BY <1>5, <2>1, <2>2, <3>1, <3>2 DEF Held
  <2>3. CASE k # v
    <3>1. LastIs(journal, k, Place(items', cold, k))  BY <1>5, <1>6, <2>3 DEF Place
    <3>2. ~Carried("subKey", req[t], loc[t], k)  BY <2>3 DEF Carried
    <3>3. QED  BY <2>1, <3>1, <3>2 DEF Held
  <2>4. QED  BY <2>2, <2>3
<1>8. Noted(pc'[t], req'[t], loc'[t], items', cold')
  BY <1>1, <1>2, <1>4 DEF Noted, Sets
<1>9. NoExpiry'  BY <1>1, <1>5 DEF NoExpiry, Found
<1>10. QED  BY <1>7, <1>8, <1>9 DEF Keeps

LEMMA PutHolds ==
  ASSUME OneEternal, NInv, NEW t \in Threads, ColdPut(t)
  PROVE  Keeps(t)
<1> USE DEF NInv, HInv, IInv, TypeOK, ClientOK
<1> DEFINE v == loc[t].vic
<1> DEFINE copy == [val |-> loc[t].val, exp |-> loc[t].exp]
<1>1. pc[t] = "coldPut" /\ items' = items /\ journal' = journal /\ cold' = [cold EXCEPT ![v] = copy]
  BY DEF ColdPut, ram
<1>2. /\ Noted(pc[t], req[t], loc[t], items, cold) /\ req[t].op \in Sets
      /\ v \in Keys /\ loc[t].val \in Value /\ loc[t].exp \in Nat
      /\ \A k \in Keys : Held(pc[t], req[t], loc[t], items, cold, journal, k)
  BY <1>1, Carrying DEF OpsAt, LocalsOK, Locals
<1>3. pc'[t] = "set" /\ req'[t] = req[t] /\ loc'[t] = loc[t]
  BY DEF ColdPut, Goto, Move
<1>4. cold'[v] = copy /\ \A k \in Keys : k # v => cold'[k] = cold[k]
  BY <1>1, <1>2 DEF ColdOK
<1>5. ValOf(copy) = loc[t].val
  BY <1>2, CacheAssumptions DEF ValOf
<1> HIDE DEF copy
<1>6. \A k \in Keys : LastIs(journal, k, Place(items, cold', k))
  <2> SUFFICES ASSUME NEW k \in Keys PROVE LastIs(journal, k, Place(items, cold', k))
    OBVIOUS
  <2>1. ~Unrecorded(pc[t], req[t], k)  BY <1>1, <1>2 DEF Unrecorded, Sets
  <2>2. CASE k = v
    <3>1. items[k] = None /\ LastIs(journal, k, loc[t].val)
      BY <1>1, <1>2, <2>1, <2>2 DEF Held, Carried
    <3>2. QED  BY <1>4, <1>5, <2>2, <3>1 DEF Place
  <2>3. CASE k # v
    <3>1. LastIs(journal, k, Place(items, cold, k))
      BY <1>2, <2>1, <2>3 DEF Held, Carried
    <3>2. QED  BY <1>4, <2>3, <3>1 DEF Place
  <2>4. QED  BY <2>2, <2>3
<1>7. \A k \in Keys : Held(pc'[t], req'[t], loc'[t], items', cold', journal', k)
  BY <1>1, <1>3, <1>6 DEF Held, Unrecorded, Carried
<1>8. Noted(pc'[t], req'[t], loc'[t], items', cold')
  BY <1>1, <1>2, <1>3 DEF Noted
<1>9. NoExpiry'  BY <1>1 DEF NoExpiry, Found
<1>10. QED  BY <1>7, <1>8, <1>9 DEF Keeps

-------------------------------------------------------------------------------
(* The steps that write a key, up to its record *)

LEMMA SetHolds ==
  ASSUME OneEternal, NInv, NEW t \in Threads, SetShard(t)
  PROVE  Keeps(t)
<1> USE DEF NInv, HInv, IInv, TypeOK, ClientOK
<1> DEFINE k == req[t].key
<1> DEFINE new == NewItem(req[t].val, req[t].exp)
<1>1. pc[t] = "set" /\ cold' = cold /\ journal' = journal /\ items' = [items EXCEPT ![k] = new]
  BY DEF SetShard, SetItem
<1>2. /\ Noted(pc[t], req[t], loc[t], items, cold) /\ req[t].op \in Sets /\ k \in Keys
      /\ req[t].val \in Value /\ req[t].exp = 0
      /\ \A j \in Keys : Held(pc[t], req[t], loc[t], items, cold, journal, j)
  BY <1>1, Carrying DEF OpsAt, RequestOK, Noted
<1>3. pc'[t] \in {"addKey", "coldDelete"} /\ req'[t] = req[t] /\ loc'[t].vic = None
  BY ScratchType DEF SetShard, Move, AfterRam, OneEternal, OneClient
<1>4. new.val = req[t].val /\ new.exp = 0 /\ new # None
  BY <1>2, NewItemType, CacheAssumptions DEF NewItem, Item
<1> HIDE DEF new
<1>5. items'[k] = new /\ \A j \in Keys : j # k => items'[j] = items[j]
  BY <1>1, <1>2 DEF RamOK
<1>6. \A j \in Keys : Held(pc'[t], req'[t], loc'[t], items', cold', journal', j)
  <2> SUFFICES ASSUME NEW j \in Keys
               PROVE  Held(pc'[t], req[t], loc'[t], items', cold, journal, j)
    BY <1>1, <1>3
  <2>1. CASE j = k
    BY <1>2, <1>3, <1>4, <1>5, <2>1 DEF Held, Unrecorded, ValOf
  <2>2. CASE j # k
    <3>1. LastIs(journal, j, Place(items, cold, j))
      BY <1>1, <1>2 DEF Held, Unrecorded, Carried
    <3>2. Place(items', cold, j) = Place(items, cold, j)  BY <1>5, <2>2 DEF Place
    <3>3. QED  BY <1>3, <2>2, <3>1, <3>2 DEF Held, Unrecorded, Carried
  <2>3. QED  BY <2>1, <2>2
<1>7. Noted(pc'[t], req'[t], loc'[t], items', cold')
  BY <1>1, <1>2, <1>3 DEF Noted, Sets
<1>8. NoExpiry'  BY <1>1, <1>4, <1>5 DEF NoExpiry, Found
<1>9. QED  BY <1>6, <1>7, <1>8 DEF Keeps

LEMMA PromoteHolds ==
  ASSUME OneEternal, NInv, NEW t \in Threads, Promote(t)
  PROVE  Keeps(t)
<1> USE DEF NInv, HInv, IInv, TypeOK, ClientOK
<1> DEFINE k == req[t].key
<1> DEFINE new == NewItem(loc[t].val, 0)
<1>1. pc[t] = "promote" /\ cold' = cold /\ journal' = journal /\ items' = [items EXCEPT ![k] = new]
  BY DEF Promote, SetItem
<1>2. /\ Noted(pc[t], req[t], loc[t], items, cold) /\ req[t].op = "GET" /\ k \in Keys
      /\ loc[t].val \in Value
      /\ \A j \in Keys : Held(pc[t], req[t], loc[t], items, cold, journal, j)
  BY <1>1, Carrying DEF OpsAt, LocalsOK
<1>3. pc'[t] = "addKey" /\ req'[t] = req[t] /\ loc'[t] = loc[t]
  BY DEF Promote, Goto, Move
<1>4. new.val = loc[t].val /\ new.exp = 0 /\ new # None
  BY <1>2, NewItemType, CacheAssumptions DEF NewItem, Item
<1> HIDE DEF new
<1>5. items'[k] = new /\ \A j \in Keys : j # k => items'[j] = items[j]
  BY <1>1, <1>2 DEF RamOK
<1>6. items[k] = None /\ ValOf(cold[k]) = loc[t].val  BY <1>1, <1>2 DEF Noted
<1>7. \A j \in Keys : Place(items', cold, j) = Place(items, cold, j)
  BY <1>4, <1>5, <1>6 DEF Place
<1>8. \A j \in Keys : LastIs(journal, j, Place(items, cold, j))
  BY <1>1, <1>2 DEF Held, Unrecorded, Carried
<1>9. \A j \in Keys : Held(pc'[t], req'[t], loc'[t], items', cold', journal', j)
  BY <1>1, <1>2, <1>3, <1>7, <1>8 DEF Held, Unrecorded, Carried, Sets
<1>10. Noted(pc'[t], req'[t], loc'[t], items', cold')
  BY <1>1, <1>2, <1>3, <1>4, <1>5 DEF Noted
<1>11. NoExpiry'  BY <1>1, <1>4, <1>5 DEF NoExpiry, Found
<1>12. QED  BY <1>9, <1>10, <1>11 DEF Keeps

LEMMA DelHolds ==
  ASSUME OneEternal, NInv, NEW t \in Threads, DelShard(t)
  PROVE  Keeps(t)
<1> USE DEF NInv, HInv, IInv, TypeOK, ClientOK
<1> DEFINE k == req[t].key
<1>1. pc[t] = "del" /\ cold' = cold /\ journal' = journal /\ items' = Removed({k})
  BY DEF DelShard
<1>2. /\ Noted(pc[t], req[t], loc[t], items, cold) /\ req[t].op = "DEL" /\ k \in Keys
      /\ req[t].val = None
      /\ \A j \in Keys : Held(pc[t], req[t], loc[t], items, cold, journal, j)
  BY <1>1, Carrying DEF OpsAt, Noted
<1>3. pc'[t] \in {"subKey", "coldDelete"} /\ req'[t] = req[t] /\ loc'[t] = loc[t]
  BY DEF DelShard, Goto, Move, AfterRam, OneEternal, OneClient
<1>4. items'[k] = None /\ \A j \in Keys : j # k => items'[j] = items[j]
  BY <1>1, <1>2 DEF Removed
<1>5. \A j \in Keys : Held(pc'[t], req'[t], loc'[t], items', cold', journal', j)
  <2> SUFFICES ASSUME NEW j \in Keys
               PROVE  Held(pc'[t], req[t], loc[t], items', cold, journal, j)
    BY <1>1, <1>3
  <2>1. CASE j = k
    BY <1>2, <1>3, <1>4, <2>1 DEF Held, Unrecorded, ValOf
  <2>2. CASE j # k
    <3>1. LastIs(journal, j, Place(items, cold, j))
      BY <1>1, <1>2 DEF Held, Unrecorded, Carried
    <3>2. Place(items', cold, j) = Place(items, cold, j)  BY <1>4, <2>2 DEF Place
    <3>3. QED  BY <1>2, <2>2, <3>1, <3>2 DEF Held, Unrecorded, Carried, Sets
  <2>3. QED  BY <2>1, <2>2
<1>6. Noted(pc'[t], req'[t], loc'[t], items', cold')
  BY <1>1, <1>2, <1>3 DEF Noted
<1>7. NoExpiry'  BY <1>1, <1>4 DEF NoExpiry, Found
<1>8. QED  BY <1>5, <1>6, <1>7 DEF Keeps

\* Counting changes neither store.
LEMMA CountHolds ==
  ASSUME OneEternal, NInv, NEW t \in Threads, AddKey(t) \/ SubKey(t)
  PROVE  Keeps(t)
<1> USE DEF NInv, HInv, IInv, TypeOK, ClientOK
<1>1. /\ pc[t] \in {"addKey", "subKey"} /\ items' = items /\ cold' = cold /\ journal' = journal
      /\ req'[t] = req[t] /\ loc'[t] = loc[t]
  BY DEF AddKey, SubKey, Goto, Move
<1>2. /\ Noted(pc[t], req[t], loc[t], items, cold)
      /\ req[t].op \in OpsAt(pc[t]) \ {"INCR", "APPEND", "RENAME"}
      /\ \A j \in Keys : Held(pc[t], req[t], loc[t], items, cold, journal, j)
  BY <1>1, Carrying
<1>3. /\ pc[t] = "addKey" => pc'[t] = "coldDelete" /\ req[t].op \in Sets \cup {"GET"}
      /\ pc[t] = "subKey" /\ req[t].op \in Sets => pc'[t] = "coldPut"
      /\ pc[t] = "subKey" /\ req[t].op \notin Sets => pc'[t] = "coldDelete" /\ req[t].op = "DEL"
  BY <1>1, <1>2
  DEF AddKey, SubKey, Goto, Move, AfterAdd, AfterSub, AfterRam, OpsAt, Sets, OneEternal, OneClient
<1>4. \A j \in Keys : Held(pc'[t], req'[t], loc'[t], items', cold', journal', j)
  <2> SUFFICES ASSUME NEW j \in Keys
               PROVE  Held(pc'[t], req[t], loc[t], items, cold, journal, j)
    BY <1>1
  <2>1. Held(pc[t], req[t], loc[t], items, cold, journal, j)  BY <1>2
  <2>2. /\ Unrecorded(pc'[t], req[t], j) <=> Unrecorded(pc[t], req[t], j)
        /\ Carried(pc'[t], req[t], loc[t], j) <=> Carried(pc[t], req[t], loc[t], j)
        /\ pc'[t] # "log"
    BY <1>1, <1>3 DEF Unrecorded, Carried, Sets
  <2>3. QED  BY <2>1, <2>2 DEF Held
<1>5. Noted(pc'[t], req'[t], loc'[t], items', cold')
  BY <1>1, <1>2, <1>3 DEF Noted, Sets
<1>6. NoExpiry'  BY <1>1 DEF NoExpiry, Found
<1>7. QED  BY <1>4, <1>5, <1>6 DEF Keeps

LEMMA ColdDeleteHolds ==
  ASSUME OneEternal, NInv, NEW t \in Threads, ColdDelete(t)
  PROVE  Keeps(t)
<1> USE DEF NInv, HInv, IInv, TypeOK, ClientOK
<1> DEFINE k == req[t].key
<1>1. /\ pc[t] = "coldDelete" /\ items' = items /\ journal' = journal
      /\ cold' = [cold EXCEPT ![k] = None]
  BY DEF ColdDelete, ram
<1>2. /\ Noted(pc[t], req[t], loc[t], items, cold) /\ k \in Keys
      /\ req[t].op \in OpsAt("coldDelete")
      /\ \A j \in Keys : Held(pc[t], req[t], loc[t], items, cold, journal, j)
  BY <1>1, Carrying
<1>3. cold'[k] = None /\ \A j \in Keys : j # k => cold'[j] = cold[j]
  BY <1>1, <1>2 DEF ColdOK
<1>4. NoExpiry'  BY <1>1 DEF NoExpiry, Found
<1>5. CASE req[t].op = "GET"
  <2>1. pc'[t] = "idle"  BY <1>5 DEF ColdDelete, Return
  <2>2. items[k] # None  BY <1>1, <1>2, <1>5 DEF Noted
  <2>3. \A j \in Keys : LastIs(journal, j, Place(items, cold, j))
    BY <1>1, <1>2, <1>5 DEF Held, Unrecorded, Carried, Sets
  <2>4. \A j \in Keys : Place(items, cold', j) = Place(items, cold, j)
    BY <1>3, <2>2 DEF Place
  <2>5. \A j \in Keys : Held(pc'[t], req'[t], loc'[t], items', cold', journal', j)
    BY <1>1, <2>1, <2>3, <2>4 DEF Held, Unrecorded, Carried
  <2>6. Noted(pc'[t], req'[t], loc'[t], items', cold')  BY <2>1 DEF Noted
  <2>7. QED  BY <1>4, <2>5, <2>6 DEF Keeps
<1>6. CASE req[t].op # "GET"
  <2>1. req[t].op \in Sets \cup {"DEL"}  BY <1>2, <1>6 DEF OpsAt
  <2>2. pc'[t] = "log" /\ req'[t] = req[t] /\ loc'[t] = loc[t]
    BY <1>6 DEF ColdDelete, Goto, Move
  <2>3. ASSUME NEW j \in Keys
        PROVE  Held("log", req[t], loc[t], items, cold', journal, j)
    <3>1. Held("coldDelete", req[t], loc[t], items, cold, journal, j)  BY <1>1, <1>2
    <3>2. CASE j = k
      <4>1. Unrecorded("coldDelete", req[t], j) /\ Unrecorded("log", req[t], j)
        BY <2>1, <3>2 DEF Unrecorded
      <4>2. ValOf(items[j]) = req[t].val  BY <3>1, <4>1 DEF Held
      <4>3. Place(items, cold', j) = req[t].val
        BY <1>3, <3>2, <4>2 DEF Place, ValOf
      <4>4. QED  BY <4>1, <4>2, <4>3 DEF Held
    <3>3. CASE j # k
      <4>1. LastIs(journal, j, Place(items, cold, j))
        BY <3>1, <3>3 DEF Held, Unrecorded, Carried
      <4>2. Place(items, cold', j) = Place(items, cold, j)  BY <1>3, <3>3 DEF Place
      <4>3. QED  BY <3>3, <4>1, <4>2 DEF Held, Unrecorded, Carried
    <3>4. QED  BY <3>2, <3>3
  <2>4. Noted(pc'[t], req'[t], loc'[t], items', cold')
    BY <1>1, <1>2, <2>2 DEF Noted
  <2>5. QED  BY <1>1, <1>4, <2>2, <2>3, <2>4 DEF Keeps
<1>7. QED  BY <1>5, <1>6

LEMMA LogHolds ==
  ASSUME OneEternal, NInv, NEW t \in Threads, Log(t)
  PROVE  Keeps(t)
<1> USE DEF NInv, HInv, IInv, TypeOK, ClientOK
<1> DEFINE k == req[t].key
<1>1. pc[t] = "log" /\ items' = items /\ cold' = cold /\ Return(t)
  BY DEF Log, ram
<1>2. /\ Noted(pc[t], req[t], loc[t], items, cold) /\ k \in Keys
      /\ req[t].op \in OpsAt("log") \ {"INCR", "APPEND", "RENAME"}
      /\ req[t].val \in Value \cup {None} /\ req[t].ttl = 0 /\ req[t].dst = k
      /\ \A j \in Keys : Held(pc[t], req[t], loc[t], items, cold, journal, j)
  BY <1>1, Carrying DEF RequestOK, Noted
<1> DEFINE r == RecordOf(t)
<1>3. r = Record(k, req[t].val, 0)  BY <1>2 DEF RecordOf, ValueLogged
<1>4. r \in Records
  <2>1. Record(k, req[t].val, 0) \in Records  BY ONLY <1>2, EternalRecord
  <2>2. QED  BY <1>3, <2>1
<1>5. r.key = k /\ r.val = req[t].val /\ r.exp = 0  BY <1>3 DEF Record
<1>6. journal' = Append(journal, r)  BY DEF Log
<1> HIDE DEF r
<1>7. /\ \A j : k = j => LastIs(journal', j, req[t].val)
      /\ \A j, v : k # j /\ LastIs(journal, j, v) => LastIs(journal', j, v)
  BY <1>4, <1>5, <1>6, LastAppended DEF JournalOK
<1>8. NoExpiry'
  <2>1. \A i \in DOMAIN Append(journal, r) : Append(journal, r)[i].exp = 0
    BY <1>4, <1>5 DEF JournalOK, NoExpiry
  <2>2. QED  BY <1>1, <1>6, <2>1 DEF NoExpiry, Found
<1>9. pc'[t] = "idle"  BY <1>1 DEF Return
<1>10. ASSUME NEW j \in Keys PROVE LastIs(journal', j, Place(items, cold, j))
  <2>1. Held("log", req[t], loc[t], items, cold, journal, j)  BY <1>1, <1>2
  <2>2. CASE j = k
    <3>1. Unrecorded("log", req[t], j)  BY <1>2, <2>2 DEF Unrecorded, OpsAt
    <3>2. Place(items, cold, j) = req[t].val  BY <2>1, <3>1 DEF Held
    <3>3. QED  BY <1>7, <2>2, <3>2
  <2>3. CASE j # k
    <3>1. LastIs(journal, j, Place(items, cold, j))
      BY <2>1, <2>3 DEF Held, Unrecorded, Carried
    <3>2. QED  BY <1>7, <2>3, <3>1
  <2>4. QED  BY <2>2, <2>3
<1>11. \A j \in Keys : Held(pc'[t], req'[t], loc'[t], items', cold', journal', j)
  BY <1>1, <1>9, <1>10 DEF Held, Unrecorded, Carried
<1>12. Noted(pc'[t], req'[t], loc'[t], items', cold')  BY <1>9 DEF Noted
<1>13. QED  BY <1>8, <1>11, <1>12 DEF Keeps

-------------------------------------------------------------------------------
LEMMA ClientHolds ==
  ASSUME OneEternal, NInv, NEW t \in Threads, Call(t) \/ ClientStep(t)
  PROVE  Keeps(t)
<1>1. ~(GetExpired(t) \/ ClearShard(t) \/ ZeroKeys(t) \/ FlushAll(t))
  <2>1. pc[t] # "getExpired"  BY DEF NInv, Noted
  <2>2. pc[t] \notin {"clear", "zero", "flushAll"}  BY Carrying DEF OpsAt
  <2>3. QED  BY <2>1, <2>2 DEF GetExpired, ClearShard, ZeroKeys, FlushAll
<1>2. ~(IncrBy(t) \/ AppendVal(t) \/ GetItem(t) \/ ReadExp(t) \/ DelSrc(t) \/ SetDst(t)
        \/ LogDel(t))
  BY NotReached DEF OneEternal, NInv
<1>3. QED
  BY <1>1, <1>2, CallHolds, LookHolds, ScanHolds, GetHolds, PersistHolds, VictimHolds, PutHolds,
     SetHolds, PromoteHolds, DelHolds, CountHolds, ColdDeleteHolds, LogHolds
  DEF ClientStep

LEMMA NothingLostStep ==
  ASSUME OneEternal
  PROVE  NInv /\ [Next]_vars => NInv'
<1> SUFFICES ASSUME NInv, [Next]_vars PROVE NInv'  OBVIOUS
<1>1. HInv'  BY HomeStep DEF NInv, OneEternal
<1>2. ASSUME NEW t \in Threads, Call(t) \/ ClientStep(t) PROVE NInv'
  <2>1. Keeps(t)  BY <1>2, ClientHolds
  <2>2. \A u \in Threads : u = t  BY DEF OneEternal, OneClient
  <2>3. \A u \in Threads :
          /\ Noted(pc'[u], req'[u], loc'[u], items', cold')
          /\ \A k \in Keys : Held(pc'[u], req'[u], loc'[u], items', cold', journal', k)
    BY ONLY <2>1, <2>2 DEF Keeps
  <2>4. QED  BY <1>1, <2>1, <2>3 DEF NInv, Keeps
<1>3. CASE \/ \E task \in Tickers : JanitorTick(task)
           \/ JanitorShard \/ (\E w \in Workers : Worker(w)) \/ Tick \/ RefreshClock
           \/ UNCHANGED vars
  <2>1. cold' = cold /\ UNCHANGED <<client, journal>> /\ (~ExpireByTTL => items' = items)
    BY <1>3, OthersSettled DEF NInv, OneEternal
  <2>2. ASSUME ExpireByTTL PROVE items' = items
    <3>1. Due(jan.sh) = {}  BY DEF Due, Shard, NInv, NoExpiry
    <3>2. PICK D \in Samples(MaxPerShard, Due(jan.sh)) : items' = Removed(D)
      BY <2>2 DEF ExpireByTTL
    <3>3. D = {}  BY <3>1, <3>2 DEF Samples
    <3>4. QED  BY <3>2, <3>3 DEF Removed, NInv, HInv, IInv, TypeOK, RamOK
  <2>3. items' = items  BY <2>1, <2>2
  <2>4. QED  BY <1>1, <2>1, <2>3 DEF NInv, NoExpiry, Found, client
<1>4. QED  BY <1>2, <1>3 DEF Next

LEMMA NothingLostInit == Init => NInv
<1> SUFFICES ASSUME Init PROVE NInv  OBVIOUS
<1>1. /\ \A k \in Keys : items[k] = None /\ cold[k] = None
      /\ journal = <<>> /\ \A t \in Threads : pc[t] = "idle"
  BY DEF Init
<1>2. \A k \in Keys : LastIs(journal, k, Place(items, cold, k))
  BY <1>1 DEF LastIs, Place, ValOf
<1>3. QED
  BY <1>1, <1>2, HomeInit DEF NInv, NoExpiry, Found, Noted, Held, Unrecorded, Carried

\* One client whose keys do not expire, with LRU eviction and promotion: when no
\* call is under way, what RAM or else the cold store has of a key is its last
\* value set, and neither has a key that was deleted.  The value passes through the
\* client's hands on its way to the cold store and is in both stores on its way back.
THEOREM EvictionLosesNothing ==
  ASSUME OneEternal
  PROVE  Spec => []NothingLost
<1>1. NInv => NothingLost
  <2> SUFFICES ASSUME NInv, Quiet, NEW k \in Keys
               PROVE  Recovered(k) = IF Found(k) THEN items[k].val
                                     ELSE IF cold[k] # None THEN cold[k].val ELSE None
    BY DEF NothingLost
  <2>1. PICK t \in Threads : TRUE  BY DEF OneEternal, OneClient
  <2>2. LastIs(journal, k, Place(items, cold, k))
    BY DEF NInv, Held, Unrecorded, Carried, Quiet
  <2>3. Recovered(k) = Place(items, cold, k)
    BY <2>2, RecoversLast DEF NInv, HInv, IInv, TypeOK
  <2>4. QED  BY <2>3 DEF Place, ValOf, Found
<1>2. QED  BY <1>1, NothingLostInit, NothingLostStep, PTL DEF Spec
===============================================================================
