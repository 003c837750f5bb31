------------------------------ MODULE LifecycleProofs ------------------------------
(***************************************************************************)
(* Theorems about Lifecycle, for any keys, clients, lifetimes and bounds:  *)
(* what comes back at Open, and what Close leaves behind.                  *)
(***************************************************************************)
EXTENDS Lifecycle, WellFoundedInduction, TLAPS

(***************************************************************************)
(* The inductive invariant                                                 *)
(***************************************************************************)

\* Which goroutines may be at what, and what they then find.
Control ==
  /\ jpc = "off" <=> pc = "down"
  /\ jpc \in {"stopping", "done"} => pc \in {"wait", "closed"}
  /\ closed <=> pc \in {"flush", "closeLog", "wait", "closed"}
  /\ pc = "closed" => jpc = "done"
  /\ jpc = "done" => safe = Len(log)
  /\ pc \in {"down", "replay"} => /\ flushCh = <<>> /\ hand = None
                                  /\ \A c \in Clients : call[c].at = "idle"
  /\ pc = "down" => ram = Nothing /\ cold = Nothing
  /\ call[Opener].at # "idle" => pc = "replay" /\ pos < Len(boot)

Busy(k) == \E t \in Threads : call[t].at # "idle" /\ call[t].key = k

\* While the writer runs, a key in RAM has a record, or one on its way.
RamRecorded == jpc = "running" => \A k \in Keys :
  ram[k] # None => Records(log, k) # {} \/ Busy(k)

\* k has a record that nothing can take away.
Safe(k) == \E i \in 1..safe : log[i].key = k

\* What has left RAM for the channel, the cold store or its file has a record that
\* is synced.
ColdRecorded ==
  /\ \A k \in Keys : cold[k] # None => Safe(k)
  /\ \A i \in DOMAIN flushCh : Safe(flushCh[i].key)
  /\ hand # None => Safe(hand.key)
  /\ gob \notin {None, Torn} => \A k \in Keys : gob[k] # None => Safe(k)
  /\ tmp \notin {None, Torn} => \A k \in Keys : tmp[k] # None => Safe(k)

\* the item that a record leaves in RAM
ItemOf(r) == IF r.val = None THEN None ELSE [val |-> r.val, exp |-> r.exp]

\* Record i is the last of k's among the first n of the journal that is replayed.
LastUpTo(i, n, k) == /\ i \in 1..n /\ boot[i].key = k
                     /\ \A j \in i+1..n : boot[j].key # k

\* What the replay has made of the records of k behind it.
ReplayedKey(k) ==
  /\ cold[k] # None => \E i \in DOMAIN boot : boot[i].key = k
  /\ (\A i \in 1..pos : boot[i].key # k) /\ ~Busy(k) => ram[k] = None
  /\ ~Busy(k) => \A i \in 1..pos : LastUpTo(i, pos, k) /\ Unexpired(boot[i]) =>
       ram[k] = ItemOf(boot[i]) /\ cold[k] = None

Replayed == pc = "replay" => \A k \in Keys : ReplayedKey(k)

\* How far it has come with the next one.
Replaying ==
  LET c == call[Opener]
      r == boot[pos + 1]
  IN c.at # "idle" =>
       /\ c.key = r.key /\ c.val = r.val
       /\ Unexpired(r) => /\ c.exp = r.exp
                          /\ c.at \in {"cold", "log"} => ram[r.key] = ItemOf(r)
                          /\ c.at = "log" => cold[r.key] = None

\* What is owed is the last record, from the moment Close begins to the end of the
\* replay, unless somebody has called meanwhile.
OwedKey(k) ==
  /\ Closing \/ pc = "down" => ~Busy(k) /\ LastRecord(log, k).val = owed[k]
                                        /\ LastRecord(log, k).exp = 0
  /\ pc = "replay" => LastRecord(boot, k).val = owed[k] /\ LastRecord(boot, k).exp = 0

OwedIsLast == kind = "embedded" => \A k \in Keys : owed[k] # Any => OwedKey(k)

IInv == TypeOK /\ Control /\ RamRecorded /\ ColdRecorded /\ Replayed /\ Replaying /\ OwedIsLast

-------------------------------------------------------------------------------
(* Natural numbers, and the last record of a key *)

LEMMA NatInduct == ASSUME NEW S, 0 \in S, \A n \in Nat : n \in S => n + 1 \in S
                   PROVE  Nat \subseteq S
<1>1. SUFFICES ASSUME Nat \ S # {} PROVE FALSE
  OBVIOUS
<1>2. PICK x \in Nat \ S : \A y \in Nat \ S : ~ (<<y, x>> \in OpToRel(<, Nat))
  BY <1>1, NatLessThanWellFounded, WFMin
<1>3. x \in Nat /\ x - 1 \in Nat \ S
  OBVIOUS
<1>4. <<x - 1, x>> \in OpToRel(<, Nat)
  BY <1>3 DEF OpToRel
<1> QED BY <1>2, <1>3, <1>4

\* A set of positions that is not empty has a greatest element.
LEMMA LastPosition == ASSUME NEW n \in Nat, NEW S \in SUBSET (1..n), S # {}
                      PROVE  \E i \in S : \A j \in S : j <= i
<1> DEFINE I == {m \in Nat : \A T \in SUBSET (1..m) :
                               T # {} => \E i \in T : \A j \in T : j <= i}
<1>1. 0 \in I
  <2>1. 1..0 = {} OBVIOUS
  <2> QED BY <2>1
<1>2. \A m \in Nat : m \in I => m + 1 \in I
  <2> SUFFICES ASSUME NEW m \in Nat, m \in I, NEW T \in SUBSET (1..m+1), T # {}
               PROVE  \E i \in T : \A j \in T : j <= i
    OBVIOUS
  <2>1. CASE m + 1 \in T BY <2>1
  <2>2. CASE m + 1 \notin T BY <2>2
  <2> QED BY <2>1, <2>2
<1>3. Nat \subseteq I BY <1>1, <1>2, NatInduct
<1> QED BY <1>3

LEMMA LastFound ==
  ASSUME NEW l \in Seq(Record), NEW k
  PROVE  \/ Records(l, k) = {} /\ LastRecord(l, k) = [key |-> k, val |-> None, exp |-> 0]
         \/ \E i \in Records(l, k) : LastRecord(l, k) = l[i] /\ \A j \in Records(l, k) : j <= i
<1>1. CASE Records(l, k) # {}
  <2>1. \E i \in Records(l, k) : \A j \in Records(l, k) : j <= i
    <3>1. Records(l, k) \in SUBSET (1..Len(l)) /\ Len(l) \in Nat
      BY DEF Records
    <3> QED BY <1>1, <3>1, LastPosition
  <2> QED BY <1>1, <2>1 DEF LastRecord
<1> QED BY <1>1 DEF LastRecord

LEMMA LastTyped == ASSUME NEW l \in Seq(Record), NEW k
                   PROVE  LastRecord(l, k).val \in Nat \cup {None} /\ LastRecord(l, k).exp \in Nat
<1>1. CASE Records(l, k) = {}
  BY <1>1, LastFound DEF LastRecord
<1>2. CASE Records(l, k) # {}
  <2>1. PICK i \in Records(l, k) : LastRecord(l, k) = l[i]
    BY <1>2, LastFound
  <2>2. l[i] \in Record
    BY <2>1 DEF Records
  <2> QED BY <2>1, <2>2 DEF Record
<1> QED BY <1>1, <1>2

LEMMA LastIs ==
  ASSUME NEW l \in Seq(Record), NEW k, NEW i \in 1..Len(l), l[i].key = k,
         \A j \in i+1..Len(l) : l[j].key # k
  PROVE  LastRecord(l, k) = l[i]
<1>1. i \in Records(l, k) /\ \A j \in Records(l, k) : j \in 1..Len(l) /\ j <= i
  BY DEF Records
<1>2. PICK m \in Records(l, k) : LastRecord(l, k) = l[m] /\ \A j \in Records(l, k) : j <= m
  BY <1>1, LastFound
<1> QED BY <1>1, <1>2

LEMMA LastAppend ==
  ASSUME NEW l \in Seq(Record), NEW k, NEW r \in Record, r.key # k
  PROVE  LastRecord(Append(l, r), k) = LastRecord(l, k)
<1> DEFINE m == Append(l, r)
<1>1. m \in Seq(Record) /\ Len(m) = Len(l) + 1 /\ m[Len(l) + 1] = r
      /\ \A i \in 1..Len(l) : m[i] = l[i]
  OBVIOUS
<1>2. CASE Records(l, k) = {}
  <2>1. Records(m, k) = {}
    BY <1>1, <1>2 DEF Records
  <2> QED BY <1>2, <2>1 DEF LastRecord
<1>3. CASE Records(l, k) # {}
  <2>1. PICK i \in Records(l, k) : LastRecord(l, k) = l[i] /\ \A j \in Records(l, k) : j <= i
    BY <1>3, LastFound
  <2>2. i \in 1..Len(m) /\ m[i].key = k /\ \A j \in i+1..Len(m) : m[j].key # k
    BY <1>1, <2>1 DEF Records
  <2>3. LastRecord(m, k) = m[i]
    BY <1>1, <2>2, LastIs
  <2>4. m[i] = l[i]
    BY <1>1 DEF Records
  <2> QED BY <2>1, <2>3, <2>4
<1> QED BY <1>2, <1>3

-------------------------------------------------------------------------------
(* Types and control *)

LEMMA NothingTyped == Nothing \in Index /\ Idle \in CallState /\ Idle.at = "idle"
BY DEF Nothing, Index, Idle, CallState

LEMMA InitTyped == Init => TypeOK /\ Control
<1> SUFFICES ASSUME Init PROVE TypeOK /\ Control
  OBVIOUS
<1>1. log \in Seq(Record) /\ boot \in Seq(Record) /\ Len(log) = 0 /\ Len(boot) = 0
      /\ flushCh \in Seq([key : Keys, val : Nat, exp : Nat]) /\ Len(flushCh) = 0
  BY DEF Init
<1>2. TypeOK
  <2>1. kind \in {"embedded", "command"} /\ FlushCap \in Nat
    BY LifecycleAssumptions DEF Init
  <2>2. call \in [Threads -> CallState] /\ \A t \in Threads : call[t].at = "idle"
    BY NothingTyped DEF Init
  <2>3. owed \in [Keys -> Nat \cup {None, Any}]
    BY DEF Init
  <2>4. bounds \in [ops : Nat, starts : Nat, crashes : Nat]
    BY DEF Init
  <2>5. fh \in [Flushers -> {None, "tmp", "gob"}]
        /\ fpc \in [Flushers -> {"idle", "create", "write", "rename"}]
    BY DEF Init
  <2>6. now \in Nat /\ safe \in 0..Len(log) /\ pos \in 0..Len(boot) /\ Len(flushCh) <= FlushCap
    BY <1>1, <2>1 DEF Init
  <2>7. ram \in Index /\ cold \in Index
    BY NothingTyped DEF Init
  <2>8. /\ jpc \in {"off", "running", "stopping", "done"} /\ closed \in BOOLEAN
        /\ hand \in [key : Keys, val : Nat, exp : Nat] \cup {None}
        /\ gob \in Index \cup {None, Torn} /\ tmp \in Index \cup {None, Torn}
        /\ jan \in {"off", "idle", "evict", "flush"} /\ jstop \in BOOLEAN
        /\ pc = "down"
    BY DEF Init
  <2> QED
    BY <1>1, <2>1, <2>2, <2>3, <2>4, <2>5, <2>6, <2>7, <2>8 DEF TypeOK
<1>3. Control
  BY NothingTyped DEF Init, Control, Threads, Opener
<1> QED BY <1>2, <1>3

\* what a step makes of the calls, when it changes one
LEMMA CallTyped ==
  ASSUME TypeOK, NEW t \in Threads, NEW c \in CallState, c.at # "idle" => c.key \in Keys,
         call' = [call EXCEPT ![t] = c]
  PROVE  /\ call' \in [Threads -> CallState]
         /\ \A u \in Threads : call'[u].at # "idle" => call'[u].key \in Keys
         /\ call'[t] = c /\ \A u \in Threads \ {t} : call'[u] = call[u]
BY DEF TypeOK

LEMMA CallMoves ==
  ASSUME TypeOK, NEW t \in Threads, NEW l \in {"cold", "log"}, call[t].at # "idle",
         call' = [call EXCEPT ![t].at = l]
  PROVE  /\ call' \in [Threads -> CallState]
         /\ \A u \in Threads : call'[u].at # "idle" => call'[u].key \in Keys
         /\ call'[t] = [call[t] EXCEPT !.at = l] /\ \A u \in Threads \ {t} : call'[u] = call[u]
<1> DEFINE c == [call[t] EXCEPT !.at = l]
<1>1. call[t] \in CallState /\ call[t].key \in Keys
  BY DEF TypeOK
<1>2. c \in CallState /\ c.key \in Keys
  BY <1>1 DEF CallState
<1>3. call' = [call EXCEPT ![t] = c]
  OBVIOUS
<1> QED BY <1>2, <1>3, CallTyped

\* Every step, by the action that takes it.
LEMMA Cases ==
  ASSUME NEW P, Next,
         \A c \in Clients : Call(c) => P,
         \A t \in Threads : InRam(t) \/ ColdDelete(t) \/ Log(t) => P,
         Sync => P, Finish => P,
         \A task \in {"evict", "flush"} : JanitorTick(task) => P,
         \A f \in Flushers : FlushCreate(f) \/ FlushWrite(f) \/ FlushRename(f) => P,
         ExpireByTTL => P, JanitorStops => P, TaskEnds => P,
         \A k \in Keys : Evict(k) => P,
         Take => P, Put => P, Start => P, Restore => P, Opened => P,
         Begin \/ Shutdown \/ StopJanitor \/ CloseChan \/ Flushed \/ CloseLog \/ LogClosed => P,
         Exit \/ Fatal \/ Panic \/ Crash => P, Tick => P
  PROVE  P
BY DEF Next, Calls, Janitor, Closer, Flush, Flushers

LEMMA EndTyped ==
  ASSUME TypeOK, Control, NEW n \in safe..Len(log), End(n),
         gob' \in {gob, None, Torn}, owed' \in [Keys -> Nat \cup {None, Any}],
         bounds' \in [ops : Nat, starts : Nat, crashes : Nat]
  PROVE  TypeOK' /\ Control'
<1>1. log' \in Seq(Record) /\ safe' \in 0..Len(log')
  BY DEF End, TypeOK
<1>2. call' \in [Threads -> CallState] /\ \A t \in Threads : call'[t].at = "idle"
  BY NothingTyped DEF End
<1>3. /\ fh' \in [Flushers -> {None, "tmp", "gob"}]
      /\ fpc' \in [Flushers -> {"idle", "create", "write", "rename"}]
      /\ flushCh' \in Seq([key : Keys, val : Nat, exp : Nat]) /\ Len(flushCh') = 0
      /\ boot' \in Seq(Record) /\ Len(boot') = 0 /\ FlushCap \in Nat
  BY LifecycleAssumptions DEF End
<1>4. TypeOK'
  <2>1. kind' \in {"embedded", "command"} /\ now' \in Nat /\ gob' \in Index \cup {None, Torn}
    BY DEF End, TypeOK
  <2>2. ram' \in Index /\ cold' \in Index /\ pos' \in 0..Len(boot') /\ Len(flushCh') <= FlushCap
    BY <1>3, NothingTyped DEF End
  <2>3. /\ jpc' \in {"off", "running", "stopping", "done"} /\ closed' \in BOOLEAN
        /\ hand' \in [key : Keys, val : Nat, exp : Nat] \cup {None}
        /\ tmp' \in Index \cup {None, Torn}
        /\ jan' \in {"off", "idle", "evict", "flush"} /\ jstop' \in BOOLEAN
        /\ pc' = "down"
    BY DEF End
  <2> QED BY <1>1, <1>2, <1>3, <2>1, <2>2, <2>3 DEF TypeOK
<1>5. Control'
  BY <1>2 DEF End, Control, Nothing, Threads, Opener
<1> QED BY <1>4, <1>5

LEMMA StepTyped == ASSUME TypeOK, Control, Next PROVE TypeOK' /\ Control'
<1> USE LifecycleAssumptions
<1>1. ASSUME NEW c \in Clients, Call(c) PROVE TypeOK' /\ Control'
  <2>1. PICK k \in Keys, v \in {bounds.ops + 1, None}, ttl \in TTLs :
          Enter(c, k, v, ttl) /\ owed' = IF Closing THEN [owed EXCEPT ![k] = Any] ELSE owed
    BY <1>1 DEF Call
  <2> DEFINE d == [at |-> "ram", key |-> k, val |-> v, ttl |-> ttl, exp |-> Until(ttl)]
  <2>2. call' = [call EXCEPT ![c] = d] /\ bounds.ops \in Nat /\ now \in Nat
    BY <2>1 DEF Enter, TypeOK
  <2>3. d \in CallState /\ d.key \in Keys
    <3>1. Until(ttl) \in Nat /\ v \in Nat \cup {None} /\ ttl \in Nat
      <4>1. ttl \in Nat /\ v \in Nat \cup {None}
        BY <2>1, <2>2
      <4> QED BY <2>2, <4>1 DEF Until
    <3> QED BY <2>1, <3>1 DEF CallState
  <2>4. c \in Threads /\ Opener \in Threads /\ c # Opener
    BY DEF Threads, Opener
  <2>5. /\ call' \in [Threads -> CallState]
        /\ \A u \in Threads : call'[u].at # "idle" => call'[u].key \in Keys
        /\ call'[Opener] = call[Opener]
    BY <2>2, <2>3, <2>4, CallTyped
  <2>6. bounds' \in [ops : Nat, starts : Nat, crashes : Nat]
    <3>1. bounds \in [ops : Nat, starts : Nat, crashes : Nat]
      BY DEF TypeOK
    <3>2. bounds' = [bounds EXCEPT !.ops = @ + 1]
      BY <1>1 DEF Call
    <3> QED BY <3>1, <3>2
  <2>9. owed' \in [Keys -> Nat \cup {None, Any}]
    <3>1. owed \in [Keys -> Nat \cup {None, Any}]
      BY DEF TypeOK
    <3> QED BY <2>1, <3>1
  <2>10. UNCHANGED <<kind, now, log, safe, gob, tmp, jpc, ram, cold, flushCh, closed, hand, fh, fpc,
                     jan, jstop, pc, boot, pos>>
         /\ (pc = "up" \/ Closing)
    BY <1>1 DEF Call, disk, stores, chan, flushes, janitor, opener
  <2>7. TypeOK'
    BY <2>5, <2>6, <2>9, <2>10, SMTT(60) DEF TypeOK
  <2>8. Control'
    BY <2>5, <2>10 DEF Control, Closing, Nothing
  <2> QED BY <2>7, <2>8
<1>2. ASSUME NEW t \in Threads, InRam(t) PROVE TypeOK' /\ Control'
  <2>1. call[t] \in CallState /\ call[t].key \in Keys
    BY <1>2 DEF InRam, TypeOK
  <2>2. ram' \in Index
    BY <1>2, <2>1 DEF InRam, TypeOK, CallState, Index, Item
  <2>3. /\ call' \in [Threads -> CallState]
        /\ \A u \in Threads : call'[u].at # "idle" => call'[u].key \in Keys
        /\ call'[t] = [call[t] EXCEPT !.at = "cold"] /\ \A u \in Threads \ {t} : call'[u] = call[u]
    BY <1>2, CallMoves DEF InRam
  <2>4. TypeOK'
    BY <1>2, <2>2, <2>3, SMTT(30) DEF InRam, TypeOK, disk, chan, flushes, janitor, opener
  <2>5. Control'
    BY <1>2, <2>1, <2>3 DEF InRam, Control, Threads, Opener, disk, chan, flushes, janitor, opener
  <2> QED BY <2>4, <2>5
<1>3. ASSUME NEW t \in Threads, ColdDelete(t) PROVE TypeOK' /\ Control'
  <2>1. call[t] \in CallState /\ call[t].key \in Keys
    BY <1>3 DEF ColdDelete, TypeOK
  <2>2. cold' \in Index
    BY <1>3, <2>1 DEF ColdDelete, TypeOK, Index
  <2>3. /\ call' \in [Threads -> CallState]
        /\ \A u \in Threads : call'[u].at # "idle" => call'[u].key \in Keys
        /\ call'[t] = [call[t] EXCEPT !.at = "log"] /\ \A u \in Threads \ {t} : call'[u] = call[u]
    BY <1>3, CallMoves DEF ColdDelete
  <2>4. TypeOK'
    BY <1>3, <2>2, <2>3, SMTT(30) DEF ColdDelete, TypeOK, disk, chan, flushes, janitor, opener
  <2>5. Control'
    BY <1>3, <2>1, <2>3 DEF ColdDelete, Control, Threads, Opener, disk, chan, flushes, janitor, opener
  <2> QED BY <2>4, <2>5
<1>4. ASSUME NEW t \in Threads, Log(t) PROVE TypeOK' /\ Control'
  <2> DEFINE r == [key |-> call[t].key, val |-> call[t].val, exp |-> Until(call[t].ttl)]
  <2>1. call[t] \in CallState /\ call[t].key \in Keys /\ now \in Nat
    BY <1>4 DEF Log, TypeOK
  <2>2. r \in Record
    BY <2>1 DEF CallState, Record, Until
  <2>8. log \in Seq(Record) /\ safe \in 0..Len(log)
    BY DEF TypeOK
  <2>9. Append(log, r) \in Seq(Record) /\ Len(Append(log, r)) = Len(log) + 1
    BY <2>2, <2>8
  <2>10. log' \in {log, Append(log, r)} /\ (jpc = "done" => log' = log)
    BY <1>4 DEF Log
  <2>3. log' \in Seq(Record) /\ safe \in 0..Len(log')
    <3>1. CASE log' = log
      BY <2>8, <3>1
    <3>2. CASE log' = Append(log, r)
      <4> HIDE DEF r
      <4>1. Len(log) \in Nat BY <2>8
      <4> QED BY <2>8, <2>9, <3>2, <4>1
    <3> QED BY <2>10, <3>1, <3>2
  <2>4. pos' \in 0..Len(boot)
    BY <1>4 DEF Log, TypeOK, Control
  <2>5. /\ call' \in [Threads -> CallState]
        /\ \A u \in Threads : call'[u].at # "idle" => call'[u].key \in Keys
        /\ call'[t] = Idle /\ \A u \in Threads \ {t} : call'[u] = call[u]
    BY <1>4, NothingTyped, CallTyped DEF Log
  <2>6. TypeOK'
    <3>1. UNCHANGED <<kind, now, safe, gob, tmp, jpc, ram, cold, flushCh, closed, hand, fh, fpc,
                      jan, jstop, pc, boot, owed, bounds>>
      BY <1>4 DEF Log, stores, chan, flushes, janitor
    <3> QED BY <2>3, <2>4, <2>5, <3>1, SMTT(60) DEF TypeOK
  <2>7. Control'
    BY <1>4, <2>3, <2>5, <2>10, NothingTyped DEF Log, Control, Threads, Opener, stores, chan, flushes, janitor
  <2> QED BY <2>6, <2>7
<1>5. ASSUME Sync \/ Finish PROVE TypeOK' /\ Control'
  <2>1. UNCHANGED <<kind, now, log, gob, tmp, ram, cold, flushCh, closed, hand, fh, fpc, jan, jstop,
                    pc, boot, pos, call, owed, bounds>>
    BY <1>5 DEF Sync, Finish, stores, chan, flushes, janitor, opener
  <2>4. /\ safe' = Len(log)
        /\ \/ jpc = "running" /\ jpc' = jpc
           \/ jpc = "stopping" /\ jpc' = "done"
    BY <1>5 DEF Sync, Finish
  <2>2. TypeOK'
    <3>1. safe' \in 0..Len(log)
      BY <2>4 DEF TypeOK
    <3> QED BY <2>1, <2>4, <3>1, SMTT(60) DEF TypeOK
  <2>3. Control'
    BY <2>1, <2>4 DEF Control, Nothing
  <2> QED BY <2>2, <2>3
<1>6. ASSUME NEW task \in {"evict", "flush"}, JanitorTick(task) PROVE TypeOK' /\ Control'
  <2>1. UNCHANGED <<kind, now, log, safe, gob, tmp, jpc, ram, cold, flushCh, closed, hand, fh, jstop,
                    pc, boot, pos, call, owed, bounds>>
        /\ jan' = task /\ fpc' \in {fpc, [fpc EXCEPT !["janitor"] = "create"]}
    BY <1>6 DEF JanitorTick, disk, stores, chan, opener
  <2>4. fpc' \in [Flushers -> {"idle", "create", "write", "rename"}]
    BY <2>1 DEF TypeOK
  <2>2. TypeOK'
    BY <2>1, <2>4, SMTT(60) DEF TypeOK
  <2>3. Control'
    BY <2>1 DEF Control, Nothing
  <2> QED BY <2>2, <2>3
<1>7. ASSUME NEW f \in Flushers, FlushCreate(f) \/ FlushWrite(f) \/ FlushRename(f)
      PROVE  TypeOK' /\ Control'
  <2>1. UNCHANGED <<kind, now, log, safe, jpc, ram, cold, flushCh, closed, hand, jan, jstop,
                    pc, boot, pos, call, owed, bounds>>
    BY <1>7 DEF FlushCreate, FlushWrite, FlushRename, stores, chan, janitor, opener
  <2>2. /\ gob' \in Index \cup {None, Torn} /\ tmp' \in Index \cup {None, Torn}
        /\ fh' \in [Flushers -> {None, "tmp", "gob"}]
        /\ fpc' \in [Flushers -> {"idle", "create", "write", "rename"}]
    <3>1. CASE FlushCreate(f) BY <3>1 DEF FlushCreate, TypeOK
    <3>2. CASE FlushWrite(f) BY <3>2 DEF FlushWrite, TypeOK
    <3>3. CASE FlushRename(f) BY <3>3 DEF FlushRename, TypeOK
    <3> QED BY <1>7, <3>1, <3>2, <3>3
  <2>3. TypeOK'
    BY <2>1, <2>2, SMTT(30) DEF TypeOK
  <2>4. Control'
    BY <2>1 DEF Control, Nothing
  <2> QED BY <2>3, <2>4
<1>8. ASSUME ExpireByTTL PROVE TypeOK' /\ Control'
  <2>1. UNCHANGED <<kind, now, log, safe, gob, tmp, jpc, cold, flushCh, closed, hand, fh, fpc, jan,
                    jstop, pc, boot, pos, call, owed, bounds>>
    BY <1>8 DEF ExpireByTTL, disk, chan, flushes, janitor, opener
  <2>2. ram' \in Index /\ (ram = Nothing => ram' = Nothing)
    BY <1>8 DEF ExpireByTTL, TypeOK, Index, Nothing
  <2>3. TypeOK'
    BY <2>1, <2>2 DEF TypeOK
  <2>4. Control'
    BY <2>1, <2>2 DEF Control, Nothing
  <2> QED BY <2>3, <2>4
<1>9. ASSUME JanitorStops \/ TaskEnds PROVE TypeOK' /\ Control'
  <2>1. UNCHANGED <<kind, now, log, safe, gob, tmp, jpc, ram, cold, flushCh, closed, hand, fh, fpc,
                    jstop, pc, boot, pos, call, owed, bounds>>
        /\ jan' \in {"off", "idle"}
    BY <1>9 DEF JanitorStops, TaskEnds, disk, stores, chan, flushes, opener
  <2>2. TypeOK'
    BY <2>1 DEF TypeOK
  <2>3. Control'
    BY <2>1 DEF Control, Nothing
  <2> QED BY <2>2, <2>3
<1>10. ASSUME NEW k \in Keys, Evict(k) PROVE TypeOK' /\ Control'
  <2> DEFINE e == [key |-> k, val |-> ram[k].val, exp |-> ram[k].exp]
  <2>1. UNCHANGED <<kind, now, log, safe, gob, tmp, jpc, cold, closed, hand, fh, fpc, jan,
                    jstop, pc, boot, pos, call, owed, bounds>>
        /\ flushCh' = Append(flushCh, e) /\ ram' = [ram EXCEPT ![k] = None]
        /\ Len(flushCh) < FlushCap /\ ram[k] # None /\ pc # "replay"
    BY <1>10 DEF Evict, Aged, disk, flushes, janitor, opener
  <2>2. e \in [key : Keys, val : Nat, exp : Nat]
    BY <2>1 DEF TypeOK, Index, Item
  <2>3. flushCh' \in Seq([key : Keys, val : Nat, exp : Nat]) /\ Len(flushCh') <= FlushCap
    BY <2>1, <2>2 DEF TypeOK
  <2>4. ram' \in Index
    BY <2>1 DEF TypeOK, Index
  <2>5. TypeOK'
    <3>1. UNCHANGED <<kind, now, log, safe, gob, tmp, jpc, cold, closed, hand, fh, fpc, jan,
                      jstop, pc, boot, pos, call, owed, bounds>>
      BY <2>1
    <3> QED BY <2>3, <2>4, <3>1, SMTT(30) DEF TypeOK
  <2>6. pc # "down"
    BY <2>1 DEF Control, Nothing
  <2>7. Control'
    BY <2>1, <2>6 DEF Control, Nothing
  <2> QED BY <2>5, <2>7
<1>11. ASSUME Take PROVE TypeOK' /\ Control'
  <2>1. UNCHANGED <<kind, now, log, safe, gob, tmp, jpc, ram, cold, closed, fh, fpc, jan,
                    jstop, pc, boot, pos, call, owed, bounds>>
        /\ flushCh # <<>> /\ hand' = Head(flushCh) /\ flushCh' = Tail(flushCh)
    BY <1>11 DEF Take, disk, stores, flushes, janitor, opener
  <2>2. /\ hand' \in [key : Keys, val : Nat, exp : Nat] \cup {None}
        /\ flushCh' \in Seq([key : Keys, val : Nat, exp : Nat]) /\ Len(flushCh') <= FlushCap
    <3> DEFINE E == [key : Keys, val : Nat, exp : Nat]
    <3>1. flushCh \in Seq(E) /\ Len(flushCh) <= FlushCap
      BY DEF TypeOK
    <3> HIDE DEF E
    <3>2. /\ Head(flushCh) \in E /\ Tail(flushCh) \in Seq(E)
          /\ Len(Tail(flushCh)) = Len(flushCh) - 1 /\ Len(flushCh) \in Nat
      BY <2>1, <3>1
    <3>3. hand' \in E /\ flushCh' \in Seq(E) /\ Len(flushCh') <= FlushCap
      BY <2>1, <3>1, <3>2
    <3> QED BY <3>3 DEF E
  <2>3. TypeOK'
    <3>1. UNCHANGED <<kind, now, log, safe, gob, tmp, jpc, ram, cold, closed, fh, fpc, jan,
                      jstop, pc, boot, pos, call, owed, bounds>>
      BY <2>1
    <3> QED BY <2>2, <3>1, SMTT(60) DEF TypeOK
  <2>4. Control'
    BY <2>1 DEF Control, Nothing
  <2> QED BY <2>3, <2>4
<1>12. ASSUME Put PROVE TypeOK' /\ Control'
  <2>1. UNCHANGED <<kind, now, log, safe, gob, tmp, jpc, ram, flushCh, closed, fh, fpc, jan,
                    jstop, pc, boot, pos, call, owed, bounds>>
        /\ hand # None /\ hand' = None
        /\ cold' = [cold EXCEPT ![hand.key] = [val |-> hand.val, exp |-> hand.exp]]
    BY <1>12 DEF Put, disk, flushes, janitor, opener
  <2>2. cold' \in Index
    BY <2>1 DEF TypeOK, Index, Item
  <2>3. TypeOK'
    BY <2>1, <2>2, SMTT(60) DEF TypeOK
  <2>4. Control'
    BY <2>1 DEF Control, Nothing
  <2> QED BY <2>3, <2>4
<1>13. ASSUME Start PROVE TypeOK' /\ Control'
  <2>1. UNCHANGED <<kind, now, log, safe, gob, tmp, ram, flushCh, closed, hand, fh, fpc,
                    jstop, call, owed>>
        /\ pc = "down" /\ pc' = "replay" /\ jpc' = "running" /\ boot' = log /\ pos' = 0
        /\ jan' \in {"idle", "off"} /\ cold' = Loaded
    BY <1>13 DEF Start, disk, chan, flushes
  <2>2. cold' \in Index
    BY <2>1, NothingTyped DEF Loaded, TypeOK
  <2>3. bounds' \in [ops : Nat, starts : Nat, crashes : Nat]
    <3>1. bounds \in [ops : Nat, starts : Nat, crashes : Nat]
      BY DEF TypeOK
    <3> QED BY <1>13, <3>1 DEF Start
  <2>6. boot' \in Seq(Record) /\ pos' \in 0..Len(boot')
    BY <2>1 DEF TypeOK
  <2>4. TypeOK'
    BY <2>1, <2>2, <2>3, <2>6, SMTT(30) DEF TypeOK
  <2>5. Control'
    BY <2>1 DEF Control, Nothing
  <2> QED BY <2>4, <2>5
<1>14. ASSUME Restore PROVE TypeOK' /\ Control'
  <2> DEFINE r == boot[pos + 1]
             d == [at |-> "ram", key |-> r.key, val |-> r.val,
                   ttl |-> IF r.exp > now THEN r.exp - now ELSE 0,
                   exp |-> Until(IF r.exp > now THEN r.exp - now ELSE 0)]
  <2>1. UNCHANGED <<kind, now, log, safe, gob, tmp, jpc, ram, cold, flushCh, closed, hand, fh, fpc,
                    jan, jstop, pc, boot, owed, bounds>>
        /\ pc = "replay" /\ pos < Len(boot) /\ call[Opener].at = "idle"
        /\ \/ pos' = pos + 1 /\ call' = call
           \/ pos' = pos /\ call' = [call EXCEPT ![Opener] = d]
    BY <1>14 DEF Restore, Restoring, Enter, disk, stores, chan, flushes, janitor
  <2>2. r \in Record /\ now \in Nat
    BY <2>1, SMTT(30) DEF TypeOK
  <2>3. d \in CallState /\ d.key \in Keys
    BY <2>2 DEF Record, CallState, Until
  <2>4. Opener \in Threads /\ Opener \notin Clients
    BY DEF Threads, Opener
  <2>5. /\ call' \in [Threads -> CallState]
        /\ \A u \in Threads : call'[u].at # "idle" => call'[u].key \in Keys
        /\ \A u \in Clients : call'[u] = call[u]
    <3>1. CASE call' = call
      BY <3>1 DEF TypeOK
    <3>2. CASE call' = [call EXCEPT ![Opener] = d]
      BY <2>3, <2>4, <3>2, CallTyped DEF Threads
    <3> QED BY <2>1, <3>1, <3>2
  <2>6. TypeOK'
    BY <2>1, <2>5, SMTT(30) DEF TypeOK
  <2>7. Control'
    BY <2>1, <2>5 DEF Control, Nothing
  <2> QED BY <2>6, <2>7
<1>15. ASSUME Opened PROVE TypeOK' /\ Control'
  <2>1. UNCHANGED <<kind, now, log, safe, gob, tmp, jpc, ram, cold, flushCh, closed, hand, fh, fpc,
                    jstop, boot, pos, call, bounds>>
        /\ pc = "replay" /\ pc' = "up" /\ call[Opener].at = "idle"
        /\ jan' \in {jan, "idle"} /\ owed' = [k \in Keys |-> Any]
    BY <1>15 DEF Opened, Restored, Restoring, disk, stores, chan, flushes
  <2>2. TypeOK'
    BY <2>1 DEF TypeOK
  <2>3. Control'
    BY <2>1 DEF Control, Nothing
  <2> QED BY <2>2, <2>3
<1>16. ASSUME Begin \/ Shutdown \/ StopJanitor \/ CloseChan \/ Flushed \/ CloseLog \/ LogClosed
       PROVE  TypeOK' /\ Control'
  <2>1. owed' \in [Keys -> Nat \cup {None, Any}]
    <3>1. CASE Begin
      <4>1. \A k \in Keys : Kept(k) \in Nat \cup {None, Any}
        BY LastTyped DEF Kept, TypeOK
      <4> QED BY <3>1, <4>1 DEF Begin
    <3> QED BY <1>16, <3>1 DEF Shutdown, StopJanitor, CloseChan, Flushed, CloseLog, LogClosed, TypeOK
  <2>2. UNCHANGED <<kind, now, log, safe, gob, tmp, ram, cold, flushCh, hand, fh, jan, boot, pos,
                    call, bounds>>
    BY <1>16 DEF Begin, Shutdown, StopJanitor, CloseChan, Flushed, CloseLog, LogClosed, GoTo,
                 disk, stores
  <2>3. /\ fpc' \in {fpc, [fpc EXCEPT !["closer"] = "create"]}
        /\ jpc' \in {jpc, "stopping"} /\ closed' \in {closed, TRUE} /\ jstop' \in {jstop, TRUE}
        /\ pc' \in {"shutdown", "stopJanitor", "closeChan", "flush", "closeLog", "wait", "closed"}
    BY <1>16 DEF Begin, Shutdown, StopJanitor, CloseChan, Flushed, CloseLog, LogClosed, GoTo
  <2>4. TypeOK'
    <3>1. fpc' \in [Flushers -> {"idle", "create", "write", "rename"}]
      BY <2>3 DEF TypeOK
    <3>2. /\ pc' \in {"down", "replay", "up", "shutdown", "stopJanitor", "closeChan", "flush",
                      "closeLog", "wait", "closed"}
          /\ jpc' \in {"off", "running", "stopping", "done"}
          /\ closed' \in BOOLEAN /\ jstop' \in BOOLEAN
      BY <2>3 DEF TypeOK
    <3> QED BY <2>1, <2>2, <3>1, <3>2, SMTT(30) DEF TypeOK
  <2>5. Control'
    <3>1. CASE Begin
      BY <2>2, <3>1 DEF Begin, GoTo, Control
    <3>2. CASE Shutdown \/ StopJanitor
      BY <2>2, <3>2 DEF Shutdown, StopJanitor, GoTo, Control
    <3>3. CASE CloseChan
      BY <2>2, <3>3 DEF CloseChan, GoTo, Control
    <3>4. CASE Flushed
      BY <2>2, <3>4 DEF Flushed, GoTo, Control
    <3>5. CASE CloseLog
      BY <2>2, <3>5 DEF CloseLog, GoTo, Control
    <3>6. CASE LogClosed
      BY <2>2, <3>6 DEF LogClosed, GoTo, Control
    <3> QED BY <1>16, <3>1, <3>2, <3>3, <3>4, <3>5, <3>6
  <2> QED BY <2>4, <2>5
<1>17. ASSUME Exit \/ Fatal \/ Panic \/ Crash PROVE TypeOK' /\ Control'
  <2>1. PICK n \in safe..Len(log) : End(n)
    BY <1>17 DEF Exit, Fatal, Panic, Crash
  <2>2. gob' \in {gob, None, Torn} /\ owed' \in [Keys -> Nat \cup {None, Any}]
    BY <1>17 DEF Exit, Fatal, Panic, Crash, TypeOK
  <2>3. bounds' \in [ops : Nat, starts : Nat, crashes : Nat]
    <3>1. bounds \in [ops : Nat, starts : Nat, crashes : Nat]
      BY DEF TypeOK
    <3>2. CASE Exit
      BY <3>1, <3>2 DEF Exit
    <3>3. CASE Fatal
      BY <3>1, <3>3 DEF Fatal
    <3>4. CASE Panic
      BY <3>1, <3>4 DEF Panic
    <3>5. CASE Crash
      BY <3>1, <3>5, SMTT(30) DEF Crash
    <3> QED BY <1>17, <3>2, <3>3, <3>4, <3>5
  <2> QED BY <2>1, <2>2, <2>3, EndTyped
<1>18. ASSUME Tick PROVE TypeOK' /\ Control'
  <2>1. UNCHANGED <<kind, log, safe, gob, tmp, jpc, ram, cold, flushCh, closed, hand, fh, fpc, jan,
                    jstop, pc, boot, pos, call, owed, bounds>>
        /\ now' = now + Step
    BY <1>18 DEF Tick, disk, stores, chan, flushes, janitor, opener
  <2>4. now' \in Nat
    <3>1. now \in Nat
      BY DEF TypeOK
    <3> QED BY <2>1, <3>1
  <2>2. TypeOK'
    BY <2>1, <2>4, SMTT(30) DEF TypeOK
  <2>3. Control'
    BY <2>1 DEF Control, Nothing
  <2> QED BY <2>2, <2>3
<1> QED
  BY <1>1, <1>2, <1>3, <1>4, <1>5, <1>6, <1>7, <1>8, <1>9, <1>10, <1>11, <1>12, <1>13,
     <1>14, <1>15, <1>16, <1>17, <1>18, Cases

-------------------------------------------------------------------------------
(* The journal *)

\* What is synced is there for good.
LEMMA LogKept ==
  ASSUME TypeOK, Next
  PROVE  safe <= safe' /\ \A i \in 1..safe : log'[i] = log[i]
<1> DEFINE P == safe <= safe' /\ \A i \in 1..safe : log'[i] = log[i]
<1>1. log \in Seq(Record) /\ safe \in Nat /\ safe <= Len(log) /\ Len(log) \in Nat
  BY DEF TypeOK
<1>2. ASSUME UNCHANGED <<log, safe>> PROVE P
  BY <1>1, <1>2
<1>3. ASSUME NEW t \in Threads, Log(t) PROVE P
  <2> DEFINE r == [key |-> call[t].key, val |-> call[t].val, exp |-> Until(call[t].ttl)]
  <2>1. log' \in {log, Append(log, r)} /\ safe' = safe
    BY <1>3 DEF Log
  <2> HIDE DEF r
  <2>2. \A i \in 1..safe : Append(log, r)[i] = log[i]
    BY <1>1
  <2> QED BY <1>1, <2>1, <2>2
<1>4. ASSUME Sync \/ Finish PROVE P
  BY <1>1, <1>4 DEF Sync, Finish
<1>5. ASSUME NEW n \in safe..Len(log), End(n) PROVE P
  BY <1>1, <1>5 DEF End
<1>6. ASSUME Exit \/ Fatal \/ Panic \/ Crash PROVE P
  BY <1>5, <1>6 DEF Exit, Fatal, Panic, Crash
<1>7. \/ UNCHANGED <<log, safe>> \/ Sync \/ Finish \/ (\E t \in Threads : Log(t))
      \/ Exit \/ Fatal \/ Panic \/ Crash
  BY DEF Next, Calls, Call, InRam, ColdDelete, JanitorTick, ExpireByTTL, Janitor, JanitorStops,
         TaskEnds, Flush, FlushCreate, FlushWrite, FlushRename, Evict, Take, Put, Start, Restore,
         Opened, Begin, Closer, Shutdown, StopJanitor, CloseChan, Flushed, CloseLog, LogClosed,
         GoTo, Tick, disk
<1> QED BY <1>2, <1>3, <1>4, <1>6, <1>7

LEMMA SafeStays == ASSUME TypeOK, Control, Next, NEW k, Safe(k) PROVE Safe(k)'
<1>1. PICK i \in 1..safe : log[i].key = k
  BY DEF Safe
<1>2. safe \in Nat /\ safe' \in Nat /\ safe <= safe' /\ log'[i] = log[i]
  <2>1. TypeOK'
    BY StepTyped
  <2>2. safe \in 0..Len(log) /\ safe' \in 0..Len(log')
    BY <2>1 DEF TypeOK
  <2>3. Len(log) \in Nat /\ Len(log') \in Nat
    <3>1. log \in Seq(Record) /\ log' \in Seq(Record)
      BY <2>1 DEF TypeOK
    <3> QED BY <3>1
  <2> QED BY <1>1, <2>2, <2>3, LogKept
<1> QED BY <1>1, <1>2 DEF Safe

-------------------------------------------------------------------------------
(* What is in RAM, and what has left it *)

LEMMA StepRamRecorded == ASSUME TypeOK, Control, RamRecorded, Next PROVE RamRecorded'
<1>1. TypeOK' /\ Control' /\ log \in Seq(Record)
  BY StepTyped DEF TypeOK
<1>2. \A t \in Threads : t \in Clients \/ t = Opener
  BY DEF Threads
\* nothing new in RAM, no record lost, no call that ends
<1>3. ASSUME jpc' = "running" => jpc = "running", UNCHANGED log,
             \A k \in Keys : ram'[k] # None => ram[k] # None,
             \A t \in Threads : call[t].at # "idle" => call'[t].at # "idle" /\ call'[t].key = call[t].key
      PROVE  RamRecorded'
  <2> SUFFICES ASSUME jpc' = "running", NEW k \in Keys, ram'[k] # None
               PROVE  Records(log', k) # {} \/ Busy(k)'
    BY DEF RamRecorded
  <2>1. Records(log, k) # {} \/ Busy(k)
    BY <1>3 DEF RamRecorded
  <2> QED BY <1>3, <2>1 DEF Busy
<1>4. ASSUME UNCHANGED call
      PROVE  \A t \in Threads : call[t].at # "idle" => call'[t].at # "idle" /\ call'[t].key = call[t].key
  BY <1>4
<1>5. ASSUME NEW c \in Clients, Call(c) PROVE RamRecorded'
  <2>1. \A t \in Threads : call[t].at # "idle" => call'[t] = call[t]
    BY <1>5 DEF Call, Enter, TypeOK
  <2>2. UNCHANGED <<jpc, log, ram>>
    BY <1>5 DEF Call, disk, stores
  <2> QED BY <1>3, <2>1, <2>2
<1>6. ASSUME NEW t \in Threads, InRam(t) PROVE RamRecorded'
  <2>1. call[t].key \in Keys /\ call[t].at # "idle" /\ UNCHANGED <<jpc, log>>
        /\ \A k \in Keys \ {call[t].key} : ram'[k] = ram[k]
    BY <1>6 DEF InRam, TypeOK, Index, disk
  <2>2. \A u \in Threads : call[u].at # "idle" => call'[u].at # "idle" /\ call'[u].key = call[u].key
    BY <1>6, CallMoves DEF InRam
  <2> SUFFICES ASSUME jpc' = "running", NEW k \in Keys, ram'[k] # None
               PROVE  Records(log', k) # {} \/ Busy(k)'
    BY DEF RamRecorded
  <2>4. CASE k = call[t].key
    BY <2>1, <2>2, <2>4 DEF Busy
  <2>5. CASE k # call[t].key
    <3>1. Records(log, k) # {} \/ Busy(k)
      BY <2>1, <2>5 DEF RamRecorded
    <3> QED BY <2>1, <2>2, <3>1 DEF Busy
  <2> QED BY <2>4, <2>5
<1>7. ASSUME NEW t \in Threads, ColdDelete(t) PROVE RamRecorded'
  <2>1. call[t].at # "idle" /\ UNCHANGED <<jpc, log, ram>>
    BY <1>7 DEF ColdDelete, disk
  <2>2. \A u \in Threads : call[u].at # "idle" => call'[u].at # "idle" /\ call'[u].key = call[u].key
    BY <1>7, <2>1, CallMoves DEF ColdDelete
  <2> QED BY <1>3, <2>1, <2>2
<1>8. ASSUME NEW t \in Threads, Log(t) PROVE RamRecorded'
  <2> DEFINE r == [key |-> call[t].key, val |-> call[t].val, exp |-> Until(call[t].ttl)]
  <2>1. UNCHANGED <<jpc, ram>> /\ (jpc = "running" => log' = Append(log, r))
    BY <1>8 DEF Log, stores
  <2>2. \A u \in Threads \ {t} : call'[u] = call[u]
    BY <1>8 DEF Log, TypeOK
  <2> SUFFICES ASSUME jpc' = "running", NEW k \in Keys, ram'[k] # None
               PROVE  Records(log', k) # {} \/ Busy(k)'
    BY DEF RamRecorded
  <2>3. Len(log') = Len(log) + 1 /\ log'[Len(log) + 1] = r /\ \A i \in 1..Len(log) : log'[i] = log[i]
    BY <1>1, <2>1
  <2>4. CASE k = call[t].key
    <3>1. Len(log) + 1 \in DOMAIN log' /\ r.key = k
      BY <1>1, <2>1, <2>4
    <3> QED BY <2>3, <3>1 DEF Records
  <2>5. CASE k # call[t].key
    <3>1. Records(log, k) # {} \/ Busy(k)
      BY <2>1, <2>5 DEF RamRecorded
    <3>2. CASE Busy(k)
      BY <2>2, <2>5, <3>2 DEF Busy
    <3>3. CASE Records(log, k) # {}
      <4>1. PICK i \in DOMAIN log : log[i].key = k
        BY <3>3 DEF Records
      <4>2. i \in DOMAIN log' /\ log'[i].key = k
        BY <1>1, <2>3, <4>1
      <4> QED BY <4>2 DEF Records
    <3> QED BY <3>1, <3>2, <3>3
  <2> QED BY <2>4, <2>5
<1>9. ASSUME Sync \/ Finish PROVE RamRecorded'
  <2>1. UNCHANGED <<log, ram, call>> /\ (jpc' = "running" => jpc = "running")
    BY <1>9 DEF Sync, Finish, stores
  <2> QED BY <1>3, <1>4, <2>1
<1>10. ASSUME NEW f \in Flushers, FlushCreate(f) \/ FlushWrite(f) \/ FlushRename(f) PROVE RamRecorded'
  <2>1. UNCHANGED <<jpc, log, ram, call>>
    BY <1>10 DEF FlushCreate, FlushWrite, FlushRename, stores
  <2> QED BY <1>3, <1>4, <2>1
<1>11. ASSUME (\E task \in {"evict", "flush"} : JanitorTick(task)) \/ JanitorStops \/ TaskEnds
              \/ Take \/ Put \/ Opened \/ Tick
       PROVE  RamRecorded'
  <2>1. UNCHANGED <<jpc, log, ram, call>>
    BY <1>11 DEF JanitorTick, JanitorStops, TaskEnds, Take, Put, Opened, Tick, disk, stores
  <2> QED BY <1>3, <1>4, <2>1
<1>12. ASSUME ExpireByTTL PROVE RamRecorded'
  <2>1. UNCHANGED <<jpc, log, call>> /\ \A k \in Keys : ram'[k] # None => ram[k] # None
    BY <1>12 DEF ExpireByTTL, disk
  <2> QED BY <1>3, <1>4, <2>1
<1>13. ASSUME NEW k \in Keys, Evict(k) PROVE RamRecorded'
  <2>1. UNCHANGED <<jpc, log, call>> /\ \A j \in Keys : ram'[j] # None => ram[j] # None
    BY <1>13 DEF Evict, TypeOK, Index, disk
  <2> QED BY <1>3, <1>4, <2>1
<1>14. ASSUME Start PROVE RamRecorded'
  BY <1>14 DEF Start, Control, RamRecorded, Nothing
<1>15. ASSUME Restore PROVE RamRecorded'
  <2>1. UNCHANGED <<jpc, log, ram>>
    BY <1>15 DEF Restore, disk, stores
  <2>2. \A t \in Threads : call[t].at # "idle" => call'[t] = call[t]
    BY <1>15 DEF Restore, Restoring, Enter, TypeOK
  <2> QED BY <1>3, <2>1, <2>2
<1>16. ASSUME Begin \/ Shutdown \/ StopJanitor \/ CloseChan \/ Flushed \/ CloseLog \/ LogClosed
       PROVE  RamRecorded'
  <2>1. UNCHANGED <<log, ram, call>> /\ (jpc' = "running" => jpc = "running")
    BY <1>16 DEF Begin, Shutdown, StopJanitor, CloseChan, Flushed, CloseLog, LogClosed, GoTo, disk,
                 stores
  <2> QED BY <1>3, <1>4, <2>1
<1>17. ASSUME Exit \/ Fatal \/ Panic \/ Crash PROVE RamRecorded'
  BY <1>17 DEF Exit, Fatal, Panic, Crash, End, RamRecorded
<1> QED
  BY <1>5, <1>6, <1>7, <1>8, <1>9, <1>10, <1>11, <1>12, <1>13, <1>14, <1>15, <1>16, <1>17, Cases

LEMMA StepColdRecorded ==
  ASSUME TypeOK, Control, RamRecorded, ColdRecorded, Next
  PROVE  ColdRecorded'
<1>1. TypeOK' /\ Control'
  BY StepTyped
<1>2. \A k : Safe(k) => Safe(k)'
  BY SafeStays
\* nothing new in any of the places
<1>3. ASSUME \A k \in Keys : cold'[k] # None => cold[k] # None, UNCHANGED <<flushCh, hand, gob, tmp>>
      PROVE  ColdRecorded'
  BY <1>2, <1>3 DEF ColdRecorded
<1>4. ASSUME UNCHANGED <<cold, flushCh, hand, gob, tmp>> PROVE ColdRecorded'
  BY <1>3, <1>4
<1>5. ASSUME NEW c \in Clients, Call(c) PROVE ColdRecorded'
  BY <1>4, <1>5 DEF Call, disk, stores, chan
<1>6. ASSUME NEW t \in Threads, InRam(t) \/ ColdDelete(t) \/ Log(t) PROVE ColdRecorded'
  <2>1. CASE InRam(t) \/ Log(t)
    BY <1>4, <2>1 DEF InRam, Log, disk, stores, chan
  <2>2. CASE ColdDelete(t)
    <3>1. \A k \in Keys : cold'[k] # None => cold[k] # None
      BY <2>2 DEF ColdDelete, TypeOK, Index
    <3>2. UNCHANGED <<flushCh, hand, gob, tmp>>
      BY <2>2 DEF ColdDelete, disk, chan
    <3> QED BY <1>3, <3>1, <3>2
  <2> QED BY <1>6, <2>1, <2>2
<1>7. ASSUME \/ Sync \/ Finish \/ \E task \in {"evict", "flush"} : JanitorTick(task)
             \/ ExpireByTTL \/ JanitorStops \/ TaskEnds \/ Restore \/ Opened \/ Tick
      PROVE  ColdRecorded'
  BY <1>4, <1>7 DEF Sync, Finish, JanitorTick, ExpireByTTL, JanitorStops, TaskEnds, Restore, Opened,
                    Tick, disk, stores, chan
<1>8. ASSUME Begin \/ Shutdown \/ StopJanitor \/ CloseChan \/ Flushed \/ CloseLog \/ LogClosed
      PROVE  ColdRecorded'
  BY <1>4, <1>8 DEF Begin, Shutdown, StopJanitor, CloseChan, Flushed, CloseLog, LogClosed, GoTo, disk,
                    stores
<1>9. ASSUME NEW f \in Flushers, FlushCreate(f) \/ FlushWrite(f) \/ FlushRename(f)
      PROVE  ColdRecorded'
  <2>1. UNCHANGED <<cold, flushCh, hand>> /\ gob' \in {gob, tmp, cold} /\ tmp' \in {tmp, Torn, cold, None}
    BY <1>9 DEF FlushCreate, FlushWrite, FlushRename, stores, chan
  <2>2. gob' \notin {None, Torn} => \A k \in Keys : gob'[k] # None => Safe(k)
    BY <2>1 DEF ColdRecorded
  <2>3. tmp' \notin {None, Torn} => \A k \in Keys : tmp'[k] # None => Safe(k)
    BY <2>1 DEF ColdRecorded
  <2> QED BY <1>2, <2>1, <2>2, <2>3 DEF ColdRecorded
<1>10. ASSUME NEW k \in Keys, Evict(k) PROVE ColdRecorded'
  <2> DEFINE e == [key |-> k, val |-> ram[k].val, exp |-> ram[k].exp]
  <2>1. UNCHANGED <<cold, hand, gob, tmp, safe, log>> /\ flushCh' = Append(flushCh, e) /\ Aged(k)
        /\ ~closed
    BY <1>10 DEF Evict, disk
  <2>2. jpc = "running"
    BY <2>1 DEF Aged, Control, Nothing, TypeOK
  <2>3. Safe(k)
    <3>1. PICK i \in DOMAIN log : log[i].key = k
      BY <2>1, <2>2 DEF RamRecorded, Aged, Records, Busy
    <3>2. i <= safe /\ i \in 1..Len(log)
      BY <2>1, <3>1 DEF Aged, TypeOK
    <3> QED BY <3>1, <3>2 DEF Safe, TypeOK
  <2>4. \A i \in DOMAIN flushCh' : Safe(flushCh'[i].key)
    <3> DEFINE E == [key : Keys, val : Nat, exp : Nat]
    <3>1. flushCh \in Seq(E) /\ e.key = k
      BY DEF TypeOK
    <3> HIDE DEF E, e
    <3>2. \A i \in DOMAIN flushCh' : \/ i \in DOMAIN flushCh /\ flushCh'[i] = flushCh[i]
                                    \/ flushCh'[i] = e
      BY <2>1, <3>1
    <3> QED BY <2>3, <3>1, <3>2 DEF ColdRecorded
  <2> QED BY <1>2, <2>1, <2>4 DEF ColdRecorded
<1>11. ASSUME Take PROVE ColdRecorded'
  <2>1. UNCHANGED <<cold, gob, tmp>> /\ flushCh # <<>> /\ hand' = Head(flushCh) /\ flushCh' = Tail(flushCh)
    BY <1>11 DEF Take, disk, stores
  <2>2. /\ 1 \in DOMAIN flushCh /\ hand' = flushCh[1]
        /\ \A i \in DOMAIN flushCh' : i + 1 \in DOMAIN flushCh /\ flushCh'[i] = flushCh[i + 1]
    <3> DEFINE E == [key : Keys, val : Nat, exp : Nat]
    <3>1. flushCh \in Seq(E)
      BY DEF TypeOK
    <3> HIDE DEF E
    <3> QED BY <2>1, <3>1
  <2> QED BY <1>2, <2>1, <2>2 DEF ColdRecorded
<1>12. ASSUME Put PROVE ColdRecorded'
  <2>1. UNCHANGED <<flushCh, gob, tmp>> /\ hand # None /\ hand' = None
        /\ cold' = [cold EXCEPT ![hand.key] = [val |-> hand.val, exp |-> hand.exp]]
    BY <1>12 DEF Put, disk
  <2>2. \A k \in Keys : cold'[k] # None => cold[k] # None \/ k = hand.key
    BY <2>1 DEF TypeOK, Index
  <2>3. \A k \in Keys : cold'[k] # None => Safe(k)
    BY <2>1, <2>2 DEF ColdRecorded
  <2> QED BY <1>2, <2>1, <2>3 DEF ColdRecorded
<1>13. ASSUME Start PROVE ColdRecorded'
  <2>1. UNCHANGED <<flushCh, hand, gob, tmp>> /\ cold' = Loaded
    BY <1>13 DEF Start, disk, chan
  <2>2. \A k \in Keys : cold'[k] # None => Safe(k)
    BY <2>1 DEF Loaded, Nothing, ColdRecorded
  <2> QED BY <1>2, <2>1, <2>2 DEF ColdRecorded
<1>14. ASSUME Exit \/ Fatal \/ Panic \/ Crash PROVE ColdRecorded'
  <2>1. PICK n \in safe..Len(log) : End(n)
    BY <1>14 DEF Exit, Fatal, Panic, Crash
  <2>2. gob' \in {gob, None, Torn}
    BY <1>14 DEF Exit, Fatal, Panic, Crash
  <2>3. gob' \notin {None, Torn} => \A k \in Keys : gob'[k] # None => Safe(k)
    BY <2>2 DEF ColdRecorded
  <2>4. cold' = Nothing /\ flushCh' = <<>> /\ hand' = None /\ tmp' = None
    BY <2>1 DEF End
  <2> QED BY <1>2, <2>3, <2>4 DEF ColdRecorded, Nothing
<1> QED
  BY <1>5, <1>6, <1>7, <1>8, <1>9, <1>10, <1>11, <1>12, <1>13, <1>14, Cases

-------------------------------------------------------------------------------
(* The replay *)

\* A record that has not expired gives its item the expiry time it had.
LEMMA UntilRestored ==
  ASSUME now \in Nat, NEW x \in Nat
  PROVE  x = 0 \/ x > now => Until(IF x > now THEN x - now ELSE 0) = x
<1> SUFFICES ASSUME x = 0 \/ x > now
             PROVE  Until(IF x > now THEN x - now ELSE 0) = x
  OBVIOUS
<1>1. CASE x > now
  BY <1>1 DEF Until
<1>2. CASE x = 0
  <2>1. (IF x > now THEN x - now ELSE 0) = 0
    BY <1>2
  <2> QED BY <1>2, <2>1 DEF Until
<1> QED BY <1>1, <1>2

LEMMA StepReplay ==
  ASSUME TypeOK, Control, ColdRecorded, Replayed, Replaying, Next
  PROVE  Replayed' /\ Replaying'
<1> USE LifecycleAssumptions
<1>1. TypeOK' /\ Control'
  BY StepTyped
<1>2. /\ boot \in Seq(Record) /\ Len(boot) \in Nat /\ pos \in 0..Len(boot) /\ now \in Nat
      /\ now' \in Nat
      /\ \A i \in 1..Len(boot) : boot[i] \in Record /\ boot[i].exp \in Nat /\ boot[i].key \in Keys
  <2>1. boot \in Seq(Record) /\ pos \in 0..Len(boot) /\ now \in Nat
    BY DEF TypeOK
  <2>2. now' \in Nat
    BY <1>1 DEF TypeOK
  <2>3. Len(boot) \in Nat /\ \A i \in 1..Len(boot) : boot[i] \in Record
    BY <2>1
  <2>4. \A i \in 1..Len(boot) : boot[i].exp \in Nat /\ boot[i].key \in Keys
    BY <2>3 DEF Record
  <2> QED BY <2>1, <2>2, <2>3, <2>4
<1>3. \A t \in Threads : t \in Clients \/ t = Opener
  BY DEF Threads
\* nobody looks at the keys, and some of them may have expired
<1>4. ASSUME UNCHANGED <<boot, pos, call, cold>>, pc' = "replay" => pc = "replay", now <= now',
             \A k \in Keys : \/ ram'[k] = ram[k]
                             \/ ram'[k] = None /\ ram[k].exp > 0 /\ ram[k].exp <= now
      PROVE  Replayed' /\ Replaying'
  <2>1. \A i \in 1..Len(boot) : Unexpired(boot[i])' => Unexpired(boot[i])
    <3> SUFFICES ASSUME NEW i \in 1..Len(boot), Unexpired(boot[i])' PROVE Unexpired(boot[i])
      OBVIOUS
    <3>1. boot[i].exp \in Nat /\ boot' = boot /\ (boot[i].exp = 0 \/ boot[i].exp > now')
      BY <1>2, <1>4 DEF Unexpired
    <3> QED BY <1>2, <1>4, <3>1 DEF Unexpired
  <2>2. \A i \in 1..Len(boot), k \in Keys :
          Unexpired(boot[i]) /\ ram[k] = ItemOf(boot[i]) => ram'[k] = ItemOf(boot[i])
    <3> SUFFICES ASSUME NEW i \in 1..Len(boot), NEW k \in Keys, Unexpired(boot[i]),
                        ram[k] = ItemOf(boot[i]), ram'[k] # ram[k]
                 PROVE  FALSE
      BY <1>4
    <3>1. boot[i].exp \in Nat /\ ram'[k] = None /\ ram[k].exp > 0 /\ ram[k].exp <= now /\ ram[k] # None
      BY <1>2, <1>4
    <3>2. ram[k].exp = boot[i].exp
      BY <3>1 DEF ItemOf
    <3> QED BY <1>2, <3>1, <3>2 DEF Unexpired
  <2>3. \A k : Busy(k)' = Busy(k)
    BY <1>4 DEF Busy
  <2>4. Replayed'
    <3> SUFFICES ASSUME pc' = "replay", NEW k \in Keys PROVE ReplayedKey(k)'
      BY DEF Replayed
    <3>4. ReplayedKey(k)
      BY <1>4 DEF Replayed
    <3>1. cold[k] # None => \E i \in DOMAIN boot : boot[i].key = k
      BY <3>4 DEF ReplayedKey
    <3>2. (\A i \in 1..pos : boot[i].key # k) /\ ~Busy(k) => ram'[k] = None
      BY <1>4, <3>4 DEF ReplayedKey
    <3>3. ASSUME ~Busy(k), NEW i \in 1..pos, LastUpTo(i, pos, k), Unexpired(boot[i])'
          PROVE  ram'[k] = ItemOf(boot[i]) /\ cold[k] = None
      <4>1. i \in 1..Len(boot)
        BY <1>2
      <4> QED BY <2>1, <2>2, <3>3, <3>4, <4>1 DEF ReplayedKey
    <3>5. UNCHANGED <<boot, pos, call, cold>> /\ Busy(k)' = Busy(k)
      BY <1>4, <2>3
    <3>6. ASSUME NEW i \in 1..pos
          PROVE  LastUpTo(i, pos, k)' = LastUpTo(i, pos, k) /\ ItemOf(boot[i])' = ItemOf(boot[i])
      BY <3>5 DEF LastUpTo, ItemOf
    <3> QED BY <3>1, <3>2, <3>3, <3>5, <3>6 DEF ReplayedKey
  <2>5. Replaying'
    <3> SUFFICES ASSUME call[Opener].at # "idle"
                 PROVE  Replaying'
      BY <1>4 DEF Replaying
    <3> DEFINE r == boot[pos + 1]
    <3>1. pos + 1 \in 1..Len(boot) /\ r.key \in Keys
      BY <1>2 DEF Control
    <3>2. Unexpired(r)' => Unexpired(r)
      BY <1>4, <2>1, <3>1
    <3>3. Unexpired(r) /\ ram[r.key] = ItemOf(r) => ram'[r.key] = ItemOf(r)
      BY <2>2, <3>1
    <3>4. /\ call[Opener].key = r.key /\ call[Opener].val = r.val
          /\ Unexpired(r) => /\ call[Opener].exp = r.exp
                             /\ call[Opener].at \in {"cold", "log"} => ram[r.key] = ItemOf(r)
                             /\ call[Opener].at = "log" => cold[r.key] = None
      BY DEF Replaying
    <3>5. UNCHANGED <<boot, pos, call, cold>>
      BY <1>4
    <3>6. ItemOf(r)' = ItemOf(r)
      BY <3>5 DEF ItemOf
    <3> QED BY <3>2, <3>3, <3>4, <3>5, <3>6 DEF Replaying
  <2> QED BY <2>4, <2>5
\* the opener is not at it
<1>5. ASSUME pc' # "replay" PROVE Replayed' /\ Replaying'
  BY <1>1, <1>5 DEF Control, Replayed, Replaying
<1>6. ASSUME UNCHANGED <<boot, pos, call, cold, ram>>, pc' = "replay" => pc = "replay", now <= now'
      PROVE  Replayed' /\ Replaying'
  BY <1>4, <1>6
<1>7. now <= now
  BY <1>2
<1>8. ASSUME NEW c \in Clients, Call(c) PROVE Replayed' /\ Replaying'
  <2>1. pc' # "replay"
    BY <1>8 DEF Call, Closing, opener
  <2> QED BY <1>5, <2>1
\* in the replay a call is the opener's
<1>9. ASSUME NEW t \in Threads, call[t].at # "idle", pc = "replay"
      PROVE  /\ t = Opener /\ pos < Len(boot) /\ pos + 1 \in 1..Len(boot)
             /\ \A k : Busy(k) <=> k = call[Opener].key
  <2>1. \A u \in Threads : call[u].at # "idle" => u = Opener
    BY <1>3, <1>9 DEF Control
  <2>2. t = Opener
    BY <1>9, <2>1
  <2> QED BY <1>2, <1>9, <2>1, <2>2 DEF Control, Busy
<1>10. ASSUME NEW t \in Threads, InRam(t) \/ ColdDelete(t) PROVE Replayed' /\ Replaying'
  <2> SUFFICES ASSUME pc' = "replay" PROVE Replayed' /\ Replaying'
    BY <1>5
  <2> DEFINE key == call[Opener].key
             r == boot[pos + 1]
  <2>1. UNCHANGED <<pc, boot, pos, now>> /\ call[t].at # "idle"
    BY <1>10 DEF InRam, ColdDelete, opener
  <2>2. t = Opener /\ pos + 1 \in 1..Len(boot) /\ \A k : Busy(k) <=> k = key
    BY <1>9, <2>1
  <2>3. key = r.key /\ key \in Keys /\ call[Opener].val = r.val
    BY <1>2, <2>1, <2>2 DEF Replaying
  <2>4. \E l \in {"cold", "log"} : /\ l = "cold" <=> InRam(t)
                                 /\ call'[t] = [call[t] EXCEPT !.at = l]
                                 /\ \A u \in Threads \ {t} : call'[u] = call[u]
    <3>1. CASE InRam(t)
      BY <2>1, <3>1, CallMoves DEF InRam
    <3>2. CASE ColdDelete(t)
      <4>1. ~InRam(t)
        BY <3>2 DEF InRam, ColdDelete
      <4> QED BY <2>1, <3>2, <4>1, CallMoves DEF ColdDelete
    <3> QED BY <1>10, <3>1, <3>2
  <2>5. /\ call'[Opener].at # "idle" /\ call'[Opener].key = key
        /\ call'[Opener].val = call[Opener].val /\ call'[Opener].exp = call[Opener].exp
        /\ call'[Opener].at = "cold" <=> InRam(t)
    <3>1. call[t] \in CallState
      BY DEF TypeOK
    <3> QED BY <2>2, <2>4, <3>1 DEF CallState
  <2>6. \A k : Busy(k)' <=> k = key
    <3>1. \A u \in Threads \ {Opener} : call'[u] = call[u] /\ call[u].at = "idle"
      BY <1>3, <2>1, <2>2, <2>4 DEF Control
    <3> QED BY <2>2, <2>5, <3>1 DEF Busy
  <2>7. \A k \in Keys \ {key} : ram'[k] = ram[k] /\ cold'[k] = cold[k]
    BY <1>10, <2>2 DEF InRam, ColdDelete, TypeOK, Index
  <2>8. \A k \in Keys : cold'[k] # None => cold[k] # None
    BY <1>10 DEF InRam, ColdDelete, TypeOK, Index
  <2>9. Replayed'
    <3> SUFFICES ASSUME NEW k \in Keys PROVE ReplayedKey(k)'
      BY DEF Replayed
    <3>1. ReplayedKey(k)
      BY <2>1 DEF Replayed
    <3>2. ASSUME NEW i \in 1..pos
          PROVE  LastUpTo(i, pos, k)' = LastUpTo(i, pos, k) /\ ItemOf(boot[i])' = ItemOf(boot[i])
                 /\ Unexpired(boot[i])' = Unexpired(boot[i])
      BY <2>1 DEF LastUpTo, ItemOf, Unexpired
    <3>3. CASE k = key
      BY <2>1, <2>6, <2>8, <3>1, <3>3 DEF ReplayedKey
    <3>4. CASE k # key
      BY <2>1, <2>2, <2>6, <2>7, <3>1, <3>2, <3>4 DEF ReplayedKey
    <3> QED BY <3>3, <3>4
  <2>10. Replaying'
    <3>1. ItemOf(r)' = ItemOf(r) /\ Unexpired(r)' = Unexpired(r) /\ r' = r
      BY <2>1 DEF ItemOf, Unexpired
    <3>2. Unexpired(r) => call[Opener].exp = r.exp
      BY <2>1, <2>2 DEF Replaying
    <3>3. CASE InRam(t)
      <4>1. call'[Opener].at = "cold" /\ ram' = [ram EXCEPT ![key] =
                 IF call[Opener].val = None THEN None
                 ELSE [val |-> call[Opener].val, exp |-> call[Opener].exp]]
        BY <2>2, <2>5, <3>3 DEF InRam
      <4>2. Unexpired(r) => ram'[key] = ItemOf(r)
        <5>1. ram'[key] = IF r.val = None THEN None ELSE [val |-> r.val, exp |-> call[Opener].exp]
          BY <2>3, <4>1 DEF TypeOK, Index
        <5> QED BY <3>2, <5>1 DEF ItemOf
      <4> QED BY <2>2, <2>3, <2>5, <3>1, <3>2, <4>1, <4>2 DEF Replaying
    <3>4. CASE ColdDelete(t)
      <4>1. call[Opener].at = "cold" /\ ram' = ram /\ cold'[key] = None
        BY <2>2, <2>3, <3>4 DEF ColdDelete, TypeOK, Index
      <4>2. Unexpired(r) => ram[key] = ItemOf(r)
        BY <2>3, <4>1 DEF Replaying
      <4> QED BY <2>2, <2>3, <2>5, <3>1, <3>2, <4>1, <4>2 DEF Replaying
    <3> QED BY <1>10, <3>3, <3>4
  <2> QED BY <2>9, <2>10
\* the replay goes on to the next record, after what there is to do for this one
<1>11. ASSUME pc = "replay", pos < Len(boot), UNCHANGED <<boot, ram, cold, now>>, pos' = pos + 1,
              \A k : ~Busy(k)', NEW key, key = boot[pos + 1].key,
              \A k : Busy(k) => k = key,
              Unexpired(boot[pos + 1]) => ram[key] = ItemOf(boot[pos + 1]) /\ cold[key] = None
       PROVE  Replayed'
  <2> SUFFICES ASSUME NEW k \in Keys PROVE ReplayedKey(k)'
    BY DEF Replayed
  <2>1. ReplayedKey(k)
    BY <1>11 DEF Replayed
  <2>2. pos + 1 \in 1..Len(boot) /\ pos \in Nat /\ 1..pos' = 1..pos \cup {pos + 1}
    BY <1>2, <1>11
  <2>3. cold'[k] # None => \E i \in DOMAIN boot' : boot'[i].key = k
    BY <1>11, <2>1 DEF ReplayedKey
  <2>4. (\A i \in 1..pos' : boot'[i].key # k) => ram'[k] = None
    <3> SUFFICES ASSUME \A i \in 1..pos' : boot[i].key # k PROVE ram[k] = None
      BY <1>11
    <3>1. ~Busy(k) /\ \A i \in 1..pos : boot[i].key # k
      BY <1>11, <2>2
    <3> QED BY <2>1, <3>1 DEF ReplayedKey
  <2>5. ASSUME NEW i \in 1..pos', LastUpTo(i, pos, k)', Unexpired(boot[i])'
        PROVE  ram'[k] = ItemOf(boot[i])' /\ cold'[k] = None
    <3>1. /\ boot[i].key = k /\ \A j \in i+1..pos+1 : boot[j].key # k
          /\ Unexpired(boot[i]) /\ ItemOf(boot[i])' = ItemOf(boot[i])
      BY <1>11, <2>5 DEF LastUpTo, Unexpired, ItemOf
    <3>2. CASE i = pos + 1
      BY <1>11, <3>1, <3>2
    <3>3. CASE i # pos + 1
      <4>1. i \in 1..pos /\ pos + 1 \in i+1..pos+1
        BY <2>2, <2>5, <3>3
      <4>2. k # key
        BY <1>11, <3>1, <4>1
      <4>3. LastUpTo(i, pos, k)
        BY <2>2, <3>1, <4>1 DEF LastUpTo
      <4>4. ram[k] = ItemOf(boot[i]) /\ cold[k] = None
        BY <1>11, <2>1, <3>1, <4>1, <4>2, <4>3 DEF ReplayedKey
      <4> QED BY <1>11, <3>1, <4>4
    <3> QED BY <3>2, <3>3
  <2> QED BY <2>3, <2>4, <2>5 DEF ReplayedKey
<1>12. ASSUME NEW t \in Threads, Log(t) PROVE Replayed' /\ Replaying'
  <2> SUFFICES ASSUME pc' = "replay" PROVE Replayed' /\ Replaying'
    BY <1>5
  <2> DEFINE r == boot[pos + 1]
  <2>1. UNCHANGED <<pc, boot, now, ram, cold>> /\ call[t].at = "log"
    BY <1>12 DEF Log, stores
  <2>2. t = Opener /\ pos < Len(boot) /\ \A k : Busy(k) <=> k = call[Opener].key
    BY <1>9, <2>1
  <2>3. pos' = pos + 1 /\ call' = [call EXCEPT ![Opener] = Idle]
    BY <1>12, <2>2 DEF Log
  <2>4. \A u \in Threads : call'[u].at = "idle"
    <3>1. \A u \in Threads \ {Opener} : call[u].at = "idle"
      BY <1>3, <2>1 DEF Control
    <3>2. call \in [Threads -> CallState]
      BY DEF TypeOK
    <3> QED BY <2>3, <3>1, <3>2, NothingTyped
  <2>5. call[Opener].key = r.key /\ (Unexpired(r) => ram[r.key] = ItemOf(r) /\ cold[r.key] = None)
    BY <2>1, <2>2 DEF Replaying
  <2>6. \A k : ~Busy(k)'
    BY <2>4 DEF Busy
  <2>7. Replayed'
    BY <1>11, <2>1, <2>2, <2>3, <2>5, <2>6
  <2>8. Replaying'
    BY <2>2, <2>4 DEF Replaying
  <2> QED BY <2>7, <2>8
<1>13. ASSUME Restore PROVE Replayed' /\ Replaying'
  <2> DEFINE r == boot[pos + 1]
             x == IF r.exp > now THEN r.exp - now ELSE 0
             d == [at |-> "ram", key |-> r.key, val |-> r.val, ttl |-> x, exp |-> Until(x)]
  <2>1. UNCHANGED <<now, ram, cold, pc, boot>> /\ pc = "replay" /\ pos < Len(boot)
        /\ call[Opener].at = "idle"
    BY <1>13 DEF Restore, Restoring, stores
  <2>2. r \in Record /\ r.exp \in Nat /\ r.key \in Keys /\ pos + 1 \in 1..Len(boot)
    BY <1>2, <2>1
  <2>3. \A k : ~Busy(k)
    BY <1>3, <2>1 DEF Busy, Control
  <2>4. CASE r.val # None /\ Expired(r.exp) /\ pos' = pos + 1 /\ UNCHANGED call
    <3>1. ~Unexpired(r) /\ \A k : ~Busy(k)'
      BY <1>2, <2>2, <2>3, <2>4 DEF Unexpired, Expired, Busy
    <3>2. Replayed'
      BY <1>11, <2>1, <2>3, <2>4, <3>1
    <3>3. Replaying'
      BY <2>1, <2>4 DEF Replaying
    <3> QED BY <3>2, <3>3
  <2>5. CASE UNCHANGED pos /\ Enter(Opener, r.key, r.val, x)
    <3>1. call' = [call EXCEPT ![Opener] = d]
      BY <2>5 DEF Enter
    <3>2. call'[Opener] = d /\ \A u \in Threads \ {Opener} : call'[u] = call[u]
      BY <3>1 DEF TypeOK, Threads
    <3>3. \A k : Busy(k)' => k = r.key
      BY <2>3, <3>2 DEF Busy
    <3>4. Busy(r.key)'
      BY <2>1, <2>5, <3>2 DEF Busy, Threads
    <3>5. Replayed'
      <4> SUFFICES ASSUME NEW k \in Keys PROVE ReplayedKey(k)'
        BY DEF Replayed
      <4>1. ReplayedKey(k) /\ ~Busy(k)
        BY <2>1, <2>3 DEF Replayed
      <4>2. ASSUME NEW i \in 1..pos
            PROVE  /\ LastUpTo(i, pos, k)' = LastUpTo(i, pos, k) /\ ItemOf(boot[i])' = ItemOf(boot[i])
                   /\ Unexpired(boot[i])' = Unexpired(boot[i])
        BY <2>1, <2>5 DEF LastUpTo, ItemOf, Unexpired
      <4> QED BY <2>1, <2>5, <4>1, <4>2 DEF ReplayedKey
    <3>6. Replaying'
      <4>1. Unexpired(r) => Until(x) = r.exp
        BY <1>2, <2>2, UntilRestored DEF Unexpired
      <4>2. r' = r /\ Unexpired(r)' = Unexpired(r)
        BY <2>1, <2>5 DEF Unexpired
      <4> HIDE DEF x
      <4> QED BY <3>2, <4>1, <4>2 DEF Replaying
    <3> QED BY <3>5, <3>6
  <2> QED BY <1>13, <2>4, <2>5 DEF Restore
<1>14. ASSUME Start PROVE Replayed' /\ Replaying'
  <2>1. cold' = Loaded /\ boot' = log /\ pos' = 0 /\ ram' = ram /\ call' = call /\ ram = Nothing
        /\ \A t \in Threads : call[t].at = "idle"
    BY <1>3, <1>14 DEF Start, Control
  <2>2. Replayed'
    <3> SUFFICES ASSUME NEW k \in Keys PROVE ReplayedKey(k)'
      BY DEF Replayed
    <3>1. cold'[k] # None => \E i \in DOMAIN log : log[i].key = k
      <4> SUFFICES ASSUME cold'[k] # None PROVE \E i \in DOMAIN log : log[i].key = k
        OBVIOUS
      <4>1. Safe(k)
        BY <2>1 DEF Loaded, Nothing, ColdRecorded
      <4>2. log \in Seq(Record) /\ safe \in 0..Len(log)
        BY DEF TypeOK
      <4> QED BY <4>1, <4>2 DEF Safe
    <3>2. 1..pos' = {} /\ ram'[k] = None
      BY <2>1 DEF Nothing
    <3> QED BY <2>1, <3>1, <3>2 DEF ReplayedKey
  <2>3. Replaying'
    BY <2>1 DEF Replaying, Threads
  <2> QED BY <2>2, <2>3
<1>15. ASSUME \/ Sync \/ Finish \/ JanitorStops \/ TaskEnds
              \/ \E task \in {"evict", "flush"} : JanitorTick(task)
       PROVE  Replayed' /\ Replaying'
  <2>1. UNCHANGED <<boot, pos, call, cold, ram, pc, now>>
    BY <1>15 DEF Sync, Finish, JanitorStops, TaskEnds, JanitorTick, stores, opener
  <2> QED BY <1>6, <1>7, <2>1
<1>16. ASSUME NEW f \in Flushers, FlushCreate(f) \/ FlushWrite(f) \/ FlushRename(f)
       PROVE  Replayed' /\ Replaying'
  <2>1. UNCHANGED <<boot, pos, call, cold, ram, pc, now>>
    BY <1>16 DEF FlushCreate, FlushWrite, FlushRename, stores, opener
  <2> QED BY <1>6, <1>7, <2>1
<1>17. ASSUME ExpireByTTL PROVE Replayed' /\ Replaying'
  <2>1. UNCHANGED <<boot, pos, call, cold, pc, now>>
        /\ \A k \in Keys : \/ ram'[k] = ram[k]
                           \/ ram'[k] = None /\ ram[k].exp > 0 /\ ram[k].exp <= now
    BY <1>17 DEF ExpireByTTL, opener
  <2> QED BY <1>4, <1>7, <2>1
<1>18. ASSUME (\E k \in Keys : Evict(k)) \/ Take \/ Put PROVE Replayed' /\ Replaying'
  <2>1. pc' = pc /\ pc # "replay"
    BY <1>18 DEF Evict, Aged, Take, Put, Control, opener
  <2> QED BY <1>5, <2>1
<1>19. ASSUME \/ Opened \/ Begin \/ Shutdown \/ StopJanitor \/ CloseChan \/ Flushed \/ CloseLog
              \/ LogClosed \/ Exit \/ Fatal \/ Panic \/ Crash
       PROVE  Replayed' /\ Replaying'
  <2>1. pc' # "replay"
    BY <1>19 DEF Opened, Begin, Shutdown, StopJanitor, CloseChan, Flushed, CloseLog, LogClosed, GoTo,
                 Exit, Fatal, Panic, Crash, End
  <2> QED BY <1>5, <2>1
<1>20. ASSUME Tick PROVE Replayed' /\ Replaying'
  <2>1. UNCHANGED <<boot, pos, call, cold, ram, pc>> /\ now <= now'
    BY <1>2, <1>20 DEF Tick, stores, opener
  <2> QED BY <1>6, <2>1
<1> QED
  BY <1>8, <1>10, <1>12, <1>13, <1>14, <1>15, <1>16, <1>17, <1>18, <1>19, <1>20, Cases


-------------------------------------------------------------------------------
(* What Close leaves behind *)

LEMMA StepOwed == ASSUME TypeOK, Control, OwedIsLast, Next PROVE OwedIsLast'
<1>1. TypeOK' /\ Control'
  BY StepTyped
<1>2. \A t \in Threads : t \in Clients \/ t = Opener
  BY DEF Threads
\* no call begins and no record is written
<1>3. ASSUME UNCHANGED <<kind, log, boot, owed>>, Closing' \/ pc' = "down" => Closing \/ pc = "down",
             pc' = "replay" => pc = "replay", \A k : Busy(k)' => Busy(k)
      PROVE  OwedIsLast'
  <2> SUFFICES ASSUME kind = "embedded", NEW k \in Keys, owed[k] # Any PROVE OwedKey(k)'
    BY <1>3 DEF OwedIsLast
  <2>1. OwedKey(k)
    BY DEF OwedIsLast
  <2>2. LastRecord(log, k)' = LastRecord(log, k) /\ LastRecord(boot, k)' = LastRecord(boot, k)
    BY <1>3 DEF LastRecord, Records
  <2> QED BY <1>3, <2>1, <2>2 DEF OwedKey
<1>4. ASSUME UNCHANGED <<kind, log, boot, owed, pc, call>> PROVE OwedIsLast'
  BY <1>3, <1>4 DEF Busy, Closing
<1>5. ASSUME \A k \in Keys : owed'[k] = Any PROVE OwedIsLast'
  BY <1>5 DEF OwedIsLast
<1>6. ASSUME NEW c \in Clients, Call(c) PROVE OwedIsLast'
  <2>1. PICK key \in Keys : /\ \E v, ttl : Enter(c, key, v, ttl)
                            /\ owed' = IF Closing THEN [owed EXCEPT ![key] = Any] ELSE owed
    BY <1>6 DEF Call
  <2>2. UNCHANGED <<kind, log, boot, pc>> /\ (pc = "up" \/ Closing)
    BY <1>6 DEF Call, disk, opener
  <2>3. \A t \in Threads : call'[t] = call[t] \/ call'[t].key = key
    BY <2>1 DEF Enter, TypeOK
  <2> SUFFICES ASSUME kind = "embedded", NEW k \in Keys, owed'[k] # Any PROVE OwedKey(k)'
    BY <2>2 DEF OwedIsLast
  <2>4. CASE pc = "up"
    BY <2>2, <2>4 DEF OwedKey, Closing
  <2>5. CASE Closing
    <3>1. k # key /\ owed'[k] = owed[k]
      BY <2>1, <2>5 DEF TypeOK
    <3>2. ~Busy(k)' /\ pc' # "replay"
      BY <2>2, <2>3, <2>5, <3>1 DEF Busy, Closing, OwedIsLast, OwedKey
    <3>3. LastRecord(log, k)' = LastRecord(log, k)
      BY <2>2 DEF LastRecord, Records
    <3> QED BY <2>5, <3>1, <3>2, <3>3 DEF OwedIsLast, OwedKey
  <2> QED BY <2>2, <2>4, <2>5
<1>7. ASSUME NEW t \in Threads, InRam(t) \/ ColdDelete(t) PROVE OwedIsLast'
  <2>1. UNCHANGED <<kind, log, boot, owed, pc>> /\ call[t].at # "idle"
    BY <1>7 DEF InRam, ColdDelete, disk, opener
  <2>2. \A u \in Threads : call'[u].key = call[u].key
                           /\ (call'[u].at # "idle" => call[u].at # "idle")
    <3>1. call[t] \in CallState
      BY DEF TypeOK
    <3>2. \E l \in {"cold", "log"} : /\ call'[t] = [call[t] EXCEPT !.at = l]
                                   /\ \A u \in Threads \ {t} : call'[u] = call[u]
      BY <1>7, <2>1, CallMoves DEF InRam, ColdDelete
    <3> QED BY <2>1, <3>1, <3>2 DEF CallState
  <2>3. \A k : Busy(k)' => Busy(k)
    BY <2>2 DEF Busy
  <2> QED BY <1>3, <2>1, <2>3 DEF Closing
<1>8. ASSUME NEW t \in Threads, Log(t) PROVE OwedIsLast'
  <2> DEFINE r == [key |-> call[t].key, val |-> call[t].val, exp |-> Until(call[t].ttl)]
  <2>1. UNCHANGED <<kind, boot, owed, pc>> /\ log' \in {log, Append(log, r)} /\ call[t].at # "idle"
    BY <1>8 DEF Log
  <2>2. \A u \in Threads : call'[u].at # "idle" => call'[u] = call[u]
    BY <1>8, NothingTyped DEF Log, TypeOK
  <2>3. r \in Record
    <3>1. call[t] \in CallState /\ call[t].key \in Keys /\ now \in Nat
      BY <2>1 DEF TypeOK
    <3> QED BY <3>1 DEF CallState, Record, Until
  <2> SUFFICES ASSUME kind = "embedded", NEW k \in Keys, owed[k] # Any PROVE OwedKey(k)'
    BY <2>1 DEF OwedIsLast
  <2>4. OwedKey(k)
    BY DEF OwedIsLast
  <2>5. ~Busy(k) => ~Busy(k)' /\ r.key # k
    BY <2>1, <2>2 DEF Busy
  <2>6. ~Busy(k) => LastRecord(log, k)' = LastRecord(log, k)
    <3> SUFFICES ASSUME ~Busy(k) PROVE LastRecord(log', k) = LastRecord(log, k)
      BY DEF LastRecord, Records
    <3>1. CASE log' = log
      BY <3>1
    <3>2. CASE log' = Append(log, r)
      <4>1. log \in Seq(Record)
        BY DEF TypeOK
      <4> QED BY <2>3, <2>5, <3>2, <4>1, LastAppend
    <3> QED BY <2>1, <3>1, <3>2
  <2>7. LastRecord(boot, k)' = LastRecord(boot, k)
    BY <2>1 DEF LastRecord, Records
  <2> QED BY <2>1, <2>4, <2>5, <2>6, <2>7 DEF OwedKey, Closing
<1>9. ASSUME \/ Sync \/ Finish \/ JanitorStops \/ TaskEnds \/ ExpireByTTL \/ Take \/ Put \/ Tick
             \/ (\E task \in {"evict", "flush"} : JanitorTick(task)) \/ \E k \in Keys : Evict(k)
      PROVE  OwedIsLast'
  BY <1>4, <1>9 DEF Sync, Finish, JanitorStops, TaskEnds, ExpireByTTL, Take, Put, Tick, JanitorTick,
                    Evict, disk, opener
<1>10. ASSUME NEW f \in Flushers, FlushCreate(f) \/ FlushWrite(f) \/ FlushRename(f) PROVE OwedIsLast'
  BY <1>4, <1>10 DEF FlushCreate, FlushWrite, FlushRename, opener
<1>11. ASSUME Start PROVE OwedIsLast'
  <2>1. UNCHANGED <<kind, owed>> /\ pc = "down" /\ pc' = "replay" /\ boot' = log
    BY <1>11 DEF Start
  <2> SUFFICES ASSUME kind = "embedded", NEW k \in Keys, owed[k] # Any PROVE OwedKey(k)'
    BY <2>1 DEF OwedIsLast
  <2>2. OwedKey(k)
    BY DEF OwedIsLast
  <2>3. LastRecord(boot, k)' = LastRecord(log, k)
    BY <2>1 DEF LastRecord, Records
  <2> QED BY <2>1, <2>2, <2>3 DEF OwedKey, Closing
<1>12. ASSUME Restore PROVE OwedIsLast'
  <2>1. UNCHANGED <<kind, owed, pc, boot>> /\ pc = "replay"
    BY <1>12 DEF Restore, Restoring
  <2> SUFFICES ASSUME kind = "embedded", NEW k \in Keys, owed[k] # Any PROVE OwedKey(k)'
    BY <2>1 DEF OwedIsLast
  <2>2. LastRecord(boot, k)' = LastRecord(boot, k)
    BY <2>1 DEF LastRecord, Records
  <2> QED BY <2>1, <2>2 DEF OwedIsLast, OwedKey, Closing
<1>13. ASSUME Opened PROVE OwedIsLast'
  BY <1>5, <1>13 DEF Opened
<1>14. ASSUME Begin PROVE OwedIsLast'
  <2>1. UNCHANGED <<kind, log, boot, call>> /\ owed' = [k \in Keys |-> Kept(k)] /\ pc' # "replay"
    BY <1>14 DEF Begin, GoTo, disk
  <2> SUFFICES ASSUME kind = "embedded", NEW k \in Keys, owed'[k] # Any PROVE OwedKey(k)'
    BY <2>1 DEF OwedIsLast
  <2>2. ~Busy(k)' /\ ~(LastRecord(log, k).exp > 0) /\ owed'[k] = LastRecord(log, k).val
    BY <2>1 DEF Kept, Busy
  <2>3. LastRecord(log, k).exp = 0
    <3>1. log \in Seq(Record)
      BY DEF TypeOK
    <3> QED BY <2>2, <3>1, LastTyped
  <2>4. LastRecord(log, k)' = LastRecord(log, k)
    BY <2>1 DEF LastRecord, Records
  <2> QED BY <2>1, <2>2, <2>3, <2>4 DEF OwedKey
<1>15. ASSUME Shutdown \/ StopJanitor \/ CloseChan \/ Flushed \/ CloseLog \/ LogClosed PROVE OwedIsLast'
  <2>1. UNCHANGED <<kind, log, boot, owed, call>> /\ Closing /\ pc' # "replay"
    BY <1>15 DEF Shutdown, StopJanitor, CloseChan, Flushed, CloseLog, LogClosed, GoTo, disk, Closing
  <2> QED BY <1>3, <2>1 DEF Busy
<1>16. ASSUME Exit PROVE OwedIsLast'
  <2>1. PICK n \in safe..Len(log) : End(n)
    BY <1>16 DEF Exit
  <2>2. UNCHANGED <<kind, owed>> /\ pc = "closed"
    BY <1>16, <2>1 DEF Exit, End
  <2>3. log' = log
    <3>1. safe = Len(log)
      BY <2>2 DEF Control
    <3>2. log \in Seq(Record) /\ Len(log) \in Nat
      BY DEF TypeOK
    <3>3. n = Len(log)
      BY <3>1, <3>2
    <3>4. log' = SubSeq(log, 1, Len(log))
      BY <2>1, <3>3 DEF End
    <3> QED BY <3>2, <3>4
  <2> SUFFICES ASSUME kind = "embedded", NEW k \in Keys, owed[k] # Any PROVE OwedKey(k)'
    BY <2>2 DEF OwedIsLast
  <2>4. OwedKey(k)
    BY DEF OwedIsLast
  <2>5. ~Busy(k)' /\ pc' = "down"
    BY <2>1, NothingTyped DEF End, Busy
  <2>6. LastRecord(log, k)' = LastRecord(log, k)
    BY <2>3 DEF LastRecord, Records
  <2> QED BY <2>2, <2>4, <2>5, <2>6 DEF OwedKey, Closing
<1>17. ASSUME Fatal \/ Panic \/ Crash PROVE OwedIsLast'
  BY <1>5, <1>17 DEF Fatal, Panic, Crash, End, OwedIsLast
<1> QED
  BY <1>6, <1>7, <1>8, <1>9, <1>10, <1>11, <1>12, <1>13, <1>14, <1>15, <1>16, <1>17, Cases

-------------------------------------------------------------------------------
(* The theorems *)

LEMMA InitInv == Init => IInv
<1> SUFFICES ASSUME Init PROVE IInv
  OBVIOUS
<1>1. TypeOK /\ Control
  BY InitTyped
<1>2. RamRecorded /\ ColdRecorded
  BY DEF Init, RamRecorded, ColdRecorded, Nothing
<1>3. Replayed /\ Replaying /\ OwedIsLast
  BY NothingTyped DEF Init, Replayed, Replaying, OwedIsLast, Threads
<1> QED BY <1>1, <1>2, <1>3 DEF IInv

LEMMA StepInv == IInv /\ [Next]_vars => IInv'
<1>1. ASSUME IInv, Next PROVE IInv'
  BY <1>1, StepTyped, StepRamRecorded, StepColdRecorded, StepReplay, StepOwed DEF IInv
<1>2. ASSUME IInv, UNCHANGED vars PROVE IInv'
  <2>6. UNCHANGED <<kind, now, log, safe, jpc, ram, cold, flushCh, closed, hand, gob, tmp, fh, fpc,
                    jan, jstop, pc, boot, pos, call, owed, bounds>>
    BY <1>2 DEF vars
  <2>1. TypeOK'
    <3>1. TypeOK
      BY <1>2 DEF IInv
    <3> QED BY <2>6, <3>1 DEF TypeOK
  <2>5. Control'
    BY <1>2, <2>6 DEF IInv, Control, Nothing
  <2>2. RamRecorded' /\ ColdRecorded'
    BY <1>2 DEF IInv, vars, RamRecorded, ColdRecorded, Records, Busy, Safe
  <2>3. Replayed' /\ Replaying'
    BY <1>2 DEF IInv, vars, Replayed, ReplayedKey, Replaying, LastUpTo, ItemOf, Unexpired, Busy
  <2>4. OwedIsLast'
    <3>1. \A k : /\ LastRecord(log, k)' = LastRecord(log, k)
                 /\ LastRecord(boot, k)' = LastRecord(boot, k)
      BY <2>6 DEF LastRecord, Records
    <3>2. \A k : Busy(k)' = Busy(k)
      BY <2>6 DEF Busy
    <3> QED BY <1>2, <2>6, <3>1, <3>2 DEF IInv, OwedIsLast, OwedKey, Closing
  <2> QED BY <2>1, <2>2, <2>3, <2>4, <2>5 DEF IInv
<1> QED BY <1>1, <1>2

\* With every record replayed, the invariant says what GET answers.
LEMMA Answers == IInv => RestoredIsLast /\ CloseKeeps
<1> SUFFICES ASSUME IInv PROVE RestoredIsLast /\ CloseKeeps
  OBVIOUS
<1> USE LifecycleAssumptions
<1>1. ASSUME Restored, NEW k \in Keys, Unexpired(LastRecord(boot, k))
      PROVE  Served(k) = LastRecord(boot, k).val
  <2> DEFINE r == LastRecord(boot, k)
  <2>1. pc = "replay" /\ pos = Len(boot) /\ boot \in Seq(Record) /\ ReplayedKey(k)
    BY <1>1 DEF Restored, Restoring, IInv, TypeOK, Replayed
  <2>2. ~Busy(k)
    BY <1>1, <2>1 DEF Restored, Restoring, IInv, Control, Busy, Threads
  <2>3. CASE Records(boot, k) = {}
    <3>1. r = [key |-> k, val |-> None, exp |-> 0]
      BY <2>1, <2>3, LastFound
    <3>2. \A i \in DOMAIN boot : boot[i].key # k
      BY <2>3 DEF Records
    <3>3. ram[k] = None /\ cold[k] = None
      BY <2>1, <2>2, <3>2 DEF ReplayedKey
    <3> QED BY <3>1, <3>3 DEF Served
  <2>4. CASE Records(boot, k) # {}
    <3>1. PICK i \in Records(boot, k) : r = boot[i] /\ \A j \in Records(boot, k) : j <= i
      BY <2>1, <2>4, LastFound
    <3>2. i \in 1..pos /\ LastUpTo(i, pos, k)
      BY <2>1, <3>1 DEF LastUpTo, Records
    <3>3. ram[k] = ItemOf(r) /\ cold[k] = None
      BY <1>1, <2>1, <2>2, <3>1, <3>2 DEF ReplayedKey
    <3>4. r \in Record /\ now \in Nat
      BY <2>1, <3>1, <3>2 DEF IInv, TypeOK
    <3>5. CASE r.val = None
      BY <3>3, <3>5 DEF Served, ItemOf
    <3>6. CASE r.val # None
      <4>1. [val |-> r.val, exp |-> r.exp] \in [val : Nat, exp : Nat] /\ r.exp \in Nat
        BY <3>4, <3>6 DEF Record
      <4>2. ram[k] # None /\ ram[k].val = r.val /\ ram[k].exp = r.exp
        BY <3>3, <3>6, <4>1 DEF ItemOf
      <4>3. ~Expired(ram[k].exp)
        BY <1>1, <3>4, <4>1, <4>2 DEF Expired, Unexpired
      <4> QED BY <4>2, <4>3 DEF Served
    <3> QED BY <3>5, <3>6
  <2> QED BY <2>3, <2>4
<1>2. RestoredIsLast
  BY <1>1 DEF RestoredIsLast
<1>3. CloseKeeps
  <2> SUFFICES ASSUME kind = "embedded", Restored, NEW k \in Keys, owed[k] # Any
               PROVE  owed[k] = Served(k)
    BY DEF CloseKeeps, GracefulKeeps
  <2>1. LastRecord(boot, k).val = owed[k] /\ LastRecord(boot, k).exp = 0
    BY DEF IInv, OwedIsLast, OwedKey, Restored, Restoring
  <2> QED BY <1>1, <2>1 DEF Unexpired
<1> QED BY <1>2, <1>3

THEOREM Invariance == Spec => []IInv
<1> QED BY InitInv, StepInv, PTL DEF Spec

\* The program's types: the stores, the files and the journal hold items and records,
\* EvictCold never puts more on flushCh than it has room for, and what is synced is in
\* the journal.
THEOREM TypesHold == Spec => []TypeOK
<1>1. IInv => TypeOK
  BY DEF IInv
<1> QED BY <1>1, Invariance, PTL

\* What OpenWithOptions brings back is what the journal says last of each key, whatever
\* a crash left in cold.gob and whatever the janitor does during the replay.
THEOREM RestoreIsFaithful == Spec => []RestoredIsLast
<1> QED BY Answers, Invariance, PTL

\* DB.Close loses nothing that had been answered when it began: the next Open serves it.
THEOREM CloseIsDurable == Spec => []CloseKeeps
<1> QED BY Answers, Invariance, PTL

====================================================================================
