-------------------------------- MODULE Lifecycle --------------------------------
(***************************************************************************)
(* How the parts are started, stopped and brought back: OpenWithOptions    *)
(* and Close of imcs.go, and the main function of cmd/imcs, with the       *)
(* journal, the cold store and its file cold.gob, the janitor, a flush     *)
(* worker and the clients, who know nothing of all this.  The process may  *)
(* be killed and the power may fail at any moment.                         *)
(*                                                                         *)
(* The journal is the log that DurableLog promises and AOF implements.     *)
(* Operations are those of Cache, as far as they touch what is on disk.    *)
(***************************************************************************)
EXTENDS Integers, Sequences, FiniteSets

CONSTANTS Keys, Clients,
          None, Any,   \* nothing there; anything may be there
          Torn,        \* a file that was not written to the end
          Kinds,       \* of {"embedded", "command"}: who opens and closes the parts
          TTLs,        \* the durations clients give, 0 for none
          FlushCap,    \* flushChanSize
          MaxOps,      \* bound: calls of the clients, in all lives together
          Step,        \* what the clock advances by
          MaxTime,     \* bound: the clock
          MaxStarts,   \* bound: lives; the last one is followed up to the end of Read
          MaxCrashes   \* bound

ASSUME LifecycleAssumptions ==
  /\ None \notin [val : Nat, exp : Nat]
  /\ "opener" \notin Clients
  /\ IsFiniteSet(Keys) /\ Kinds \subseteq {"embedded", "command"}
  /\ TTLs \subseteq Nat /\ {FlushCap, Step} \subseteq Nat \ {0}
  /\ {MaxOps, MaxTime, MaxStarts, MaxCrashes} \subseteq Nat

Opener == "opener"
Threads == Clients \cup {Opener}
Flushers == {"janitor", "closer"}

VARIABLES kind,     \* which program this is
          now,      \* the clock
          log, safe,  \* the journal and how much of it is synced
          jpc,      \* backgroundWriter: off, running, stopping, done
          ram, cold,  \* the items in RAM and in the cold store's index
          flushCh, closed,  \* evicted items on their way, and whether flushCh is closed
          hand,     \* the item the worker has taken
          gob, tmp, \* cold.gob and cold.gob.tmp: no file, torn, or an index
          fh,       \* the file that each running Flush has open, which a rename moves
          fpc,      \* where each Flush is
          jan, jstop,  \* the janitor's task, and whether Stop has been called
          pc,       \* the goroutine that opens and closes
          boot,     \* the journal as Read finds it
          pos,      \* records it has replayed
          call,     \* what each thread is doing
          owed,     \* what Close owes to the next Open
          bounds

disk == <<log, safe, gob, tmp>>
stores == <<ram, cold>>
chan == <<flushCh, closed, hand>>
flushes == <<fh, fpc>>
janitor == <<jan, jstop>>
opener == <<pc, boot, pos>>
vars == <<kind, now, log, safe, jpc, ram, cold, flushCh, closed, hand, gob, tmp, fh, fpc,
          jan, jstop, pc, boot, pos, call, owed, bounds>>

Nothing == [k \in Keys |-> None]
Idle == [at |-> "idle", key |-> None, val |-> None, ttl |-> 0, exp |-> 0]

Init == /\ kind \in Kinds
        /\ now = 1 /\ log = <<>> /\ safe = 0 /\ jpc = "off"
        /\ ram = Nothing /\ cold = Nothing
        /\ flushCh = <<>> /\ closed = FALSE /\ hand = None
        /\ gob = None /\ tmp = None
        /\ fh = [f \in Flushers |-> None] /\ fpc = [f \in Flushers |-> "idle"]
        /\ jan = "off" /\ jstop = FALSE
        /\ pc = "down" /\ boot = <<>> /\ pos = 0
        /\ call = [t \in Threads |-> Idle]
        /\ owed = [k \in Keys |-> Any]
        /\ bounds = [ops |-> 0, starts |-> 0, crashes |-> 0]

-------------------------------------------------------------------------------
(* Calls: SET, of a value that is new each time, or DEL, whose value is None *)

Expired(exp) == exp > 0 /\ now > exp
Until(ttl) == IF ttl > 0 THEN now + ttl ELSE 0

Enter(t, k, v, ttl) ==
  call' = [call EXCEPT ![t] = [at |-> "ram", key |-> k, val |-> v, ttl |-> ttl,
                               exp |-> Until(ttl)]]

\* a client calls whatever it likes as long as the process runs: Shutdown closes
\* the listener, not the connections
Closing == pc \in {"shutdown", "stopJanitor", "closeChan", "flush", "closeLog", "wait", "closed"}

Call(c) == /\ pc = "up" \/ Closing
           /\ call[c].at = "idle" /\ bounds.ops < MaxOps
           /\ \E k \in Keys, v \in {bounds.ops + 1, None}, ttl \in TTLs :
                /\ v = None => ttl = 0
                /\ Enter(c, k, v, ttl)
                /\ owed' = IF Closing THEN [owed EXCEPT ![k] = Any] ELSE owed
           /\ bounds' = [bounds EXCEPT !.ops = @ + 1]
           /\ UNCHANGED <<kind, now, disk, jpc, stores, chan, flushes, janitor, opener>>

InRam(t) == /\ call[t].at = "ram"
            /\ ram' = [ram EXCEPT ![call[t].key] =
                 IF call[t].val = None THEN None ELSE [val |-> call[t].val, exp |-> call[t].exp]]
            /\ call' = [call EXCEPT ![t].at = "cold"]
            /\ UNCHANGED <<kind, now, disk, jpc, cold, chan, flushes, janitor, opener, owed, bounds>>

\* a Flush holds the cold store's read lock
Flushing == \E f \in Flushers : fpc[f] \in {"write", "rename"}

\* BUG: a call of the replay leaves the cold store alone
ColdDeleteByClients(t) ==
  /\ call[t].at = "cold" /\ ~Flushing
  /\ cold' = IF t = Opener THEN cold ELSE [cold EXCEPT ![call[t].key] = None]
  /\ call' = [call EXCEPT ![t].at = "log"]
  /\ UNCHANGED <<kind, now, disk, jpc, ram, chan, flushes, janitor, opener, owed, bounds>>

ColdDelete(t) == /\ call[t].at = "cold" /\ ~Flushing
                 /\ cold' = [cold EXCEPT ![call[t].key] = None]
                 /\ call' = [call EXCEPT ![t].at = "log"]
                 /\ UNCHANGED <<kind, now, disk, jpc, ram, chan, flushes, janitor, opener, owed, bounds>>

\* BUG: persister.Write waits for the writer, also after it has gone
LogWaits(t) == /\ call[t].at = "log" /\ jpc \in {"running", "stopping"}
               /\ log' = Append(log, [key |-> call[t].key, val |-> call[t].val,
                                      exp |-> Until(call[t].ttl)])
               /\ call' = [call EXCEPT ![t] = Idle]
               /\ pos' = IF t = Opener THEN pos + 1 ELSE pos
               /\ UNCHANGED <<kind, now, safe, gob, tmp, jpc, stores, chan, flushes, janitor,
                              pc, boot, owed, bounds>>

\* persister.Write: once stopCh is closed the select may take either branch, and
\* once the writer has gone nobody takes the record from the channel
Log(t) == /\ call[t].at = "log"
          /\ \/ /\ jpc \in {"running", "stopping"}
                /\ log' = Append(log, [key |-> call[t].key, val |-> call[t].val,
                                       exp |-> Until(call[t].ttl)])
             \/ jpc \in {"stopping", "done"} /\ UNCHANGED log
          /\ call' = [call EXCEPT ![t] = Idle]
          /\ pos' = IF t = Opener THEN pos + 1 ELSE pos
          /\ UNCHANGED <<kind, now, safe, gob, tmp, jpc, stores, chan, flushes, janitor,
                         pc, boot, owed, bounds>>

Calls == \E t \in Threads : InRam(t) \/ ColdDelete(t) \/ Log(t)

-------------------------------------------------------------------------------
(* backgroundWriter *)

Sync == /\ jpc = "running" /\ safe # Len(log)
        /\ safe' = Len(log)
        /\ UNCHANGED <<kind, now, log, gob, tmp, jpc, stores, chan, flushes, janitor, opener,
                       call, owed, bounds>>

\* the last drain, flush and fsync
Finish == /\ jpc = "stopping"
          /\ jpc' = "done" /\ safe' = Len(log)
          /\ UNCHANGED <<kind, now, log, gob, tmp, stores, chan, flushes, janitor, opener,
                         call, owed, bounds>>

-------------------------------------------------------------------------------
(* cold.gob.  Both Flushes use one name for the temporary file; an open file  *)
(* goes with its name when it is renamed.                                     *)

FlushCreate(f) == /\ fpc[f] = "create"
                  /\ fpc' = [fpc EXCEPT ![f] = "write"]
                  /\ tmp' = Torn /\ fh' = [fh EXCEPT ![f] = "tmp"]
                  /\ UNCHANGED <<kind, now, log, safe, gob, jpc, stores, chan, janitor, opener,
                                 call, owed, bounds>>

FlushWrite(f) == /\ fpc[f] = "write"
                 /\ fpc' = [fpc EXCEPT ![f] = "rename"]
                 /\ tmp' = IF fh[f] = "tmp" THEN cold ELSE tmp
                 /\ gob' = IF fh[f] = "gob" THEN cold ELSE gob
                 /\ fh' = [fh EXCEPT ![f] = None]
                 /\ UNCHANGED <<kind, now, log, safe, jpc, stores, chan, janitor, opener,
                                call, owed, bounds>>

\* There may be nothing left to rename.
FlushRename(f) ==
  /\ fpc[f] = "rename"
  /\ fpc' = [fpc EXCEPT ![f] = "idle"]
  /\ gob' = IF tmp = None THEN gob ELSE tmp
  /\ tmp' = None
  /\ fh' = [g \in Flushers |-> IF tmp = None THEN fh[g]
                               ELSE CASE fh[g] = "tmp" -> "gob" [] OTHER -> None]
  /\ UNCHANGED <<kind, now, log, safe, jpc, stores, chan, janitor, opener, call, owed, bounds>>

Flush(f) == FlushCreate(f) \/ FlushWrite(f) \/ FlushRename(f)

-------------------------------------------------------------------------------
(* The janitor and the worker *)

\* a ticker fires; select may prefer it to stopCh for a while
JanitorTick(task) ==
  /\ jan = "idle"
  /\ jan' = task
  /\ fpc' = IF task = "flush" THEN [fpc EXCEPT !["janitor"] = "create"] ELSE fpc
  /\ UNCHANGED <<kind, now, disk, jpc, stores, chan, fh, jstop, opener, call, owed, bounds>>

JanitorStops == /\ jan = "idle" /\ jstop
                /\ jan' = "off"
                /\ UNCHANGED <<kind, now, disk, jpc, stores, chan, flushes, jstop, opener,
                               call, owed, bounds>>

\* its ticker fires and it runs
ExpireByTTL ==
  /\ jan = "idle"
  /\ ram' = [k \in Keys |-> IF ram[k] # None /\ ram[k].exp > 0 /\ ram[k].exp <= now
                            THEN None ELSE ram[k]]
  /\ UNCHANGED <<kind, now, disk, jpc, cold, chan, flushes, janitor, opener, call, owed, bounds>>

\* An item that has been idle for five minutes was written long before the last
\* fsync, and not by the replay that is under way.
Aged(k) == /\ ram[k] # None /\ pc # "replay"
           /\ \A i \in DOMAIN log : log[i].key = k => i <= safe
           /\ \A t \in Threads : call[t].key # k

\* BUG: EvictCold does not look whether flushCh has room
EvictBlind(k) ==
  /\ jan = "evict" /\ ~closed
  /\ Aged(k)
  /\ flushCh' = Append(flushCh, [key |-> k, val |-> ram[k].val, exp |-> ram[k].exp])
  /\ ram' = [ram EXCEPT ![k] = None]
  /\ UNCHANGED <<kind, now, disk, jpc, cold, closed, hand, flushes, janitor, opener,
                 call, owed, bounds>>

\* EvictCold, item by item
Evict(k) ==
  /\ jan = "evict" /\ ~closed
  /\ Aged(k) /\ Len(flushCh) < FlushCap
  /\ flushCh' = Append(flushCh, [key |-> k, val |-> ram[k].val, exp |-> ram[k].exp])
  /\ ram' = [ram EXCEPT ![k] = None]
  /\ UNCHANGED <<kind, now, disk, jpc, cold, closed, hand, flushes, janitor, opener,
                 call, owed, bounds>>

\* the end of EvictCold and of FlushCold
TaskEnds == /\ jan = "evict" \/ (jan = "flush" /\ fpc["janitor"] = "idle")
            /\ jan' = "idle"
            /\ UNCHANGED <<kind, now, disk, jpc, stores, chan, flushes, jstop, opener,
                           call, owed, bounds>>

Janitor == JanitorStops \/ TaskEnds \/ Flush("janitor")

\* a flush worker, with batches of one
Take == /\ hand = None /\ flushCh # <<>>
        /\ hand' = Head(flushCh) /\ flushCh' = Tail(flushCh)
        /\ UNCHANGED <<kind, now, disk, jpc, stores, closed, flushes, janitor, opener,
                       call, owed, bounds>>

Put == /\ hand # None /\ ~Flushing
       /\ cold' = [cold EXCEPT ![hand.key] = [val |-> hand.val, exp |-> hand.exp]]
       /\ hand' = None
       /\ UNCHANGED <<kind, now, disk, jpc, ram, flushCh, closed, flushes, janitor, opener,
                      call, owed, bounds>>

-------------------------------------------------------------------------------
(* Open *)

\* load: a file that cannot be decoded counts for none
Loaded == IF gob \in {None, Torn} THEN Nothing ELSE gob

\* NewPersister, New, InitColdStorage; the command starts the janitor at once
Start == /\ pc = "down" /\ bounds.starts < MaxStarts
         /\ bounds' = [bounds EXCEPT !.starts = @ + 1]
         /\ jpc' = "running"
         /\ cold' = Loaded
         /\ jan' = IF kind = "command" THEN "idle" ELSE "off"
         /\ pc' = "replay" /\ boot' = log /\ pos' = 0
         /\ UNCHANGED <<kind, now, disk, ram, chan, flushes, jstop, call, owed>>

Restoring == pc = "replay" /\ call[Opener].at = "idle"

\* The callback of Read.  What it calls goes to the end of the journal.
Restore == /\ Restoring /\ pos < Len(boot)
           /\ LET r == boot[pos + 1] IN
              IF r.val # None /\ Expired(r.exp)
              THEN pos' = pos + 1 /\ UNCHANGED call
              ELSE /\ Enter(Opener, r.key, r.val,
                            IF r.exp > now THEN r.exp - now ELSE 0)
                   /\ UNCHANGED pos
           /\ UNCHANGED <<kind, now, disk, jpc, stores, chan, flushes, janitor, pc, boot,
                          owed, bounds>>

Restored == Restoring /\ pos = Len(boot)

Opened == /\ Restored /\ bounds.starts < MaxStarts
          /\ pc' = "up"
          /\ jan' = IF jan = "off" THEN "idle" ELSE jan
          /\ owed' = [k \in Keys |-> Any]
          /\ UNCHANGED <<kind, now, disk, jpc, stores, chan, flushes, jstop, boot, pos,
                         call, bounds>>

-------------------------------------------------------------------------------
(* Close, and the goroutine of main that waits for a signal *)

\* the last record of k in a journal
Records(l, k) == {i \in DOMAIN l : l[i].key = k}
LastRecord(l, k) == IF Records(l, k) = {} THEN [key |-> k, val |-> None, exp |-> 0]
                    ELSE l[CHOOSE i \in Records(l, k) : \A j \in Records(l, k) : j <= i]

\* what is kept of k: its last value that was answered, if it has no expiry time
Kept(k) == IF \/ \E t \in Threads : call[t].key = k
              \/ LastRecord(log, k).exp > 0
           THEN Any ELSE LastRecord(log, k).val

GoTo(l) == /\ pc' = l
           /\ UNCHANGED <<kind, now, disk, stores, hand, fh, jan, boot, pos, call, bounds>>

\* DB.Close is called, or the signal comes
Begin == /\ pc = "up"
         /\ GoTo(IF kind = "command" THEN "shutdown" ELSE "stopJanitor")
         /\ owed' = [k \in Keys |-> Kept(k)]
         /\ UNCHANGED <<jpc, flushCh, closed, fpc, jstop>>

Shutdown == /\ pc = "shutdown"
            /\ GoTo(IF kind = "command" THEN "stopJanitor" ELSE "closeChan")
            /\ UNCHANGED <<jpc, flushCh, closed, fpc, jstop, owed>>

StopJanitor == /\ pc = "stopJanitor"
               /\ GoTo(IF kind = "command" THEN "closeChan" ELSE "shutdown")
               /\ jstop' = TRUE
               /\ UNCHANGED <<jpc, flushCh, closed, fpc, owed>>

CloseChan == /\ pc = "closeChan"
             /\ GoTo("flush")
             /\ closed' = TRUE /\ fpc' = [fpc EXCEPT !["closer"] = "create"]
             /\ UNCHANGED <<jpc, flushCh, jstop, owed>>

Flushed == /\ pc = "flush" /\ fpc["closer"] = "idle"
           /\ GoTo("closeLog")
           /\ UNCHANGED <<jpc, flushCh, closed, fpc, jstop, owed>>

\* BUG: Close waits for a writer that it has not told to stop
CloseLogForgotten == /\ pc = "closeLog"
                     /\ GoTo("wait")
                     /\ UNCHANGED <<jpc, flushCh, closed, fpc, jstop, owed>>

CloseLog == /\ pc = "closeLog"
            /\ GoTo("wait")
            /\ jpc' = "stopping"
            /\ UNCHANGED <<flushCh, closed, fpc, jstop, owed>>

\* BUG: Close does not wait for the writer
LogClosedAtOnce == /\ pc = "wait"
                   /\ GoTo("closed")
                   /\ UNCHANGED <<jpc, flushCh, closed, fpc, jstop, owed>>

LogClosed == /\ pc = "wait" /\ jpc = "done"
             /\ GoTo("closed")
             /\ UNCHANGED <<jpc, flushCh, closed, fpc, jstop, owed>>

Closer == Shutdown \/ StopJanitor \/ CloseChan \/ Flush("closer") \/ Flushed \/ CloseLog \/ LogClosed

-------------------------------------------------------------------------------
(* The end of the process: memory is gone, and all but the first n records.   *)
(* A temporary file that is left behind is truncated before it is used again. *)

End(n) == /\ pc' = "down" /\ jpc' = "off"
          /\ log' = SubSeq(log, 1, n)
          /\ safe' = IF safe < n THEN safe ELSE n
          /\ ram' = Nothing /\ cold' = Nothing
          /\ flushCh' = <<>> /\ closed' = FALSE /\ hand' = None
          /\ fh' = [f \in Flushers |-> None] /\ fpc' = [f \in Flushers |-> "idle"]
          /\ jan' = "off" /\ jstop' = FALSE
          /\ boot' = <<>> /\ pos' = 0 /\ tmp' = None
          /\ call' = [t \in Threads |-> Idle]
          /\ UNCHANGED <<kind, now>>

Exit == /\ pc = "closed"
        /\ \E n \in safe..Len(log) : End(n)
        /\ UNCHANGED <<gob, owed, bounds>>

\* log.Fatal(srv.Listen()): Listen returns as soon as Shutdown closes the listener,
\* whatever the other goroutine still has to do
Fatal == /\ kind = "command" /\ Closing /\ pc # "shutdown"
         /\ \E n \in safe..Len(log) : End(n)
         /\ UNCHANGED <<gob, owed, bounds>>

\* EvictCold sends on the closed channel
Panic == /\ jan = "evict" /\ closed
         /\ \E k \in Keys : Aged(k)
         /\ \E n \in safe..Len(log) : End(n)
         /\ owed' = [k \in Keys |-> Any]
         /\ UNCHANGED <<gob, bounds>>

\* killed, or the power fails; cold.gob is never synced
Crash == /\ pc # "down" /\ bounds.crashes < MaxCrashes
         /\ bounds' = [bounds EXCEPT !.crashes = @ + 1]
         /\ \E n \in safe..Len(log) : End(n)
         /\ owed' = [k \in Keys |-> Any]
         /\ gob' \in {gob, IF gob = None THEN None ELSE Torn}

Tick == /\ now < MaxTime
        /\ now' = now + Step
        /\ UNCHANGED <<kind, disk, jpc, stores, chan, flushes, janitor, opener, call, owed, bounds>>

Next == \/ \E c \in Clients : Call(c)
        \/ Calls \/ Sync \/ Finish
        \/ \E task \in {"evict", "flush"} : JanitorTick(task)
        \/ ExpireByTTL \/ Janitor \/ \E k \in Keys : Evict(k)
        \/ Take \/ Put
        \/ Start \/ Restore \/ Opened \/ Begin \/ Closer
        \/ Exit \/ Fatal \/ Panic \/ Crash \/ Tick

Spec == Init /\ [][Next]_vars

\* Goroutines that have something to do go on; nobody has to call anything.
FairSpec == /\ Spec
            /\ \A t \in Clients : WF_vars(InRam(t) \/ Log(t)) /\ SF_vars(ColdDelete(t))
            /\ WF_vars(Finish) /\ WF_vars(Closer) /\ WF_vars(Janitor)

-------------------------------------------------------------------------------
(* Properties *)

Item == [val : Nat, exp : Nat]
Index == [Keys -> Item \cup {None}]
Record == [key : Keys, val : Nat \cup {None}, exp : Nat]
CallState == [at : {"idle", "ram", "cold", "log"}, key : Keys \cup {None},
              val : Nat \cup {None}, ttl : Nat, exp : Nat]

\* The stores, the journal and the files hold items and records, the channel no more
\* than it has room for; what is synced is in the journal.
TypeOK ==
  /\ kind \in {"embedded", "command"} /\ now \in Nat
  /\ log \in Seq(Record) /\ safe \in 0..Len(log)
  /\ jpc \in {"off", "running", "stopping", "done"}
  /\ ram \in Index /\ cold \in Index
  /\ flushCh \in Seq([key : Keys, val : Nat, exp : Nat]) /\ Len(flushCh) <= FlushCap
  /\ closed \in BOOLEAN /\ hand \in [key : Keys, val : Nat, exp : Nat] \cup {None}
  /\ gob \in Index \cup {None, Torn} /\ tmp \in Index \cup {None, Torn}
  /\ fh \in [Flushers -> {None, "tmp", "gob"}]
  /\ fpc \in [Flushers -> {"idle", "create", "write", "rename"}]
  /\ jan \in {"off", "idle", "evict", "flush"} /\ jstop \in BOOLEAN
  /\ pc \in {"down", "replay", "up", "shutdown", "stopJanitor", "closeChan", "flush",
             "closeLog", "wait", "closed"}
  /\ boot \in Seq(Record) /\ pos \in 0..Len(boot)
  /\ call \in [Threads -> CallState]
  /\ \A t \in Threads : call[t].at # "idle" => call[t].key \in Keys
  /\ owed \in [Keys -> Nat \cup {None, Any}]
  /\ bounds \in [ops : Nat, starts : Nat, crashes : Nat]

\* what GET answers
Served(k) == IF ram[k] # None /\ ~Expired(ram[k].exp) THEN ram[k].val
             ELSE IF cold[k] # None THEN cold[k].val ELSE None

\* The journal alone decides what Open brings back: "data is restored from the
\* journal" (imcs.go:39), whatever cold.gob holds of older, newer or deleted
\* values, whether it is torn or missing, and whichever tasks of the janitor run
\* meanwhile.  Keys whose last value has an expiry time that has come are left out.
Unexpired(r) == r.exp = 0 \/ r.exp > now
RestoredIsLast == Restored => \A k \in Keys :
  LET r == LastRecord(boot, k) IN Unexpired(r) => Served(k) = r.val

\* A key whose last SET has expired does not come back with an older value.
ExpiredIsGone == Restored => \A k \in Keys :
  LET r == LastRecord(boot, k) IN Expired(r.exp) => Served(k) \in {None, r.val}

\* What had been answered when the end began is there after the next start:
\* "graceful shutdown - correct termination on SIGINT/SIGTERM" (README.md:34)
GracefulKeeps == Restored => \A k \in Keys : owed[k] \in {Any, Served(k)}

\* So it is for DB.Close, which "flushes the data to disk and closes the journal"
\* (imcs.go:254): unless it panics its order leaves nothing behind in RAM, in the
\* channel or in a worker's hands, while clients go on calling.
CloseKeeps == kind = "embedded" => GracefulKeeps

\* Close "stops the janitor" (imcs.go:254) before it closes the channel that EvictCold
\* sends on.
NeverPanics == [][~Panic]_vars

\* Close comes to an end although it waits for the writer and for whoever holds
\* the cold store's lock, and a call that is under way beside it returns.
CloseReturns == Closing ~> pc \in {"closed", "down"}
CallsReturn == \A t \in Clients : call[t].at # "idle" ~> call[t].at = "idle"
===============================================================================
