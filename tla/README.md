# IMCS: formal models

IMCS is an in-memory key-value store in Go with a Redis-compatible protocol, an
append-only journal (AOF) and a store for cold data. This directory holds TLA+
models of it, the TLC configurations that check them on small instances, and
proofs that TLAPS checks for every instance. Source paths are relative to
`src/`; line numbers are those of the commit the models were written from.

## The system

| component | state | operations | hard because |
|---|---|---|---|
| shard lock, `internal/storage/cache/types.go` | one 32-bit word per shard | RLock, RUnlock, Lock, Unlock | hand-written, unlocks are blind, everything else relies on it |
| cache in RAM, `cache.go`, `cache_ops.go`, `shard.go` | 64 maps of items, `totalKeys` | Set (NX), Get, Exists, Delete, IncrBy, Append, Expire, Persist, GetTTL, Strlen, MGet, MSet, Keys, FlushDB, Rename, Type | an operation is several critical sections, an atomic addition, a call of the cold store and a journal write, with gaps in between |
| limit and LRU eviction, `eviction.go:104` | `maxKeys` | evictLRU | samples under one lock, deletes under another, compares with a counter that lags |
| TTL, `heap.go`, `eviction.go:25`, `clock.go` | a heap per shard, a clock cached for a second | lazy expiry in Get, ExpireByTTL | two paths remove the same key |
| eviction to the cold store, `eviction.go:52`, `:147` | `flushCh`, batches of 4 workers | EvictCold, flushWorker | a key in the channel is in neither store |
| cold store, `internal/storage/cold` | an index in memory, `cold.gob` | Put, PutBatch, Get, Delete, Flush, load, FlushAll | written every 30 s, knows nothing of the journal |
| janitor, `internal/storage/janitor` | tickers | run, Stop | Stop does not wait |
| AOF writer, `internal/persistence/AOF/write.go` | `writeCh`, a bufio.Writer, the file | Write, backgroundWriter, Close | buffers and crashes cut records; a lock shared with recovery |
| AOF recovery, `read.go`, `imcs.go:70` | the Scanner, `lastValidPos` | Read, the replay callback | reads the file it is appending to |
| AOF rewrite, `rewrite.go` | `rewriting`, `rewriteBuf`, a second file | Rewrite | swaps the file under a running writer |
| database API, `imcs.go`; command, `cmd/imcs/main.go` | the parts above | Open, Close, ListenAndServe | order of start and stop |
| server, `internal/server` | a listener, a goroutine per connection with its reader and the AUTH flag | Listen, Shutdown, handleConnection, 32 commands, RESP parser and builders | commands arrive in pieces and pipelined; some handlers check and then act; times in 64 bits |
| `internal/command` | none | handlers of an older protocol | nothing imports it |

How they interact: a client goroutine (a connection, or a caller of the API)
calls the cache. The cache takes the lock of the key's shard, changes the map,
lets the lock go, adds to `totalKeys`, deletes the key from the cold store and
sends a record to the journal's channel. The journal's goroutine writes records
to a bufio buffer and, once a second, flushes and syncs it. The janitor's
goroutine goes through the shards to expire keys and to send idle ones through
`flushCh` to the workers, which store them in the cold index. At Open, Read
feeds every record of the journal to `cache.Set` and `cache.Delete`.

What makes each part correct:

- lock: readers and a writer are never inside together; somebody always gets in.
- cache: every operation takes effect at one instant; an expired key is never
  served; the counter never falls below the number of keys, since the limit is
  compared with it; a key has one home.
- eviction and cold store: no value is lost or doubled on its way, and what is
  deleted stays deleted.
- heap: it holds exactly the items with an expiry time, and each knows its place.
- journal: when nothing is under way it describes what RAM serves; only its end
  can be lost, and nothing that was synced; a rewrite changes nothing of what it
  says; recovery ends and yields the newest value that was safe.
- start and stop: the journal decides what comes back, whatever cold.gob holds;
  Close ends and loses nothing that was answered.
- server: a connection's commands are read as they were sent and each gets one
  whole reply; nothing is served without the password; a key lives as long as was
  asked for.

PROJECT.json lists the hazards behind these one by one, with the line where
each bites and the property that watches it.

## Modules

| module | models |
|---|---|
| `RWLock` | abstract: what a reader/writer lock promises |
| `SpinRWMutex` | the lock of `types.go`, one step per atomic instruction |
| `SpinRWMutexProofs` | the lock's theorems |
| `KVStore` | abstract: a map whose operations take effect at one instant |
| `Cache` | cache, counter, TTL, LRU, cold eviction, cold index, janitor, workers |
| `MCCache` | who calls what on which keys in each run, and state views |
| `CacheProofs` | the cache's theorems: types; the counter; in RAM it implements `KVStore` |
| `CacheStoresProofs` | what the journal and the cold store have of RAM's values |
| `TTLSet` | abstract: items with expiry times, the soonest of which are taken |
| `TTLHeap` | the heap of one shard with every item's `HeapIndex` |
| `MCTTLHeap` | its symmetry |
| `TTLHeapProofs` | its theorems; it implements `TTLSet` |
| `DurableLog` | abstract: a log of which only an unsynced end can be lost |
| `AOF` | journal writer, recovery, rewrite, and the life of the process |
| `AOFProofs` | the journal's theorems; it implements `DurableLog` |
| `AOFRestartProofs` | what a database serves when it is opened again |
| `Lifecycle` | Open, Close and `main` over journal, cold.gob, janitor, worker and clients |
| `LifecycleProofs` | its theorems |
| `RESP` | parser and reply builders, as operators |
| `Server` | connections, AUTH, every command on a shared cache |
| `MCServer` | what the clients of each run send |
| `ServerProofs` | theorems about parser, builders, cache and handlers together |

They lean on each other: `SpinRWMutex` makes a critical section one step, which
`Cache` and `TTLHeap` take for granted; `TTLHeap` implements the set that `Cache`
has for a heap; `Cache` gives the calls that `Server`'s handlers take as one step
and those that `Lifecycle` makes in three; `AOF` implements the log that
`Lifecycle` has for a journal.

### SpinRWMutex

`m` is the word, `pc` where each goroutine is, `seen` what RLock loaded. A load
and a compare-and-swap are separate steps, so a swap on an old value is possible.
`runtime.Gosched` has no effect on the state. The word does not wrap: it would
take 2^31 goroutines.

### Cache

`items` is the union of the 64 maps (`ShardOf` says which shard a key is in),
`totalKeys`, `cold`, `flushCh` and `journal` are the Go variables of these names
(`journal` is the sequence of records `persister.Write` accepted), `batch` and
`wpc` are the workers' locals, `jan` the janitor's, `req`, `loc`, `out` and `pc`
those of the client threads. `now` is `time.Now()`, `clk` the clock cached by
`clock.go`, which lags behind.

One step is one critical section of a shard lock or of the cold store's lock, one
operation on `totalKeys`, one channel operation, or one journal write. That is
the grain at which goroutines can interfere; the theorems about `SpinRWMutex`
justify it. So `Set` is up to ten steps:
`nx`, `room`, `limit`, `scan` (one per shard), `delVictim`, `subKey`,
`coldPut`, `set`, `addKey`, `coldDelete`, `log`, and any other goroutine may act
between two of them.

What is abstracted, and why it may be:

- Values are numerals, or `Empty` for a string that is not a number. IncrBy only
  tells these apart and Append concatenates (`Glue`). Numbers do not overflow
  within the bounds.
- A shard's heap is the set of its items with an expiry time; ExpireByTTL removes
  the soonest first, at most `MaxPerShard`. That the heap is that set is what
  `TTLHeap` checks.
- A map iteration that stops after n keys is any set of n keys.
- `EvictCold` treats a shard in one step, the sends included. A worker that
  receives while it is at it could let it send more than the channel holds;
  that is the behaviour of a larger channel.
- Rename reads two fields of an item without a lock: two steps, the second of
  which sees later changes of this item, wherever its key has gone meanwhile
  (`orphan`, `Detach`).
- IsExpired is evaluated in the step of the critical section it follows.
- A record's expiry time is computed when it is sent, from the TTL, as
  `buildEntry` does, and not when the item's is.
- MGet, MSet and DEL of several keys are sequences of calls. GetTTL, Strlen and Type
  read in one critical section each, Keys in one of each shard in turn; they are
  modelled with their commands in `Server`, Snapshot with the rewrite in `AOF`.

### AOF

`disk` is the file, of which fsync has made the first `synced` pieces safe; `off`
is the file offset, which the writer and the Scanner share because they share the
descriptor. `ch`, `buf` and `wpc` are `writeCh`, the bufio.Writer and
backgroundWriter; `rbuf`, `eof` and `valid` are Read's Scanner and
`lastValidPos`; `rpc` says what the opening goroutine is doing.

A record is `Size` pieces, the last of which carries the newline; the buffer, a
write and a crash cut between pieces. The CRC is modelled by what it does: a line
that is not the whole text of one record is no record. All records set the same
key, so the last one decides what is served, and each client write has a greater
value than the one before: `ram < owed` means that time has run backwards.
The replay's change of RAM and its send to the channel are one step that waits
for room in the channel.

Rewrite is four steps, between which the writer goes on: it raises the flag (`rw`),
takes the snapshot, takes `rewriteBuf` and lowers the flag, and, under `a.mu`,
flushes the old file, renames `tmp` over it and opens a new descriptor. `Recorded`
is a sequence of records as pieces. `dup` is
the record that processEntry has given to the buffer and has not yet compared with
the flag. Nothing in the repository calls Rewrite. `Calm` says that whoever does
keeps writers out from the moment the buffer is taken, which is what the listed
runs assume.

`owed` records what the program has promised: the newest value whose record was
whole in the file at an fsync, or the value served when Close was called, once
the process has gone through the whole of Close.

### TTLHeap

`exp` is the shard's map, as far as expiry times go, `heap.pq` the slice and
`heap.idx` every item's `HeapIndex`. `Up`, `Down`, `Fix`, `Remove` and `Pop` are
those of container/heap, step for step, because what can go wrong is that the four
methods it calls (`Less`, `Swap`, `Push`, `Pop` of `heap.go`) or the shard's code
around it leave an index behind. Each operation of `shard.go` that touches the
heap is one action; the keys are the items, since a key never has two.

### Lifecycle

`pc` is the goroutine that opens and closes: the caller of `OpenWithOptions` and
`Close` when `kind` is "embedded", main and the goroutine that waits for a signal
when it is "command". The two programs take the same steps in another order: the
command starts the janitor before the replay, shuts the listener before it stops
the janitor, and dies when `Listen` returns (`Fatal`). `boot` and `pos` are the
journal that Read found and how far it has come.

A call, of a client or of the replay, is three steps: the change of RAM, the delete
in the cold store, the record. `log` is the journal and `safe` how much of it is
synced, as `DurableLog` has it; after Close has stopped the writer a record may be
dropped. `gob` and `tmp` are cold.gob and its temporary file. Flush, by the
janitor and by Close, is create, encode (under the cold store's read lock) and
rename; both use one name for the temporary file, so `fh` follows the file each
has open, which the other's rename may move. A kill leaves cold.gob as it is,
a power failure may leave it torn, since it is never synced.

An idle key is one whose records are all synced and which nobody is writing
(`Aged`), and none is while the replay goes on: the threshold for eviction is five
minutes, the ticker of the journal one second. `owed` is what had been answered when Close or a signal began. The
worker takes batches of one.

### RESP and Server

A byte string is a sequence of symbols; digits, signs, space, CR and LF are one
symbol each, and so is the name of a command or an option, of which the code
compares nothing but the upper case. `ReadRESPCommand` says what the parser makes
of a prefix of the stream: a command and the rest, an error, that more is
needed, or that `make` cannot have the memory the prefix asks for. A count or a length
below 0 or beyond an int is an error and closes the connection (resp.go:46, :66). One
that an int can hold goes to `make` unlooked at (:55, :71), which panics or finds no
memory, and nothing recovers: `Exhaust` ends the server. `Memory` is what one `make`
can get. What a client sends is encoded by operators of its own and cut into
pieces, of one byte or all at once, and replies are taken apart by a reader
written from the protocol, not from the builders. So parser and builders are each
checked against something that does not come from them.

In `Server`, `inbuf` is the connection's bufio.Reader, `job` the command in
progress and `out` what has been written. Every handler is an action, with one step
for each call of the cache it makes, so that DEL, EXISTS, MGET, MSET and SET with XX
are several. A call that goes through several critical sections is several steps too:

- SETNX and SET with NX fix the expiry time, check, and then set;
- RENAME finds the item, reads its lifetime, removes the key, counts it down, sets
  the new key and counts it up. `gone` is the lifetime of an item that another
  connection or the janitor takes out of the map between the first two;
- KEYS and FLUSHDB take one shard after another, FLUSHDB then the counter.

Other connections and the janitor act between any two. What a call does to the map of one
shard and to the counter is otherwise one step, since nothing here depends on the gap, which
`Cache` has. `db` is
the cache without cold store and limit, a map of any strings that are set. TTL and PTTL
look at their first argument before anything else: without one the process ends (`Panic`).
`Wrap` keeps times and numbers in `W` bits;
`Second` and `Milli` are the factors seconds and milliseconds are multiplied with.

## Runs

`tlc -config X.cfg M`, where M is the module named by the first word of the file's
name, with `MC` in front of it for `Cache`, `TTLHeap` and `Server`.

### What holds

| configuration | question | bounds, and why they suffice |
|---|---|---|
| `SpinRWMutex_lock` | does the spin lock implement a reader/writer lock, and does somebody always get in? | 3 threads that lock and unlock for ever: two readers and a writer, or two writers and a reader, are every conflict the word can see |
| `Cache_linear` | does each operation on RAM take effect at one instant, and does the counter cover the keys? | 2 callers, 2 operations each of 8 kinds, 1 key, TTL 0 or 1, clock to 3, janitor. Lazy expiry's second look needs one caller that found the key expired and one that set it again |
| `Cache_journal` | does the journal describe RAM when nothing is under way? | 2 callers, 3 operations each; the first has a key of its own, writes the shared one and renames either way. A race on the shared key needs two writers, a stale read-back by APPEND a third operation |
| `Cache_lru` | is the last value in exactly one store, and is the count exact? | 1 caller, 5 operations, 3 keys, limit 2, so that two evictions and a promotion fit |
| `Cache_background` | is every expired key reclaimed, does everything evicted arrive? | 2 keys in the second of 2 shards, so that with 1 removal per shard and tick a due key is passed over; set with and without TTL, deleted or flushed; channel and batch of 2 so that a batch has two items, 2 workers, clock to 3 |
| `TTLHeap` | is the heap ordered and complete, and every index right? | 6 keys, up to symmetry: three levels, the least with which removing an item in the middle can move another up; 3 expiry times above and on each other, 2 removals per clean-up so that it is cut off |
| `AOF_writer` | what do the bufio buffer and a rewrite do to the log? | 4 records of 3 pieces, a buffer of 4, a channel of 2: every way of cutting a record occurs; 1 rewrite, 1 crash or power loss |
| `AOF_recovery` | does the second life serve what was promised, does a synced record stay, is a buffered one synced, does Read end? | 2 writes, one of which may fall into the 1 rewrite, 2 lives, 2 crashes, one of which may hit the recovery |
| `Lifecycle_restart` | does the second life serve what the journal says, does Close keep what was answered, does it end, and does every variable hold what it should? | both programs, 1 client with 2 calls (a value and another, or its deletion), 1 key, TTL or none, a clock that passes every expiry time once, 2 lives, the second up to the end of Read, 1 crash in either. A stale copy in cold.gob needs a value, an eviction, a flush and a second call |
| `Server` | are commands read as sent, each answered by one whole reply, nothing before AUTH, and do keys live as long as asked? | 11 pairs of scripts of up to 13 commands, which between them have every command and every error, counts and lengths beyond an int and beyond memory among them; where reading is at stake one client sends byte by byte. Values contain line ends and `$`. RENAME of a key with a lifetime meets PEXPIRE, INCR and FLUSHALL of the other client. 2 keys in 2 shards. Numbers of 8 bits, a second is 2 units, clock to 4, twice the longest a key lives in most scripts, so that it can expire at any step after it is set |

The passing runs keep to cases in which the code does what it promises, and that
is what their bounds mean:

- `OwnKeysAgree` is `JournalAgrees` for keys on which one client calls. It has no
  TTLs, since EXPIRE and PERSIST write no record, and no FLUSHDB.
- `ExpiredReclaimed` is about every key; `InFlightReachesCold` asks nothing of a key that is
  deleted, flushed or set again while it is on its way (`Overruled`): that a flushed key
  should come back in the cold store nobody promises, and that it may is a fault
  (`Cache_cold_delete`).
- `CountIsExact` has one caller and no TTLs: lazy expiry does not count down.
- `CountCoversKeys` has no RENAME, which subtracts without asking whether there
  was a key, and no FLUSHDB, which stores 0 over additions under way.
- `NothingLost` and `OneHome` have one caller and no channel (`Cache_lru_race` has two callers).
- `AOF_recovery` has buffers larger than the journal, a channel with room for it,
  two lives, and a newline that is not torn off alone; `Calm` keeps writers out of
  the window of the rewrite.
- `RestoredIsLast` is about keys whose last record has not expired. `CloseKeeps` is
  about the embedded database, about calls that had been answered without TTL, and
  about lives that do not panic.
- `LifetimesAsAsked` has lifetimes from 1 up to what fits the width, except in SETEX with 0
  and in EXPIRE with an argument that does not even fit an int, which are refused. SET takes
  EX and PX of 0 or less and gives no lifetime at all (`Server_exzero`). RENAME is held to
  the lifetime of the item it has found and not to a later one (`Server_rename`).

Each of these limits has a counterexample behind it in one of the two lists below.

`Cache_count.cfg` passes too and checks `TypeOK` and `CountCoversKeys` where LRU
eviction, the cold store and both tickers of the janitor take part; it is the
larger companion of what is proved (`CountCovered`) and of `Cache_linear`.

### What does not hold

Two runs that TLC refutes are listed in PROJECT.json as findings, with the line
of the source that says otherwise.

| configuration | property | what happens |
|---|---|---|
| `Cache_setnx_race` | `NXNeverOverwrites` | two SETNX both set the key: check and set are two critical sections |
| `Lifecycle_exit` | `GracefulKeeps` | a signal closes the listener, `Listen` returns, main ends with `log.Fatal`, and what was answered in the last second is not yet on disk |

More configurations have a counterexample each:

| configuration | property | what happens, and what it contradicts |
|---|---|---|
| `SpinRWMutex_starvation` | `WriterGetsIn` | overlapping readers keep a writer out for ever; README.md:270 names `sync.RWMutex`, whose waiting writers hold new readers back |
| `Cache_counter_restart` | `JournalAgrees` | two INCR answer 1 and 2, their records arrive as 2, 1, a restart yields 1 |
| `Cache_cold_delete` | `DeletedIsGone` | a key deleted while it is in the channel reaches the cold store afterwards |
| `Cache_lru_race` | `NothingLost` | one client evicts a key that another has just set, before the other deletes the copy of it in the cold store: the value is in neither |
| `Cache_persist_restart` | `EternalIsKept` | PERSIST is not journaled, so the key expires at the replay; imcs.go:169 says it makes a key eternal |
| `Cache_flush_restart` | `JournalAgrees` | FLUSHDB is not journaled, so everything comes back |
| `Cache_limit_incr` | `LimitHeld` | INCR goes beyond MaxKeys, "the maximum number of keys" (imcs.go:49) |
| `Cache_count_ttl` | `CountIsExact` | lazy expiry does not count down; cache.go:128 says CountKeys is the number of keys in RAM |
| `Cache_cold_ttl` | `TTLKept` | a key promoted from the cold store has lost its TTL |
| `Cache_cold_incr` | `IncrAdds` | INCR of a counter in the cold store starts from zero; cache_ops.go:64 says it adds to the key's value |
| `AOF_jump` | `NothingRewinds` | an append during Read moves the shared offset; valid records are truncated |
| `AOF_rewind` | `NothingRewinds` | a crash while replayed records are being written back leaves an old value last, which the third life serves |
| `AOF_newline` | `NothingRewinds` | a last line without newline is taken as valid and the next record is glued to it |
| `AOF_stuck` | `RecoveryEnds` | more records than the channel holds: Read waits for room in it and the writer for Read's lock |
| `AOF_window` | `NothingRewinds` | without `Calm`: a record that comes between the copy of the rewrite buffer and the rename is in the old file only |
| `Lifecycle_panic` | `NeverPanics` | Stop does not wait for the janitor, whose EvictCold sends on the channel that Close has closed |
| `Lifecycle_revival` | `ExpiredIsGone` | a SET with a TTL that has passed is skipped at the replay, so the value before it is served |
| `Server_del` | `CountedIsDeleted` | two DEL of one key both count it: check and delete are two calls |
| `Server_xx` | `XXKeepsToExisting` | SET XX sets a key that was deleted after the check; README.md:178 says only if the key exists |
| `Server_overflow` | `LifetimesAsAsked` | EX with more seconds than fit 64 bits of nanoseconds: the product is negative and the key never expires; README.md:175 has EX as the lifetime in seconds |
| `Server_exzero` | `LifetimesAsAsked` | EX 0 and negative lifetimes are accepted (handlers.go:111) and taken for none (cache.go:53): the key never expires; README.md:175 has EX as the lifetime in seconds |
| `Server_rename` | `RenameKeepsLifetime` | an EXPIRE that comes between RENAME's look at the lifetime and its removal of the key is answered 1 and lost |
| `Server_ttl` | `TTLIsPositive` | in its last second a key has TTL 0; the README lists a positive number, -1 and -2 |

Deadlock is not checked except for the lock: callers stop after `MaxOps` or at the
end of their script, the clock at `MaxTime`, the process after `MaxStarts`, and
then nothing is left to do. `RecoveryEnds`, `InFlightReachesCold`, `CloseReturns`
and `CallsReturn` say that nobody gets stuck earlier, and `EachAnswered` that a
connection that waits has answered everything.

Some runs use a VIEW that leaves out variables no guard and no property of that
run looks at: `RamView` the journal, access times and the parts that are off;
`CountView` the values and the journal; `NoJournal` the journal and the answers.

### Fairness

- SpinRWMutex: a goroutine that has started an operation takes its steps (the Go
  scheduler is preemptive). Nobody has to start one.
- Cache: the client threads, the workers and the janitor's task go on. The
  janitor's tickers fire again and again: strong fairness, because select picks
  at random among the channels that are ready. The clock need not advance.
- Lifecycle: clients' calls, the writer's last flush, Close and the janitor go on;
  strong fairness where a call waits for the cold store's lock, for the reason
  given for `a.mu` below. Tickers need not fire and nobody has to call Close.
- TTLHeap and Server have none. `EachAnswered` is the safety half of "every command
  is answered": that a connection's goroutine runs on is left to the scheduler.
- AOF: backgroundWriter and Read go on; strong fairness of the ticker for the same
  reason, and of the two waits for `a.mu`, since a sync.Mutex hands itself to a
  waiter that has waited for a millisecond; a rewrite that has begun goes on, and
  gets the lock likewise. Clients need not write and nobody has
  to call Close. The number of writes is bounded, so the drain loop ends: that it
  need not under a load that never pauses is not covered.

## Proofs

Every theorem is about the specification that the runs check, and what it needs of the
constants it names in its hypothesis. The proofs have one form: an inductive invariant,
that the initial states have it, that every action keeps it, and that it implies what is
claimed; for a refinement, also that each step is a step of the abstract module or leaves
its variables alone.

### Lock (`SpinRWMutexProofs`)

For any finite set of threads. The inductive invariant is `TypeOK`, that the word is the
number of readers, or -1 and a single writer (`WordCountsHolders`), that no two threads
exclude each other (`Exclusion`), and that a reader about to swap has never loaded a
writer's -1 (`SeenFree`). With the word exact the blind unlocks are exact. From it
`TypesHold`, `WordIsExact`, `MutualExclusion`, and `Refinement` of `RWLock`. The only
assumption is that `Threads` is finite, so that readers can be counted.

### Cache

All for any keys, clients, workers, shards and sizes.

- `CacheProofs!TypeCorrect`: besides `TypeOK` the inductive invariant `IInv` types the
  request of each thread by its position (`CallsOK`): a request is a record of the right
  kind exactly when the thread is inside a call, and the locals a later step uses have
  been set by an earlier one. The other cache modules build on it.
- `CacheProofs!CountCovered`: the counter never falls below the number of keys once
  additions and subtractions under way are counted in, where nobody calls RENAME or
  FLUSHDB. The proof needs how each step changes the three cardinalities.
- `CacheProofs!CountExact`: the counter is exact when no call is under way, under
  `OneByOne`: no RENAME (it subtracts without asking whether there was a key), no
  FLUSHDB (it stores 0 over additions under way), no times to live (lazy expiry takes a
  key away and does not count it down), and with a cold store one client per key (two
  that promote the same key both count it). `Cache_count_ttl` is the counterexample
  for the third.
- `CacheProofs!RamIsLinearizable`: under `RamOnly` (SET, GET, EXISTS, DEL, INCR,
  APPEND, EXPIRE, PERSIST, with the janitor's expiry; no cold store, no limit) the cache
  implements `KVStore`. Each call has one step that takes effect, and the invariant says
  which: a call has its answer exactly from that step onwards (`AnswersOK`). For Get that
  is either of its two critical sections, the second of which looks again at what the
  first found expired. `ClockOK` says that the time the janitor works with is not in the
  future, so that what it removes has expired in `KVStore` too. SETNX, RENAME and FLUSHDB
  are several steps and not atomic (`Cache_setnx_race`).
- `CacheStoresProofs!RamStaysJournaled`: without a cold store, what RAM serves is in some
  record. A record is sent after the shard lock has been let go, so the invariant
  (`WriteRecorded`) is that what is in RAM is recorded or owed by a thread on its way to
  the journal. With a cold store this is false: APPEND logs what it reads back, and if the
  key has been evicted in between, that is nothing.
- `CacheStoresProofs!OwnKeysStayDurable`: under `NothingForgotten` (no cold store, no
  limit, no times to live, no FLUSHDB) a restart would restore of a key that only one client
  calls on exactly what RAM serves. The invariant (`OwnKeysFit`) says for each position of
  that client what the last record of the key is (`LastIs`) next to what RAM has: equal,
  or one step apart, or, inside RENAME, two records apart. The exclusions are what is not
  journaled: eviction, expiry, EXPIRE and FLUSHDB (`Cache_flush_restart`,
  `Cache_persist_restart`); a second client can swap two records (`Cache_counter_restart`).
- `CacheStoresProofs!EachHasOneHome`, for one client and no ticker for eviction: a key in RAM
  has no copy in the cold store, times to live, NX and FLUSHDB included. Between the steps
  of Set, promotion and evictLRU there are two copies or none, and the invariant (`Settled`)
  says at which steps, and of which key. With two clients it is false: evictLRU has taken
  its victim out of RAM, another client sets the same key and deletes it from the cold
  store, and then the victim is put there.
- `CacheStoresProofs!EvictionLosesNothing`, for one client whose keys do not expire: what RAM
  or else the cold store has of a key is its last value. `Held` says this for every step:
  the stores have what the journal says last, or the record is still to come
  (`Unrecorded`), or the value is in the client's hands on its way to the cold store
  (`Carried`); `Noted` says that what the client has seen still holds when it acts on it.
  INCR, APPEND and RENAME are excluded because they look in RAM only (`Cache_cold_incr`),
  the ticker because a value in `flushCh` is in neither store (`Cache_cold_delete`).

### Journal (`AOFProofs`)

For records, channel, bufio buffer and Scanner of any size, any number of writes, lives,
crashes and rewrites.

- `TypesHold`. The invariant `TInv` adds to `TypeOK` who holds `a.mu` when, and that Read
  stays inside the file: `lastValidPos` and what the Scanner holds end at its offset,
  so that Truncate never makes the file longer.
- `JournalDurable`: the journal implements `DurableLog`. The buffer cuts records anywhere, and
  so do a kill and a loss of power; the proof is that nevertheless the file always is a
  string of records cut once, at its end, and that the log begins with those that are whole
  (`LogShape`). The invariant `JInv` says, by the phases of the process, how the parts fit:
  before Read nothing is under way (`Closed`); while Read is at it the records that have
  come back are in the buffer in their order, and the Scanner stands at the end of a record
  (`Recovering`, with `Back` and `Scanned`); afterwards file and buffer together are whole
  records, the last of them or of the channel is what RAM serves, and a rewrite under way
  has it (`Serving`, with `Holds`); what a rewrite has gathered ends with what RAM serves,
  or will (`Rewritten`). That is what makes the replacement of the file a `Compact`.
- It holds of every behaviour that keeps clear of three things, which its hypotheses name and
  the code lets happen: a record is on its way between the copy of a rewrite and the rename
  (`CopyIsLast`; `AOF_window`); a file is read that lacks nothing but its last newline, as a
  buffer or a crash may leave it (`NewlineKept`; `AOF_newline`); a file is read that is longer
  than the bufio buffer (`FileFits`; `AOF_jump`). From the last and `Counted`, that every record
  Read has taken is still in the channel or the buffer, follows that the replay writes
  nothing to the file it reads. They are conditions on behaviours and not on constants, so that
  the theorem speaks of runs of any length up to the first of the three.
- `FirstLifeDurable`: in the first life nothing is read, so that `FileFits` and `NewlineKept` hold
  by themselves; what is left of the hypotheses is that a caller of Rewrite keeps writers out
  (`Calm`), from which `CopyIsLast` follows.

### What a second life serves (`AOFRestartProofs`)

`SecondLifeKeeps`: in behaviours as above (`CopyIsLast`, `NewlineKept`, `FileFits`)
`NothingRewinds` holds as long as the database has been opened no more than twice: what Read
hands on is neither older than what the first life had synced, nor, if that life was closed,
than what had been accepted by then. The invariant `RInv` adds to `JInv`:

- `Bounded`: nothing that is around, in the file, the buffer, the channel or a client's
  hands, is newer than the last write; once the database is open, nothing is newer than
  what RAM serves (`Newest`).
- `LogKept`, of the first life: wherever a crash may cut the log, anywhere from what is
  safe to its end, what is left ends with its greatest record, and with what is owed
  (`Peak`). A rewrite may replace the log, but by one that ends with the same.
- `CloseKept`: what Close accepted is in the log when Close begins, in the file after the
  last flush and synced after the last sync.
- `FileKept`, `ReadBack`: while the second life reads, the last whole record of the file is
  the one that is owed, and RAM has the last record that Read has passed.

It stops at two lives because the code does: the replay sends every record it reads to the
channel of the writer, which appends them behind the ones in the file. A crash in the middle
of that leaves an old record last, and the third life serves it (`AOF_rewind`).

### Heap (`TTLHeapProofs`)

For any items, lifetimes and limits: `PlacesKnown` (`IndexExact`), `OrderKept`
(`HeapOrdered`) and `HeapIsTTLSet`, the refinement of `TTLSet`. The inductive invariant says
that the heap holds exactly the items that have an expiry time, each where its index says,
in order. What a sift makes of a heap is the work of a recursive function, so the
module first proves, of any function that follows a successor through a set until it comes
to a stop, that it exists if a rank goes down with each turn (`LoopExists`), and that it
ends at a stop in any part of the set which the turns do not leave (`LoopEnds`). Both are
inductions over a set of numbers in place of a predicate. Then:

- `Swap`, `PushLast` and `PopLast` keep every index exact (`SwapExact`, `PushExact`,
  `PopExact`).
- `Up` is called on a heap that is in order but for one item (`Rising`), `Down` on one where
  that item may have to move either way (`Loose`); each turn moves the place that is out of
  order, and at a stop there is none. Down either leaves the heap in order or has not moved
  anything, which is why Fix and Remove may try Up after it (`DownOrders`, `SiftOrders`).
- From these come Push, Fix, Remove and Pop (`PushOrders`, `FixOrders`, `RemoveOrders`,
  `TopOrders`), that the top is the first to expire (`TopFirst`), and the rounds of
  ExpireByTTL (`RoundTakes`).

### Server (`ServerProofs`)

`RepliesAreFramed` (`RepliesFramed`), `AuthComesFirst` (`AuthFirst`), `CommandsAreParsedAsSent`
(`ParsedAsSent`) and `EachIsAnswered` (`EachAnswered`): for any clients and scripts, commands
in any form and none, any values, passwords, cuts of the stream, widths of numbers and memory.
Two assumptions, `ServerAssumptions` and `RESPAssumptions`, only say what these are. The last
two theorems need a third, `ClientsSpeakRESP`: that a line is made of words without space or LF, does not begin
like an array and does not end in CR, and that what is meant to be no command is not the head
of an array or of a bulk string that the server can read. A client that does otherwise has sent
other commands than it meant. Of arrays it asks that they fit `Memory` and nothing else: whatever
bytes the bulk strings hold, they are read as they are.

The invariant `Inv` types the buffers and the cache (`Typed`, with `Stored`), says that a RENAME
which has found its item and not read its lifetime finds that under its key or in `gone`
(`Held`, `Keeps`), and, for each
connection, ties what it has heard, has on hand and has written together (`Told`): what is
written is `Framed`, which means that it consists of whole replies; there is one for each
command heard but the one on hand, of its kind; and once there is a password, a connection
that is let in or has a command on hand has shown it before. The proof goes from below:

- Numerals: what FormatInt writes Atoi reads back (`NumeralReads`), for any number. Lines:
  where the first one ends, and that what follows changes nothing (`LineAt`, `LineExtends`).
- Whole replies. Each builder's text is read as one reply to its last byte (`SimpleWhole`,
  `ErrorWhole`, `IntWhole`, `BulkWhole`, `ArrayWhole`), whatever the value contains; a whole
  reply is still read as itself when others follow (`OneReplyExtends`), so that one more
  reply is one more for the reader (`FramedAppend`).
- The parser hands on texts, whatever it is given (`CommandTyped`); the calls of the cache
  leave a cache (`CallsStore`); SET's options are read to a reply or to numbers
  (`OptionsTyped`).
- Each handler replies with a whole reply of its command's kind, or gets on with the same
  command (`GETStep` to `UnknownStep`, together `CommandStep`); each step of a connection
  keeps `Told` (`ToldReply`, `ToldAtOnce`, `ToldRun`, `ToldGo`).

For reading, the second invariant, `Heeded` (`StreamsHeeded`), says of each connection that the
reader stands between two commands of the script (`Stood`): what it has heard is what the
commands before mean, none of them was bad, and what it holds, followed by the pieces that
have not arrived, is the encodings of the commands after, byte for byte. It does not say where
the pieces are cut, which is why it is kept when one arrives. It is kept when a command is
read, for two reasons:

- A command that is read from what has arrived is the one that would be read from the whole
  stream (`CommandExtends`): no cut makes another command of it. For an array that is an
  induction over its bulk strings (`MultireadsExtend`).
- From the encoding of a command and whatever follows it, its words are read, or an error
  (`CommandRead`). An array is read bulk string by bulk string (`ArrayRead`); a line's words
  are found by an induction over them, and within a word over its symbols (`WordRead`,
  `LineWords`).

When all has arrived and the reader still waits, there is no command left, so that all of
them have been heard; `Inv` says that as many replies have been written. TLC cannot evaluate
`Heeded`, which speaks of functions that exist; it checks what follows from it.

The recursive functions of `RESP` are reached by a lemma that a function exists which
follows a smaller argument at each turn (`RecursionExists`), by induction over a set.

### Start and stop (`LifecycleProofs`)

For both programs, any keys, clients, lifetimes and bounds: `TypesHold`,
`RestoreIsFaithful` (`RestoredIsLast`) and `CloseIsDurable` (`CloseKeeps`). The inductive
invariant has these parts:

- `Control`: which goroutines may be at what while the opening goroutine is where it is;
  before and during the replay nobody calls and nothing is on its way to the cold store.
- `RamRecorded`: while the journal's writer runs, a key in RAM has a record, or a call on
  it is under way.
- `ColdRecorded`: every key in the cold index, in `flushCh`, in the worker's hands, in
  cold.gob or in its temporary file has a record that is synced. So the replay comes past
  every key that a stale cold.gob brings back, and deletes its copy; without it a key could
  be served from cold.gob alone.
- `Replayed`, `Replaying`: of the records behind it the replay has left the last of each
  key in RAM and nothing of it in the cold index, and of the one in progress as much as
  its step says, although the janitor expires keys and writes cold.gob meanwhile. That it
  evicts during the replay `Aged` rules out: a key is idle for five minutes first.
- `OwedIsLast`: what had been answered when Close began is the key's last record and stays
  it through the last flush and sync, the exit and the replay of the next life, of which
  `CloseKeeps` speaks.

A record's last position is found by induction over the naturals, which the provers get
through the well-foundedness of `<` and a set in place of a predicate.

### Left to TLC

- Liveness and fairness: `SomeoneGetsIt`, `RecoveryEnds`, `BufferIsSynced`, `CloseReturns`
  and the like. ENABLED and fairness are out of the provers' reach.
- `LifetimesAsAsked`, which does not hold of numbers too large for W bits, of which the
  scripts of the run keep clear.
- What is refuted (`GracefulKeeps`, `ExpiredIsGone`, `NeverPanics` and the others of the
  second list) is of course not proved.

## Plan

The order follows how much of what users rely on is at stake.

1. Done: lock, cache, journal and recovery; type correctness, exclusion, counter.
2. Done: rewrite of the journal, start and stop with cold.gob, the heap, the server
   with its handlers and the protocol.
3. Done: proofs of type correctness of `Lifecycle` and `AOF`, of the safety of `Lifecycle`,
   of the refinements of `KVStore` and `DurableLog`, of every safety property of
   `Cache` that a run checks, of `NothingRewinds` for the two lives it holds in, of the
   heap's order and indices and its refinement of `TTLSet`, and of every safety property
   of `Server` but `LifetimesAsAsked`.
4. Out of the provers' reach: liveness.

## Not modelled

- `internal/command`: nothing imports it. Tests and benchmarks. Flags, messages and
  logs; what INFO and CONFIG say beyond their form.
- In the journal: lines longer than 16 MB, records in the old format without CRC,
  keys and values with a bar or a line end in them, failed system calls. The data
  race between Rewrite, which flushes the bufio.Writer, and processEntry, which
  does not take `a.mu`, can only occur without `Calm`; the step is atomic there.
- In the cold store: the encoding of cold.gob, of which the models know whole, torn
  and missing; that FlushAll removes the file (no run has it and a restart).
- In the server: names of unknown commands with a line end in them, failed Accepts and
  writes. `ListenAndServe` of the embedded API makes a server without the password of its
  options (imcs.go:244); `Server` has the password as a parameter.
- Rename of a key that has just expired gives its journal record a TTL of zero or
  less, which means none; `Cache_journal` has no TTLs.
- Arithmetic of IncrBy wraps in 64 bits, as Go's does; `Server` has it in W bits and
  no property asks for more.
