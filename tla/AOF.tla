----------------------------------- MODULE AOF -----------------------------------
(***************************************************************************)
(* The append-only journal of internal/persistence/AOF (write.go, read.go) *)
(* with the life of the process around it: NewAOF and Read at start, the   *)
(* records that clients write, Close, and a crash at any moment.  The      *)
(* callback of Read is that of imcs.OpenWithOptions, which calls cache.Set *)
(* for every record and so writes the record to the journal once more.     *)
(* Rewrite (rewrite.go) replaces the file by one that begins with a        *)
(* snapshot of RAM while the writer goes on.                               *)
(*                                                                         *)
(* A record is Size pieces of bytes.  The last piece carries the newline,  *)
(* alone or with the end of the text.  What a write or a crash cuts, it    *)
(* cuts between two pieces; the CRC tells a whole text from any other.     *)
(* All records set one key, the hardest case: the last one decides.        *)
(***************************************************************************)
EXTENDS Integers, Sequences, FiniteSets, FiniteSetsExt

CONSTANTS Size,          \* pieces of a record
          NewlineAlone,  \* the last piece of a record is nothing but the newline
          ChanCap,       \* channelSize
          BufSize,       \* writeBufSize, in pieces
          ReadSize,      \* buffer of the Scanner, in pieces
          Calm,          \* no client writes, and no record is under way, from TakeBuffer to Replace
          MaxWrites,     \* bound: records the clients write
          MaxRewrites,   \* bound: calls of Rewrite
          MaxStarts,     \* bound: times the process is started
          MaxCrashes     \* bound: times it is killed or the power fails

ASSUME AOFAssumptions ==
  /\ {Size, ChanCap, BufSize, ReadSize} \subseteq Nat \ {0}
  /\ {NewlineAlone, Calm} \subseteq BOOLEAN /\ (NewlineAlone => Size > 1)
  /\ {MaxWrites, MaxRewrites, MaxStarts, MaxCrashes} \subseteq Nat

VARIABLES disk,     \* the file: its pieces
          synced,   \* how many of them fsync has made safe
          off,      \* the offset of the file descriptor, which reader and writer share
          mu,       \* who holds a.mu
          ch,       \* writeCh
          buf,      \* the bufio.Writer's buffer
          wpc,      \* where backgroundWriter is
          stopped,  \* stopCh is closed
          rpc,      \* where the process is: not running, in Read, serving, in Close
          rbuf,     \* the Scanner's buffer
          eof,      \* the Scanner has met the end of the file
          valid,    \* lastValidPos
          ram,      \* the value of the key in RAM, 0 for none
          wrote,    \* the value last written; every write has a greater one
          mark,     \* ram when Close was called
          owed,     \* the newest value that is on disk for certain
          dup,         \* the record processEntry may have to duplicate, 0 for none
          rewriteBuf,  \* records that came during a rewrite
          tmp,         \* journal.aof.rewrite: its pieces
          rw,          \* where Rewrite is
          starts, crashes, rewrites

file == <<disk, synced, off>>
writer == <<ch, buf, wpc>>
reader == <<rbuf, eof, valid>>
rewrite == <<dup, rewriteBuf, tmp, rw>>
bounds == <<starts, crashes, rewrites>>
vars == <<disk, synced, off, mu, ch, buf, wpc, stopped, rpc, rbuf, eof, valid,
          ram, wrote, mark, owed, dup, rewriteBuf, tmp, rw, starts, crashes, rewrites>>

Values == 1..MaxWrites

Pieces(v) == [i \in 1..Size |-> [val |-> v, n |-> i]]

\* the records of several values, one after the other
Recorded(s) == [i \in 1..(Size * Len(s)) |-> [val |-> s[(i - 1) \div Size + 1],
                                             n |-> ((i - 1) % Size) + 1]]

\* what the Scanner returns for a record: the newline is stripped
Text(v) == IF NewlineAlone THEN SubSeq(Pieces(v), 1, Size - 1) ELSE Pieces(v)
ThisLine(v, line) == line \in {Pieces(v), Text(v)}
EndsLine(p) == p.n = Size

Init == /\ disk = <<>> /\ synced = 0 /\ off = 0 /\ mu = "free"
        /\ ch = <<>> /\ buf = <<>> /\ wpc = "done" /\ stopped = FALSE
        /\ rpc = "down" /\ rbuf = <<>> /\ eof = FALSE /\ valid = 0
        /\ ram = 0 /\ wrote = 0 /\ mark = 0 /\ owed = 0
        /\ dup = 0 /\ rewriteBuf = <<>> /\ tmp = <<>> /\ rw = "off"
        /\ starts = 0 /\ crashes = 0 /\ rewrites = 0

-------------------------------------------------------------------------------
(* backgroundWriter *)

\* BUG: what does not fit stays in the buffer
SpiltNever(p) == <<>>

\* BUG: a record that does not fit is given to the file at once, ahead of the buffer
SpiltAhead(p) == IF Len(buf) + Len(p) <= BufSize THEN <<>> ELSE p

\* what wr.Write gives the file and what stays in the buffer when p is written
Spilt(p) == IF Len(buf) + Len(p) <= BufSize THEN <<>>
            ELSE IF buf = <<>> THEN p
            ELSE LET fill == BufSize - Len(buf)
                     rest == Len(p) - fill
                 IN buf \o SubSeq(p, 1, IF rest > BufSize THEN Len(p) ELSE fill)

\* file.Write, with O_APPEND: it leaves the shared offset at the end
WriteFile(s) == /\ disk' = disk \o s
                /\ off' = IF s = <<>> THEN off ELSE Len(disk')

\* new records go to rewriteBuf too
Rewriting == rw \in {"snapshot", "take"}

\* one record from the channel to the buffer
ProcessEntry == LET p == Pieces(Head(ch)) IN
                /\ ch # <<>> /\ dup = 0
                /\ ch' = Tail(ch)
                /\ dup' = Head(ch)
                /\ WriteFile(Spilt(p))
                /\ buf' = SubSeq(buf \o p, Len(Spilt(p)) + 1, Len(buf \o p))
                /\ UNCHANGED <<synced, mu, stopped, rpc, reader, ram, wrote, mark, owed,
                               rewriteBuf, tmp, rw, bounds>>

\* the end of processEntry: a.rewriting is looked at
Duplicate == /\ dup # 0
             /\ dup' = 0
             /\ rewriteBuf' = IF Rewriting THEN Append(rewriteBuf, dup) ELSE rewriteBuf
             /\ UNCHANGED <<file, mu, writer, stopped, rpc, reader, ram, wrote, mark, owed,
                            tmp, rw, bounds>>

Receive == wpc = "select" /\ ProcessEntry /\ wpc' = "drain"

Drain == /\ wpc = "drain"
         /\ \/ ProcessEntry /\ UNCHANGED wpc
            \/ /\ ch = <<>> /\ dup = 0 /\ wpc' = "select"
               /\ UNCHANGED <<file, mu, ch, buf, stopped, rpc, reader, ram, wrote, mark, owed, rewrite, bounds>>

\* the ticker fires, and the lock is waited for
TickerFires == /\ wpc = "select"
               /\ wpc' = "lock"
               /\ UNCHANGED <<file, mu, ch, buf, stopped, rpc, reader, ram, wrote, mark, owed, rewrite, bounds>>

FlushBuf(next) == /\ WriteFile(buf)
                  /\ buf' = <<>>
                  /\ wpc' = next
                  /\ UNCHANGED <<synced, ch, stopped, rpc, reader, ram, wrote, mark, owed, rewrite, bounds>>

\* BUG: the ticker syncs without flushing the bufio.Writer
TickFlushForgotten == /\ wpc = "lock" /\ mu = "free" /\ mu' = "writer"
                      /\ wpc' = "sync"
                      /\ UNCHANGED <<file, ch, buf, stopped, rpc, reader, ram, wrote, mark, owed, rewrite, bounds>>

TickFlush == wpc = "lock" /\ mu = "free" /\ mu' = "writer" /\ FlushBuf("sync")

\* the newest record that is whole in a string of pieces
NewestIn(s) == Max({0} \cup {v \in Values :
                 \E i \in 0..(Len(s) - Size) : SubSeq(s, i + 1, i + Size) = Pieces(v)})

SyncFile == /\ synced' = Len(disk)
            /\ owed' = Max({owed, NewestIn(disk)})
            /\ UNCHANGED <<disk, off, ch, buf, stopped, rpc, reader, ram, wrote, mark, rewrite, bounds>>

\* BUG: the lock is not released
TickSyncKeepsLock == wpc = "sync" /\ wpc' = "select" /\ UNCHANGED mu /\ SyncFile

TickSync == wpc = "sync" /\ wpc' = "select" /\ mu' = "free" /\ SyncFile

Stop == /\ wpc = "select" /\ stopped
        /\ wpc' = "final"
        /\ UNCHANGED <<file, mu, ch, buf, stopped, rpc, reader, ram, wrote, mark, owed, rewrite, bounds>>

\* BUG: what is still in the channel is left there
FinalFlushAtOnce == wpc = "final" /\ UNCHANGED mu /\ FlushBuf("finalSync")

\* the last drain, flush and fsync, without the lock
FinalDrain == wpc = "final" /\ ProcessEntry /\ UNCHANGED wpc
FinalFlush == wpc = "final" /\ ch = <<>> /\ dup = 0 /\ UNCHANGED mu /\ FlushBuf("finalSync")
FinalSync == wpc = "finalSync" /\ wpc' = "done" /\ UNCHANGED mu /\ SyncFile

BackgroundWriter == \/ Duplicate \/ Receive \/ Drain \/ TickerFires \/ TickFlush \/ TickSync
                    \/ Stop \/ FinalDrain \/ FinalFlush \/ FinalSync

-------------------------------------------------------------------------------
(* Read, called by the goroutine that opens the database *)

\* NewAOF: the file is opened and backgroundWriter started
Start == /\ rpc = "down" /\ starts < MaxStarts
         /\ starts' = starts + 1
         /\ rpc' = "open" /\ wpc' = "select"
         /\ stopped' = FALSE /\ off' = 0 /\ ram' = 0
         /\ UNCHANGED <<disk, synced, mu, ch, buf, reader, wrote, mark, owed,
                        rewrite, crashes, rewrites>>

ReadLock == /\ rpc = "open" /\ mu = "free"
            /\ mu' = "reader" /\ rpc' = "reading"
            /\ off' = 0 /\ rbuf' = <<>> /\ eof' = FALSE /\ valid' = 0
            /\ UNCHANGED <<disk, synced, writer, stopped, ram, wrote, mark, owed, rewrite, bounds>>

LineEnds == {i \in DOMAIN rbuf : EndsLine(rbuf[i])}
HasLine == LineEnds # {} \/ (eof /\ rbuf # <<>>)
LineLen == IF LineEnds # {} THEN Min(LineEnds) ELSE Len(rbuf)
Line == SubSeq(rbuf, 1, LineLen)

\* the Scanner reads as much as its buffer has room for, and grows a full buffer
Fill == /\ rpc = "reading" /\ ~HasLine /\ ~eof
        /\ LET room == IF Len(rbuf) < ReadSize THEN ReadSize - Len(rbuf) ELSE ReadSize
               n == Min({room, Max({0, Len(disk) - off})})
           IN /\ rbuf' = rbuf \o SubSeq(disk, off + 1, off + n)
              /\ off' = off + n
              /\ eof' = (n = 0)
        /\ UNCHANGED <<disk, synced, mu, writer, stopped, rpc, valid, ram, wrote, mark, owed, rewrite, bounds>>

\* the callback: cache.Set, which waits until the channel has room for the record
Replay == /\ rpc = "reading" /\ HasLine
          /\ \E v \in Values :
               /\ ThisLine(v, Line)
               /\ ram' = v
               /\ Len(ch) < ChanCap /\ ch' = Append(ch, v)
          /\ rbuf' = SubSeq(rbuf, LineLen + 1, Len(rbuf))
          /\ valid' = valid + Size
          /\ UNCHANGED <<file, mu, buf, wpc, stopped, rpc, eof, wrote, mark, owed, rewrite, bounds>>

\* BUG: cuts the last valid record off as well
TruncateEarly == /\ rpc = "reading" /\ HasLine
                 /\ \A v \in Values : ~ThisLine(v, Line)
                 /\ disk' = SubSeq(disk, 1, valid - Size)
                 /\ synced' = Min({synced, Len(disk')})
                 /\ off' = Len(disk')
                 /\ rpc' = "up" /\ mu' = "free"
                 /\ UNCHANGED <<writer, stopped, reader, ram, wrote, mark, owed, rewrite, bounds>>

\* a line that is no record ends the reading: the file is cut after the last that was
Truncate == /\ rpc = "reading" /\ HasLine
            /\ \A v \in Values : ~ThisLine(v, Line)
            /\ disk' = SubSeq(disk, 1, valid)
            /\ synced' = Min({synced, Len(disk')})
            /\ off' = Len(disk')
            /\ rpc' = "up" /\ mu' = "free"
            /\ UNCHANGED <<writer, stopped, reader, ram, wrote, mark, owed, rewrite, bounds>>

ReadEnds == /\ rpc = "reading" /\ ~HasLine /\ eof
            /\ rpc' = "up" /\ mu' = "free"
            /\ UNCHANGED <<file, writer, stopped, reader, ram, wrote, mark, owed, rewrite, bounds>>

Reading == ReadLock \/ Fill \/ Replay \/ Truncate \/ ReadEnds

-------------------------------------------------------------------------------
(* Rewrite, called by some goroutine while the database is open, and not     *)
(* beside Close.  What is in tmp has no effect before the rename, so it is    *)
(* given to the file in the step that makes it up; if the process dies, the  *)
(* next Create truncates it.                                                 *)

Unhurt == <<mu, wpc, ch, dup, stopped, rpc, reader, ram, wrote, mark>>

StartRewrite == /\ rw = "off" /\ rpc = "up" /\ rewrites < MaxRewrites
                /\ rewrites' = rewrites + 1
                /\ rw' = "snapshot" /\ tmp' = <<>> /\ rewriteBuf' = <<>>
                /\ UNCHANGED <<file, buf, owed, Unhurt, starts, crashes>>

\* cache.Snapshot: one record for each live key
Snapshot == /\ rw = "snapshot"
            /\ rw' = "take"
            /\ tmp' = IF ram = 0 THEN <<>> ELSE Pieces(ram)
            /\ UNCHANGED <<file, buf, owed, Unhurt, rewriteBuf, bounds>>

\* BUG: the rewrite buffer is cleared, but not written
TakeBufferForgotten == /\ rw = "take"
                       /\ Calm => ch = <<>> /\ dup = 0
                       /\ rw' = "replace"
                       /\ rewriteBuf' = <<>>
                       /\ UNCHANGED <<file, buf, owed, Unhurt, tmp, bounds>>

\* From now on new records go to the old file only.
TakeBuffer == /\ rw = "take"
              /\ Calm => ch = <<>> /\ dup = 0
              /\ rw' = "replace"
              /\ tmp' = tmp \o Recorded(rewriteBuf)
              /\ rewriteBuf' = <<>>
              /\ UNCHANGED <<file, buf, owed, Unhurt, bounds>>

\* under a.mu: the old file gets the rest of its buffer and a last fsync and is
\* replaced by tmp, which has been synced before; a new descriptor, a new buffer
Replace == /\ rw = "replace" /\ mu = "free"
           /\ rw' = "off"
           /\ owed' = Max({owed, NewestIn(disk \o buf), NewestIn(tmp)})
           /\ disk' = tmp /\ synced' = Len(tmp) /\ off' = 0
           /\ buf' = <<>> /\ tmp' = <<>>
           /\ UNCHANGED <<Unhurt, rewriteBuf, bounds>>

Rewrite == StartRewrite \/ Snapshot \/ TakeBuffer \/ Replace
Paused == Calm /\ rw = "replace"

-------------------------------------------------------------------------------
(* The clients, Close, and the end of the process *)

\* cache.Set by a client, which does not know whether Close has been called; once
\* stopCh is closed Write may take either branch of its select
Write == /\ rpc \in {"up", "closing"} /\ wrote < MaxWrites /\ ~Paused
         /\ wrote' = wrote + 1
         /\ ram' = wrote'
         /\ \/ Len(ch) < ChanCap /\ ch' = Append(ch, wrote')
            \/ stopped /\ UNCHANGED ch
         /\ UNCHANGED <<file, mu, buf, wpc, stopped, rpc, reader, mark, owed, rewrite, bounds>>

Close == /\ rpc = "up" /\ rw = "off"
         /\ rpc' = "closing" /\ stopped' = TRUE
         /\ mark' = ram
         /\ UNCHANGED <<file, mu, writer, reader, ram, wrote, owed, rewrite, bounds>>

\* the process is gone, and with it all it had in memory
Gone == /\ rpc' = "down" /\ mu' = "free" /\ wpc' = "done"
        /\ ch' = <<>> /\ buf' = <<>> /\ rbuf' = <<>>
        /\ stopped' = FALSE /\ ram' = 0 /\ eof' = FALSE /\ valid' = 0 /\ off' = 0
        /\ dup' = 0 /\ rewriteBuf' = <<>> /\ tmp' = <<>> /\ rw' = "off"
        /\ UNCHANGED <<wrote, mark, starts, rewrites>>

Exit == /\ rpc = "closing" /\ wpc = "done"
        /\ Gone
        /\ owed' = Max({owed, mark})
        /\ UNCHANGED <<disk, synced, crashes>>

Crash == /\ rpc # "down" /\ crashes < MaxCrashes
         /\ crashes' = crashes + 1
         /\ Gone
         /\ UNCHANGED owed

\* the process is killed: what it had given to the file stays
Kill == Crash /\ UNCHANGED <<disk, synced>>

\* the power fails: of what was not synced a first part stays
PowerLoss == /\ Crash
             /\ \E n \in synced..Len(disk) : disk' = SubSeq(disk, 1, n) /\ synced' = n

Next == \/ BackgroundWriter \/ Reading \/ Rewrite
        \/ Start \/ Write \/ Close \/ Exit \/ Kill \/ PowerLoss

Spec == Init /\ [][Next]_vars

\* The two goroutines keep running; the select does not ignore the ticker for
\* ever, and a sync.Mutex lets nobody wait for ever.
FairSpec == /\ Spec
            /\ WF_vars(BackgroundWriter) /\ SF_vars(TickerFires) /\ SF_vars(TickFlush)
            /\ WF_vars(Reading) /\ SF_vars(ReadLock) /\ WF_vars(Exit)
            /\ WF_vars(Snapshot \/ TakeBuffer) /\ SF_vars(Replace)

-------------------------------------------------------------------------------
(* Properties *)

Piece == [val : Values, n : 1..Size]

\* The file, the channel and the buffers hold records and pieces of records, the
\* channel and the writer's buffer within their sizes; the offset is in the file.
TypeOK == /\ disk \in Seq(Piece) /\ synced \in 0..Len(disk) /\ off \in 0..Len(disk)
          /\ mu \in {"free", "reader", "writer"}
          /\ ch \in Seq(Values) /\ Len(ch) <= ChanCap
          /\ buf \in Seq(Piece) /\ Len(buf) <= BufSize
          /\ wpc \in {"select", "drain", "lock", "sync", "final", "finalSync", "done"}
          /\ rpc \in {"down", "open", "reading", "up", "closing"}
          /\ rbuf \in Seq(Piece) /\ {stopped, eof} \subseteq BOOLEAN /\ valid \in Nat
          /\ {ram, wrote, mark, owed} \subseteq {0} \cup Values
          /\ dup \in {0} \cup Values /\ rewriteBuf \in Seq(Values) /\ tmp \in Seq(Piece)
          /\ rw \in {"off", "snapshot", "take", "replace"}
          /\ starts \in 0..MaxStarts /\ crashes \in 0..MaxCrashes /\ rewrites \in 0..MaxRewrites

\* Once the database is open again it serves no older value than the newest that
\* had been synced, or accepted before a Close that ended: "data is not lost on
\* restart" (README.md:27).
NothingRewinds == rpc = "up" => ram >= owed

\* The whole records a string of pieces starts with.
Count(s) == Max({n \in 0..(Len(s) \div Size) : \A j \in 1..n :
                   \E v \in Values : SubSeq(s, (j - 1) * Size + 1, j * Size) = Pieces(v)})
Lines(s) == [j \in 1..Count(s) |-> s[j * Size].val]

\* The journal is a log of which only the end can be lost, and nothing that has
\* been synced, however the writer's buffer cuts the records it gives the file.
\* While a recovery is under way what it writes follows the last valid record.
Journal == INSTANCE DurableLog WITH
  Records <- Values,
  log <- IF rpc \in {"down", "open", "reading"} THEN Lines(disk) \o Lines(buf) \o ch
         ELSE Lines(disk \o buf) \o ch,
  safe <- Count(SubSeq(disk, 1, synced)),
  compacting <- rw = "replace"
JournalIsDurable == Journal!Spec

\* What is in the buffer is synced within a tick unless the process goes down
\* first.
Unsynced(v) == rpc = "up" /\ \E i \in DOMAIN buf : buf[i].val = v
BufferIsSynced == \A v \in Values : Unsynced(v) ~> owed >= v \/ rpc = "down"

\* "Read reads all the commands of the journal" (read.go:14): it comes to an end.
Opening == rpc \in {"open", "reading"}
RecoveryEnds == Opening ~> ~Opening
===============================================================================
