---------------------------------- MODULE Server ----------------------------------
(***************************************************************************)
(* The TCP server of internal/server: one goroutine for each connection,   *)
(* which reads a command (RESP), checks the password, runs the handler of  *)
(* the command on the cache all connections share, and writes the reply.   *)
(* A handler takes one step for each call of the cache it makes, and a call *)
(* that goes through several critical sections one for each: Set with NX   *)
(* checks and then sets, Rename looks up, reads, deletes, sets and counts, *)
(* Keys and FlushDB take the shards in turn.  What the other calls do to a *)
(* shard and to the counter is one step, and the journal, the cold store   *)
(* and the limit on keys are left out: that is the business of module      *)
(* Cache.                                                                  *)
(***************************************************************************)
EXTENDS RESP, FiniteSets

CONSTANTS Conns,
          None,
          Setups,         \* what the server and its clients may start with
          NumShards,      \* shardCount
          ShardOf(_),     \* getShard
          Milli, Second,  \* time.Millisecond and time.Second
          MaxTime         \* bound: the clock

\* the commands that run: at is how far, seen and acc what the handler has found so far, val
\* and exp the item it is going to write
Jobs == [cmd : STRING, args : Seq(Seq(STRING)), at : Nat \ {0}, seen : BOOLEAN,
         acc : Seq(Seq(STRING) \cup {None}), val : Seq(STRING), exp : Int]

ASSUME ServerAssumptions ==
  /\ None \notin Seq(STRING) \cup Jobs \cup Int
  /\ Setups \subseteq [password : Seq(STRING),
                       scripts : [Conns -> Seq([words : Seq(Seq(STRING)), as : STRING])],
                       cut : [Conns -> Nat \ {0}]]
  /\ {NumShards, Milli, Second} \subseteq Nat \ {0} /\ MaxTime \in Nat
  /\ \A s \in Setups : \A c \in Conns : \A i \in DOMAIN s.scripts[c] :
       \A k \in ToSet(s.scripts[c][i].words) : ShardOf(k) \in 1..NumShards

\* what clients send is what the protocol has: a line is one of words without space or LF,
\* and not the head of an array; what is meant to be no command is not the head of one
ASSUME ClientsSpeakRESP ==
  \A s \in Setups : \A c \in Conns : \A i \in DOMAIN s.scripts[c] : Speakable(s.scripts[c][i])

VARIABLES password,  \* Options.Password, <<>> for none
          script,    \* what each client sends, a sequence of commands
          sent,      \* the bytes of it that have not arrived, cut into pieces
          inbuf,     \* the connection's reader: what has arrived and is not yet read
          open,      \* handleConnection has not returned
          auth,      \* authenticated
          heard,     \* the commands read so far
          job,       \* the command that is running
          out,       \* what has been written to the connection
          db,        \* the cache: items, a map from keys to [val, exp], and totalKeys
          gone,      \* ExpireAt of the item RENAME has found, if the item has left the map
          now

conn == <<sent, inbuf, open, auth, heard, job, out>>
setup == <<password, script>>
cache == <<db, gone>>
vars == <<setup, conn, cache, now>>

\* a string in pieces of n bytes, as the connection may deliver it
Cut(s, n) == [i \in 1..((Len(s) + n - 1) \div n) |->
                SubSeq(s, n * (i - 1) + 1, IF n * i < Len(s) THEN n * i ELSE Len(s))]

Init == /\ \E s \in Setups :
             /\ password = s.password /\ script = s.scripts
             /\ sent = [c \in Conns |->
                          Cut(FlattenSeq([i \in DOMAIN script[c] |-> Encoded(script[c][i])]),
                              s.cut[c])]
        /\ inbuf = [c \in Conns |-> <<>>]
        /\ open = [c \in Conns |-> TRUE]
        /\ auth = [c \in Conns |-> password = <<>>]
        /\ heard = [c \in Conns |-> <<>>]
        /\ job = [c \in Conns |-> None]
        /\ out = [c \in Conns |-> <<>>]
        /\ db = [items |-> <<>>, total |-> 0]
        /\ gone = [c \in Conns |-> None]
        /\ now = 1

-------------------------------------------------------------------------------
(* The cache: what a call makes of it.  Numbers are W bits wide. *)

Wrap(n) == ((n + 2^(W-1)) % 2^W) - 2^(W-1)

IsExpired(i) == i.exp > 0 /\ now > i.exp
There(k) == k \in DOMAIN db.items
Alive(k) == There(k) /\ ~IsExpired(db.items[k])

Put(m, k, i) == [x \in DOMAIN m \cup {k} |-> IF x = k THEN i ELSE m[x]]
Drop(m, k) == Restrict(m, DOMAIN m \ {k})

With(k, v, e) == [items |-> Put(db.items, k, [val |-> v, exp |-> e]),
                  total |-> IF There(k) THEN db.total ELSE db.total + 1]

Without(k) == [items |-> Drop(db.items, k),
               total |-> IF There(k) THEN db.total - 1 ELSE db.total]

\* get removes a key that has expired and does not count it out
Looked(k) == IF Alive(k) THEN db ELSE [db EXCEPT !.items = Drop(@, k)]

Deadline(ttl) == IF ttl > 0 THEN Wrap(now + ttl) ELSE 0

\* BUG: an expired key is taken for a live one
UpdatedBlind(k, v) == IF There(k) THEN [db EXCEPT !.items[k].val = v]
                      ELSE With(k, v, 0)

\* incrBy and appendVal: another value for a live key, or a new key without expiry time
Updated(k, v) == IF Alive(k) THEN [db EXCEPT !.items[k].val = v]
                 ELSE [items |-> Put(db.items, k, [val |-> v, exp |-> 0]),
                       total |-> db.total + 1]

\* ttl, in units of time: what is left, -1 without expiry time, -2 without key
Left(k, unit) == IF ~Alive(k) THEN -2
                 ELSE LET e == db.items[k].exp IN
                      CASE e = 0 -> -1
                        [] e # 0 /\ e <= now -> -2
                        [] OTHER -> (e - now) \div unit

-------------------------------------------------------------------------------
(* The connection *)

Receive(c) == /\ open[c] /\ sent[c] # <<>>
              /\ inbuf' = [inbuf EXCEPT ![c] = @ \o Head(sent[c])]
              /\ sent' = [sent EXCEPT ![c] = Tail(@)]
              /\ UNCHANGED <<setup, open, auth, heard, job, out, cache, now>>

Input(c) == ReadRESPCommand(inbuf[c])
Reading(c) == open[c] /\ job[c] = None

Close(c) == open' = [open EXCEPT ![c] = FALSE]
Write(c, reply) == out' = [out EXCEPT ![c] = @ \o reply]

\* the client hangs up or the read deadline passes, before the end of a command or of a line
Leave(c) == /\ Reading(c) /\ Input(c).is = "more"
            /\ Close(c)
            /\ UNCHANGED <<setup, sent, inbuf, auth, heard, job, out, cache, now>>

\* make panics and nothing recovers: the server is down
Exhaust(c) == /\ Reading(c) /\ Input(c).is = "fatal"
              /\ open' = [x \in Conns |-> FALSE]
              /\ UNCHANGED <<setup, sent, inbuf, auth, heard, job, out, cache, now>>

Reject(c) == /\ Reading(c) /\ Input(c).is = "err"
             /\ Close(c)
             /\ UNCHANGED <<setup, sent, inbuf, auth, heard, job, out, cache, now>>

\* BUG: a reader for each command, and what it has read ahead goes with it
RestLost(c) == <<>>

Rest(c) == Input(c).rest

Take(c) == /\ Reading(c) /\ Input(c).is = "done"
           /\ inbuf' = [inbuf EXCEPT ![c] = Rest(c)]
           /\ UNCHANGED <<setup, sent, cache, now>>

SkipEmpty(c) == /\ Take(c) /\ Input(c).args = <<>>
                /\ UNCHANGED <<open, auth, heard, job, out>>

Hear(c) == /\ Take(c) /\ Input(c).args # <<>>
           /\ heard' = [heard EXCEPT ![c] = Append(@, Input(c).args)]

\* the name of a command, which is one symbol
Command(args) == IF Len(args[1]) = 1 THEN args[1][1] ELSE "unknown"

\* BUG: any first argument will do
AdmittedWithAny(args) == password # <<>> /\ Len(args) = 1

\* whether AUTH with these arguments is let in
Admitted(args) == password # <<>> /\ Len(args) = 1 /\ args[1] = password

Auth(c) == LET args == Tail(Input(c).args) IN
  /\ Hear(c) /\ Command(Input(c).args) = "AUTH"
  /\ auth' = [auth EXCEPT ![c] = @ \/ Admitted(args)]
  /\ Write(c, CASE password = <<>> -> RespErrorMsg("no password is set")
                [] password # <<>> /\ Len(args) # 1 -> RespErrorMsg("wrong number of arguments")
                [] OTHER -> IF Admitted(args) THEN RespOK ELSE RespErrorMsg("WRONGPASS"))
  /\ UNCHANGED <<open, job>>

Quit(c) == /\ Hear(c) /\ Command(Input(c).args) = "QUIT"
           /\ Write(c, RespOK) /\ Close(c)
           /\ UNCHANGED <<auth, job>>

Run(c) == /\ Hear(c) /\ Command(Input(c).args) \notin {"AUTH", "QUIT"}
          /\ IF auth[c]
             THEN /\ job' = [job EXCEPT ![c] = [cmd |-> Command(Input(c).args),
                                                args |-> Tail(Input(c).args),
                                                at |-> 1, seen |-> FALSE, acc |-> <<>>,
                                                val |-> <<>>, exp |-> 0]]
                  /\ UNCHANGED out
             ELSE Write(c, RespErrorMsg("NOAUTH")) /\ UNCHANGED job
          /\ UNCHANGED <<open, auth>>

-------------------------------------------------------------------------------
(* The handlers *)

Doing(c, cmds) == job[c] # None /\ job[c].cmd \in cmds
Args(c) == job[c].args
Arg(c, n) == job[c].args[n]

\* RENAME has found its item and not yet read ExpireAt
Holding(j) == j # None /\ j.cmd = "RENAME" /\ j.at = 2

\* the items of the keys in K leave the map
Detach(K) ==
  gone' = [c \in Conns |->
             CASE ~Holding(job'[c]) -> None
               [] Holding(job'[c]) /\ Holding(job[c]) /\ gone[c] = None /\ Arg(c, 1) \in K ->
                    db.items[Arg(c, 1)].exp
               [] OTHER -> gone[c]]

\* incrBy and appendVal put a new item in the place of one that has expired
Renewed(c) == {k \in DOMAIN db.items :
                 Doing(c, {"INCR", "DECR", "INCRBY", "DECRBY", "APPEND"}) /\ k = Arg(c, 1) /\ ~Alive(k)}

\* a call of the cache on connection c leaves it as d
Call(c, d) == /\ db' = d
              /\ Detach((DOMAIN db.items \ DOMAIN d.items) \cup IF d = db THEN {} ELSE Renewed(c))

\* the command is done: its reply is written, and it leaves the cache as d
Reply(c, reply, d) == /\ Write(c, reply)
                      /\ job' = [job EXCEPT ![c] = None]
                      /\ Call(c, d)
                      /\ UNCHANGED <<setup, sent, inbuf, open, auth, heard, now>>

\* a call of the cache on the way, which leaves it as d
Go(c, j, d) == /\ job' = [job EXCEPT ![c] = j]
               /\ Call(c, d)
               /\ UNCHANGED <<setup, sent, inbuf, open, auth, heard, out, now>>

\* the numbers of arguments a command takes
Arity(cmd) ==
  CASE cmd = "SET" -> Nat \ {0, 1}
    [] cmd \in {"DEL", "EXISTS", "MGET"} -> Nat \ {0}
    [] cmd = "MSET" -> {n \in Nat \ {0} : n % 2 = 0}
    [] cmd \in {"GET", "INCR", "DECR", "STRLEN", "PERSIST", "TYPE", "KEYS", "ECHO"} -> {1}
    [] cmd \in {"SETNX", "INCRBY", "DECRBY", "APPEND", "EXPIRE", "PEXPIRE", "RENAME"} -> {2}
    [] cmd = "SETEX" -> {3}
    [] OTHER -> Nat

Fits(c) == Len(Args(c)) \in Arity(job[c].cmd)

WrongNumber(c) == /\ job[c] # None /\ ~Fits(c)
                  /\ Reply(c, RespErrorMsg("wrong number of arguments"), db)

NotInteger == RespErrorMsg("value is not an integer or out of range")

\* BUG: EX counts milliseconds
UnitMilli(opt) == Milli

Unit(opt) == IF opt = "EX" THEN Second ELSE Milli

\* the options of SET, one word after another; unit is that of the lifetime to come
Option(o, w) ==
  CASE o.err # <<>> -> o
    [] o.err = <<>> /\ o.unit # 0 ->
         IF IsInt(w) THEN [o EXCEPT !.ttl = Wrap(Atoi(w) * o.unit), !.unit = 0]
         ELSE [o EXCEPT !.err = NotInteger]
    [] OTHER -> CASE w = <<"NX">> -> [o EXCEPT !.nx = TRUE]
                  [] w = <<"XX">> -> [o EXCEPT !.xx = TRUE]
                  [] w \in {<<"EX">>, <<"PX">>} -> [o EXCEPT !.unit = Unit(w[1])]
                  [] OTHER -> [o EXCEPT !.err = RespErrorMsg("syntax error")]

OptionsRead(words) ==
  LET read[i \in 0..Len(words)] ==
        IF i = 0 THEN [nx |-> FALSE, xx |-> FALSE, ttl |-> 0, unit |-> 0, err |-> <<>>]
        ELSE Option(read[i-1], words[i])
  IN read[Len(words)]

Options(words) ==
  LET o == OptionsRead(words)
  IN IF o.err = <<>> /\ o.unit # 0 THEN [o EXCEPT !.err = RespErrorMsg("syntax error")] ELSE o

\* XX: Exists first.  Set: the expiry time, with NX the check, and then the key is written.
cmdSET(c) ==
  /\ Doing(c, {"SET"}) /\ Fits(c)
  /\ LET o == Options(SubSeq(Args(c), 3, Len(Args(c))))
         k == Arg(c, 1)
         e == Deadline(o.ttl)
     IN \/ o.err # <<>> /\ Reply(c, o.err, db)
        \/ /\ o.err = <<>> /\ o.xx /\ ~job[c].seen
           /\ IF Alive(k) THEN Go(c, [job[c] EXCEPT !.seen = TRUE], db)
              ELSE Reply(c, RespNilBulk, db)
        \/ /\ o.err = <<>> /\ (o.xx => job[c].seen) /\ o.nx /\ job[c].at = 1
           /\ IF Alive(k) THEN Reply(c, RespNilBulk, db)
              ELSE Go(c, [job[c] EXCEPT !.at = 2, !.exp = e], db)
        \/ /\ o.err = <<>> /\ (o.xx => job[c].seen) /\ (o.nx => job[c].at = 2)
           /\ Reply(c, RespOK, With(k, Arg(c, 2), IF o.nx THEN job[c].exp ELSE e))

cmdGET(c) == /\ Doing(c, {"GET"}) /\ Fits(c)
             /\ LET k == Arg(c, 1)
                IN Reply(c, IF Alive(k) THEN RespBulk(db.items[k].val) ELSE RespNilBulk, Looked(k))

Through(c) == job[c].at > Len(Args(c))
Key(c) == Arg(c, job[c].at)

\* the next argument's turn; acc collects what has been found
Onward(j, found) == [j EXCEPT !.at = @ + 1, !.seen = FALSE, !.acc = @ \o found]

\* first Exists and then Delete for each key
cmdDEL(c) ==
  /\ Doing(c, {"DEL"}) /\ Fits(c)
  /\ \/ Through(c) /\ Reply(c, RespInt(Len(job[c].acc)), db)
     \/ /\ ~Through(c) /\ ~job[c].seen
        /\ Go(c, IF Alive(Key(c)) THEN [job[c] EXCEPT !.seen = TRUE] ELSE Onward(job[c], <<>>), db)
     \/ /\ ~Through(c) /\ job[c].seen
        /\ Go(c, Onward(job[c], <<Key(c)>>), Without(Key(c)))

cmdEXISTS(c) ==
  /\ Doing(c, {"EXISTS"}) /\ Fits(c)
  /\ IF Through(c) THEN Reply(c, RespInt(Len(job[c].acc)), db)
     ELSE Go(c, Onward(job[c], IF Alive(Key(c)) THEN <<Key(c)>> ELSE <<>>), db)

cmdMGET(c) ==
  /\ Doing(c, {"MGET"}) /\ Fits(c)
  /\ IF Through(c) THEN Reply(c, RespArray(job[c].acc, None), db)
     ELSE Go(c, Onward(job[c], <<IF Alive(Key(c)) THEN db.items[Key(c)].val ELSE None>>),
             Looked(Key(c)))

cmdMSET(c) ==
  /\ Doing(c, {"MSET"}) /\ Fits(c)
  /\ IF Through(c) THEN Reply(c, RespOK, db)
     ELSE Go(c, [job[c] EXCEPT !.at = @ + 2], With(Key(c), Arg(c, job[c].at + 1), 0))

cmdSETNX(c) ==
  /\ Doing(c, {"SETNX"}) /\ Fits(c)
  /\ \/ /\ job[c].at = 1
        /\ IF Alive(Arg(c, 1)) THEN Reply(c, RespInt(0), db)
           ELSE Go(c, [job[c] EXCEPT !.at = 2], db)
     \/ job[c].at = 2 /\ Reply(c, RespInt(1), With(Arg(c, 1), Arg(c, 2), 0))

cmdSETEX(c) ==
  /\ Doing(c, {"SETEX"}) /\ Fits(c)
  /\ IF IsInt(Arg(c, 2)) /\ Atoi(Arg(c, 2)) > 0
     THEN Reply(c, RespOK, With(Arg(c, 1), Arg(c, 3), Deadline(Wrap(Atoi(Arg(c, 2)) * Second))))
     ELSE Reply(c, RespErrorMsg("invalid expire time"), db)

\* IncrBy
IncrBy(c, delta) ==
  LET k == Arg(c, 1)
      n == IF Alive(k) THEN Wrap(Atoi(db.items[k].val) + delta) ELSE delta
  IN IF Alive(k) /\ ~IsInt(db.items[k].val) THEN Reply(c, NotInteger, db)
     ELSE Reply(c, RespInt(n), Updated(k, Numeral(n)))

cmdINCR(c) == /\ Doing(c, {"INCR", "DECR"}) /\ Fits(c)
              /\ IncrBy(c, IF job[c].cmd = "INCR" THEN 1 ELSE -1)

cmdINCRBY(c) ==
  /\ Doing(c, {"INCRBY", "DECRBY"}) /\ Fits(c)
  /\ IF IsInt(Arg(c, 2))
     THEN IncrBy(c, IF job[c].cmd = "INCRBY" THEN Atoi(Arg(c, 2)) ELSE Wrap(-Atoi(Arg(c, 2))))
     ELSE Reply(c, NotInteger, db)

cmdAPPEND(c) ==
  /\ Doing(c, {"APPEND"}) /\ Fits(c)
  /\ LET k == Arg(c, 1)
         v == IF Alive(k) THEN db.items[k].val \o Arg(c, 2) ELSE Arg(c, 2)
     IN Reply(c, RespInt(Len(v)), Updated(k, v))

cmdSTRLEN(c) ==
  /\ Doing(c, {"STRLEN"}) /\ Fits(c)
  /\ Reply(c, RespInt(IF Alive(Arg(c, 1)) THEN Len(db.items[Arg(c, 1)].val) ELSE 0), db)

\* Expire and Persist: another expiry time for a live key
Expire(c, e) == LET k == Arg(c, 1) IN
  IF Alive(k) THEN Reply(c, RespInt(1), [db EXCEPT !.items[k].exp = e])
  ELSE Reply(c, RespInt(0), db)

cmdEXPIRE(c) ==
  /\ Doing(c, {"EXPIRE", "PEXPIRE"}) /\ Fits(c)
  /\ IF IsInt(Arg(c, 2))
     THEN Expire(c, Wrap(now + Wrap(Atoi(Arg(c, 2))
                                    * (IF job[c].cmd = "EXPIRE" THEN Second ELSE Milli))))
     ELSE Reply(c, NotInteger, db)

cmdPERSIST(c) == Doing(c, {"PERSIST"}) /\ Fits(c) /\ Expire(c, 0)

TTL(c) == /\ Doing(c, {"TTL", "PTTL"}) /\ Args(c) # <<>>
          /\ Reply(c, RespInt(Left(Arg(c, 1), IF job[c].cmd = "TTL" THEN Second ELSE Milli)), db)

\* TTL and PTTL look at their first argument before anything else: the server panics
Panic(c) == /\ Doing(c, {"TTL", "PTTL"}) /\ Args(c) = <<>>
            /\ open' = [x \in Conns |-> FALSE]
            /\ UNCHANGED <<setup, sent, inbuf, auth, heard, job, out, cache, now>>

cmdTYPE(c) == /\ Doing(c, {"TYPE"}) /\ Fits(c)
              /\ Reply(c, RespSimple(IF Alive(Arg(c, 1)) THEN "string" ELSE "none"), db)

\* BUG: the new key gets no lifetime
ItemExpForgotten(c) == 0

\* ExpireAt of the item that RENAME has found
ItemExp(c) == IF gone[c] = None THEN db.items[Arg(c, 1)].exp ELSE gone[c]

\* Rename.  That Value is read when the item is looked up loses nothing: what is written to
\* the item in between might have been written before.
RenameFind(c) ==
  /\ job[c].at = 1
  /\ LET k == Arg(c, 1) IN
     IF Alive(k) THEN Go(c, [job[c] EXCEPT !.at = 2, !.val = db.items[k].val], db)
     ELSE Reply(c, RespErrorMsg("no such key"), db)

RenameRead(c) == job[c].at = 2 /\ Go(c, [job[c] EXCEPT !.at = 3, !.exp = ItemExp(c)], db)

RenameMove(c) ==
  \/ /\ job[c].at = 3
     /\ Go(c, [job[c] EXCEPT !.at = 4], [db EXCEPT !.items = Drop(@, Arg(c, 1))])
  \/ job[c].at = 4 /\ Go(c, [job[c] EXCEPT !.at = 5], [db EXCEPT !.total = @ - 1])
  \/ /\ job[c].at = 5
     /\ Go(c, [job[c] EXCEPT !.at = 6, !.seen = There(Arg(c, 2))],
           [db EXCEPT !.items = Put(@, Arg(c, 2), [val |-> job[c].val, exp |-> job[c].exp])])
  \/ /\ job[c].at = 6
     /\ Reply(c, RespOK, IF job[c].seen THEN db ELSE [db EXCEPT !.total = @ + 1])

cmdRENAME(c) == /\ Doing(c, {"RENAME"}) /\ Fits(c)
                /\ RenameFind(c) \/ RenameRead(c) \/ RenameMove(c)

\* the keys of shard n that match: a pattern is "*" or a key
Matching(n, pattern) ==
  {k \in DOMAIN db.items : ShardOf(k) = n /\ Alive(k) /\ pattern \in {<<"*">>, k}}

\* shard after shard; the map of a shard is ranged over in any order
cmdKEYS(c) ==
  /\ Doing(c, {"KEYS"}) /\ Fits(c)
  /\ \/ job[c].at > NumShards /\ Reply(c, RespArray(job[c].acc, None), db)
     \/ /\ job[c].at <= NumShards
        /\ \E ks \in SetToSeqs(Matching(job[c].at, Arg(c, 1))) : Go(c, Onward(job[c], ks), db)

\* PING and ECHO
Echo(c) == /\ Doing(c, {"PING", "ECHO"}) /\ Fits(c)
           /\ Reply(c, IF Args(c) = <<>> THEN RespSimple("PONG") ELSE RespBulk(Arg(c, 1)), db)

DBSIZE(c) == Doing(c, {"DBSIZE"}) /\ Reply(c, RespInt(db.total), db)

cmdINFO(c) == /\ Doing(c, {"INFO"})
              /\ Reply(c, RespBulk(<<"# Server">> \o CRLF \o Numeral(db.total) \o CRLF), db)

\* FlushDB: shard after shard, and then the counter
FLUSHDB(c) ==
  /\ Doing(c, {"FLUSHDB", "FLUSHALL"})
  /\ LET others == {k \in DOMAIN db.items : ShardOf(k) # job[c].at} IN
     IF job[c].at > NumShards THEN Reply(c, RespOK, [db EXCEPT !.total = 0])
     ELSE Go(c, Onward(job[c], <<>>), [db EXCEPT !.items = Restrict(@, others)])

\* SELECT, COMMAND and CLIENT do nothing, CONFIG next to nothing
Accept(c) ==
  /\ Doing(c, {"SELECT", "COMMAND", "CLIENT", "CONFIG"})
  /\ Reply(c, IF job[c].cmd = "CONFIG" /\ (Args(c) = <<>> \/ Arg(c, 1) # <<"SET">>)
              THEN RespArray(<<>>, None) ELSE RespOK, db)

Commands == {"SET", "GET", "DEL", "SETNX", "SETEX", "MGET", "MSET", "INCR", "DECR", "INCRBY",
             "DECRBY", "APPEND", "STRLEN", "EXISTS", "EXPIRE", "PEXPIRE", "TTL", "PTTL",
             "PERSIST", "TYPE", "RENAME", "KEYS", "PING", "ECHO", "DBSIZE", "FLUSHDB",
             "FLUSHALL", "INFO", "SELECT", "COMMAND", "CONFIG", "CLIENT"}

Unknown(c) == /\ job[c] # None /\ job[c].cmd \notin Commands
              /\ Reply(c, RespErrorMsg("unknown command"), db)

executeCommand(c) ==
  \/ WrongNumber(c) \/ cmdSET(c) \/ cmdGET(c) \/ cmdDEL(c) \/ cmdSETNX(c) \/ cmdSETEX(c)
  \/ cmdMGET(c) \/ cmdMSET(c) \/ cmdINCR(c) \/ cmdINCRBY(c) \/ cmdAPPEND(c) \/ cmdSTRLEN(c)
  \/ cmdEXISTS(c) \/ cmdEXPIRE(c) \/ TTL(c) \/ Panic(c) \/ cmdPERSIST(c) \/ cmdTYPE(c) \/ cmdRENAME(c)
  \/ cmdKEYS(c) \/ Echo(c) \/ DBSIZE(c) \/ FLUSHDB(c) \/ cmdINFO(c) \/ Accept(c) \/ Unknown(c)

-------------------------------------------------------------------------------
(* The clock, the janitor and the specification *)

Tick == /\ now < MaxTime
        /\ now' = now + 1
        /\ UNCHANGED <<setup, conn, cache>>

\* ExpireByTTL
ExpireByTTL(k) == /\ db.items[k].exp > 0 /\ db.items[k].exp <= now
                  /\ UNCHANGED <<setup, conn, now>>
                  /\ db' = Without(k) /\ Detach({k})

\* what the connection's goroutine does of itself
Serve(c) == \/ Reject(c) \/ Exhaust(c) \/ SkipEmpty(c) \/ Auth(c) \/ Quit(c) \/ Run(c)
            \/ open[c] /\ executeCommand(c)

Next == \/ \E c \in Conns : Receive(c) \/ Leave(c) \/ Serve(c)
        \/ Tick
        \/ \E k \in DOMAIN db.items : ExpireByTTL(k)

Spec == Init /\ [][Next]_vars

-------------------------------------------------------------------------------
(* Properties *)

Answers(c) == Replies(out[c])

\* what the server should make of a script: the commands with a word in them, up to the first
\* that is no command at all
Commanded(q) ==
  LET meant[i \in 0..Len(q)] ==
        IF i = 0 THEN <<>>
        ELSE IF q[i].words = <<>> \/ (\E n \in 1..i : q[n].as \in NoCommands) THEN meant[i-1]
        ELSE Append(meant[i-1], q[i].words)
  IN meant[Len(q)]

Meant(c) == Commanded(script[c])

\* However the bytes are cut into pieces, and whatever line ends the values contain, the
\* commands read from a connection are those its client has sent, in order and complete
\* (readMultibulk, readInline).
ParsedAsSent == \A c \in Conns : IsPrefix(heard[c], Meant(c))

\* the kinds of reply a client expects of a command
Kinds(cmd) ==
  CASE cmd \in {"GET", "ECHO", "INFO"} -> {"$"}
    [] cmd \in {"SET", "PING"} -> {"+", "$"}
    [] cmd \in {"MGET", "KEYS"} -> {"*"}
    [] cmd = "CONFIG" -> {"+", "*"}
    [] cmd \in {"AUTH", "QUIT", "SETEX", "MSET", "TYPE", "RENAME", "FLUSHDB", "FLUSHALL",
                "SELECT", "COMMAND", "CLIENT"} -> {"+"}
    [] OTHER -> {":"}

\* A client that takes the stream of replies apart finds one reply for each command, in the
\* order of the commands, of the kind the command has, or an error: no reply runs into the
\* next, whatever the values contain (the resp builders, handleConnection).
RepliesFramed ==
  \A c \in Conns :
    /\ Len(Answers(c)) = Len(heard[c]) - IF job[c] = None THEN 0 ELSE 1
    /\ \A i \in DOMAIN Answers(c) : Answers(c)[i] \in {"-"} \cup Kinds(Command(heard[c][i]))

\* With a password set, no command but AUTH and QUIT gets anything but an error before the
\* same connection has sent the right password (handleConnection).
AuthFirst ==
  password # <<>> =>
    \A c \in Conns : \A i \in DOMAIN Answers(c) :
      Answers(c)[i] # "-" /\ Command(heard[c][i]) \notin {"AUTH", "QUIT"}
        => \E j \in 1..i-1 : heard[c][j] = <<<<"AUTH">>, password>>

\* the expiry time that command j, when it runs at once, promises for key k
Due(j, k) ==
  LET a == j.args
      unit == [EX |-> Second, PX |-> Milli, SETEX |-> Second, EXPIRE |-> Second, PEXPIRE |-> Milli]
      asked == {i \in 3..Len(a)-1 : a[i] \in {<<"EX">>, <<"PX">>}}
  IN CASE j.cmd = "SET" /\ asked # {} ->
            LET i == CHOOSE i \in asked : \A n \in asked : n <= i
            IN now + Atoi(a[i + 1]) * unit[a[i][1]]
       [] j.cmd \in {"SETEX", "EXPIRE", "PEXPIRE"} -> now + Atoi(a[2]) * unit[j.cmd]
       [] j.cmd \in {"INCR", "DECR", "INCRBY", "DECRBY", "APPEND"} ->
            IF Alive(k) THEN db.items[k].exp ELSE 0
       [] OTHER -> 0

\* the command has its expiry time from a step before
Fixed(j) == j # None /\ <<j.cmd, j.at>> \in ({"SET"} \X {2}) \cup ({"RENAME"} \X (3..6))

\* Whoever else changes the key meanwhile: a key that a command writes expires when that
\* command says, EX in seconds and PX in milliseconds, with NX counted from before the check;
\* INCR and APPEND keep the lifetime of a key that is there and give none to a key that has
\* expired, removed or not; RENAME takes along the lifetime of the item it has found, which is
\* that of its key as long as this item is there.  (EX and PX of more than 0, that is: see
\* Server_exzero.cfg.)
LifetimesAsAsked ==
  [][/\ \A k \in DOMAIN db'.items : (There(k) => db'.items[k] # db.items[k]) =>
          \E c \in Conns : /\ job'[c] # job[c]
                           /\ db'.items[k].exp = IF Fixed(job[c]) THEN job[c].exp ELSE Due(job[c], k)
     /\ \A c \in Conns : Fixed(job'[c]) /\ ~Fixed(job[c]) =>
          \/ job'[c].cmd = "SET" /\ job'[c].exp = Due(job[c], Arg(c, 1))
          \/ /\ job'[c].cmd = "RENAME"
             /\ gone[c] = None => There(Arg(c, 1)) /\ job'[c].exp = db.items[Arg(c, 1)].exp]_vars

\* Pipelined or not: when all that a client sends has arrived and the server waits for more,
\* each of its commands has been read and answered.  Nothing stays behind in the reader, and
\* nothing is thrown away with a command that came before (handleConnection, bufio.Reader).
EachAnswered ==
  \A c \in Conns :
    Reading(c) /\ sent[c] = <<>> /\ Input(c).is = "more" => Len(Answers(c)) = Len(Meant(c))

-------------------------------------------------------------------------------
(* What the code does not keep: each is violated by what handlers.go does *)

\* A key that DEL counts is there when DEL removes it (cmdDEL asks first and deletes after).
CountedIsDeleted ==
  [][\A c \in Conns : Doing(c, {"DEL"}) /\ job[c].seen /\ job'[c] # job[c]
       => There(Key(c))]_vars

\* SET with XX writes to a key that is there ("установить только если ключ уже существует",
\* README.md; cmdSET asks first and writes after).
XXKeepsToExisting ==
  [][\A c \in Conns : Doing(c, {"SET"}) /\ <<"XX">> \in ToSet(Args(c)) /\ db' # db /\ job'[c] # job[c]
       => Alive(Arg(c, 1))]_vars

\* The lifetime that RENAME gives is the one its key has when it is removed (Rename reads
\* ExpireAt before it removes the key, and an EXPIRE in between is lost).
RenameKeepsLifetime ==
  [][\A c \in Conns : Doing(c, {"RENAME"}) /\ job[c].at = 3 /\ job'[c] # job[c] /\ There(Arg(c, 1))
       => db.items[Arg(c, 1)].exp = job[c].exp]_vars

\* What TTL answers for a key that is there is positive or -1 (README.md; seconds are cut off).
TTLIsPositive == \A c \in Conns : Doing(c, {"TTL"}) => Left(Arg(c, 1), Second) # 0
===============================================================================
