-------------------------------- MODULE MCServer --------------------------------
(* Small instances of Server: what the clients send. *)
EXTENDS Server, TLC

CONSTANTS c1, c2

a == <<"a">>
b == <<"b">>
N(n) == Numeral(n)
Lines == <<"x", "CR", "LF", "$", "LF">>
Secret == <<"s", "3">>

\* a command of its words, as an array or as a line; names are given as such
Cmd(name, args) == [words |-> <<<<name>>>> \o args, as |-> "array"]
Line(name, args) == [words |-> <<<<name>>>> \o args, as |-> "line"]
Opt(name) == <<name>>

\* s1 arrives in pieces of n1 bytes, s2 all at once
Start(pw, n1, s1, s2) == [password |-> pw, scripts |-> (c1 :> s1) @@ (c2 :> s2),
                          cut |-> (c1 :> n1) @@ (c2 :> 999)]

Nothing == [words |-> <<>>, as |-> "line"]
NoCommand == [words |-> <<<<"SET">>>>, as |-> "badCount"]

\* lengths and counts beyond an int of 8 bits, below 0, and beyond Memory
Length(n) == [words |-> <<N(n)>>, as |-> "badLength"]
Count8(n) == [words |-> <<N(n)>>, as |-> "badCount"]

Framing == Start(<<>>, 1,
  <<Cmd("SET", <<a, Lines>>), Line("GET", <<a>>), Nothing, Cmd("MGET", <<a, b>>), NoCommand>>,
  <<Line("SET", <<a, N(1)>>), Cmd("ECHO", <<Opt("LF")>>)>>)

Password == Start(Secret, 1,
  <<Cmd("AUTH", <<b>>), Line("GET", <<a>>), Line("AUTH", <<Secret>>), Cmd("SETNX", <<a, N(1)>>)>>,
  <<Line("AUTH", <<>>), Line("AUTH", <<Secret>>), Line("AUTH", <<b>>), Line("GET", <<a>>),
    Line("QUIT", <<>>)>>)

Small == Start(<<>>, 1,
  <<Nothing, Line("PING", <<>>), Cmd("PING", <<Lines>>), Line("INFO", <<>>),
    Line("SELECT", <<N(0)>>), Line("CONFIG", <<Opt("GET")>>), Line("CONFIG", <<Opt("SET")>>),
    Line("ECHO", <<>>), Line("TYPE", <<a>>), Line("FOO", <<>>), Line("AUTH", <<a>>),
    Line("QUIT", <<>>), Line("PING", <<>>)>>, <<>>)

Lifetimes == Start(<<>>, 999,
  <<Cmd("SET", <<a, N(1), Opt("EX"), N(1)>>), Cmd("INCR", <<a>>), Cmd("TTL", <<a>>)>>,
  <<Cmd("SET", <<a, N(5), Opt("PX"), N(1), Opt("NX")>>), Cmd("APPEND", <<a, N(2)>>),
    Cmd("PTTL", <<a>>)>>)

Several == Start(<<>>, 999,
  <<Cmd("MSET", <<a, N(1), b, N(2)>>), Cmd("DEL", <<a, b>>), Cmd("DBSIZE", <<>>)>>,
  <<Cmd("EXISTS", <<a, b>>), Cmd("RENAME", <<a, b>>), Cmd("KEYS", <<Opt("*")>>)>>)

Changes == Start(<<>>, 999,
  <<Cmd("SETEX", <<a, N(1), N(7)>>), Cmd("PERSIST", <<a>>), Cmd("INCRBY", <<a, N(3)>>)>>,
  <<Cmd("EXPIRE", <<a, N(1)>>), Cmd("DECRBY", <<a, N(-30)>>), Cmd("PEXPIRE", <<a, N(3)>>)>>)

Faults == Start(<<>>, 999,
  <<Cmd("SET", <<a>>), Cmd("SET", <<a, N(1), Opt("EX")>>), Cmd("SET", <<a, N(1), Opt("EX"), b>>),
    Cmd("SET", <<a, N(1), b>>), Cmd("INCRBY", <<a, b>>), Cmd("EXPIRE", <<a, N(400)>>)>>,
  <<Cmd("SET", <<a, b, Opt("XX"), Opt("PX"), N(1)>>), Cmd("SETEX", <<a, N(0), b>>),
    Cmd("SETNX", <<a, b>>), Cmd("INCR", <<a>>), Cmd("STRLEN", <<a>>)>>)

Passing == Start(<<>>, 999,
  <<Cmd("SET", <<a, b, Opt("XX"), Opt("PX"), N(1)>>), Cmd("FLUSHDB", <<>>), Cmd("GET", <<a>>)>>,
  <<Cmd("SET", <<a, N(127)>>), Cmd("SET", <<a, N(126), Opt("XX"), Opt("NX")>>),
    Cmd("INCR", <<a>>), Cmd("DECR", <<a>>)>>)

TwoDeletes == Start(<<>>, 999, <<Cmd("SET", <<a, b>>), Cmd("DEL", <<a>>)>>, <<Cmd("DEL", <<a>>)>>)

TwoWriters == Start(<<>>, 999, <<Cmd("SET", <<a, b>>), Cmd("DEL", <<a>>)>>,
                    <<Cmd("SET", <<a, N(2), Opt("XX")>>)>>)

\* 70 seconds are more units of time than W bits hold
LongLife == Start(<<>>, 999, <<Cmd("SET", <<a, b, Opt("EX"), N(70)>>), Cmd("TTL", <<a>>)>>, <<>>)

ShortLife == Start(<<>>, 999, <<Cmd("SET", <<a, b, Opt("EX"), N(1)>>), Cmd("TTL", <<a>>)>>, <<>>)

Renames == Start(<<>>, 999,
  <<Cmd("SET", <<a, N(1), Opt("EX"), N(1)>>), Cmd("RENAME", <<a, b>>), Cmd("INCR", <<b>>)>>,
  <<Cmd("PEXPIRE", <<a, N(3)>>), Cmd("INCR", <<a>>), Cmd("FLUSHALL", <<>>)>>)

\* a count that is refused, and a length that is not to be had
Numbers == Start(<<>>, 1, <<Line("PING", <<>>), Length(119), Line("PING", <<>>)>>,
                 <<Cmd("SETNX", <<a, b>>), Count8(200)>>)

OneEternal == {Start(<<>>, 999, <<Cmd("SET", <<a, b, Opt("EX"), N(0)>>)>>, <<>>)}
OneRename == {Start(<<>>, 999, <<Cmd("SET", <<a, b>>), Cmd("RENAME", <<a, b>>)>>,
                    <<Cmd("EXPIRE", <<a, N(1)>>)>>)}

\* TTL without a key brings the server down
Crash == Start(<<>>, 1, <<Line("PING", <<>>), Line("TTL", <<>>), Line("PING", <<>>)>>,
              <<Cmd("DEL", <<a, b>>), Cmd("MGET", <<a, b>>)>>)

OneDeletes == {TwoDeletes}
OneXX == {TwoWriters}
OneLong == {LongLife}
OneShort == {ShortLife}
AllSetups == {Framing, Password, Small, Lifetimes, Several, Changes, Faults, Passing, Renames,
              Numbers, Crash}

Shards(k) == IF k = b THEN 2 ELSE 1
===============================================================================
