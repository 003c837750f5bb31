----------------------------------- MODULE RESP -----------------------------------
(***************************************************************************)
(* The protocol of internal/server/resp.go: how commands are read from a   *)
(* connection and replies are built.  A string of bytes is a sequence of   *)
(* symbols; digits, signs, space, CR and LF are a symbol each, and so is   *)
(* the name of a command or of an option, whose letters do not matter.     *)
(***************************************************************************)
EXTENDS Integers, Sequences, SequencesExt

CONSTANTS W,       \* width of int, int64 and time.Duration
          Memory   \* the bytes that one make can get

ASSUME RESPAssumptions == {W, 2^(W-1), 2^W} \subseteq Nat \ {0} /\ Memory \in 0..2^(W-1)-1

CRLF == <<"CR", "LF">>

\* the symbols that commands and replies are put together with, strings as all symbols are
Symbols == {"0", "1", "2", "3", "4", "5", "6", "7", "8", "9", "+", "-", ":", "$", "*", " ",
            "CR", "LF", "ERR", "OK", "PONG", "string", "none", "# Server",
            "no password is set", "wrong number of arguments", "WRONGPASS", "NOAUTH",
            "value is not an integer or out of range", "syntax error",
            "invalid expire time", "no such key", "unknown command", "unknown"}

ASSUME SymbolsAreStrings == Symbols \subseteq STRING

Digits == <<"0", "1", "2", "3", "4", "5", "6", "7", "8", "9">>
IsDigit(d) == \E i \in 1..10 : Digits[i] = d
ValueOf(d) == (CHOOSE i \in 1..10 : Digits[i] = d) - 1

\* strconv.FormatInt
Numeral(n) ==
  LET size == IF n < 0 THEN -n ELSE n
      digits[m \in 0..size] == IF m < 10 THEN <<Digits[m + 1]>>
                               ELSE digits[m \div 10] \o <<Digits[(m % 10) + 1]>>
  IN IF n < 0 THEN <<"-">> \o digits[size] ELSE digits[size]

\* strconv.Atoi: whether a word is a numeral, and of which number
Unsigned(w) == IF w # <<>> /\ w[1] \in {"-", "+"} THEN Tail(w) ELSE w
IsNumeral(w) == Unsigned(w) # <<>> /\ \A i \in DOMAIN Unsigned(w) : IsDigit(Unsigned(w)[i])
Atoi(w) ==
  LET u == Unsigned(w)
      value[i \in 0..Len(u)] == IF i = 0 THEN 0 ELSE 10 * value[i-1] + ValueOf(u[i])
  IN IF w[1] = "-" THEN -value[Len(u)] ELSE value[Len(u)]

IsInt(w) == IsNumeral(w) /\ Atoi(w) \in -(2^(W-1))..2^(W-1)-1

-------------------------------------------------------------------------------
(* Reading.  What is read of a string s: done, with the arguments and the rest *)
(* of s; err; more, when s ends too early and the reader would wait; or fatal, *)
(* when make cannot have the bytes s asks for, which no goroutine survives.    *)

More == [is |-> "more", args |-> <<>>, rest |-> <<>>]
Err == [is |-> "err", args |-> <<>>, rest |-> <<>>]
Fatal == [is |-> "fatal", args |-> <<>>, rest |-> <<>>]
Done(args, rest) == [is |-> "done", args |-> args, rest |-> rest]

Ends(s) == {i \in DOMAIN s : s[i] = "LF"}

\* readLine: args is the line; the end is CR LF or LF
ReadLine(s) ==
  IF Ends(s) = {} THEN More
  ELSE LET n == CHOOSE i \in Ends(s) : \A j \in Ends(s) : i <= j
           m == IF n > 1 /\ s[n - 1] = "CR" THEN n - 2 ELSE n - 1
       IN Done(SubSeq(s, 1, m), SubSeq(s, n + 1, Len(s)))

\* BUG: the data of a bulk string is read as a line
ReadBulkLine(s) == LET head == ReadLine(s) IN
  IF head.is # "done" THEN head
  ELSE LET data == ReadLine(head.rest)
       IN IF data.is = "done" THEN Done(<<data.args>>, data.rest) ELSE data

\* the line in front of s is mark and a number, and the number
Counted(s, mark) == LET head == ReadLine(s) IN
  head.is = "done" /\ head.args # <<>> /\ head.args[1] = mark /\ IsNumeral(Tail(head.args))

Count(s) == Atoi(Tail(ReadLine(s).args))

\* the number is one the server takes for a count or a length
Announced(s, mark) == Counted(s, mark) /\ Count(s) \in 0..2^(W-1)-1

\* $len CR LF data CR LF; what the two bytes after the data are is not looked at
ReadBulk(s) == LET head == ReadLine(s) IN
  CASE head.is # "done" -> head
    [] Announced(s, "$") /\ Count(s) + 2 > Memory -> Fatal
    [] Announced(s, "$") /\ Count(s) + 2 <= Memory ->
         IF Len(head.rest) < Count(s) + 2 THEN More
         ELSE Done(<<SubSeq(head.rest, 1, Count(s))>>,
                   SubSeq(head.rest, Count(s) + 3, Len(head.rest)))
    [] OTHER -> Err

Header == 16  \* the bytes of a string in a slice of strings, without its data

\* what has been read, and one bulk string more
OneMore(r) == IF r.is = "done" THEN [ReadBulk(r.rest) EXCEPT !.args = r.args \o @] ELSE r

ReadMultibulk(s) == LET head == ReadLine(s) IN
  CASE head.is # "done" -> head
    [] Announced(s, "*") /\ Header * Count(s) > Memory -> Fatal
    [] Announced(s, "*") /\ Header * Count(s) <= Memory ->
         LET read[i \in 0..Count(s)] == IF i = 0 THEN Done(<<>>, head.rest) ELSE OneMore(read[i-1])
         IN read[Count(s)]
    [] OTHER -> Err

\* a line's words up to symbol i, when w are those before it
OneWord(line, w, i) ==
  CASE line[i] = " " -> w
    [] line[i] # " " /\ (i = 1 \/ line[i-1] = " ") -> Append(w, <<line[i]>>)
    [] OTHER -> [w EXCEPT ![Len(w)] = Append(@, line[i])]

Words(line) ==
  LET words[i \in 0..Len(line)] == IF i = 0 THEN <<>> ELSE OneWord(line, words[i-1], i)
  IN words[Len(line)]

ReadInline(s) == LET line == ReadLine(s)
                 IN IF line.is = "done" THEN Done(Words(line.args), line.rest) ELSE line

ReadRESPCommand(s) == IF s = <<>> THEN More
                      ELSE IF s[1] = "*" THEN ReadMultibulk(s) ELSE ReadInline(s)

-------------------------------------------------------------------------------
(* Replies *)

RespSimple(msg) == <<"+", msg>> \o CRLF
RespOK == RespSimple("OK")
RespNilBulk == <<"$", "-", "1">> \o CRLF
RespBulk(s) == <<"$">> \o Numeral(Len(s)) \o CRLF \o s \o CRLF
RespErrorMsg(msg) == <<"-", "ERR", " ", msg>> \o CRLF
RespInt(n) == <<":">> \o Numeral(n) \o CRLF

\* BUG: what is not there is left out
RespArrayFound(items, none) == <<"*">> \o Numeral(Len(items)) \o CRLF
  \o FlattenSeq([i \in DOMAIN items |-> IF items[i] = none THEN <<>>
                                        ELSE RespBulk(items[i])])

\* an array of bulk strings, some of which are not there
RespArray(items, none) == <<"*">> \o Numeral(Len(items)) \o CRLF
  \o FlattenSeq([i \in DOMAIN items |-> IF items[i] = none THEN RespNilBulk
                                        ELSE RespBulk(items[i])])

-------------------------------------------------------------------------------
(* The other end: what a client sends, and how it takes replies apart *)

\* what is no command at all: an array whose count, or whose first length, cannot be
NoCommands == {"badCount", "badLength"}

\* a command [words, as]: a line of words, an array of bulk strings, or no command
Encoded(cmd) ==
  CASE cmd.as = "line" -> FlattenSeq([i \in DOMAIN cmd.words |->
                                        (IF i = 1 THEN <<>> ELSE <<" ">>) \o cmd.words[i]]) \o <<"LF">>
    [] cmd.as = "array" -> <<"*">> \o Numeral(Len(cmd.words)) \o CRLF
                           \o FlattenSeq([i \in DOMAIN cmd.words |-> RespBulk(cmd.words[i])])
    [] cmd.as = "badLength" -> <<"*">> \o Numeral(1) \o CRLF
                               \o (<<"$">> \o FlattenSeq(cmd.words) \o CRLF)
    [] OTHER -> <<"*">> \o FlattenSeq(cmd.words) \o CRLF

\* a numeral that makes the server ask for no more than Memory: size bytes for each, and extra
Holds(w, size, extra) == IsNumeral(w) /\ Atoi(w) >= 0 /\ size * Atoi(w) + extra <= Memory

\* a command that its encoding tells from any other
Speakable(cmd) ==
  \/ /\ cmd.as = "line"
     /\ \A i \in DOMAIN cmd.words : LET w == cmd.words[i] IN
          w # <<>> /\ \A k \in DOMAIN w : w[k] \notin {" ", "LF"}
     /\ cmd.words # <<>> => cmd.words[1][1] # "*" /\ Last(Last(cmd.words)) # "CR"
  \/ /\ cmd.as = "array" /\ Header * Len(cmd.words) <= Memory
     /\ \A i \in DOMAIN cmd.words : Len(cmd.words[i]) + 2 <= Memory
  \/ /\ cmd.as \in NoCommands
     /\ LET w == FlattenSeq(cmd.words) IN
          /\ \A k \in DOMAIN w : w[k] # "LF"
          /\ ~(IF cmd.as = "badCount" THEN Holds(w, Header, 0) ELSE Holds(w, 1, 2))

\* the bulk string in front of s
OneBulk(s) == LET rest == ReadLine(s).rest IN
  CASE ~Counted(s, "$") -> Err
    [] Counted(s, "$") /\ Count(s) < 0 -> Done(<<>>, rest)
    [] OTHER -> IF Len(rest) >= Count(s) + 2 /\ SubSeq(rest, Count(s) + 1, Count(s) + 2) = CRLF
                THEN Done(<<>>, SubSeq(rest, Count(s) + 3, Len(rest))) ELSE Err

\* the array in front of s
OneArray(s) ==
  IF ~Counted(s, "*") \/ Count(s) < 0 THEN Err
  ELSE LET bulk[i \in 0..Count(s)] ==
             IF i = 0 THEN Done(<<>>, ReadLine(s).rest)
             ELSE LET r == bulk[i-1] IN IF r.is = "done" THEN OneBulk(r.rest) ELSE r
       IN bulk[Count(s)]

\* the first reply in s: whether there is one, and the rest
OneReply(s) ==
  CASE s[1] \in {"+", "-", ":"} -> ReadLine(s)
    [] s[1] = "$" -> OneBulk(s)
    [] s[1] = "*" -> OneArray(s)
    [] OTHER -> Err

\* the first symbols of the replies that s consists of, the last one Err if it does not
Replies(s) ==
  LET take[i \in 0..Len(s)] ==
        IF i = 0 THEN [kinds |-> <<>>, rest |-> s]
        ELSE LET t == take[i-1]
                 r == OneReply(t.rest)
             IN IF t.rest = <<>> THEN t
                ELSE [kinds |-> Append(t.kinds, IF r.is = "done" THEN t.rest[1] ELSE "Err"),
                      rest |-> r.rest]
  IN take[Len(s)].kinds
===============================================================================
