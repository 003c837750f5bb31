------------------------------ MODULE ServerProofs ------------------------------
(***************************************************************************)
(* What every client may rely on, for any clients, commands, values, cuts  *)
(* of the stream, passwords and widths of numbers: the replies on a        *)
(* connection come apart again, one for each command and of its kind,      *)
(* without the password there is nothing but errors, and the commands that *)
(* are read and answered are those that were sent.  The first parts are    *)
(* about numerals, lines, bulk strings and arrays, then come those about   *)
(* what the parser and the cache yield and about the handlers, and the     *)
(* last ones are about reading a stream that arrives in pieces.            *)
(***************************************************************************)
EXTENDS Server, FiniteSetTheorems, SequenceTheorems, WellFoundedInduction, TLAPS

-------------------------------------------------------------------------------
(* Recursive functions on the numbers up to N: a value at each number of     *)
(* base, and f of the value at a smaller number, less, at every other.       *)

LEMMA NatInduct == ASSUME NEW S, 0 \in S, \A n \in Nat : n \in S => n + 1 \in S
                   PROVE  Nat \subseteq S
<1>1. SUFFICES ASSUME Nat \ S # {} PROVE FALSE
  OBVIOUS
<1>2. PICK x \in Nat \ S : \A y \in Nat \ S : ~ (<<y, x>> \in OpToRel(<, Nat))
  BY <1>1, NatLessThanWellFounded, WFMin
<1>3. x \in Nat /\ x - 1 \in Nat \ S
  OBVIOUS
<1>4. <<x - 1, x>> \in OpToRel(<, Nat)
  BY <1>3 DEF OpToRel
<1> QED BY <1>2, <1>3, <1>4

Recursion(N, S, base, val, less, f) ==
  /\ N \in Nat /\ base \in SUBSET (0..N) /\ 0 \in base
  /\ val \in [base -> S]
  /\ less \in [(0..N) \ base -> 0..N] /\ \A m \in (0..N) \ base : less[m] < m
  /\ f \in [((0..N) \ base) \X S -> S]

Solves(g, N, base, val, less, f) ==
  \A m \in 0..N : g[m] = IF m \in base THEN val[m] ELSE f[<<m, g[less[m]]>>]

LEMMA RecursionExists ==
  ASSUME NEW N, NEW S, NEW base, NEW val, NEW less, NEW f,
         Recursion(N, S, base, val, less, f)
  PROVE  \E g \in [0..N -> S] : Solves(g, N, base, val, less, f)
<1> USE DEF Recursion
<1> DEFINE Good(g, r) == \A m \in 0..r : g[m] = IF m \in base THEN val[m] ELSE f[<<m, g[less[m]]>>]
           I == {r \in Nat : r <= N => \E g \in [0..r -> S] : Good(g, r)}
<1>1. 0 \in I
  <2> DEFINE g == [m \in 0..0 |-> val[0]]
  <2>1. g \in [0..0 -> S] /\ g[0] = val[0]
    OBVIOUS
  <2>2. Good(g, 0)
    BY <2>1
  <2> QED BY <2>1, <2>2
<1>2. ASSUME NEW r \in Nat, r \in I PROVE r + 1 \in I
  <2> SUFFICES ASSUME r + 1 <= N PROVE \E g \in [0..r+1 -> S] : Good(g, r + 1)
    OBVIOUS
  <2>1. PICK g \in [0..r -> S] : Good(g, r)
    BY <1>2
  <2> DEFINE v == IF r + 1 \in base THEN val[r+1] ELSE f[<<r + 1, g[less[r+1]]>>]
             h == [m \in 0..r+1 |-> IF m = r + 1 THEN v ELSE g[m]]
  <2>2. r + 1 \in 0..N /\ (r + 1 \notin base => less[r+1] \in 0..r)
    OBVIOUS
  <2>3. v \in S
    <3>1. CASE r + 1 \in base
      BY <3>1
    <3>2. CASE r + 1 \notin base
      <4>1. less[r+1] \in 0..r /\ g[less[r+1]] \in S
        BY <2>2, <3>2
      <4>2. <<r + 1, g[less[r+1]]>> \in ((0..N) \ base) \X S
        BY <4>1, <2>2, <3>2
      <4> QED BY <3>2, <4>2
    <3> QED BY <3>1, <3>2
  <2> HIDE DEF v
  <2>4. h \in [0..r+1 -> S]
    BY <2>3
  <2>5. h[r+1] = v /\ \A m \in 0..r : h[m] = g[m]
    OBVIOUS
  <2> HIDE DEF h
  <2>6. ASSUME NEW m \in 0..r+1 PROVE h[m] = IF m \in base THEN val[m] ELSE f[<<m, h[less[m]]>>]
    <3>1. CASE m = r + 1
      BY <3>1, <2>2, <2>5 DEF v
    <3>2. CASE m # r + 1
      <4>1. m \in 0..r /\ (m \notin base => less[m] \in 0..r)
        BY <3>2, <2>2
      <4>2. g[m] = IF m \in base THEN val[m] ELSE f[<<m, g[less[m]]>>]
        BY <4>1, <2>1
      <4> QED BY <4>1, <4>2, <2>5
    <3> QED BY <3>1, <3>2
  <2> QED BY <2>4, <2>6
<1>3. N \in I
  <2> HIDE DEF I
  <2> QED BY <1>1, <1>2, NatInduct
<1> QED BY <1>3 DEF Solves

\* What a recursion that goes from number to number is.
Chain(g, n, S, x, f) ==
  /\ g \in [0..n -> S] /\ g[0] = x
  /\ \A i \in 1..n : g[i] = f[<<i, g[i-1]>>]

LEMMA ChainExists ==
  ASSUME NEW n \in Nat, NEW S, NEW x \in S, NEW f \in [(1..n) \X S -> S]
  PROVE  \E g : Chain(g, n, S, x, f)
<1> DEFINE val == [m \in {0} |-> x]
           less == [m \in (0..n) \ {0} |-> m - 1]
<1>1. (0..n) \ {0} = 1..n
  OBVIOUS
<1>2. Recursion(n, S, {0}, val, less, f)
  BY <1>1 DEF Recursion
<1>3. val[0] = x /\ \A m \in 1..n : less[m] = m - 1
  BY <1>1
<1> HIDE DEF val, less
<1>4. PICK g \in [0..n -> S] : Solves(g, n, {0}, val, less, f)
  BY <1>2, RecursionExists
<1>5. g[0] = x
  <2>1. \A m \in 0..n : g[m] = IF m \in {0} THEN val[m] ELSE f[<<m, g[less[m]]>>]
    BY <1>4 DEF Solves
  <2>2. 0 \in 0..n
    OBVIOUS
  <2>3. g[0] = val[0]
    BY <2>1, <2>2
  <2> QED BY <1>3, <2>3
<1>6. ASSUME NEW i \in 1..n PROVE g[i] = f[<<i, g[i-1]>>]
  <2>1. i \in 0..n /\ i \notin {0} /\ less[i] = i - 1
    BY <1>3
  <2>2. g[i] = f[<<i, g[less[i]]>>]
    BY <2>1, <1>4 DEF Solves
  <2> QED BY <2>1, <2>2
<1> QED BY <1>4, <1>5, <1>6 DEF Chain

LEMMA ChainIs ==
  ASSUME NEW n \in Nat, NEW S, NEW x \in S, NEW f \in [(1..n) \X S -> S], NEW c,
         c = [i \in 0..n |-> c[i]], c[0] = x,
         \A i \in 1..n : c[i-1] \in S => c[i] = f[<<i, c[i-1]>>]
  PROVE  Chain(c, n, S, x, f)
<1> DEFINE I == {r \in Nat : r <= n => c[r] \in S}
<1>1. 0 \in I
  OBVIOUS
<1>2. ASSUME NEW r \in Nat, r \in I PROVE r + 1 \in I
  <2> SUFFICES ASSUME r + 1 <= n PROVE c[r+1] \in S
    OBVIOUS
  <2>1. c[r] \in S /\ r + 1 \in 1..n /\ (r + 1) - 1 = r
    BY <1>2
  <2>2. c[r+1] = f[<<r + 1, c[r]>>]
    BY <2>1
  <2> QED BY <2>1, <2>2
<1>3. Nat \subseteq I
  <2> HIDE DEF I
  <2> QED BY <1>1, <1>2, NatInduct
<1>4. \A i \in 0..n : c[i] \in S
  BY <1>3
<1>5. c \in [0..n -> S]
  BY <1>4
<1>6. ASSUME NEW i \in 1..n PROVE c[i] = f[<<i, c[i-1]>>]
  <2>1. i - 1 \in 0..n
    OBVIOUS
  <2> QED BY <2>1, <1>4
<1> QED BY <1>5, <1>6 DEF Chain

-------------------------------------------------------------------------------
(* Numerals: what Atoi makes of what Numeral has written *)

Byte == STRING
Str == Seq(Byte)

LEMMA SymbolsAreBytes == Symbols \subseteq Byte
BY SymbolsAreStrings DEF Byte

LEMMA DigitsAre ==
  /\ \A d : IsDigit(d) => ValueOf(d) \in 0..9
  /\ \A k \in 0..9 : IsDigit(Digits[k+1]) /\ Digits[k+1] \in Byte /\ ValueOf(Digits[k+1]) = k
  /\ \A d : IsDigit(d) => d \notin {"LF", "-", "+"} /\ d \in Byte
<1> DEFINE D == {"0", "1", "2", "3", "4", "5", "6", "7", "8", "9"}
<1>a. \A i \in 1..10 : Digits[i] \in D
  BY DEF Digits
<1>b. \A d \in D : d \notin {"LF", "-", "+"} /\ d \in Byte
  BY SymbolsAreBytes DEF Symbols
<1> HIDE DEF D
<1>1. ASSUME NEW d, IsDigit(d) PROVE ValueOf(d) \in 0..9
  BY <1>1 DEF IsDigit, ValueOf
<1>2. ASSUME NEW i \in 1..10, NEW j \in 1..10, Digits[i] = Digits[j] PROVE i = j
  BY <1>2 DEF Digits
<1>3. ASSUME NEW k \in 0..9
      PROVE  IsDigit(Digits[k+1]) /\ Digits[k+1] \in Byte /\ ValueOf(Digits[k+1]) = k
  <2>1. IsDigit(Digits[k+1])
    BY DEF IsDigit
  <2>2. Digits[k+1] \in Byte
    BY <1>a, <1>b
  <2>3. k + 1 \in 1..10
    OBVIOUS
  <2>4. (CHOOSE i \in 1..10 : Digits[i] = Digits[k+1]) = k + 1
    <3> DEFINE i == CHOOSE i \in 1..10 : Digits[i] = Digits[k+1]
    <3>1. i \in 1..10 /\ Digits[i] = Digits[k+1]
      BY <2>3
    <3> HIDE DEF i
    <3>2. i = k + 1
      BY <3>1, <2>3, <1>2
    <3> QED BY <3>2 DEF i
  <2>5. ValueOf(Digits[k+1]) = (k + 1) - 1
    BY <2>4 DEF ValueOf
  <2> QED BY <2>1, <2>2, <2>5
<1>4. ASSUME NEW d, IsDigit(d) PROVE d \notin {"LF", "-", "+"} /\ d \in Byte
  BY <1>4, <1>a, <1>b DEF IsDigit
<1> QED BY <1>1, <1>3, <1>4

\* Sequences of digits.
Digital == {w \in Str : w # <<>> /\ \A i \in 1..Len(w) : IsDigit(w[i])}

LEMMA NumeralIs ==
  ASSUME NEW w \in Str
  PROVE  /\ IsNumeral(w) <=> Unsigned(w) \in Digital
         /\ w \in Digital => Unsigned(w) = w /\ w[1] # "-"
<1>1. Unsigned(w) \in Str
  <2>1. CASE w = <<>>
    BY <2>1 DEF Unsigned
  <2>2. CASE w # <<>>
    BY <2>2, HeadTailProperties DEF Unsigned, Str
  <2> QED BY <2>1, <2>2
<1>2. DOMAIN Unsigned(w) = 1..Len(Unsigned(w))
  BY <1>1, LenProperties DEF Str
<1>3. IsNumeral(w) <=> Unsigned(w) \in Digital
  BY <1>1, <1>2 DEF IsNumeral, Digital
<1>4. ASSUME w \in Digital PROVE Unsigned(w) = w /\ w[1] # "-"
  <2>1. 1 \in 1..Len(w)
    BY <1>4, EmptySeq DEF Digital, Str
  <2>2. w[1] \notin {"LF", "-", "+"}
    BY <1>4, <2>1, DigitsAre DEF Digital
  <2> QED BY <2>2 DEF Unsigned
<1> QED BY <1>3, <1>4

\* The function of Atoi, which reads the digits u from the left.
Reading10(u, g) == [i \in 0..Len(u) |-> IF i = 0 THEN 0 ELSE 10 * g[i-1] + ValueOf(u[i])]
Read10(u, g) == /\ g \in [0..Len(u) -> Nat] /\ g[0] = 0
                /\ \A i \in 1..Len(u) : g[i] = 10 * g[i-1] + ValueOf(u[i])

LEMMA AtoiReads ==
  ASSUME NEW w \in Str, IsNumeral(w)
  PROVE  \E g : /\ Read10(Unsigned(w), g)
                /\ Atoi(w) = IF w[1] = "-" THEN -g[Len(Unsigned(w))] ELSE g[Len(Unsigned(w))]
<1> DEFINE u == Unsigned(w)
           f == [p \in (1..Len(u)) \X Nat |-> 10 * p[2] + ValueOf(u[p[1]])]
           c == CHOOSE g : g = Reading10(u, g)
<1>1. u \in Digital
  BY NumeralIs
<1> HIDE DEF u
<1>2. Len(u) \in Nat /\ \A i \in 1..Len(u) : ValueOf(u[i]) \in 0..9
  BY <1>1, LenProperties, DigitsAre DEF Digital, Str
<1>3. f \in [(1..Len(u)) \X Nat -> Nat]
  BY <1>2
<1>4. \A i \in 1..Len(u), k \in Nat : f[<<i, k>>] = 10 * k + ValueOf(u[i])
  OBVIOUS
<1> HIDE DEF f
<1>5. \E g : g = Reading10(u, g)
  <2>1. PICK g : Chain(g, Len(u), Nat, 0, f)
    BY <1>2, <1>3, ChainExists
  <2>2. ASSUME NEW i \in 0..Len(u) PROVE g[i] = IF i = 0 THEN 0 ELSE 10 * g[i-1] + ValueOf(u[i])
    <3>1. CASE i = 0
      BY <3>1, <2>1 DEF Chain
    <3>2. CASE i # 0
      <4>1. i \in 1..Len(u) /\ i - 1 \in 0..Len(u)
        BY <3>2
      <4> QED BY <4>1, <1>4, <2>1 DEF Chain
    <3> QED BY <3>1, <3>2
  <2>3. g = [i \in 0..Len(u) |-> g[i]]
    BY <2>1 DEF Chain
  <2>4. g = Reading10(u, g)
    BY <2>2, <2>3 DEF Reading10
  <2> QED BY <2>4
<1>6. c = Reading10(u, c)
  BY <1>5, Zenon
<1> HIDE DEF c
<1>7. c = [i \in 0..Len(u) |-> c[i]] /\ c[0] = 0
      /\ \A i \in 1..Len(u) : c[i] = 10 * c[i-1] + ValueOf(u[i])
  <2>1. c = [i \in 0..Len(u) |-> IF i = 0 THEN 0 ELSE 10 * c[i-1] + ValueOf(u[i])]
    BY <1>6 DEF Reading10
  <2>2. \A i \in 0..Len(u) : c[i] = IF i = 0 THEN 0 ELSE 10 * c[i-1] + ValueOf(u[i])
    BY <2>1, Zenon
  <2>3. c = [i \in 0..Len(u) |-> c[i]]
    BY <2>1, <2>2, Zenon
  <2>4. 0 \in 0..Len(u) /\ \A i \in 1..Len(u) : i \in 0..Len(u) /\ i # 0
    BY <1>2
  <2> QED BY <2>2, <2>3, <2>4
<1>8. Chain(c, Len(u), Nat, 0, f)
  BY <1>2, <1>3, <1>4, <1>7, ChainIs
<1>9. Read10(u, c)
  BY <1>7, <1>8 DEF Read10, Chain
<1>10. Atoi(w) = IF w[1] = "-" THEN -c[Len(u)] ELSE c[Len(u)]
  BY DEF Atoi, Reading10, u, c
<1> QED BY <1>9, <1>10 DEF u
LEMMA AtoiTyped ==
  ASSUME NEW w \in Str, IsNumeral(w)
  PROVE  Atoi(w) \in Int
<1>1. PICK g : /\ Read10(Unsigned(w), g)
               /\ Atoi(w) = IF w[1] = "-" THEN -g[Len(Unsigned(w))] ELSE g[Len(Unsigned(w))]
  BY AtoiReads
<1>2. Len(Unsigned(w)) \in Nat
  BY NumeralIs, LenProperties DEF Digital, Str
<1>3. g[Len(Unsigned(w))] \in Nat
  BY <1>1, <1>2 DEF Read10
<1> QED BY <1>1, <1>3

\* For digits only, Atoi is determined by the function that Read10 describes.
LEMMA AtoiDigital ==
  ASSUME NEW w \in Digital
  PROVE  \E g : Read10(w, g) /\ Atoi(w) = g[Len(w)]
<1>1. w \in Str /\ Unsigned(w) = w /\ w[1] # "-" /\ IsNumeral(w)
  BY NumeralIs DEF Digital
<1> QED BY <1>1, AtoiReads

LEMMA AtoiOne ==
  ASSUME NEW d, IsDigit(d)
  PROVE  <<d>> \in Digital /\ Atoi(<<d>>) = ValueOf(d)
<1>1. d \in Byte /\ ValueOf(d) \in 0..9
  BY DigitsAre
<1>2. <<d>> \in Digital /\ Len(<<d>>) = 1 /\ <<d>>[1] = d
  BY <1>1 DEF Digital, Str
<1>3. PICK g : Read10(<<d>>, g) /\ Atoi(<<d>>) = g[Len(<<d>>)]
  BY <1>2, AtoiDigital
<1>4. g[0] = 0 /\ g[1] = 10 * g[0] + ValueOf(d)
  BY <1>2, <1>3 DEF Read10
<1> QED BY <1>1, <1>2, <1>3, <1>4

LEMMA AtoiAppend ==
  ASSUME NEW w \in Digital, NEW d, IsDigit(d)
  PROVE  w \o <<d>> \in Digital /\ Atoi(w \o <<d>>) = 10 * Atoi(w) + ValueOf(d)
<1> DEFINE n == Len(w)
           z == w \o <<d>>
<1>1. d \in Byte /\ ValueOf(d) \in 0..9 /\ w \in Str /\ n \in Nat
  BY DigitsAre, LenProperties DEF Digital, Str
<1>2. /\ z \in Str /\ Len(z) = n + 1
      /\ \A i \in 1..n : z[i] = w[i]
      /\ z[n+1] = d
  <2>1. <<d>> \in Str /\ Len(<<d>>) = 1 /\ <<d>>[1] = d
    BY <1>1 DEF Str
  <2>2. /\ z \in Str /\ Len(z) = n + 1
        /\ \A i \in 1..n + 1 : z[i] = IF i <= n THEN w[i] ELSE <<d>>[i - n]
    BY <1>1, <2>1, ConcatProperties DEF Str
  <2> HIDE DEF z, n
  <2>3. z[n+1] = <<d>>[(n + 1) - n]
    <3>1. n + 1 \in 1..n + 1 /\ ~(n + 1 <= n)
      BY <1>1
    <3> QED BY <3>1, <2>2
  <2>4. (n + 1) - n = 1 /\ \A i \in 1..n : i \in 1..n + 1 /\ i <= n
    BY <1>1
  <2> QED BY <2>1, <2>2, <2>3, <2>4
<1> HIDE DEF z, n
<1>3. z \in Digital
  BY <1>1, <1>2 DEF Digital, n
<1>4. PICK g : Read10(w, g) /\ Atoi(w) = g[Len(w)]
  BY AtoiDigital
<1>5. PICK h : Read10(z, h) /\ Atoi(z) = h[Len(z)]
  BY <1>3, AtoiDigital
<1> DEFINE I == {r \in Nat : r <= n => h[r] = g[r]}
<1>6. 0 \in I
  BY <1>4, <1>5 DEF Read10
<1>7. ASSUME NEW r \in Nat, r \in I PROVE r + 1 \in I
  <2> SUFFICES ASSUME r + 1 <= n PROVE h[r+1] = g[r+1]
    OBVIOUS
  <2>1. r + 1 \in 1..Len(w) /\ r + 1 \in 1..Len(z) /\ (r + 1) - 1 = r /\ z[r+1] = w[r+1]
    BY <1>1, <1>2 DEF n
  <2>2. h[r] = g[r]
    BY <1>1, <1>7
  <2>3. g[r+1] = 10 * g[r] + ValueOf(w[r+1])
    BY <2>1, <1>4 DEF Read10
  <2>4. h[r+1] = 10 * h[r] + ValueOf(z[r+1])
    BY <2>1, <1>5 DEF Read10
  <2> QED BY <2>1, <2>2, <2>3, <2>4
<1>8. n \in I
  <2> HIDE DEF I
  <2> QED BY <1>1, <1>6, <1>7, NatInduct
<1>9. h[n] = g[n]
  BY <1>1, <1>8
<1>10. h[n+1] = 10 * h[n] + ValueOf(d)
  <2>1. n + 1 \in 1..Len(z) /\ (n + 1) - 1 = n
    BY <1>1, <1>2
  <2> QED BY <2>1, <1>2, <1>5 DEF Read10
<1>11. Atoi(z) = 10 * Atoi(w) + ValueOf(d)
  BY <1>2, <1>4, <1>5, <1>9, <1>10 DEF n
<1> QED BY <1>3, <1>11 DEF z

\* The function of Numeral.
Writing10(n, g) == [m \in 0..n |-> IF m < 10 THEN <<Digits[m + 1]>>
                                   ELSE g[m \div 10] \o <<Digits[(m % 10) + 1]>>]

LEMMA WritingExists == ASSUME NEW n \in Nat PROVE \E g : g = Writing10(n, g)
<1> DEFINE base == {m \in 0..n : m < 10}
           val == [m \in base |-> <<Digits[m + 1]>>]
           less == [m \in (0..n) \ base |-> m \div 10]
           f == [p \in ((0..n) \ base) \X Str |-> p[2] \o <<Digits[(p[1] % 10) + 1]>>]
<1>1. \A k \in 0..9 : <<Digits[k + 1]>> \in Str
  BY DigitsAre DEF Str
<1>2. \A m \in (0..n) \ base : m \div 10 \in 0..n /\ m \div 10 < m /\ m % 10 \in 0..9
  OBVIOUS
<1>3. val \in [base -> Str]
  BY <1>1
<1>4. f \in [((0..n) \ base) \X Str -> Str]
  <2>1. ASSUME NEW m \in (0..n) \ base, NEW w \in Str
        PROVE  w \o <<Digits[(m % 10) + 1]>> \in Str
    BY <1>1, <1>2, ConcatProperties DEF Str
  <2> QED BY <2>1
<1>5. Recursion(n, Str, base, val, less, f)
  <2>1. 0 \in base /\ base \in SUBSET (0..n)
    OBVIOUS
  <2>2. less \in [(0..n) \ base -> 0..n] /\ \A m \in (0..n) \ base : less[m] < m
    BY <1>2
  <2> HIDE DEF base, val, less, f
  <2> QED BY <2>1, <2>2, <1>3, <1>4 DEF Recursion
<1>6. PICK g \in [0..n -> Str] : Solves(g, n, base, val, less, f)
  <2> HIDE DEF base, val, less, f
  <2> QED BY <1>5, RecursionExists
<1>7. ASSUME NEW m \in 0..n
      PROVE  g[m] = IF m < 10 THEN <<Digits[m + 1]>>
                    ELSE g[m \div 10] \o <<Digits[(m % 10) + 1]>>
  <2>1. g[m] = IF m \in base THEN val[m] ELSE f[<<m, g[less[m]]>>]
    <3> HIDE DEF base, val, less, f
    <3> QED BY <1>6 DEF Solves
  <2>2. CASE m < 10
    BY <2>1, <2>2
  <2>3. CASE ~(m < 10)
    <3>1. m \in (0..n) \ base /\ less[m] = m \div 10 /\ g[m \div 10] \in Str
      BY <2>3, <1>2
    <3>2. f[<<m, g[m \div 10]>>] = g[m \div 10] \o <<Digits[(m % 10) + 1]>>
      BY <3>1
    <3> HIDE DEF base, val, less, f
    <3> QED BY <2>1, <2>3, <3>1, <3>2
  <2> QED BY <2>2, <2>3
<1>8. g = [m \in 0..n |-> g[m]]
  BY <1>6
<1>9. g = Writing10(n, g)
  BY <1>7, <1>8, Zenon DEF Writing10
<1> QED BY <1>9

LEMMA WritingReads ==
  ASSUME NEW n \in Nat, NEW g, g = Writing10(n, g)
  PROVE  \A m \in 0..n : g[m] \in Digital /\ Atoi(g[m]) = m
<1> DEFINE I == {r \in Nat : \A m \in 0..r : m <= n => g[m] \in Digital /\ Atoi(g[m]) = m}
<1>1. \A m \in 0..n : g[m] = IF m < 10 THEN <<Digits[m + 1]>>
                             ELSE g[m \div 10] \o <<Digits[(m % 10) + 1]>>
  BY Zenon DEF Writing10
<1>2. ASSUME NEW m \in 0..n, m < 10 PROVE g[m] \in Digital /\ Atoi(g[m]) = m
  <2>1. m \in 0..9
    BY <1>2
  <2>2. IsDigit(Digits[m + 1]) /\ ValueOf(Digits[m + 1]) = m
    BY <2>1, DigitsAre
  <2> QED BY <1>1, <1>2, <2>2, AtoiOne
<1>3. 0 \in I
  BY <1>2
<1>4. ASSUME NEW r \in Nat, r \in I PROVE r + 1 \in I
  <2> SUFFICES ASSUME NEW m \in 0..r+1, m <= n PROVE g[m] \in Digital /\ Atoi(g[m]) = m
    OBVIOUS
  <2>1. CASE m < 10
    BY <2>1, <1>2
  <2>2. CASE ~(m < 10)
    <3> DEFINE q == m \div 10
               d == Digits[(m % 10) + 1]
    <3>1. q \in 0..r /\ q <= n /\ m % 10 \in 0..9 /\ m = 10 * q + (m % 10)
      BY <2>2
    <3>2. g[q] \in Digital /\ Atoi(g[q]) = q
      BY <3>1, <1>4
    <3>3. IsDigit(d) /\ ValueOf(d) = m % 10
      BY <3>1, DigitsAre
    <3>4. g[m] = g[q] \o <<d>>
      <4>1. m \in 0..n
        OBVIOUS
      <4> QED BY <4>1, <1>1, <2>2
    <3> HIDE DEF q, d
    <3> QED BY <3>1, <3>2, <3>3, <3>4, AtoiAppend
  <2> QED BY <2>1, <2>2
<1>5. n \in I
  <2> HIDE DEF I
  <2> QED BY <1>3, <1>4, NatInduct
<1> QED BY <1>5

\* Atoi reads what Numeral writes, and there is no LF in it.
LEMMA NumeralReads ==
  ASSUME NEW n \in Int
  PROVE  /\ Numeral(n) \in Str /\ \A i \in 1..Len(Numeral(n)) : Numeral(n)[i] # "LF"
         /\ n >= 0 => IsNumeral(Numeral(n)) /\ Atoi(Numeral(n)) = n
<1> DEFINE m == IF n < 0 THEN -n ELSE n
           c == CHOOSE g : g = Writing10(m, g)
<1>1. m \in Nat
  OBVIOUS
<1> HIDE DEF m
<1>2. c = Writing10(m, c)
  BY <1>1, WritingExists, Zenon
<1>3. Numeral(n) = IF n < 0 THEN <<"-">> \o c[m] ELSE c[m]
  BY DEF Numeral, Writing10, m, c
<1> HIDE DEF c
<1>4. c[m] \in Digital /\ Atoi(c[m]) = m
  BY <1>1, <1>2, WritingReads
<1>5. c[m] \in Str /\ \A i \in 1..Len(c[m]) : c[m][i] # "LF"
  BY <1>4, DigitsAre DEF Digital
<1>6. CASE n < 0
  <2>1. <<"-">> \in Str /\ Len(<<"-">>) = 1 /\ <<"-">>[1] = "-"
    <3>1. "-" \in Byte
      BY SymbolsAreBytes DEF Symbols
    <3> QED BY <3>1 DEF Str
  <2> DEFINE z == <<"-">> \o c[m]
  <2>2. /\ z \in Str /\ Len(z) = 1 + Len(c[m])
        /\ \A i \in 1..1 + Len(c[m]) : z[i] = IF i <= 1 THEN <<"-">>[i] ELSE c[m][i - 1]
    BY <2>1, <1>5, ConcatProperties DEF Str
  <2>3. Len(c[m]) \in Nat
    BY <1>5, LenProperties DEF Str
  <2> HIDE DEF z
  <2>4. ASSUME NEW i \in 1..Len(z) PROVE z[i] # "LF"
    <3>1. CASE i = 1
      BY <3>1, <2>1, <2>2, <2>3
    <3>2. CASE i # 1
      <4>1. i - 1 \in 1..Len(c[m]) /\ z[i] = c[m][i - 1]
        BY <3>2, <2>2, <2>3
      <4> QED BY <4>1, <1>5
    <3> QED BY <3>1, <3>2
  <2>5. Numeral(n) = z
    BY <1>3, <1>6 DEF z
  <2> QED BY <2>2, <2>4, <2>5, <1>6
<1>7. CASE ~(n < 0)
  <2>1. Numeral(n) = c[m] /\ m = n
    BY <1>3, <1>7 DEF m
  <2>2. IsNumeral(c[m])
    BY <1>4, NumeralIs DEF Digital
  <2> QED BY <2>1, <2>2, <1>4, <1>5
<1> QED BY <1>6, <1>7

-------------------------------------------------------------------------------
(* Lines: a line ends at its first LF, and what follows does not change it. *)

FirstEnd(s, n) == n \in 1..Len(s) /\ s[n] = "LF" /\ \A j \in 1..n-1 : s[j] # "LF"

LineLength(s, n) == IF n > 1 /\ s[n - 1] = "CR" THEN n - 2 ELSE n - 1

LEMMA FirstEndExists == ASSUME NEW s \in Str, Ends(s) # {} PROVE \E n : FirstEnd(s, n)
<1>1. PICK n \in Ends(s) : \A m \in Ends(s) : ~ (<<m, n>> \in OpToRel(<, Nat))
  <2>1. Ends(s) \subseteq Nat
    BY LenProperties DEF Ends, Str
  <2> QED BY <2>1, NatLessThanWellFounded, WFMin
<1>2. DOMAIN s = 1..Len(s) /\ Len(s) \in Nat
  BY LenProperties DEF Str
<1>3. n \in 1..Len(s) /\ s[n] = "LF"
  BY <1>2 DEF Ends
<1>4. ASSUME NEW j \in 1..n-1 PROVE s[j] # "LF"
  <2>1. j \in Nat /\ n \in Nat /\ j < n /\ j \in DOMAIN s
    BY <1>2, <1>3
  <2>2. <<j, n>> \in OpToRel(<, Nat)
    BY <2>1 DEF OpToRel
  <2> QED BY <1>1, <2>1, <2>2 DEF Ends
<1> QED BY <1>3, <1>4 DEF FirstEnd

LEMMA LineAt ==
  ASSUME NEW s \in Str, NEW n, FirstEnd(s, n)
  PROVE  ReadLine(s) = Done(SubSeq(s, 1, LineLength(s, n)), SubSeq(s, n + 1, Len(s)))
<1>1. DOMAIN s = 1..Len(s) /\ Len(s) \in Nat
  BY LenProperties DEF Str
<1>2. n \in Ends(s) /\ \A j \in Ends(s) : n <= j
  BY <1>1 DEF FirstEnd, Ends
<1>3. n = CHOOSE i \in Ends(s) : \A j \in Ends(s) : i <= j
  <2>1. \A i \in Ends(s) : i \in Nat
    BY <1>1 DEF Ends
  <2>2. \A i \in Ends(s) : (\A j \in Ends(s) : i <= j) => i = n
    BY <1>2, <2>1
  <2> QED BY <1>2, <2>2
<1> QED BY <1>2, <1>3 DEF ReadLine, LineLength

LEMMA NoLine == ASSUME NEW s, Ends(s) = {} PROVE ReadLine(s) = More
BY DEF ReadLine

LEMMA SubStr ==
  ASSUME NEW s \in Str, NEW m \in Nat \ {0}, NEW n \in Int, n <= Len(s)
  PROVE  /\ SubSeq(s, m, n) \in Str
         /\ Len(SubSeq(s, m, n)) = IF m <= n THEN n - m + 1 ELSE 0
         /\ \A i \in 1..n-m+1 : SubSeq(s, m, n)[i] = s[m + i - 1]
<1>1. Len(s) \in Nat
  BY LenProperties DEF Str
<1>2. \A i \in m..n : s[i] \in Byte
  <2> TAKE i \in m..n
  <2>1. i \in 1..Len(s)
    BY <1>1
  <2> QED BY <2>1, ElementOfSeq DEF Str
<1> QED BY <1>2, SubSeqProperties DEF Str

LEMMA Suffix ==
  ASSUME NEW s \in Str, NEW n \in 0..Len(s)
  PROVE  /\ SubSeq(s, n + 1, Len(s)) \in Str
         /\ Len(SubSeq(s, n + 1, Len(s))) = Len(s) - n
         /\ \A i \in 1..Len(s)-n : SubSeq(s, n + 1, Len(s))[i] = s[n + i]
<1> DEFINE q == SubSeq(s, n + 1, Len(s))
<1>1. Len(s) \in Nat /\ n + 1 \in Nat \ {0}
  BY LenProperties DEF Str
<1>2. /\ q \in Str
      /\ Len(q) = IF n + 1 <= Len(s) THEN Len(s) - (n + 1) + 1 ELSE 0
      /\ \A i \in 1..Len(s) - (n + 1) + 1 : q[i] = s[n + 1 + i - 1]
  BY <1>1, SubStr
<1> HIDE DEF q
<1>3. Len(q) = Len(s) - n
  BY <1>1, <1>2
<1>4. ASSUME NEW i \in 1..Len(s)-n PROVE q[i] = s[n + i]
  <2>1. i \in 1..Len(s) - (n + 1) + 1 /\ n + 1 + i - 1 = n + i
    BY <1>1
  <2> QED BY <2>1, <1>2
<1> QED BY <1>2, <1>3, <1>4 DEF q

LEMMA DoneIs ==
  ASSUME NEW a, NEW r
  PROVE  Done(a, r).is = "done" /\ Done(a, r).args = a /\ Done(a, r).rest = r
BY DEF Done

LEMMA DoneFields ==
  ASSUME NEW x, NEW a, NEW r, x = Done(a, r)
  PROVE  x.is = "done" /\ x.args = a /\ x.rest = r
BY DoneIs

Lines == {[is |-> "done", args |-> a, rest |-> r] : a \in Str, r \in Str}

LEMMA LineTyped ==
  ASSUME NEW s \in Str
  PROVE  \/ ReadLine(s) = More
         \/ ReadLine(s) \in Lines /\ Len(ReadLine(s).rest) < Len(s)
<1>1. CASE Ends(s) = {}
  BY <1>1, NoLine
<1>2. CASE Ends(s) # {}
  <2>1. PICK n : FirstEnd(s, n)
    BY <1>2, FirstEndExists
  <2>2. Len(s) \in Nat /\ n \in 1..Len(s)
    BY <2>1, LenProperties DEF Str, FirstEnd
  <2>3. LineLength(s, n) \in 0..Len(s)
    BY <2>2 DEF LineLength
  <2> DEFINE a == SubSeq(s, 1, LineLength(s, n))
             r == SubSeq(s, n + 1, Len(s))
  <2>4. a \in Str
    BY <2>2, <2>3, SubStr
  <2>5. r \in Str /\ Len(r) < Len(s)
    BY <2>2, SubStr
  <2>6. ReadLine(s) = Done(a, r)
    BY <2>1, LineAt
  <2> HIDE DEF a, r
  <2> QED BY <2>4, <2>5, <2>6 DEF Lines, Done
<1> QED BY <1>1, <1>2

LEMMA SuffixOfConcat ==
  ASSUME NEW s \in Str, NEW t \in Str, NEW n \in 0..Len(s)
  PROVE  SubSeq(s \o t, n + 1, Len(s \o t)) = SubSeq(s, n + 1, Len(s)) \o t
<1>1. Len(s) \in Nat /\ Len(t) \in Nat
  BY LenProperties DEF Str
<1>2. /\ s \o t \in Str /\ Len(s \o t) = Len(s) + Len(t)
      /\ \A i \in 1..Len(s) : (s \o t)[i] = s[i]
      /\ \A i \in 1..Len(t) : (s \o t)[Len(s) + i] = t[i]
  BY <1>1, ConcatProperties DEF Str
<1> DEFINE l == SubSeq(s \o t, n + 1, Len(s \o t))
           q == SubSeq(s, n + 1, Len(s))
<1>3. /\ l \in Str /\ Len(l) = Len(s) + Len(t) - n
      /\ \A i \in 1..Len(l) : l[i] = (s \o t)[n + i]
  <2>1. n \in 0..Len(s \o t)
    BY <1>1, <1>2
  <2> DEFINE z == s \o t
  <2>2. z \in Str /\ Len(z) = Len(s) + Len(t)
    BY <1>2
  <2> HIDE DEF z
  <2>3. n \in 0..Len(z)
    BY <2>2, <1>1
  <2>4. /\ SubSeq(z, n + 1, Len(z)) \in Str
        /\ Len(SubSeq(z, n + 1, Len(z))) = Len(z) - n
        /\ \A i \in 1..Len(z)-n : SubSeq(z, n + 1, Len(z))[i] = z[n + i]
    BY <2>2, <2>3, Suffix
  <2> HIDE DEF l
  <2>5. l = SubSeq(z, n + 1, Len(z))
    BY DEF l, z
  <2>6. Len(l) = Len(s) + Len(t) - n
    BY <1>1, <2>2, <2>4, <2>5
  <2>7. \A i \in 1..Len(l) : l[i] = z[n + i]
    BY <1>1, <2>2, <2>4, <2>5
  <2> QED BY <2>4, <2>5, <2>6, <2>7 DEF z
<1>4. /\ q \in Str /\ Len(q) = Len(s) - n
      /\ \A i \in 1..Len(q) : q[i] = s[n + i]
  BY <1>1, Suffix
<1> HIDE DEF l, q
<1>5. /\ q \o t \in Str /\ Len(q \o t) = Len(l)
      /\ \A i \in 1..Len(l) : (q \o t)[i] = IF i <= Len(q) THEN q[i] ELSE t[i - Len(q)]
  <2>1. /\ q \o t \in Str /\ Len(q \o t) = Len(q) + Len(t)
        /\ \A i \in 1..Len(q) + Len(t) : (q \o t)[i] = IF i <= Len(q) THEN q[i] ELSE t[i - Len(q)]
    BY <1>4, ConcatProperties DEF Str
  <2>2. Len(l) = Len(q) + Len(t)
    BY <1>3, <1>4, <1>1
  <2> QED BY <2>1, <2>2
<1>6. ASSUME NEW i \in 1..Len(l) PROVE l[i] = (q \o t)[i]
  <2>1. l[i] = (s \o t)[n + i] /\ (q \o t)[i] = IF i <= Len(q) THEN q[i] ELSE t[i - Len(q)]
    BY <1>3, <1>5
  <2>2. CASE i <= Len(q)
    <3>1. n + i \in 1..Len(s) /\ i \in 1..Len(q)
      BY <2>2, <1>3, <1>4, <1>1
    <3> QED BY <2>1, <2>2, <3>1, <1>4, <1>2
  <2>3. CASE i > Len(q)
    <3>1. i - Len(q) \in 1..Len(t) /\ n + i = Len(s) + (i - Len(q))
      BY <2>3, <1>3, <1>4, <1>1
    <3>2. (s \o t)[n + i] = t[i - Len(q)]
      BY <3>1, <1>2
    <3> QED BY <2>1, <2>3, <3>2, <1>3, <1>4, <1>1
  <2> QED BY <2>2, <2>3, <1>3, <1>4, <1>1
<1>7. l = q \o t
  BY <1>3, <1>5, <1>6, SeqEqual DEF Str
<1> QED BY <1>7, <1>2 DEF l, q

\* The line of s, when there is one, is that of s followed by anything.
LEMMA LineExtends ==
  ASSUME NEW s \in Str, NEW t \in Str, ReadLine(s).is = "done"
  PROVE  ReadLine(s \o t) = Done(ReadLine(s).args, ReadLine(s).rest \o t)
<1>1. PICK n : FirstEnd(s, n)
  <2>1. Ends(s) # {}
    BY NoLine DEF More
  <2> QED BY <2>1, FirstEndExists
<1>2. Len(s) \in Nat /\ Len(t) \in Nat /\ n \in 1..Len(s)
  BY <1>1, LenProperties DEF Str, FirstEnd
<1>3. /\ s \o t \in Str /\ Len(s \o t) = Len(s) + Len(t)
      /\ \A i \in 1..Len(s) : (s \o t)[i] = s[i]
      /\ \A i \in 1..Len(t) : (s \o t)[Len(s) + i] = t[i]
  BY <1>2, ConcatProperties DEF Str
<1>4. FirstEnd(s \o t, n)
  BY <1>1, <1>2, <1>3 DEF FirstEnd
<1>5. LineLength(s \o t, n) = LineLength(s, n) /\ LineLength(s, n) \in 0..n-1
  BY <1>2, <1>3 DEF LineLength
<1> DEFINE m == LineLength(s, n)
<1>6. SubSeq(s \o t, 1, m) = SubSeq(s, 1, m)
  <2>1. CASE m = 0
    BY <2>1, SubSeqEmpty
  <2>2. CASE m # 0
    <3>1. m \in 1..Len(s) /\ 1 \in 1..Len(s)
      BY <2>2, <1>2, <1>5
    <3> HIDE DEF m
    <3> QED BY <3>1, SubSeqOfConcat1 DEF Str
  <2> QED BY <2>1, <2>2
<1>7. SubSeq(s \o t, n + 1, Len(s \o t)) = SubSeq(s, n + 1, Len(s)) \o t
  <2>1. n \in 0..Len(s)
    BY <1>2
  <2> QED BY <2>1, SuffixOfConcat
<1>8. ReadLine(s) = Done(SubSeq(s, 1, m), SubSeq(s, n + 1, Len(s)))
  BY <1>1, LineAt
<1>9. ReadLine(s \o t) = Done(SubSeq(s \o t, 1, m), SubSeq(s \o t, n + 1, Len(s \o t)))
  BY <1>3, <1>4, <1>5, LineAt
<1> HIDE DEF m
<1>10. ReadLine(s).args = SubSeq(s, 1, m) /\ ReadLine(s).rest = SubSeq(s, n + 1, Len(s))
  <2>1. /\ Done(SubSeq(s, 1, m), SubSeq(s, n + 1, Len(s))).args = SubSeq(s, 1, m)
        /\ Done(SubSeq(s, 1, m), SubSeq(s, n + 1, Len(s))).rest = SubSeq(s, n + 1, Len(s))
    BY DoneIs
  <2> QED BY <1>8, <2>1
<1> QED BY <1>6, <1>7, <1>9, <1>10

LEMMA OneSymbol ==
  ASSUME NEW d \in Byte
  PROVE  <<d>> \in Str /\ Len(<<d>>) = 1 /\ <<d>>[1] = d
BY DEF Str

\* How texts are put together does not matter.
LEMMA ConcatTwice ==
  ASSUME NEW a \in Str, NEW b \in Str, NEW c \in Str
  PROVE  (a \o b) \o c = a \o (b \o c)
BY ConcatAssociative DEF Str

LEMMA CRLFIs == CRLF \in Str /\ Len(CRLF) = 2 /\ CRLF[1] = "CR" /\ CRLF[2] = "LF"
<1>1. "CR" \in Byte /\ "LF" \in Byte
  BY SymbolsAreBytes DEF Symbols
<1> QED BY <1>1 DEF CRLF, Str

NoEnd(a) == \A i \in 1..Len(a) : a[i] # "LF"

\* A text without LF that CR LF ends is a line.
LEMMA LineOf ==
  ASSUME NEW a \in Str, NoEnd(a), NEW r \in Str
  PROVE  a \o CRLF \o r \in Str /\ ReadLine(a \o CRLF \o r) = Done(a, r)
<1> DEFINE b == a \o CRLF
           s == b \o r
           n == Len(a) + 2
<1>1. Len(a) \in Nat /\ Len(r) \in Nat
  BY LenProperties DEF Str
<1>2. /\ b \in Str /\ Len(b) = n
      /\ \A i \in 1..n : b[i] = IF i <= Len(a) THEN a[i] ELSE CRLF[i - Len(a)]
  <2>1. /\ b \in Str /\ Len(b) = Len(a) + Len(CRLF)
        /\ \A i \in 1..Len(a) + Len(CRLF) : b[i] = IF i <= Len(a) THEN a[i] ELSE CRLF[i - Len(a)]
    BY CRLFIs, ConcatProperties DEF Str
  <2>2. Len(CRLF) = 2
    BY CRLFIs
  <2> HIDE DEF b
  <2> QED BY <2>1, <2>2
<1>3. /\ s \in Str /\ Len(s) = n + Len(r)
      /\ \A i \in 1..n + Len(r) : s[i] = IF i <= n THEN b[i] ELSE r[i - n]
  <2> HIDE DEF b, n
  <2> QED BY <1>2, ConcatProperties DEF Str
<1>4. b[Len(a) + 1] = "CR" /\ b[n] = "LF" /\ \A i \in 1..Len(a) : b[i] = a[i]
  <2>1. Len(a) + 1 \in 1..n /\ n \in 1..n /\ (Len(a) + 1) - Len(a) = 1 /\ n - Len(a) = 2
    BY <1>1
  <2>2. ~(Len(a) + 1 <= Len(a)) /\ ~(n <= Len(a)) /\ \A i \in 1..Len(a) : i \in 1..n
    BY <1>1
  <2> HIDE DEF b, n
  <2> QED BY <2>1, <2>2, <1>2, CRLFIs
<1>5. s[n] = "LF" /\ s[n - 1] = "CR" /\ \A i \in 1..Len(a) : s[i] = a[i]
  <2>1. n \in 1..n + Len(r) /\ n - 1 \in 1..n + Len(r) /\ n - 1 = Len(a) + 1 /\ n - 1 <= n
        /\ n <= n /\ \A i \in 1..Len(a) : i \in 1..n + Len(r) /\ i <= n
    BY <1>1
  <2> HIDE DEF b, s, n
  <2>2. s[n] = b[n] /\ s[n-1] = b[n-1] /\ \A i \in 1..Len(a) : s[i] = b[i]
    BY <2>1, <1>3
  <2> QED BY <2>1, <2>2, <1>4
<1>6. FirstEnd(s, n) /\ LineLength(s, n) = Len(a)
  <2>1. n \in 1..Len(s) /\ n > 1 /\ n - 2 = Len(a)
    BY <1>1, <1>3
  <2>2. ASSUME NEW j \in 1..n-1 PROVE s[j] # "LF"
    <3>1. CASE j \in 1..Len(a)
      BY <3>1, <1>5 DEF NoEnd
    <3>2. CASE j \notin 1..Len(a)
      <4>1. j = n - 1
        BY <3>2, <1>1
      <4> QED BY <4>1, <1>5
    <3> QED BY <3>1, <3>2
  <2> HIDE DEF s, n
  <2> QED BY <2>1, <2>2, <1>5 DEF FirstEnd, LineLength
<1>7. SubSeq(s, 1, Len(a)) = a
  <2> HIDE DEF s
  <2>1. /\ SubSeq(s, 1, Len(a)) \in Str /\ Len(SubSeq(s, 1, Len(a))) = Len(a)
        /\ \A i \in 1..Len(a) : SubSeq(s, 1, Len(a))[i] = s[i]
    <3>1. Len(a) <= Len(s)
      BY <1>1, <1>3
    <3>2. /\ SubSeq(s, 1, Len(a)) \in Str
          /\ Len(SubSeq(s, 1, Len(a))) = IF 1 <= Len(a) THEN Len(a) - 1 + 1 ELSE 0
          /\ \A i \in 1..Len(a)-1+1 : SubSeq(s, 1, Len(a))[i] = s[1 + i - 1]
      BY <1>1, <1>3, <3>1, SubStr
    <3>3. \A i \in 1..Len(a) : i \in 1..Len(a)-1+1 /\ 1 + i - 1 = i
      BY <1>1
    <3> QED BY <1>1, <3>2, <3>3
  <2> QED BY <2>1, <1>5, SeqEqual DEF Str
<1>8. SubSeq(s, n + 1, Len(s)) = r
  <2>1. n \in 0..Len(s) /\ Len(s) - n = Len(r)
    BY <1>1, <1>3
  <2> HIDE DEF s
  <2> DEFINE q == SubSeq(s, n + 1, Len(s))
  <2>2. q \in Str /\ Len(q) = Len(r) /\ \A i \in 1..Len(r) : q[i] = s[n + i]
    <3> HIDE DEF n
    <3> QED BY <2>1, <1>3, Suffix
  <2>3. \A i \in 1..Len(r) : s[n + i] = r[i]
    <3> TAKE i \in 1..Len(r)
    <3>1. n + i \in 1..n + Len(r) /\ ~(n + i <= n) /\ (n + i) - n = i
      BY <1>1
    <3> HIDE DEF n
    <3> QED BY <3>1, <1>3
  <2> HIDE DEF q
  <2>4. q = r
    BY <2>2, <2>3, SeqEqual DEF Str
  <2> QED BY <2>4 DEF q
<1>9. ReadLine(s) = Done(SubSeq(s, 1, LineLength(s, n)), SubSeq(s, n + 1, Len(s)))
  BY <1>3, <1>6, LineAt
<1> QED BY <1>3, <1>6, <1>7, <1>8, <1>9

\* The same with nothing after it.
LEMMA LastLine ==
  ASSUME NEW a \in Str, NoEnd(a)
  PROVE  a \o CRLF \in Str /\ ReadLine(a \o CRLF) = Done(a, <<>>)
<1>1. <<>> \in Str /\ a \o CRLF \in Str
  BY CRLFIs, ConcatProperties, EmptySeq DEF Str
<1>2. (a \o CRLF) \o <<>> = a \o CRLF
  BY <1>1, ConcatEmptySeq DEF Str
<1> QED BY <1>1, <1>2, LineOf

-------------------------------------------------------------------------------
(* How a client takes replies apart: what it makes of a reply is not changed *)
(* by what comes after.                                                      *)

\* What is left of a text when something has been taken from its front.
Rests == {Done(<<>>, q) : q \in Str} \cup {Err}

LEMMA RestsAre ==
  /\ Err.is # "done" /\ Err \in Rests /\ Err.rest = <<>> /\ <<>> \in Str
  /\ \A r \in Rests : r.rest \in Str
  /\ \A r \in Rests : r.is = "done" => r = Done(<<>>, r.rest)
  /\ \A q \in Str : Done(<<>>, q) \in Rests
<1>1. <<>> \in Str
  BY EmptySeq DEF Str
<1> QED BY <1>1, DoneIs DEF Rests, Err

LEMMA CountIs ==
  ASSUME NEW s \in Str, NEW mark, Counted(s, mark)
  PROVE  /\ ReadLine(s) \in Lines /\ Len(ReadLine(s).rest) < Len(s)
         /\ ReadLine(s).rest \in Str /\ Count(s) \in Int
<1>1. ReadLine(s) \in Lines /\ Len(ReadLine(s).rest) < Len(s)
  BY LineTyped DEF Counted, More
<1>2. ReadLine(s).args \in Str /\ ReadLine(s).rest \in Str
  BY <1>1 DEF Lines
<1>3. Tail(ReadLine(s).args) \in Str /\ IsNumeral(Tail(ReadLine(s).args))
  BY <1>2, HeadTailProperties DEF Counted, Str
<1> QED BY <1>1, <1>2, <1>3, AtoiTyped DEF Count

LEMMA CountExtends ==
  ASSUME NEW s \in Str, NEW t \in Str, NEW mark, ReadLine(s).is = "done"
  PROVE  /\ Counted(s \o t, mark) <=> Counted(s, mark)
         /\ Count(s \o t) = Count(s)
         /\ ReadLine(s \o t).rest = ReadLine(s).rest \o t
<1>1. /\ ReadLine(s \o t).is = "done" /\ ReadLine(s \o t).args = ReadLine(s).args
      /\ ReadLine(s \o t).rest = ReadLine(s).rest \o t
  <2>1. ReadLine(s \o t) = Done(ReadLine(s).args, ReadLine(s).rest \o t)
    BY LineExtends
  <2> QED BY <2>1, DoneFields
<1> QED BY <1>1 DEF Counted, Count

\* A bulk string that is there: q is what follows its line.
BulkFits(q, n) == Len(q) >= n + 2 /\ SubSeq(q, n + 1, n + 2) = CRLF

LEMMA OneBulkIs ==
  ASSUME NEW s \in Str
  PROVE  /\ ~Counted(s, "$") => OneBulk(s) = Err
         /\ Counted(s, "$") /\ Count(s) < 0 => OneBulk(s) = Done(<<>>, ReadLine(s).rest)
         /\ Counted(s, "$") /\ ~(Count(s) < 0) /\ BulkFits(ReadLine(s).rest, Count(s)) =>
              OneBulk(s) = Done(<<>>, SubSeq(ReadLine(s).rest, Count(s) + 3, Len(ReadLine(s).rest)))
         /\ Counted(s, "$") /\ ~(Count(s) < 0) /\ ~BulkFits(ReadLine(s).rest, Count(s)) =>
              OneBulk(s) = Err
BY DEF OneBulk, BulkFits

LEMMA OneBulkTyped ==
  ASSUME NEW s \in Str
  PROVE  /\ OneBulk(s) \in Rests
         /\ OneBulk(s).is = "done" => Len(OneBulk(s).rest) < Len(s)
<1> DEFINE q == ReadLine(s).rest
           n == Count(s)
<1>1. CASE ~Counted(s, "$")
  BY <1>1, OneBulkIs, RestsAre
<1>2. CASE Counted(s, "$") /\ n < 0
  <2>1. q \in Str /\ Len(q) < Len(s) /\ OneBulk(s) = Done(<<>>, q)
    BY <1>2, CountIs, OneBulkIs
  <2> HIDE DEF q
  <2> QED BY <2>1, RestsAre, DoneIs
<1>3. CASE Counted(s, "$") /\ ~(n < 0) /\ BulkFits(q, n)
  <2>1. q \in Str /\ Len(q) < Len(s) /\ n \in Nat /\ Len(q) \in Nat /\ Len(s) \in Nat
    BY <1>3, CountIs, LenProperties DEF Str
  <2>2. OneBulk(s) = Done(<<>>, SubSeq(q, n + 3, Len(q)))
    BY <1>3, OneBulkIs
  <2>3. Len(q) >= n + 2
    BY <1>3 DEF BulkFits
  <2> HIDE DEF q, n
  <2>4. n + 2 \in 0..Len(q) /\ n + 3 = (n + 2) + 1
    BY <2>1, <2>3
  <2> DEFINE v == SubSeq(q, (n + 2) + 1, Len(q))
  <2>5. v \in Str /\ Len(v) = Len(q) - (n + 2)
    BY <2>1, <2>4, Suffix
  <2>6. OneBulk(s) = Done(<<>>, v)
    BY <2>2, <2>4
  <2> HIDE DEF v
  <2>7. Len(v) < Len(s)
    BY <2>1, <2>5
  <2> QED BY <2>5, <2>6, <2>7, RestsAre, DoneIs
<1>4. CASE Counted(s, "$") /\ ~(n < 0) /\ ~BulkFits(q, n)
  BY <1>4, OneBulkIs, RestsAre
<1> QED BY <1>1, <1>2, <1>3, <1>4

LEMMA OneBulkExtends ==
  ASSUME NEW s \in Str, NEW t \in Str, OneBulk(s).is = "done"
  PROVE  OneBulk(s \o t) = Done(<<>>, OneBulk(s).rest \o t)
<1> DEFINE q == ReadLine(s).rest
           n == Count(s)
<1>1. Counted(s, "$")
  BY OneBulkIs, RestsAre
<1>2. /\ s \o t \in Str /\ Counted(s \o t, "$") /\ Count(s \o t) = n
      /\ ReadLine(s \o t).rest = q \o t /\ q \in Str /\ n \in Int
  <2>1. ReadLine(s).is = "done"
    BY <1>1 DEF Counted
  <2> QED BY <1>1, <2>1, CountIs, CountExtends, ConcatProperties DEF Str
<1>3. CASE n < 0
  <2>1. OneBulk(s) = Done(<<>>, q)
    BY <1>1, <1>3, OneBulkIs
  <2>2. OneBulk(s \o t) = Done(<<>>, q \o t)
    BY <1>2, <1>3, OneBulkIs
  <2> HIDE DEF q
  <2> QED BY <2>1, <2>2, DoneIs
<1>4. CASE ~(n < 0)
  <2>1. BulkFits(q, n)
    BY <1>1, <1>4, OneBulkIs, RestsAre
  <2>2. OneBulk(s) = Done(<<>>, SubSeq(q, n + 3, Len(q)))
    BY <1>1, <1>4, <2>1, OneBulkIs
  <2>3. /\ n \in Nat /\ Len(q) \in Nat /\ Len(t) \in Nat /\ Len(q) >= n + 2
        /\ q \o t \in Str /\ Len(q \o t) = Len(q) + Len(t)
    BY <1>2, <1>4, <2>1, LenProperties, ConcatProperties DEF BulkFits, Str
  <2>4. BulkFits(q \o t, n)
    <3> HIDE DEF q, n
    <3>1. n + 1 \in 1..Len(q) /\ n + 2 \in 1..Len(q)
      BY <2>3
    <3>2. SubSeq(q \o t, n + 1, n + 2) = SubSeq(q, n + 1, n + 2)
      BY <1>2, <3>1, SubSeqOfConcat1 DEF Str
    <3> QED BY <2>1, <2>3, <3>2 DEF BulkFits
  <2>5. OneBulk(s \o t) = Done(<<>>, SubSeq(q \o t, n + 3, Len(q \o t)))
    BY <1>2, <1>4, <2>4, OneBulkIs
  <2> HIDE DEF q, n
  <2>6. n + 2 \in 0..Len(q) /\ n + 3 = (n + 2) + 1
    BY <2>3
  <2>7. SubSeq(q \o t, (n + 2) + 1, Len(q \o t)) = SubSeq(q, (n + 2) + 1, Len(q)) \o t
    BY <1>2, <2>6, SuffixOfConcat
  <2>8. OneBulk(s).rest = SubSeq(q, n + 3, Len(q))
    BY <2>2, DoneFields
  <2> QED BY <2>5, <2>6, <2>7, <2>8
<1> QED BY <1>2, <1>3, <1>4

\* The function of OneArray, which takes the n bulk strings in front of q apart.
Taking(q, n, g) ==
  [i \in 0..n |-> IF i = 0 THEN Done(<<>>, q)
                  ELSE IF g[i-1].is = "done" THEN OneBulk(g[i-1].rest) ELSE g[i-1]]

Takes(q, n, g) ==
  /\ g \in [0..n -> Rests] /\ g[0] = Done(<<>>, q)
  /\ \A i \in 1..n : g[i] = IF g[i-1].is = "done" THEN OneBulk(g[i-1].rest) ELSE g[i-1]

LEMMA OneArrayTakes ==
  ASSUME NEW s \in Str, Counted(s, "*"), ~(Count(s) < 0)
  PROVE  /\ ReadLine(s).rest \in Str /\ Count(s) \in Nat
         /\ \E g : Takes(ReadLine(s).rest, Count(s), g) /\ OneArray(s) = g[Count(s)]
<1> DEFINE q == ReadLine(s).rest
           n == Count(s)
           f == [p \in (1..n) \X Rests |-> IF p[2].is = "done" THEN OneBulk(p[2].rest) ELSE p[2]]
           c == CHOOSE g : g = Taking(q, n, g)
<1>1. q \in Str /\ n \in Nat
  BY CountIs
<1>2. OneArray(s) = c[n]
  BY DEF OneArray, Taking, q, n, c
<1> HIDE DEF q, n
<1>3. f \in [(1..n) \X Rests -> Rests]
  BY RestsAre, OneBulkTyped
<1>4. \A i \in 1..n, r \in Rests : f[<<i, r>>] = IF r.is = "done" THEN OneBulk(r.rest) ELSE r
  OBVIOUS
<1>5. Done(<<>>, q) \in Rests
  BY <1>1, RestsAre
<1> HIDE DEF f
<1>6. \E g : g = Taking(q, n, g)
  <2>1. PICK g : Chain(g, n, Rests, Done(<<>>, q), f)
    BY <1>1, <1>3, <1>5, ChainExists
  <2>2. ASSUME NEW i \in 0..n
        PROVE  g[i] = IF i = 0 THEN Done(<<>>, q)
                      ELSE IF g[i-1].is = "done" THEN OneBulk(g[i-1].rest) ELSE g[i-1]
    <3>1. CASE i = 0
      BY <3>1, <2>1 DEF Chain
    <3>2. CASE i # 0
      <4>1. i \in 1..n /\ i - 1 \in 0..n
        BY <1>1, <3>2
      <4>2. g[i-1] \in Rests /\ g[i] = f[<<i, g[i-1]>>]
        BY <4>1, <2>1 DEF Chain
      <4> QED BY <3>2, <4>1, <4>2, <1>4
    <3> QED BY <3>1, <3>2
  <2>3. g = [i \in 0..n |-> g[i]]
    BY <2>1 DEF Chain
  <2>4. g = Taking(q, n, g)
    BY <2>2, <2>3, Zenon DEF Taking
  <2> QED BY <2>4
<1>7. c = Taking(q, n, c)
  BY <1>6, Zenon
<1> HIDE DEF c
<1>8. \A i \in 0..n : c[i] = IF i = 0 THEN Done(<<>>, q)
                             ELSE IF c[i-1].is = "done" THEN OneBulk(c[i-1].rest) ELSE c[i-1]
  BY <1>7, Zenon DEF Taking
<1>9. c = [i \in 0..n |-> c[i]]
  <2>1. c = [i \in 0..n |-> IF i = 0 THEN Done(<<>>, q)
                            ELSE IF c[i-1].is = "done" THEN OneBulk(c[i-1].rest) ELSE c[i-1]]
    BY <1>7 DEF Taking
  <2> QED BY <2>1, <1>8, Zenon
<1>10. /\ c[0] = Done(<<>>, q)
       /\ \A i \in 1..n : c[i] = IF c[i-1].is = "done" THEN OneBulk(c[i-1].rest) ELSE c[i-1]
  <2>1. 0 \in 0..n /\ \A i \in 1..n : i \in 0..n /\ i # 0
    BY <1>1
  <2> QED BY <2>1, <1>8
<1>11. Chain(c, n, Rests, Done(<<>>, q), f)
  <2>1. \A i \in 1..n : c[i-1] \in Rests => c[i] = f[<<i, c[i-1]>>]
    BY <1>4, <1>10
  <2> QED BY <2>1, <1>1, <1>3, <1>5, <1>9, <1>10, ChainIs
<1>12. Takes(q, n, c)
  BY <1>10, <1>11 DEF Takes, Chain
<1> QED BY <1>1, <1>2, <1>12 DEF q, n

LEMMA TakesExtend ==
  ASSUME NEW q \in Str, NEW t \in Str, NEW n \in Nat, NEW g, Takes(q, n, g),
         NEW h, Takes(q \o t, n, h), NEW i \in 0..n, g[i].is = "done"
  PROVE  h[i] = Done(<<>>, g[i].rest \o t)
<1> DEFINE I == {r \in Nat : r <= n /\ g[r].is = "done" => h[r] = Done(<<>>, g[r].rest \o t)}
<1>1. 0 \in I
  <2>1. g[0] = Done(<<>>, q) /\ h[0] = Done(<<>>, q \o t)
    BY DEF Takes
  <2>2. g[0].rest = q
    BY <2>1, DoneFields
  <2> QED BY <2>1, <2>2
<1>2. ASSUME NEW r \in Nat, r \in I PROVE r + 1 \in I
  <2> SUFFICES ASSUME r + 1 <= n, g[r+1].is = "done"
               PROVE  h[r+1] = Done(<<>>, g[r+1].rest \o t)
    OBVIOUS
  <2>1. r + 1 \in 1..n /\ (r + 1) - 1 = r /\ r \in 0..n
    OBVIOUS
  <2>2. g[r+1] = IF g[r].is = "done" THEN OneBulk(g[r].rest) ELSE g[r]
    BY <2>1 DEF Takes
  <2>3. h[r+1] = IF h[r].is = "done" THEN OneBulk(h[r].rest) ELSE h[r]
    BY <2>1 DEF Takes
  <2>4. g[r].is = "done" /\ g[r+1] = OneBulk(g[r].rest)
    BY <2>2
  <2>5. g[r].rest \in Str
    BY <2>1, RestsAre DEF Takes
  <2>6. h[r] = Done(<<>>, g[r].rest \o t)
    BY <2>1, <2>4, <1>2
  <2>7. h[r].is = "done" /\ h[r].rest = g[r].rest \o t
    <3>1. \A w : h[r] = Done(<<>>, w) => h[r].is = "done" /\ h[r].rest = w
      BY DoneIs
    <3> QED BY <2>6, <3>1, Zenon
  <2>8. OneBulk(g[r].rest \o t) = Done(<<>>, OneBulk(g[r].rest).rest \o t)
    BY <2>4, <2>5, OneBulkExtends
  <2> QED BY <2>3, <2>4, <2>7, <2>8
<1>3. i \in I
  <2>1. i \in Nat
    OBVIOUS
  <2> HIDE DEF I
  <2> QED BY <2>1, <1>1, <1>2, NatInduct
<1> QED BY <1>3

LEMMA OneArrayTyped ==
  ASSUME NEW s \in Str
  PROVE  OneArray(s) \in Rests
<1>1. CASE ~Counted(s, "*") \/ Count(s) < 0
  BY <1>1, RestsAre DEF OneArray
<1>2. CASE Counted(s, "*") /\ ~(Count(s) < 0)
  <2>1. Count(s) \in Nat /\ \E g : Takes(ReadLine(s).rest, Count(s), g) /\ OneArray(s) = g[Count(s)]
    BY <1>2, OneArrayTakes
  <2> QED BY <2>1 DEF Takes
<1> QED BY <1>1, <1>2

LEMMA OneArrayExtends ==
  ASSUME NEW s \in Str, NEW t \in Str, OneArray(s).is = "done"
  PROVE  OneArray(s \o t) = Done(<<>>, OneArray(s).rest \o t)
<1>1. Counted(s, "*") /\ ~(Count(s) < 0)
  BY RestsAre DEF OneArray
<1>2. PICK g : Takes(ReadLine(s).rest, Count(s), g) /\ OneArray(s) = g[Count(s)]
  BY <1>1, OneArrayTakes
<1>3. /\ ReadLine(s).rest \in Str /\ Count(s) \in Nat /\ s \o t \in Str
      /\ Counted(s \o t, "*") /\ Count(s \o t) = Count(s)
      /\ ReadLine(s \o t).rest = ReadLine(s).rest \o t
  <2>1. ReadLine(s).is = "done"
    BY <1>1 DEF Counted
  <2> QED BY <1>1, <2>1, OneArrayTakes, CountExtends, ConcatProperties DEF Str
<1>4. PICK h : Takes(ReadLine(s).rest \o t, Count(s), h) /\ OneArray(s \o t) = h[Count(s)]
  <2>1. ~(Count(s \o t) < 0)
    BY <1>1, <1>3
  <2>2. \E h : Takes(ReadLine(s \o t).rest, Count(s \o t), h) /\ OneArray(s \o t) = h[Count(s \o t)]
    BY <2>1, <1>3, OneArrayTakes
  <2> QED BY <2>2, <1>3
<1>5. Count(s) \in 0..Count(s)
  BY <1>3
<1>6. h[Count(s)] = Done(<<>>, g[Count(s)].rest \o t)
  BY <1>2, <1>3, <1>4, <1>5, TakesExtend
<1> QED BY <1>2, <1>4, <1>6

LEMMA OneReplyTyped ==
  ASSUME NEW s \in Str
  PROVE  OneReply(s).rest \in Str
<1>1. ReadLine(s).rest \in Str
  <2>1. More.rest = <<>>
    BY DEF More
  <2> QED BY <2>1, LineTyped, RestsAre DEF Lines
<1>2. OneBulk(s).rest \in Str /\ OneArray(s).rest \in Str
  BY OneBulkTyped, OneArrayTyped, RestsAre
<1>3. Err.rest \in Str
  BY RestsAre
<1> QED BY <1>1, <1>2, <1>3 DEF OneReply

LEMMA OneReplyExtends ==
  ASSUME NEW s \in Str, s # <<>>, NEW t \in Str, OneReply(s).is = "done"
  PROVE  OneReply(s \o t).is = "done" /\ OneReply(s \o t).rest = OneReply(s).rest \o t
<1>1. (s \o t)[1] = s[1]
  <2>1. Len(s) \in Nat /\ Len(t) \in Nat /\ 1 <= Len(s)
    BY EmptySeq, LenProperties DEF Str
  <2>2. 1 \in 1..Len(s) + Len(t)
    BY <2>1
  <2> QED BY <2>1, <2>2, ConcatProperties DEF Str
<1>2. CASE s[1] \in {"+", "-", ":"}
  <2>1. OneReply(s) = ReadLine(s) /\ OneReply(s \o t) = ReadLine(s \o t)
    BY <1>1, <1>2 DEF OneReply
  <2>2. ReadLine(s \o t) = Done(ReadLine(s).args, ReadLine(s).rest \o t)
    BY <2>1, LineExtends
  <2>3. ReadLine(s \o t).is = "done" /\ ReadLine(s \o t).rest = ReadLine(s).rest \o t
    <3>1. \A a, w : ReadLine(s \o t) = Done(a, w)
                    => ReadLine(s \o t).is = "done" /\ ReadLine(s \o t).rest = w
      BY DoneIs
    <3> QED BY <2>2, <3>1, Zenon
  <2> QED BY <2>1, <2>3
<1>3. CASE s[1] = "$"
  <2>1. OneReply(s) = OneBulk(s) /\ OneReply(s \o t) = OneBulk(s \o t)
    BY <1>1, <1>3 DEF OneReply
  <2>2. OneBulk(s \o t) = Done(<<>>, OneBulk(s).rest \o t)
    BY <2>1, OneBulkExtends
  <2>3. OneBulk(s \o t).is = "done" /\ OneBulk(s \o t).rest = OneBulk(s).rest \o t
    BY <2>2, DoneFields
  <2> QED BY <2>1, <2>3
<1>4. CASE s[1] = "*"
  <2>1. OneReply(s) = OneArray(s) /\ OneReply(s \o t) = OneArray(s \o t)
    BY <1>1, <1>4 DEF OneReply
  <2>2. OneArray(s \o t) = Done(<<>>, OneArray(s).rest \o t)
    BY <2>1, OneArrayExtends
  <2>3. OneArray(s \o t).is = "done" /\ OneArray(s \o t).rest = OneArray(s).rest \o t
    BY <2>2, DoneFields
  <2> QED BY <2>1, <2>3
<1>5. CASE s[1] \notin {"+", "-", ":", "$", "*"}
  <2>1. OneReply(s) = Err
    BY <1>5 DEF OneReply
  <2> QED BY <2>1, RestsAre
<1> QED BY <1>2, <1>3, <1>4, <1>5

\* One whole reply.
Whole(r) == r \in Str /\ r # <<>> /\ OneReply(r).is = "done" /\ OneReply(r).rest = <<>>

LEMMA WholeInFront ==
  ASSUME NEW r, Whole(r), NEW t \in Str
  PROVE  OneReply(r \o t).is = "done" /\ OneReply(r \o t).rest = t
<1>1. OneReply(r \o t).is = "done" /\ OneReply(r \o t).rest = <<>> \o t
  BY OneReplyExtends DEF Whole
<1> QED BY <1>1, ConcatEmptySeq DEF Str

-------------------------------------------------------------------------------
(* Replies, which goes through the whole stream: a whole reply more at its end *)
(* is one more in what it finds.                                              *)

Kind == Byte \cup {"Err"}

States == [kinds : Seq(Kind), rest : Str]

\* One turn of Replies.
After(t) == IF t.rest = <<>> THEN t
            ELSE [kinds |-> Append(t.kinds, IF OneReply(t.rest).is = "done" THEN t.rest[1] ELSE "Err"),
                  rest |-> OneReply(t.rest).rest]

Dividing(s, g) == [i \in 0..Len(s) |-> IF i = 0 THEN [kinds |-> <<>>, rest |-> s] ELSE After(g[i-1])]

Divides(s, g) ==
  /\ g \in [0..Len(s) -> States] /\ g[0] = [kinds |-> <<>>, rest |-> s]
  /\ \A i \in 1..Len(s) : g[i] = After(g[i-1])

LEMMA FirstIs == ASSUME NEW s \in Str, s # <<>> PROVE s[1] \in Byte /\ 1 \in 1..Len(s)
<1>1. 1 \in 1..Len(s)
  BY EmptySeq DEF Str
<1> QED BY <1>1, ElementOfSeq DEF Str

LEMMA AfterTyped == ASSUME NEW t \in States PROVE After(t) \in States
<1>1. CASE t.rest = <<>>
  BY <1>1 DEF After
<1>2. CASE t.rest # <<>>
  <2> DEFINE k == IF OneReply(t.rest).is = "done" THEN t.rest[1] ELSE "Err"
  <2>1. t.rest \in Str /\ t.kinds \in Seq(Kind)
    BY DEF States
  <2>2. k \in Kind
    BY <2>1, <1>2, FirstIs DEF Kind
  <2> HIDE DEF k
  <2>3. Append(t.kinds, k) \in Seq(Kind)
    BY <2>1, <2>2, AppendProperties
  <2>4. OneReply(t.rest).rest \in Str
    BY <2>1, OneReplyTyped
  <2>5. After(t) = [kinds |-> Append(t.kinds, k), rest |-> OneReply(t.rest).rest]
    BY <1>2 DEF After, k
  <2> QED BY <2>3, <2>4, <2>5 DEF States
<1> QED BY <1>1, <1>2

LEMMA RepliesDivide ==
  ASSUME NEW s \in Str
  PROVE  \E g : Divides(s, g) /\ Replies(s) = g[Len(s)].kinds
<1> DEFINE n == Len(s)
           x == [kinds |-> <<>>, rest |-> s]
           f == [p \in (1..n) \X States |-> After(p[2])]
           c == CHOOSE g : g = Dividing(s, g)
<1>1. n \in Nat /\ x \in States
  BY LenProperties, EmptySeq DEF States, Str
<1>2. Replies(s) = c[n].kinds
  BY DEF Replies, Dividing, After
<1>3. f \in [(1..n) \X States -> States]
  BY AfterTyped
<1>4. \A i \in 1..n, r \in States : f[<<i, r>>] = After(r)
  OBVIOUS
<1> HIDE DEF f, x, n
<1>5. \A g : Dividing(s, g) = [i \in 0..n |-> IF i = 0 THEN x ELSE After(g[i-1])]
  BY DEF Dividing, x, n
<1>6. \E g : g = Dividing(s, g)
  <2>1. PICK g : Chain(g, n, States, x, f)
    BY <1>1, <1>3, ChainExists
  <2>2. ASSUME NEW i \in 0..n PROVE g[i] = IF i = 0 THEN x ELSE After(g[i-1])
    <3>1. CASE i = 0
      BY <3>1, <2>1 DEF Chain
    <3>2. CASE i # 0
      <4>1. i \in 1..n /\ i - 1 \in 0..n
        BY <1>1, <3>2
      <4>2. g[i-1] \in States /\ g[i] = f[<<i, g[i-1]>>]
        BY <4>1, <2>1 DEF Chain
      <4> QED BY <3>2, <4>1, <4>2, <1>4
    <3> QED BY <3>1, <3>2
  <2>3. g = [i \in 0..n |-> g[i]]
    BY <2>1 DEF Chain
  <2>4. g = Dividing(s, g)
    BY <2>2, <2>3, <1>5, Zenon
  <2> QED BY <2>4
<1>7. c = Dividing(s, c)
  BY <1>6, Zenon
<1> HIDE DEF c
<1>8. \A i \in 0..n : c[i] = IF i = 0 THEN x ELSE After(c[i-1])
  BY <1>5, <1>7, Zenon
<1>9. c = [i \in 0..n |-> c[i]]
  BY <1>5, <1>7, <1>8, Zenon
<1>10. c[0] = x /\ \A i \in 1..n : c[i] = After(c[i-1])
  <2>1. 0 \in 0..n /\ \A i \in 1..n : i \in 0..n /\ i # 0
    BY <1>1
  <2> QED BY <2>1, <1>8
<1>11. Chain(c, n, States, x, f)
  <2>1. \A i \in 1..n : c[i-1] \in States => c[i] = f[<<i, c[i-1]>>]
    BY <1>4, <1>10
  <2> QED BY <2>1, <1>1, <1>3, <1>9, <1>10, ChainIs
<1>12. Divides(s, c)
  BY <1>10, <1>11 DEF Divides, Chain, x, n
<1> QED BY <1>2, <1>12 DEF n

LEMMA DivideStays ==
  ASSUME NEW s \in Str, NEW g, Divides(s, g), NEW i \in 0..Len(s), g[i].rest = <<>>
  PROVE  g[Len(s)] = g[i]
<1> DEFINE I == {d \in Nat : i + d <= Len(s) => g[i + d] = g[i]}
<1>1. Len(s) \in Nat
  BY LenProperties DEF Str
<1>2. 0 \in I
  BY <1>1
<1>3. ASSUME NEW d \in Nat, d \in I PROVE d + 1 \in I
  <2> SUFFICES ASSUME i + (d + 1) <= Len(s) PROVE g[i + (d + 1)] = g[i]
    OBVIOUS
  <2>1. i + (d + 1) \in 1..Len(s) /\ (i + (d + 1)) - 1 = i + d /\ g[i + d] = g[i]
    BY <1>1, <1>3
  <2>2. g[i + (d + 1)] = After(g[i + d])
    BY <2>1 DEF Divides
  <2> QED BY <2>1, <2>2 DEF After
<1>4. Len(s) - i \in Nat /\ i + (Len(s) - i) = Len(s)
  BY <1>1
<1>5. Len(s) - i \in I
  <2> HIDE DEF I
  <2> QED BY <1>2, <1>3, <1>4, NatInduct
<1> QED BY <1>1, <1>4, <1>5

\* s consists of whole replies.
FramedBy(s, g) ==
  /\ Divides(s, g) /\ g[Len(s)].rest = <<>>
  /\ \A i \in 0..Len(s) : g[i].rest # <<>> => OneReply(g[i].rest).is = "done"

Framed(s) == s \in Str /\ \E g : FramedBy(s, g) /\ Replies(s) = g[Len(s)].kinds

LEMMA FramedEmpty == Framed(<<>>) /\ Replies(<<>>) = <<>>
<1>1. <<>> \in Str /\ Len(<<>>) = 0
  BY EmptySeq DEF Str
<1>2. PICK g : Divides(<<>>, g) /\ Replies(<<>>) = g[Len(<<>>)].kinds
  BY <1>1, RepliesDivide
<1>3. g[0] = [kinds |-> <<>>, rest |-> <<>>] /\ \A i \in 0..Len(<<>>) : i = 0
  BY <1>1, <1>2 DEF Divides
<1>4. g[0].kinds = <<>> /\ g[0].rest = <<>>
  BY <1>3
<1>5. FramedBy(<<>>, g)
  BY <1>1, <1>2, <1>3, <1>4 DEF FramedBy
<1> QED BY <1>1, <1>2, <1>4, <1>5 DEF Framed

LEMMA AfterIs ==
  ASSUME NEW t, t.rest # <<>>, OneReply(t.rest).is = "done"
  PROVE  /\ After(t).kinds = Append(t.kinds, t.rest[1])
         /\ After(t).rest = OneReply(t.rest).rest
BY DEF After

LEMMA FramedAppend ==
  ASSUME NEW s, Framed(s), NEW r, Whole(r)
  PROVE  Framed(s \o r) /\ Replies(s \o r) = Append(Replies(s), r[1])
<1>1. PICK g : FramedBy(s, g) /\ Replies(s) = g[Len(s)].kinds
  BY DEF Framed
<1> DEFINE n == Len(s)
           m == n + Len(r)
           K == g[n].kinds
<1>2. /\ s \in Str /\ r \in Str /\ s \o r \in Str /\ Len(s \o r) = m
      /\ n \in Nat /\ Len(r) \in Nat /\ 1 <= Len(r) /\ r # <<>>
  BY LenProperties, ConcatProperties, EmptySeq DEF Framed, Whole, Str
<1>3. PICK h : Divides(s \o r, h) /\ Replies(s \o r) = h[Len(s \o r)].kinds
  BY <1>2, RepliesDivide
<1> HIDE DEF n, m, K
<1>4. m \in Nat /\ n + 1 <= m
  BY <1>2 DEF m
<1>5. /\ g[0].kinds = <<>> /\ g[0].rest = s
      /\ \A i \in 0..n : g[i].rest \in Str /\ g[i].kinds \in Seq(Kind)
      /\ \A i \in 1..n : g[i] = After(g[i-1])
      /\ g[n].rest = <<>>
      /\ \A i \in 0..n : g[i].rest # <<>> => OneReply(g[i].rest).is = "done"
      /\ \A i \in 0..n : g[i].rest = <<>> => g[i].kinds = K
  <2>1. g[0] = [kinds |-> <<>>, rest |-> s]
    BY <1>1 DEF FramedBy, Divides
  <2>2. \A i \in 0..n : g[i] \in States
    BY <1>1 DEF FramedBy, Divides, n
  <2>3. /\ \A i \in 1..n : g[i] = After(g[i-1])
        /\ g[n].rest = <<>>
        /\ \A i \in 0..n : g[i].rest # <<>> => OneReply(g[i].rest).is = "done"
    BY <1>1 DEF FramedBy, Divides, n
  <2>4. ASSUME NEW i \in 0..n, g[i].rest = <<>> PROVE g[i].kinds = K
    <3>1. g[Len(s)] = g[i]
      BY <2>4, <1>1, <1>2, DivideStays DEF FramedBy, n
    <3> QED BY <3>1 DEF K, n
  <2> QED BY <2>1, <2>2, <2>3, <2>4 DEF States
<1>6. /\ h[0].kinds = <<>> /\ h[0].rest = s \o r
      /\ \A i \in 1..m : h[i] = After(h[i-1])
  BY <1>2, <1>3 DEF Divides
<1>7. OneReply(r).is = "done" /\ OneReply(r).rest = <<>>
  BY DEF Whole
<1> DEFINE A(i) == /\ g[i].rest # <<>> /\ h[i].kinds = g[i].kinds
                   /\ h[i].rest = g[i].rest \o r
           B(i) == h[i].kinds = K /\ h[i].rest = r
           C(i) == h[i].kinds = Append(K, r[1]) /\ h[i].rest = <<>>
           D(i) == (i <= n /\ A(i)) \/ (i <= n /\ B(i)) \/ C(i)
           I == {i \in Nat : i <= m => D(i)}
<1>8. <<>> \o r = r
  BY <1>2, ConcatEmptySeq DEF Str
<1>9. 0 \in I
  <2>1. CASE s = <<>>
    <3>1. 0 \in 0..n /\ g[0].kinds = K
      BY <2>1, <1>2, <1>5
    <3> QED BY <2>1, <3>1, <1>2, <1>5, <1>6, <1>8
  <2>2. CASE s # <<>>
    <3>1. 0 <= n /\ g[0].rest # <<>>
      BY <2>2, <1>2, <1>5
    <3>2. h[0].kinds = g[0].kinds
      BY <1>5, <1>6
    <3>3. h[0].rest = g[0].rest \o r
      BY <1>5, <1>6, Zenon
    <3> QED BY <3>1, <3>2, <3>3
  <2> QED BY <2>1, <2>2
<1>10. ASSUME NEW i \in Nat, i \in I PROVE i + 1 \in I
  <2> SUFFICES ASSUME i + 1 <= m PROVE D(i + 1)
    OBVIOUS
  <2>1. D(i) /\ i + 1 \in 1..m /\ (i + 1) - 1 = i
    BY <1>4, <1>10
  <2>2. h[i+1] = After(h[i])
    BY <2>1, <1>6
  <2>3. CASE i <= n /\ A(i)
    <3>1. i # n /\ i \in 0..n /\ i + 1 \in 1..n /\ i + 1 \in 0..n /\ i + 1 <= n
      BY <2>3, <1>2, <1>5
    <3>2. g[i].rest \in Str /\ OneReply(g[i].rest).is = "done" /\ g[i+1] = After(g[i])
      BY <2>1, <2>3, <3>1, <1>5
    <3>3. g[i+1].kinds = Append(g[i].kinds, g[i].rest[1]) /\ g[i+1].rest = OneReply(g[i].rest).rest
      BY <2>3, <3>2, AfterIs
    <3>4. /\ OneReply(g[i].rest \o r).is = "done"
          /\ OneReply(g[i].rest \o r).rest = g[i+1].rest \o r
      BY <2>3, <3>2, <3>3, <1>2, OneReplyExtends
    <3>5. g[i].rest \o r # <<>> /\ (g[i].rest \o r)[1] = g[i].rest[1]
      <4> DEFINE u == g[i].rest
      <4>1. u \in Str /\ u # <<>>
        BY <2>3, <3>2
      <4> HIDE DEF u
      <4>2. 1 \in 1..Len(u) /\ Len(u) \in Nat
        BY <4>1, FirstIs, LenProperties DEF Str
      <4>3. u \o r # <<>>
        BY <4>1, <1>2, ConcatEqualIffEmpty DEF Str
      <4>4. 1 \in 1..Len(u) + Len(r) /\ 1 <= Len(u)
        BY <4>2, <1>2
      <4>5. (u \o r)[1] = u[1]
        BY <4>1, <4>4, <1>2, ConcatProperties DEF Str
      <4> QED BY <4>3, <4>5 DEF u
    <3>6. h[i].rest # <<>> /\ OneReply(h[i].rest).is = "done"
      BY <2>3, <3>4, <3>5
    <3>7. h[i+1].kinds = Append(h[i].kinds, h[i].rest[1]) /\ h[i+1].rest = OneReply(h[i].rest).rest
      BY <2>2, <3>6, AfterIs
    <3>8. h[i+1].kinds = g[i+1].kinds /\ h[i+1].rest = g[i+1].rest \o r
      BY <2>3, <3>3, <3>4, <3>5, <3>7
    <3>9. CASE g[i+1].rest = <<>>
      BY <3>1, <3>8, <3>9, <1>5, <1>8
    <3>10. CASE g[i+1].rest # <<>>
      BY <3>1, <3>8, <3>10
    <3> QED BY <3>9, <3>10
  <2>4. CASE B(i)
    <3>1. h[i+1].kinds = Append(h[i].kinds, h[i].rest[1]) /\ h[i+1].rest = OneReply(h[i].rest).rest
      BY <2>2, <2>4, <1>2, <1>7, AfterIs
    <3> QED BY <2>4, <3>1, <1>7
  <2>5. CASE C(i)
    BY <2>2, <2>5 DEF After
  <2> QED BY <2>1, <2>3, <2>4, <2>5
<1>11. \A i \in 0..m : D(i)
  <2> HIDE DEF D
  <2>1. Nat \subseteq I
    <3> HIDE DEF I
    <3> QED BY <1>9, <1>10, NatInduct
  <2> QED BY <2>1, <1>4
<1>12. C(m)
  <2>1. D(m) /\ ~(m <= n)
    BY <1>2, <1>4, <1>11
  <2> QED BY <2>1
<1>13. ASSUME NEW i \in 0..m, h[i].rest # <<>> PROVE OneReply(h[i].rest).is = "done"
  <2>1. D(i)
    BY <1>11
  <2>2. CASE i <= n /\ A(i)
    <3>1. i \in 0..n
      BY <2>2, <1>2
    <3>2. g[i].rest \in Str /\ OneReply(g[i].rest).is = "done"
      BY <2>2, <3>1, <1>5
    <3>3. OneReply(g[i].rest \o r).is = "done"
      BY <2>2, <3>2, <1>2, OneReplyExtends
    <3> QED BY <2>2, <3>3
  <2>3. CASE B(i)
    BY <2>3, <1>7
  <2> QED BY <2>1, <2>2, <2>3, <1>13
<1>14. FramedBy(s \o r, h)
  BY <1>2, <1>3, <1>12, <1>13 DEF FramedBy
<1>15. Framed(s \o r)
  BY <1>2, <1>3, <1>14 DEF Framed
<1> QED BY <1>1, <1>2, <1>3, <1>12, <1>15 DEF K, n

-------------------------------------------------------------------------------
(* What the builders of replies build is whole. *)

LEMMA FirstOfConcat ==
  ASSUME NEW a \in Str, a # <<>>, NEW t \in Str
  PROVE  a \o t \in Str /\ a \o t # <<>> /\ (a \o t)[1] = a[1]
<1>1. 1 \in 1..Len(a) /\ Len(a) \in Nat /\ Len(t) \in Nat
  BY FirstIs, LenProperties DEF Str
<1>2. 1 \in 1..Len(a) + Len(t) /\ 1 <= Len(a)
  BY <1>1
<1> QED BY <1>2, ConcatProperties, ConcatEqualIffEmpty DEF Str

\* The text with the mark d in front.
LEMMA Marked ==
  ASSUME NEW d \in Byte, d # "LF", NEW a \in Str, NoEnd(a)
  PROVE  LET z == <<d>> \o a IN
         /\ z \in Str /\ NoEnd(z) /\ z # <<>> /\ z[1] = d /\ Tail(z) = a
<1> DEFINE z == <<d>> \o a
<1>1. <<d>> \in Str /\ Len(<<d>>) = 1 /\ <<d>>[1] = d /\ Len(a) \in Nat
  BY OneSymbol, LenProperties DEF Str
<1>2. /\ z \in Str /\ Len(z) = 1 + Len(a)
      /\ \A i \in 1..1 + Len(a) : z[i] = IF i <= 1 THEN <<d>>[i] ELSE a[i - 1]
  BY <1>1, ConcatProperties DEF Str
<1> HIDE DEF z
<1>3. z[1] = d
  BY <1>1, <1>2
<1>4. \A i \in 1..Len(a) : z[i + 1] = a[i]
  <2> TAKE i \in 1..Len(a)
  <2>1. i + 1 \in 1..1 + Len(a) /\ ~(i + 1 <= 1) /\ (i + 1) - 1 = i
    BY <1>1
  <2> QED BY <2>1, <1>2
<1>5. NoEnd(z)
  <2> SUFFICES ASSUME NEW i \in 1..Len(z) PROVE z[i] # "LF"
    BY DEF NoEnd
  <2>1. CASE i = 1
    BY <2>1, <1>3
  <2>2. CASE i # 1
    <3>1. i - 1 \in 1..Len(a) /\ (i - 1) + 1 = i
      BY <2>2, <1>1, <1>2
    <3> QED BY <3>1, <1>4 DEF NoEnd
  <2> QED BY <2>1, <2>2
<1>6. z # <<>>
  BY <1>1, <1>2
<1>7. Tail(z) = a
  <2>1. /\ Tail(z) \in Str /\ Len(Tail(z)) = Len(a)
        /\ \A i \in 1..Len(Tail(z)) : Tail(z)[i] = z[i+1]
    BY <1>1, <1>2, <1>6, HeadTailProperties DEF Str
  <2> QED BY <2>1, <1>4, SeqEqual DEF Str
<1> QED BY <1>2, <1>3, <1>5, <1>6, <1>7 DEF z

\* A number n with its mark, and t behind its line.
LEMMA NumberedLine ==
  ASSUME NEW d \in Byte, d # "LF", NEW n \in Int, NEW t \in Str
  PROVE  LET z == <<d>> \o Numeral(n) \o CRLF \o t IN
         /\ z \in Str /\ z # <<>> /\ z[1] = d
         /\ ReadLine(z).is = "done" /\ ReadLine(z).rest = t
         /\ n >= 0 => Counted(z, d) /\ Count(z) = n
<1> DEFINE a == <<d>> \o Numeral(n)
           z == a \o CRLF \o t
<1>1. /\ Numeral(n) \in Str /\ NoEnd(Numeral(n))
      /\ n >= 0 => IsNumeral(Numeral(n)) /\ Atoi(Numeral(n)) = n
  BY NumeralReads DEF NoEnd
<1>2. a \in Str /\ NoEnd(a) /\ a # <<>> /\ a[1] = d /\ Tail(a) = Numeral(n)
  BY <1>1, Marked
<1> HIDE DEF a
<1>3. z \in Str /\ ReadLine(z) = Done(a, t)
  BY <1>2, LineOf
<1>4. z # <<>> /\ z[1] = d
  <2>1. a \o CRLF \in Str /\ a \o CRLF # <<>> /\ (a \o CRLF)[1] = d
    BY <1>2, CRLFIs, FirstOfConcat
  <2> QED BY <2>1, FirstOfConcat
<1> HIDE DEF z
<1>5. ReadLine(z).is = "done" /\ ReadLine(z).args = a /\ ReadLine(z).rest = t
  BY <1>3, DoneFields
<1>6. n >= 0 => Counted(z, d) /\ Count(z) = n
  BY <1>1, <1>2, <1>5 DEF Counted, Count
<1> QED BY <1>3, <1>4, <1>5, <1>6 DEF z, a

\* A text that is a line of its own, and whose mark says so.
LEMMA WholeLine ==
  ASSUME NEW a \in Str, NoEnd(a), a # <<>>, a[1] \in {"+", "-", ":"}
  PROVE  Whole(a \o CRLF) /\ (a \o CRLF)[1] = a[1]
<1> DEFINE z == a \o CRLF
<1>1. z \in Str /\ ReadLine(z) = Done(a, <<>>)
  BY LastLine
<1>2. z # <<>> /\ z[1] = a[1]
  BY CRLFIs, FirstOfConcat
<1> HIDE DEF z
<1>3. OneReply(z) = ReadLine(z)
  BY <1>2 DEF OneReply
<1>4. ReadLine(z).is = "done" /\ ReadLine(z).rest = <<>>
  BY <1>1, DoneFields
<1>5. Whole(z)
  BY <1>1, <1>2, <1>3, <1>4 DEF Whole
<1> QED BY <1>2, <1>5 DEF z

LEMMA SimpleWhole ==
  ASSUME NEW msg \in Byte, msg # "LF"
  PROVE  Whole(RespSimple(msg)) /\ RespSimple(msg)[1] = "+"
<1> DEFINE a == <<"+", msg>>
<1>1. "+" \in Byte
  BY SymbolsAreBytes DEF Symbols
<1>2. a \in Str /\ NoEnd(a) /\ a # <<>> /\ a[1] = "+"
  <2>1. a \in Str
    BY <1>1 DEF Str
  <2>2. Len(a) = 2 /\ a[1] = "+" /\ a[2] = msg /\ a # <<>>
    OBVIOUS
  <2> HIDE DEF a
  <2>3. \A i \in 1..2 : i = 1 \/ i = 2
    OBVIOUS
  <2> QED BY <2>1, <2>2, <2>3 DEF NoEnd
<1>3. RespSimple(msg) = a \o CRLF
  BY DEF RespSimple
<1> HIDE DEF a
<1> QED BY <1>2, <1>3, WholeLine

\* A text of a few symbols.
LEMMA SomeSymbols ==
  ASSUME NEW S, NEW d1 \in S, NEW d2 \in S, NEW d3 \in S, NEW d4 \in S
  PROVE  <<d1, d2, d3>> \in Seq(S) /\ <<d1, d2, d3, d4>> \in Seq(S)
OBVIOUS

LEMMA ErrorWhole ==
  ASSUME NEW msg \in Byte, msg # "LF"
  PROVE  Whole(RespErrorMsg(msg)) /\ RespErrorMsg(msg)[1] = "-"
<1> DEFINE a == <<"-", "ERR", " ", msg>>
<1>1. "-" \in Byte /\ "ERR" \in Byte /\ " " \in Byte
  BY SymbolsAreBytes DEF Symbols
<1>2. a \in Str /\ NoEnd(a) /\ a # <<>> /\ a[1] = "-"
  <2>1. a \in Str
    BY <1>1, SomeSymbols, Zenon DEF Str
  <2>2. Len(a) = 4 /\ a[1] = "-" /\ a[2] = "ERR" /\ a[3] = " " /\ a[4] = msg /\ a # <<>>
    OBVIOUS
  <2> HIDE DEF a
  <2>3. \A i \in 1..4 : i = 1 \/ i = 2 \/ i = 3 \/ i = 4
    OBVIOUS
  <2> QED BY <2>1, <2>2, <2>3 DEF NoEnd
<1>3. RespErrorMsg(msg) = a \o CRLF
  BY DEF RespErrorMsg
<1> HIDE DEF a
<1> QED BY <1>2, <1>3, WholeLine

LEMMA IntWhole ==
  ASSUME NEW n \in Int
  PROVE  Whole(RespInt(n)) /\ RespInt(n)[1] = ":"
<1>1. ":" \in Byte
  BY SymbolsAreBytes DEF Symbols
<1>2. Numeral(n) \in Str /\ NoEnd(Numeral(n))
  BY NumeralReads DEF NoEnd
<1> DEFINE a == <<":">> \o Numeral(n)
<1>3. a \in Str /\ NoEnd(a) /\ a # <<>> /\ a[1] = ":"
  BY <1>1, <1>2, Marked
<1>4. RespInt(n) = a \o CRLF
  BY DEF RespInt
<1> HIDE DEF a
<1> QED BY <1>3, <1>4, WholeLine

\* Bulk strings are whole, also to OneBulk, which takes them out of arrays.
WholeBulk(z) == z \in Str /\ z # <<>> /\ z[1] = "$" /\ OneBulk(z) = Done(<<>>, <<>>)

LEMMA BulkWhole ==
  ASSUME NEW s \in Str
  PROVE  WholeBulk(RespBulk(s))
<1> DEFINE t == s \o CRLF
           z == <<"$">> \o Numeral(Len(s)) \o CRLF \o t
           n == Len(s)
<1>1. "$" \in Byte /\ n \in Nat
  BY SymbolsAreBytes, LenProperties DEF Symbols, Str
<1>2. /\ t \in Str /\ Len(t) = n + 2
      /\ \A i \in 1..n + 2 : t[i] = IF i <= n THEN s[i] ELSE CRLF[i - n]
  <2>1. /\ t \in Str /\ Len(t) = Len(s) + Len(CRLF)
        /\ \A i \in 1..Len(s) + Len(CRLF) : t[i] = IF i <= Len(s) THEN s[i] ELSE CRLF[i - Len(s)]
    BY CRLFIs, ConcatProperties DEF Str
  <2>2. Len(CRLF) = 2
    BY CRLFIs
  <2> HIDE DEF t
  <2> QED BY <2>1, <2>2
<1>3. RespBulk(s) = z
  <2>1. Numeral(n) \in Str
    BY <1>1, NumeralReads
  <2> DEFINE a == <<"$">> \o Numeral(n) \o CRLF
  <2>2. a \in Str
    BY <2>1, <1>1, OneSymbol, CRLFIs, ConcatProperties DEF Str
  <2>3. RespBulk(s) = (a \o s) \o CRLF
    BY DEF RespBulk
  <2>4. z = a \o (s \o CRLF)
    OBVIOUS
  <2> HIDE DEF a, z
  <2>5. (a \o s) \o CRLF = a \o (s \o CRLF)
    BY <2>2, CRLFIs, ConcatTwice, Zenon
  <2> QED BY <2>3, <2>4, <2>5, Zenon
<1>4. /\ z \in Str /\ z # <<>> /\ z[1] = "$" /\ ReadLine(z).rest = t
      /\ Counted(z, "$") /\ Count(z) = n
  <2>1. n \in Int /\ n >= 0 /\ "$" # "LF"
    BY <1>1
  <2> HIDE DEF t
  <2> QED BY <2>1, <1>1, <1>2, NumberedLine
<1>5. SubSeq(t, n + 1, n + 2) = CRLF
  <2> HIDE DEF t
  <2>1. n + 1 \in Nat \ {0} /\ n + 2 \in Int /\ n + 2 <= Len(t) /\ n + 1 <= n + 2
        /\ (n + 2) - (n + 1) + 1 = 2
    BY <1>1, <1>2
  <2> DEFINE v == SubSeq(t, n + 1, n + 2)
  <2>2. /\ v \in Str /\ Len(v) = 2
        /\ \A i \in 1..2 : v[i] = t[(n + 1) + i - 1]
    <3> HIDE DEF n
    <3>1. /\ SubSeq(t, n + 1, n + 2) \in Str
          /\ Len(SubSeq(t, n + 1, n + 2))
             = IF n + 1 <= n + 2 THEN (n + 2) - (n + 1) + 1 ELSE 0
          /\ \A i \in 1..(n + 2) - (n + 1) + 1 :
               SubSeq(t, n + 1, n + 2)[i] = t[(n + 1) + i - 1]
      BY <2>1, <1>2, SubStr
    <3> QED BY <2>1, <3>1
  <2>3. t[n + 1] = "CR" /\ t[n + 2] = "LF"
    <3>1. n + 1 \in 1..n + 2 /\ n + 2 \in 1..n + 2 /\ ~(n + 1 <= n) /\ ~(n + 2 <= n)
          /\ (n + 1) - n = 1 /\ (n + 2) - n = 2
      BY <1>1
    <3> HIDE DEF n
    <3> QED BY <3>1, <1>2, CRLFIs
  <2>4. v[1] = t[n + 1] /\ v[2] = t[n + 2]
    <3>1. 1 \in 1..2 /\ 2 \in 1..2 /\ (n + 1) + 1 - 1 = n + 1 /\ (n + 1) + 2 - 1 = n + 2
      BY <1>1
    <3> HIDE DEF v, n
    <3> QED BY <3>1, <2>2
  <2> HIDE DEF v
  <2>5. \A i \in 1..2 : i = 1 \/ i = 2
    OBVIOUS
  <2>6. v = CRLF
    BY <2>2, <2>3, <2>4, <2>5, CRLFIs, SeqEqual DEF Str
  <2> QED BY <2>6 DEF v
<1> HIDE DEF z
<1>6. BulkFits(t, n)
  <2> HIDE DEF t, n
  <2> QED BY <1>1, <1>2, <1>5 DEF BulkFits
<1>7. OneBulk(z) = Done(<<>>, SubSeq(t, n + 3, Len(t)))
  <2> HIDE DEF t, n
  <2>1. ~(n < 0)
    BY <1>1
  <2> QED BY <2>1, <1>4, <1>6, OneBulkIs
<1>8. SubSeq(t, n + 3, Len(t)) = <<>>
  <2> HIDE DEF t, n
  <2> QED BY <1>1, <1>2, SubSeqEmpty
<1> QED BY <1>3, <1>4, <1>7, <1>8 DEF WholeBulk

LEMMA NilBulkWhole == WholeBulk(RespNilBulk)
<1> DEFINE w == <<"-", "1">>
           a == <<"$", "-", "1">>
<1>1. "$" \in Byte /\ "-" \in Byte /\ "1" \in Byte
  BY SymbolsAreBytes DEF Symbols
<1>2. w \in Str /\ Len(w) = 2 /\ w[1] = "-" /\ Tail(w) = <<"1">>
  BY <1>1 DEF Str
<1>3. a \in Str /\ Len(a) = 3 /\ a # <<>> /\ a[1] = "$" /\ a[2] = "-" /\ a[3] = "1"
  <2>1. a \in Str
    BY <1>1, SomeSymbols, Zenon DEF Str
  <2> QED BY <2>1
<1>4. Tail(a) = w
  BY <1>1 DEF Str
<1>5. RespNilBulk = a \o CRLF
  BY DEF RespNilBulk
<1> HIDE DEF w, a
<1>6. IsNumeral(w) /\ Atoi(w) = -1
  <2>1. IsDigit("1") /\ ValueOf("1") = 1
    <3>1. Digits[1 + 1] = "1" /\ 1 \in 0..9
      BY DEF Digits
    <3> QED BY <3>1, DigitsAre
  <2>2. w # <<>>
    BY <1>2
  <2>3. Unsigned(w) = <<"1">>
    BY <1>2, <2>2 DEF Unsigned
  <2>4. <<"1">> \in Digital /\ Len(<<"1">>) = 1 /\ <<"1">>[1] = "1"
    BY <2>1, AtoiOne
  <2>5. IsNumeral(w)
    BY <1>2, <2>3, <2>4, NumeralIs
  <2>6. PICK g : Read10(<<"1">>, g) /\ Atoi(w) = -g[1]
    BY <1>2, <2>3, <2>4, <2>5, AtoiReads
  <2>7. 1 \in 1..Len(<<"1">>) /\ 1 - 1 = 0
    BY <2>4
  <2>8. g[0] = 0 /\ g[1] = 10 * g[0] + ValueOf("1")
    BY <2>4, <2>6, <2>7 DEF Read10
  <2> QED BY <2>1, <2>5, <2>6, <2>8
<1>7. NoEnd(a)
  <2>1. \A i \in 1..3 : i = 1 \/ i = 2 \/ i = 3
    OBVIOUS
  <2> QED BY <2>1, <1>3 DEF NoEnd
<1> DEFINE z == a \o CRLF
<1>8. z \in Str /\ ReadLine(z) = Done(a, <<>>)
  BY <1>3, <1>7, LastLine
<1>9. z # <<>> /\ z[1] = "$"
  BY <1>3, CRLFIs, FirstOfConcat
<1> HIDE DEF z
<1>10. ReadLine(z).is = "done" /\ ReadLine(z).args = a /\ ReadLine(z).rest = <<>>
  BY <1>8, DoneFields
<1>11. Counted(z, "$") /\ Count(z) < 0
  <2>1. ReadLine(z).args # <<>> /\ ReadLine(z).args[1] = "$" /\ Tail(ReadLine(z).args) = w
    BY <1>3, <1>4, <1>10
  <2>2. Counted(z, "$")
    BY <2>1, <1>6, <1>10, Zenon DEF Counted
  <2>3. Count(z) = -1
    BY <2>1, <1>6 DEF Count
  <2> QED BY <2>2, <2>3
<1>12. OneBulk(z) = Done(<<>>, <<>>)
  BY <1>8, <1>10, <1>11, OneBulkIs
<1> QED BY <1>5, <1>8, <1>9, <1>12 DEF WholeBulk, z

LEMMA WholeBulkIs ==
  ASSUME NEW z, WholeBulk(z)
  PROVE  Whole(z) /\ z[1] = "$"
<1>1. OneReply(z) = OneBulk(z)
  <2>1. z[1] = "$" /\ z[1] \notin {"+", "-", ":"}
    BY DEF WholeBulk
  <2> QED BY <2>1, Zenon DEF OneReply
<1>2. OneBulk(z).is = "done" /\ OneBulk(z).rest = <<>>
  BY DoneFields DEF WholeBulk
<1> QED BY <1>1, <1>2 DEF WholeBulk, Whole

-------------------------------------------------------------------------------
(* FlattenSeq, which puts sequences one behind the other. *)

Joined(seqs, g, i) == IF i = 1 THEN seqs[i] ELSE g[i-1] \o seqs[i]

Flattening(seqs, g) == [i \in 1..Len(seqs) |-> Joined(seqs, g, i)]

Flattens(seqs, S, g) ==
  /\ g \in [0..Len(seqs) -> Seq(S)] /\ g[0] = <<>>
  /\ \A i \in 1..Len(seqs) : g[i] = g[i-1] \o seqs[i]

LEMMA FlattenIs ==
  ASSUME NEW S, NEW seqs \in Seq(Seq(S))
  PROVE  \E g : Flattens(seqs, S, g) /\ FlattenSeq(seqs) = g[Len(seqs)]
<1> DEFINE n == Len(seqs)
           f == [p \in (1..n) \X Seq(S) |-> p[2] \o seqs[p[1]]]
           c == CHOOSE g : g = Flattening(seqs, g)
           d == [i \in 0..n |-> IF i = 0 THEN <<>> ELSE c[i]]
<1>1. n \in Nat /\ <<>> \in Seq(S) /\ \A i \in 1..n : seqs[i] \in Seq(S)
  BY LenProperties, ElementOfSeq, EmptySeq
<1>2. n # 0 => FlattenSeq(seqs) = c[n]
  BY DEF FlattenSeq, Flattening, Joined
<1>3. n = 0 => FlattenSeq(seqs) = <<>>
  BY EmptySeq DEF FlattenSeq
<1>4. \A a \in Seq(S), i \in 1..n : a \o seqs[i] \in Seq(S)
  BY <1>1, ConcatProperties
<1>5. f \in [(1..n) \X Seq(S) -> Seq(S)]
  BY <1>4
<1>6. \A i \in 1..n, a \in Seq(S) : f[<<i, a>>] = a \o seqs[i]
  OBVIOUS
<1>7. \A g : Flattening(seqs, g) = [i \in 1..n |-> Joined(seqs, g, i)]
  BY DEF Flattening
<1> HIDE DEF f, c, n
<1>8. \E g : g = Flattening(seqs, g)
  <2>1. PICK h : Chain(h, n, Seq(S), <<>>, f)
    BY <1>1, <1>5, ChainExists
  <2> DEFINE g == [i \in 1..n |-> h[i]]
  <2>2. ASSUME NEW i \in 1..n PROVE g[i] = Joined(seqs, g, i)
    <3>1. i - 1 \in 0..n /\ (i # 1 => i - 1 \in 1..n)
      BY <1>1
    <3>2. h[i] = h[i-1] \o seqs[i]
      BY <2>1, <3>1, <1>6 DEF Chain
    <3>3. CASE i = 1
      <4>1. h[i-1] = <<>>
        BY <3>3, <2>1 DEF Chain
      <4>2. <<>> \o seqs[i] = seqs[i]
        BY <1>1, ConcatEmptySeq
      <4> QED BY <3>2, <3>3, <4>1, <4>2 DEF Joined
    <3>4. CASE i # 1
      BY <3>1, <3>2, <3>4 DEF Joined
    <3> QED BY <3>3, <3>4
  <2>3. g = [i \in 1..n |-> g[i]]
    OBVIOUS
  <2> HIDE DEF g
  <2>4. g = Flattening(seqs, g)
    BY <2>2, <2>3, <1>7, Zenon
  <2> QED BY <2>4
<1>9. c = Flattening(seqs, c)
  BY <1>8, Zenon DEF c
<1>10. \A i \in 1..n : c[i] = IF i = 1 THEN seqs[i] ELSE c[i-1] \o seqs[i]
  <2>1. \A i \in 1..n : c[i] = Joined(seqs, c, i)
    BY <1>7, <1>9, Zenon
  <2> QED BY <2>1 DEF Joined
<1>11. d = [i \in 0..n |-> d[i]] /\ d[0] = <<>> /\ \A i \in 1..n : d[i] = c[i]
  <2>1. 0 \in 0..n /\ \A i \in 1..n : i \in 0..n /\ i # 0
    BY <1>1
  <2> QED BY <2>1, Zenon
<1> HIDE DEF d
<1>12. \A i \in 1..n : d[i] = d[i-1] \o seqs[i]
  <2> TAKE i \in 1..n
  <2>1. CASE i = 1
    <3>1. <<>> \o seqs[i] = seqs[i]
      BY <1>1, ConcatEmptySeq
    <3>2. d[i-1] = <<>>
      BY <2>1, <1>11
    <3>3. d[i] = seqs[i]
      BY <2>1, <1>10, <1>11
    <3> QED BY <3>1, <3>2, <3>3
  <2>2. CASE i # 1
    <3>1. i - 1 \in 1..n
      BY <2>2, <1>1
    <3> QED BY <2>2, <3>1, <1>10, <1>11
  <2> QED BY <2>1, <2>2
<1>13. Chain(d, n, Seq(S), <<>>, f)
  <2>1. \A i \in 1..n : d[i-1] \in Seq(S) => d[i] = f[<<i, d[i-1]>>]
    BY <1>6, <1>12
  <2> QED BY <2>1, <1>1, <1>5, <1>11, ChainIs
<1>14. Flattens(seqs, S, d)
  BY <1>12, <1>13 DEF Chain, Flattens, n
<1>15. FlattenSeq(seqs) = d[Len(seqs)]
  <2>1. CASE n = 0
    BY <2>1, <1>3, <1>11 DEF n
  <2>2. CASE n # 0
    <3>1. n \in 1..n
      BY <2>2, <1>1
    <3>2. FlattenSeq(seqs) = c[n]
      BY <2>2, <1>2
    <3> QED BY <3>1, <3>2, <1>11 DEF n
  <2> QED BY <2>1, <2>2
<1> QED BY <1>14, <1>15

LEMMA FlattenTyped ==
  ASSUME NEW S, NEW seqs \in Seq(Seq(S))
  PROVE  FlattenSeq(seqs) \in Seq(S)
<1>1. PICK g : Flattens(seqs, S, g) /\ FlattenSeq(seqs) = g[Len(seqs)]
  BY FlattenIs
<1>2. Len(seqs) \in 0..Len(seqs)
  BY LenProperties
<1> QED BY <1>1, <1>2 DEF Flattens

LEMMA Concats ==
  ASSUME NEW a \in Str, NEW b \in Str, NEW c \in Str
  PROVE  /\ a \o b \in Str /\ b \o c \in Str
         /\ (a \o b) \o c = a \o (b \o c) /\ a \o b \o c \in Str
BY ConcatAssociative, ConcatProperties DEF Str

\* Whole bulk strings are taken off one by one.
LEMMA BulksTaken ==
  ASSUME NEW bulks \in Seq(Str), \A i \in 1..Len(bulks) : WholeBulk(bulks[i]),
         NEW g, Flattens(bulks, Byte, g), NEW h, Takes(g[Len(bulks)], Len(bulks), h)
  PROVE  h[Len(bulks)] = Done(<<>>, <<>>)
<1> DEFINE n == Len(bulks)
           P(i) == \A u \in Str : \A a : Takes(g[i] \o u, n, a) => a[i] = Done(<<>>, u)
           I == {i \in Nat : i <= n => P(i)}
<1>1. n \in Nat /\ <<>> \in Str
  BY LenProperties, EmptySeq DEF Str
<1>2. \A i \in 0..n : g[i] \in Str
  BY DEF Flattens, Str
<1>3. 0 \in I
  <2> SUFFICES ASSUME NEW u \in Str, NEW a, Takes(g[0] \o u, n, a) PROVE a[0] = Done(<<>>, u)
    OBVIOUS
  <2>1. g[0] \o u = u
    BY ConcatEmptySeq DEF Flattens, Str
  <2> QED BY <2>1 DEF Takes
<1>4. ASSUME NEW i \in Nat, i \in I PROVE i + 1 \in I
  <2> SUFFICES ASSUME i + 1 <= n, NEW u \in Str, NEW a, Takes(g[i+1] \o u, n, a)
               PROVE  a[i+1] = Done(<<>>, u)
    OBVIOUS
  <2> DEFINE b == bulks[i+1]
  <2>1. P(i) /\ i + 1 \in 1..n /\ (i + 1) - 1 = i /\ i \in 0..n
    BY <1>1, <1>4
  <2>2. WholeBulk(b) /\ b \in Str /\ g[i+1] = g[i] \o b /\ g[i] \in Str
    BY <2>1, <1>2 DEF Flattens, WholeBulk
  <2> HIDE DEF b
  <2>3. (g[i] \o b) \o u = g[i] \o (b \o u) /\ b \o u \in Str
    BY <2>2, Concats
  <2>4. a[i] = Done(<<>>, b \o u)
    <3>1. g[i+1] \o u = g[i] \o (b \o u)
      BY <2>2, <2>3
    <3>2. Takes(g[i] \o (b \o u), n, a)
      BY <3>1
    <3> QED BY <2>1, <2>3, <3>2, Zenon
  <2>5. a[i].is = "done" /\ a[i].rest = b \o u
    <3>1. \A w : a[i] = Done(<<>>, w) => a[i].is = "done" /\ a[i].rest = w
      BY DoneIs
    <3> QED BY <2>4, <3>1, Zenon
  <2>6. a[i+1] = OneBulk(b \o u)
    <3>1. a[i+1] = IF a[i].is = "done" THEN OneBulk(a[i].rest) ELSE a[i]
      BY <2>1 DEF Takes
    <3> QED BY <3>1, <2>5
  <2>7. OneBulk(b).is = "done" /\ OneBulk(b).rest = <<>>
    BY <2>2, DoneFields DEF WholeBulk
  <2>8. OneBulk(b \o u) = Done(<<>>, <<>> \o u)
    <3>1. OneBulk(b \o u) = Done(<<>>, OneBulk(b).rest \o u)
      BY <2>2, <2>7, OneBulkExtends
    <3> QED BY <3>1, <2>7
  <2>9. <<>> \o u = u
    BY ConcatEmptySeq DEF Str
  <2> QED BY <2>6, <2>8, <2>9
<1>5. P(n)
  <2> HIDE DEF P
  <2>1. n \in I
    <3> HIDE DEF I, n
    <3> QED BY <1>1, <1>3, <1>4, NatInduct
  <2> QED BY <2>1, <1>1
<1>6. g[n] \o <<>> = g[n]
  <2>1. g[n] \in Str
    BY <1>1, <1>2
  <2> QED BY <2>1, ConcatEmptySeq DEF Str
<1>7. Takes(g[n] \o <<>>, n, h)
  BY <1>6
<1> QED BY <1>1, <1>5, <1>7

LEMMA ArrayWhole ==
  ASSUME NEW items \in Seq(Str \cup {None})
  PROVE  Whole(RespArray(items, None)) /\ RespArray(items, None)[1] = "*"
<1> DEFINE n == Len(items)
           bulks == [i \in DOMAIN items |-> IF items[i] = None THEN RespNilBulk
                                            ELSE RespBulk(items[i])]
           q == FlattenSeq(bulks)
           z == <<"*">> \o Numeral(n) \o CRLF \o q
<1>1. n \in Nat /\ DOMAIN items = 1..n /\ \A i \in 1..n : items[i] \in Str \cup {None}
  BY LenProperties, ElementOfSeq
<1>2. \A i \in 1..n : WholeBulk(bulks[i])
  BY <1>1, NilBulkWhole, BulkWhole
<1>3. bulks = [i \in 1..n |-> bulks[i]]
  BY <1>1
<1>4. RespArray(items, None) = z
  BY DEF RespArray
<1> HIDE DEF bulks, n
<1>5. bulks \in Seq(Str) /\ Len(bulks) = n
  <2>1. bulks \in [1..n -> Str]
    BY <1>2, <1>3 DEF WholeBulk
  <2> QED BY <1>1, <2>1, LenProperties, SeqDef
<1>6. PICK g : Flattens(bulks, Byte, g) /\ q = g[n]
  BY <1>5, FlattenIs DEF Str
<1>7. q \in Str
  BY <1>5, FlattenTyped DEF Str
<1> HIDE DEF q
<1>8. /\ z \in Str /\ z # <<>> /\ z[1] = "*"
      /\ ReadLine(z).rest = q /\ Counted(z, "*") /\ Count(z) = n
  <2>1. "*" \in Byte /\ "*" # "LF" /\ n \in Int /\ n >= 0
    <3>1. "*" \in Byte /\ "*" # "LF"
      BY SymbolsAreBytes DEF Symbols
    <3>2. n \in Int /\ n >= 0
      BY <1>1
    <3> QED BY <3>1, <3>2
  <2>2. /\ z \in Str /\ z # <<>> /\ z[1] = "*" /\ ReadLine(z).rest = q
        /\ n >= 0 => Counted(z, "*") /\ Count(z) = n
    <3> HIDE DEF z
    <3>1. z = <<"*">> \o Numeral(n) \o CRLF \o q
      BY DEF z
    <3> QED BY <2>1, <3>1, <1>7, NumberedLine
  <2> HIDE DEF z
  <2> QED BY <2>1, <2>2
<1> HIDE DEF z
<1>9. PICK h : Takes(q, n, h) /\ OneArray(z) = h[n]
  <2>1. ~(Count(z) < 0)
    BY <1>1, <1>8
  <2>2. \E h : Takes(ReadLine(z).rest, Count(z), h) /\ OneArray(z) = h[Count(z)]
    BY <2>1, <1>8, OneArrayTakes
  <2> QED BY <2>2, <1>8
<1>10. h[n] = Done(<<>>, <<>>)
  <2>1. Takes(g[Len(bulks)], Len(bulks), h) /\ Flattens(bulks, Byte, g)
        /\ \A i \in 1..Len(bulks) : WholeBulk(bulks[i])
    BY <1>2, <1>5, <1>6, <1>9
  <2>2. h[Len(bulks)] = Done(<<>>, <<>>)
    BY <2>1, <1>5, BulksTaken
  <2> QED BY <2>2, <1>5
<1>11. OneReply(z) = OneArray(z)
  <2>1. z[1] = "*" /\ z[1] # "$" /\ z[1] \notin {"+", "-", ":"}
    BY <1>8
  <2> QED BY <2>1, Zenon DEF OneReply
<1>12. OneReply(z).is = "done" /\ OneReply(z).rest = <<>>
  BY <1>9, <1>10, <1>11, DoneFields
<1>13. Whole(z)
  BY <1>8, <1>12 DEF Whole
<1> QED BY <1>4, <1>8, <1>13

-------------------------------------------------------------------------------
(* The parser: what it has read is a sequence of texts, and a text is left. *)

Inputs == [is : {"done", "more", "err", "fatal"}, args : Seq(Str), rest : Str]

LEMMA InputsAre ==
  /\ More \in Inputs /\ Err \in Inputs /\ Fatal \in Inputs
  /\ \A a \in Seq(Str), r \in Str : Done(a, r) \in Inputs
<1>1. <<>> \in Seq(Str) /\ <<>> \in Str
  BY EmptySeq DEF Str
<1> QED BY <1>1 DEF More, Err, Fatal, Done, Inputs

LEMMA OneText == ASSUME NEW a \in Str PROVE <<a>> \in Seq(Str)
OBVIOUS

LEMMA HeadIs ==
  ASSUME NEW s \in Str
  PROVE  /\ ReadLine(s).is # "done" => ReadLine(s) = More
         /\ ReadLine(s).is = "done" => ReadLine(s).args \in Str /\ ReadLine(s).rest \in Str
<1>1. ReadLine(s) = More \/ ReadLine(s) \in Lines
  BY LineTyped
<1>2. More.is # "done"
  BY DEF More
<1>3. ASSUME ReadLine(s) \in Lines
      PROVE  ReadLine(s).is = "done" /\ ReadLine(s).args \in Str /\ ReadLine(s).rest \in Str
  BY <1>3 DEF Lines
<1> QED BY <1>1, <1>2, <1>3

\* A line that announces what make can have the bytes for.
BulkSized(s) == Announced(s, "$") /\ Count(s) + 2 <= Memory
ArraySized(s) == Announced(s, "*") /\ Header * Count(s) <= Memory

LEMMA MemoryIs == Memory \in Nat /\ 2^(W-1) \in Nat /\ Memory < 2^(W-1)
<1> DEFINE p == 2^(W-1)
<1>1. {W, p, 2^W} \subseteq Nat \ {0} /\ Memory \in 0..p-1
  BY RESPAssumptions
<1> HIDE DEF p
<1>2. Memory \in Nat /\ p \in Nat /\ Memory < p
  BY <1>1
<1> QED BY <1>2 DEF p

LEMMA AnnouncedIs ==
  ASSUME NEW s, NEW mark
  PROVE  /\ Announced(s, mark) => Counted(s, mark) /\ Count(s) \in Nat /\ ReadLine(s).is = "done"
         /\ Counted(s, mark) /\ Count(s) \in Nat /\ Count(s) <= Memory => Announced(s, mark)
<1> DEFINE p == 2^(W-1)
<1>1. p \in Nat /\ Memory \in Nat /\ Memory < p
  BY MemoryIs
<1>2. Announced(s, mark) <=> Counted(s, mark) /\ Count(s) \in 0..p-1
  BY DEF Announced
<1>3. Counted(s, mark) => ReadLine(s).is = "done"
  BY DEF Counted
<1> HIDE DEF p
<1> QED BY <1>1, <1>2, <1>3

LEMMA SizedIs ==
  ASSUME NEW s
  PROVE  /\ BulkSized(s) => Counted(s, "$") /\ Count(s) \in Nat /\ ReadLine(s).is = "done"
         /\ ArraySized(s) => Counted(s, "*") /\ Count(s) \in Nat /\ ReadLine(s).is = "done"
         /\ Counted(s, "$") /\ Count(s) \in Nat /\ Count(s) + 2 <= Memory => BulkSized(s)
         /\ Counted(s, "*") /\ Count(s) \in Nat /\ Header * Count(s) <= Memory => ArraySized(s)
<1>1. /\ BulkSized(s) => Counted(s, "$") /\ Count(s) \in Nat /\ ReadLine(s).is = "done"
      /\ ArraySized(s) => Counted(s, "*") /\ Count(s) \in Nat /\ ReadLine(s).is = "done"
  BY AnnouncedIs DEF BulkSized, ArraySized
<1>2. ASSUME Counted(s, "$"), Count(s) \in Nat, Count(s) + 2 <= Memory PROVE BulkSized(s)
  <2>1. Count(s) <= Memory
    BY <1>2, MemoryIs
  <2> QED BY <1>2, <2>1, AnnouncedIs DEF BulkSized
<1>3. ASSUME Counted(s, "*"), Count(s) \in Nat, Header * Count(s) <= Memory PROVE ArraySized(s)
  <2>1. Count(s) <= Memory
    BY <1>3, MemoryIs DEF Header
  <2> QED BY <1>3, <2>1, AnnouncedIs DEF ArraySized
<1> QED BY <1>1, <1>2, <1>3

LEMMA SizedExtends ==
  ASSUME NEW s \in Str, NEW t \in Str, ReadLine(s).is = "done"
  PROVE  /\ BulkSized(s \o t) <=> BulkSized(s)
         /\ ArraySized(s \o t) <=> ArraySized(s)
BY CountExtends DEF BulkSized, ArraySized, Announced

\* The cases of the two readers.
LEMMA ReadersAre ==
  ASSUME NEW s
  PROVE  LET q == ReadLine(s).rest
             n == Count(s)
         IN /\ ReadLine(s).is # "done" => ReadBulk(s) = ReadLine(s) /\ ReadMultibulk(s) = ReadLine(s)
            /\ ReadLine(s).is = "done" /\ ~BulkSized(s) => ReadBulk(s) \in {Err, Fatal}
            /\ ReadLine(s).is = "done" /\ ~ArraySized(s) => ReadMultibulk(s) \in {Err, Fatal}
            /\ BulkSized(s) => ReadBulk(s) = IF Len(q) < n + 2 THEN More
                                 ELSE Done(<<SubSeq(q, 1, n)>>, SubSeq(q, n + 3, Len(q)))
<1> DEFINE q == ReadLine(s).rest
           n == Count(s)
           d == Done(<<SubSeq(q, 1, n)>>, SubSeq(q, n + 3, Len(q)))
           e == LET read[i \in 0..n] == IF i = 0 THEN Done(<<>>, q) ELSE OneMore(read[i-1])
                IN read[n]
<1>1. \A mark : Announced(s, mark) => ReadLine(s).is = "done" /\ n \in Nat
  BY AnnouncedIs
<1>2. Memory \in Nat
  BY MemoryIs
<1>3. ReadBulk(s) = CASE ReadLine(s).is # "done" -> ReadLine(s)
                      [] Announced(s, "$") /\ n + 2 > Memory -> Fatal
                      [] Announced(s, "$") /\ n + 2 <= Memory ->
                           IF Len(q) < n + 2 THEN More ELSE d
                      [] OTHER -> Err
  BY DEF ReadBulk
<1>4. ReadMultibulk(s) = CASE ReadLine(s).is # "done" -> ReadLine(s)
                           [] Announced(s, "*") /\ Header * n > Memory -> Fatal
                           [] Announced(s, "*") /\ Header * n <= Memory -> e
                           [] OTHER -> Err
  BY DEF ReadMultibulk
<1>5. /\ BulkSized(s) <=> Announced(s, "$") /\ n + 2 <= Memory
      /\ ArraySized(s) <=> Announced(s, "*") /\ Header * n <= Memory
  BY DEF BulkSized, ArraySized
<1> HIDE DEF n, e, d
<1>6. Announced(s, "$") => ~(n + 2 > Memory) <=> n + 2 <= Memory
  BY <1>1, <1>2
<1>7. Announced(s, "*") => ~(Header * n > Memory) <=> Header * n <= Memory
  BY <1>1, <1>2 DEF Header
<1>8. ReadLine(s).is # "done" => ReadBulk(s) = ReadLine(s) /\ ReadMultibulk(s) = ReadLine(s)
  BY <1>1, <1>3, <1>4
<1>9. ReadLine(s).is = "done" /\ ~BulkSized(s) => ReadBulk(s) \in {Err, Fatal}
  BY <1>3, <1>5, <1>6
<1>10. ReadLine(s).is = "done" /\ ~ArraySized(s) => ReadMultibulk(s) \in {Err, Fatal}
  BY <1>4, <1>5, <1>7
<1>11. BulkSized(s) => ReadBulk(s) = IF Len(q) < n + 2 THEN More ELSE d
  BY <1>1, <1>3, <1>5, <1>6
<1> QED BY <1>8, <1>9, <1>10, <1>11 DEF q, n, d

LEMMA ReadBulkTyped ==
  ASSUME NEW s \in Str
  PROVE  ReadBulk(s) \in Inputs
<1> DEFINE q == ReadLine(s).rest
           size == Count(s)
<1>1. CASE ReadLine(s).is # "done"
  BY <1>1, HeadIs, InputsAre, ReadersAre
<1>2. CASE ReadLine(s).is = "done" /\ ~BulkSized(s)
  <2>1. ReadBulk(s) \in {Err, Fatal}
    BY <1>2, ReadersAre
  <2> QED BY <2>1, InputsAre
<1>3. CASE BulkSized(s)
  <2>1. q \in Str /\ size \in Nat /\ Len(q) \in Nat
    BY <1>3, SizedIs, CountIs, LenProperties DEF Str
  <2>2. ReadBulk(s) = IF Len(q) < size + 2 THEN More
                      ELSE Done(<<SubSeq(q, 1, size)>>, SubSeq(q, size + 3, Len(q)))
    BY <1>3, ReadersAre
  <2> HIDE DEF q, size
  <2>3. CASE Len(q) < size + 2
    BY <2>2, <2>3, InputsAre
  <2>4. CASE ~(Len(q) < size + 2)
    <3> DEFINE d == SubSeq(q, 1, size)
               r == SubSeq(q, size + 3, Len(q))
    <3>1. ReadBulk(s) = Done(<<d>>, r)
      BY <2>2, <2>4
    <3>2. d \in Str
      BY <2>1, <2>4, SubStr
    <3>3. r \in Str
      <4>1. size + 3 \in Nat \ {0} /\ Len(q) \in Int /\ Len(q) <= Len(q)
        BY <2>1
      <4> QED BY <2>1, <4>1, SubStr
    <3> HIDE DEF d, r
    <3> QED BY <3>1, <3>2, <3>3, OneText, InputsAre
  <2> QED BY <2>3, <2>4
<1> QED BY <1>1, <1>2, <1>3

\* The function of ReadMultibulk.
Multireading(s, g) ==
  [i \in 0..Count(s) |->
     IF i = 0 THEN Done(<<>>, ReadLine(s).rest) ELSE OneMore(g[i-1])]

LEMMA OneMoreTyped == ASSUME NEW r \in Inputs PROVE OneMore(r) \in Inputs
<1>1. r.args \in Seq(Str) /\ ReadBulk(r.rest) \in Inputs
  BY ReadBulkTyped DEF Inputs
<1>2. ReadBulk(r.rest).args \in Seq(Str)
  BY <1>1 DEF Inputs
<1>3. r.args \o ReadBulk(r.rest).args \in Seq(Str)
  BY <1>1, <1>2, ConcatProperties
<1> DEFINE a == r.args \o ReadBulk(r.rest).args
           b == ReadBulk(r.rest)
<1>4. OneMore(r) = IF r.is = "done" THEN [b EXCEPT !.args = a] ELSE r
  BY DEF OneMore
<1> HIDE DEF a, b
<1>5. b \in Inputs /\ a \in Seq(Str)
  BY <1>1, <1>3 DEF a, b
<1> QED BY <1>4, <1>5 DEF Inputs

\* Reading n bulk strings from q.
Multireads(q, n, g) ==
  /\ g \in [0..n -> Inputs] /\ g[0] = Done(<<>>, q)
  /\ \A i \in 1..n : g[i] = OneMore(g[i-1])

\* What it reads of an array of so many bulk strings.
LEMMA MultibulkReads ==
  ASSUME NEW s \in Str, ArraySized(s)
  PROVE  /\ ReadLine(s).rest \in Str /\ Count(s) \in Nat
         /\ \E g : Multireads(ReadLine(s).rest, Count(s), g) /\ ReadMultibulk(s) = g[Count(s)]
<1> DEFINE n == Count(s)
           x == Done(<<>>, ReadLine(s).rest)
           f == [p \in (1..n) \X Inputs |-> OneMore(p[2])]
           c == CHOOSE g : g = Multireading(s, g)
<1>1. n \in Nat /\ x \in Inputs
  <2>1. n \in Nat /\ ReadLine(s).rest \in Str
    BY SizedIs, CountIs
  <2>2. <<>> \in Seq(Str)
    BY EmptySeq
  <2> QED BY <2>1, <2>2, InputsAre
<1>2. ReadMultibulk(s) = c[n]
  <2>1. ReadLine(s).is = "done" /\ ~(Header * Count(s) > Memory)
    BY SizedIs, MemoryIs DEF ArraySized, Header
  <2> QED BY <2>1 DEF ReadMultibulk, Multireading, ArraySized, n, c
<1>3. f \in [(1..n) \X Inputs -> Inputs]
  BY OneMoreTyped
<1>4. \A i \in 1..n, r \in Inputs : f[<<i, r>>] = OneMore(r)
  OBVIOUS
<1>5. \A g : Multireading(s, g) = [i \in 0..n |-> IF i = 0 THEN x ELSE OneMore(g[i-1])]
  BY DEF Multireading, n, x
<1> HIDE DEF f, x, n
<1>6. \E g : g = Multireading(s, g)
  <2>1. PICK g : Chain(g, n, Inputs, x, f)
    BY <1>1, <1>3, ChainExists
  <2>2. ASSUME NEW i \in 0..n PROVE g[i] = IF i = 0 THEN x ELSE OneMore(g[i-1])
    <3>1. CASE i = 0
      BY <3>1, <2>1 DEF Chain
    <3>2. CASE i # 0
      <4>1. i \in 1..n /\ i - 1 \in 0..n
        BY <1>1, <3>2
      <4>2. g[i-1] \in Inputs /\ g[i] = f[<<i, g[i-1]>>]
        BY <4>1, <2>1 DEF Chain
      <4> QED BY <3>2, <4>1, <4>2, <1>4
    <3> QED BY <3>1, <3>2
  <2>3. g = [i \in 0..n |-> g[i]]
    BY <2>1 DEF Chain
  <2>4. g = Multireading(s, g)
    BY <2>2, <2>3, <1>5, Zenon
  <2> QED BY <2>4
<1>7. c = Multireading(s, c)
  BY <1>6, Zenon
<1> HIDE DEF c
<1>8. \A i \in 0..n : c[i] = IF i = 0 THEN x ELSE OneMore(c[i-1])
  BY <1>5, <1>7, Zenon
<1>9. c = [i \in 0..n |-> c[i]]
  BY <1>5, <1>7, <1>8, Zenon
<1>10. c[0] = x /\ \A i \in 1..n : c[i] = OneMore(c[i-1])
  <2>1. 0 \in 0..n /\ \A i \in 1..n : i \in 0..n /\ i # 0
    BY <1>1
  <2> QED BY <2>1, <1>8
<1>11. Chain(c, n, Inputs, x, f)
  <2>1. \A i \in 1..n : c[i-1] \in Inputs => c[i] = f[<<i, c[i-1]>>]
    BY <1>4, <1>10
  <2> QED BY <2>1, <1>1, <1>3, <1>9, <1>10, ChainIs
<1>12. Multireads(ReadLine(s).rest, n, c)
  BY <1>10, <1>11 DEF Chain, Multireads, x
<1>13. ReadLine(s).rest \in Str
  BY SizedIs, CountIs
<1> QED BY <1>1, <1>2, <1>12, <1>13 DEF n

LEMMA MultireadTyped ==
  ASSUME NEW s \in Str, ArraySized(s)
  PROVE  ReadMultibulk(s) \in Inputs
<1>1. PICK g : Multireads(ReadLine(s).rest, Count(s), g) /\ ReadMultibulk(s) = g[Count(s)]
  BY MultibulkReads
<1>2. Count(s) \in 0..Count(s)
  BY MultibulkReads
<1> QED BY <1>1, <1>2 DEF Multireads

LEMMA ReadMultibulkTyped ==
  ASSUME NEW s \in Str
  PROVE  ReadMultibulk(s) \in Inputs
<1>1. CASE ReadLine(s).is # "done"
  BY <1>1, HeadIs, InputsAre, ReadersAre
<1>2. CASE ReadLine(s).is = "done" /\ ~ArraySized(s)
  <2>1. ReadMultibulk(s) \in {Err, Fatal}
    BY <1>2, ReadersAre
  <2> QED BY <2>1, InputsAre
<1>3. CASE ArraySized(s)
  BY <1>3, MultireadTyped
<1> QED BY <1>1, <1>2, <1>3

\* The function of Words.
Wording(line, g) == [i \in 0..Len(line) |-> IF i = 0 THEN <<>> ELSE OneWord(line, g[i-1], i)]

LEMMA OneWordTyped ==
  ASSUME NEW line \in Str, NEW w \in Seq(Str), NEW i \in 1..Len(line)
  PROVE  OneWord(line, w, i) \in Seq(Str)
<1> DEFINE d == line[i]
<1>1. d \in Byte
  BY ElementOfSeq DEF Str
<1>2. CASE d = " "
  BY <1>2 DEF OneWord
<1>3. CASE d # " " /\ (i = 1 \/ line[i-1] = " ")
  <2>1. OneWord(line, w, i) = Append(w, <<d>>)
    BY <1>3 DEF OneWord
  <2>2. <<d>> \in Str
    BY <1>1, OneSymbol
  <2> HIDE DEF d
  <2> QED BY <2>1, <2>2, AppendProperties
<1>4. CASE d # " " /\ ~(i = 1 \/ line[i-1] = " ")
  <2> DEFINE k == Len(w)
             v == Append(w[k], d)
  <2>1. OneWord(line, w, i) = [w EXCEPT ![k] = v]
    BY <1>4 DEF OneWord
  <2>2. CASE w = <<>>
    <3>1. [w EXCEPT ![k] = v] = w
      <4> HIDE DEF v, d
      <4> QED BY <2>2
    <3> QED BY <2>1, <3>1
  <2>3. CASE w # <<>>
    <3>1. k \in 1..Len(w)
      BY <2>3, EmptySeq, LenProperties
    <3>2. w[k] \in Str
      BY <3>1, ElementOfSeq
    <3>3. v \in Str
      <4> HIDE DEF k, d
      <4> QED BY <1>1, <3>2, AppendProperties DEF Str
    <3> HIDE DEF v, k
    <3> QED BY <2>1, <3>1, <3>3, ExceptSeq
  <2> QED BY <2>2, <2>3
<1> QED BY <1>2, <1>3, <1>4

\* The words of a line up to each of its symbols.
Worded(line, g) ==
  /\ g \in [0..Len(line) -> Seq(Str)] /\ g[0] = <<>>
  /\ \A i \in 1..Len(line) : g[i] = OneWord(line, g[i-1], i)

LEMMA WordsAre ==
  ASSUME NEW line \in Str
  PROVE  \E g : Worded(line, g) /\ Words(line) = g[Len(line)]
<1> DEFINE n == Len(line)
           x == <<>>
           f == [p \in (1..n) \X Seq(Str) |-> OneWord(line, p[2], p[1])]
           c == CHOOSE g : g = Wording(line, g)
<1>1. n \in Nat /\ x \in Seq(Str)
  BY LenProperties, EmptySeq DEF Str
<1>2. Words(line) = c[n]
  BY DEF Words, Wording, n, c
<1>3. f \in [(1..n) \X Seq(Str) -> Seq(Str)]
  BY OneWordTyped
<1>4. \A i \in 1..n, r \in Seq(Str) : f[<<i, r>>] = OneWord(line, r, i)
  OBVIOUS
<1>5. \A g : Wording(line, g) = [i \in 0..n |-> IF i = 0 THEN x ELSE OneWord(line, g[i-1], i)]
  BY DEF Wording, n, x
<1> HIDE DEF f, x, n
<1>6. \E g : g = Wording(line, g)
  <2>1. PICK g : Chain(g, n, Seq(Str), x, f)
    BY <1>1, <1>3, ChainExists
  <2>2. ASSUME NEW i \in 0..n PROVE g[i] = IF i = 0 THEN x ELSE OneWord(line, g[i-1], i)
    <3>1. CASE i = 0
      BY <3>1, <2>1 DEF Chain
    <3>2. CASE i # 0
      <4>1. i \in 1..n /\ i - 1 \in 0..n
        BY <1>1, <3>2
      <4>2. g[i-1] \in Seq(Str) /\ g[i] = f[<<i, g[i-1]>>]
        BY <4>1, <2>1 DEF Chain
      <4> QED BY <3>2, <4>1, <4>2, <1>4
    <3> QED BY <3>1, <3>2
  <2>3. g = [i \in 0..n |-> g[i]]
    BY <2>1 DEF Chain
  <2>4. g = Wording(line, g)
    BY <2>2, <2>3, <1>5, Zenon
  <2> QED BY <2>4
<1>7. c = Wording(line, c)
  BY <1>6, Zenon
<1> HIDE DEF c
<1>8. \A i \in 0..n : c[i] = IF i = 0 THEN x ELSE OneWord(line, c[i-1], i)
  BY <1>5, <1>7, Zenon
<1>9. c = [i \in 0..n |-> c[i]]
  BY <1>5, <1>7, <1>8, Zenon
<1>10. c[0] = x /\ \A i \in 1..n : c[i] = OneWord(line, c[i-1], i)
  <2>1. 0 \in 0..n /\ \A i \in 1..n : i \in 0..n /\ i # 0
    BY <1>1
  <2> QED BY <2>1, <1>8
<1>11. Chain(c, n, Seq(Str), x, f)
  <2>1. \A i \in 1..n : c[i-1] \in Seq(Str) => c[i] = f[<<i, c[i-1]>>]
    BY <1>4, <1>10
  <2> QED BY <2>1, <1>1, <1>3, <1>9, <1>10, ChainIs
<1>12. Worded(line, c)
  BY <1>10, <1>11 DEF Chain, Worded, n, x
<1> QED BY <1>2, <1>12 DEF n

LEMMA WordsTyped ==
  ASSUME NEW line \in Str
  PROVE  Words(line) \in Seq(Str)
<1>1. PICK g : Worded(line, g) /\ Words(line) = g[Len(line)]
  BY WordsAre
<1>2. Len(line) \in 0..Len(line)
  BY LenProperties DEF Str
<1> QED BY <1>1, <1>2 DEF Worded

LEMMA CommandTyped ==
  ASSUME NEW s \in Str
  PROVE  ReadRESPCommand(s) \in Inputs
<1>1. CASE s = <<>>
  BY <1>1, InputsAre DEF ReadRESPCommand
<1>2. CASE s # <<>> /\ s[1] = "*"
  BY <1>2, ReadMultibulkTyped DEF ReadRESPCommand
<1>3. CASE s # <<>> /\ s[1] # "*"
  <2>1. ReadRESPCommand(s) = ReadInline(s)
    BY <1>3 DEF ReadRESPCommand
  <2>2. CASE ReadLine(s).is # "done"
    BY <2>1, <2>2, HeadIs, InputsAre DEF ReadInline
  <2>3. CASE ReadLine(s).is = "done"
    <3>1. ReadLine(s).args \in Str /\ ReadLine(s).rest \in Str
      BY <2>3, HeadIs
    <3>2. Words(ReadLine(s).args) \in Seq(Str)
      BY <3>1, WordsTyped
    <3>3. ReadInline(s) = Done(Words(ReadLine(s).args), ReadLine(s).rest)
      BY <2>3 DEF ReadInline
    <3> QED BY <2>1, <3>1, <3>2, <3>3, InputsAre
  <2> QED BY <2>2, <2>3
<1> QED BY <1>1, <1>2, <1>3

-------------------------------------------------------------------------------
(* Numbers of W bits, and the cache *)

LEMMA NoneIs == None \notin Str /\ None \notin Jobs /\ None \notin Int
BY ServerAssumptions DEF Str, Byte

LEMMA SizesAre == 2^(W-1) \in Nat \ {0} /\ 2^W \in Nat \ {0} /\ Milli \in Nat \ {0} /\ Second \in Nat \ {0}
<1> DEFINE p == 2^(W-1)
           q == 2^W
<1>1. {W, p, q} \subseteq Nat \ {0} /\ {NumShards, Milli, Second} \subseteq Nat \ {0}
  BY RESPAssumptions, ServerAssumptions
<1> HIDE DEF p, q
<1>2. p \in Nat \ {0} /\ q \in Nat \ {0} /\ Milli \in Nat \ {0} /\ Second \in Nat \ {0}
  BY <1>1
<1> QED BY <1>2 DEF p, q

LEMMA WrapTyped == ASSUME NEW n \in Int PROVE Wrap(n) \in Int
<1> DEFINE p == 2^(W-1)
           q == 2^W
<1>1. p \in Nat \ {0} /\ q \in Nat \ {0}
  BY SizesAre
<1>2. Wrap(n) = ((n + p) % q) - p
  BY DEF Wrap
<1> HIDE DEF p, q
<1>3. n + p \in Int
  BY <1>1
<1>4. (n + p) % q \in Int
  BY <1>1, <1>3
<1> QED BY <1>1, <1>2, <1>4

LEMMA IntTyped == ASSUME NEW w, IsInt(w) PROVE Atoi(w) \in Int
<1> DEFINE p == 2^(W-1)
<1>1. p \in Nat /\ Atoi(w) \in -p..p-1
  BY SizesAre DEF IsInt
<1> HIDE DEF p
<1> QED BY <1>1

Items == [val : Str, exp : Int]

\* What a cache may be: a finite map and a count.
Map(m) == \E K \in SUBSET Str : IsFiniteSet(K) /\ m \in [K -> Items]
Stored(d) == d = [items |-> d.items, total |-> d.total] /\ Map(d.items) /\ d.total \in Int

LEMMA StoredIs ==
  ASSUME NEW m, Map(m), NEW n \in Int
  PROVE  Stored([items |-> m, total |-> n])
BY DEF Stored

LEMMA EmptyStored == Stored([items |-> <<>>, total |-> 0])
<1>1. <<>> \in [{} -> Items]
  <2>1. <<>> \in Seq(Items) /\ Len(<<>>) = 0
    BY EmptySeq
  <2>2. <<>> \in [1..0 -> Items]
    BY <2>1, LenProperties
  <2>3. 1..0 = {}
    OBVIOUS
  <2> QED BY <2>2, <2>3
<1>2. Map(<<>>)
  BY <1>1, FS_EmptySet DEF Map
<1> QED BY <1>2, StoredIs

LEMMA PutMap ==
  ASSUME NEW m, Map(m), NEW k \in Str, NEW i \in Items
  PROVE  Map(Put(m, k, i))
<1>1. PICK K \in SUBSET Str : IsFiniteSet(K) /\ m \in [K -> Items]
  BY DEF Map
<1>2. IsFiniteSet(K \cup {k}) /\ K \cup {k} \in SUBSET Str
  BY <1>1, FS_AddElement
<1>3. Put(m, k, i) \in [K \cup {k} -> Items]
  BY <1>1 DEF Put
<1> QED BY <1>2, <1>3 DEF Map

LEMMA DropMap ==
  ASSUME NEW m, Map(m), NEW k
  PROVE  Map(Drop(m, k))
<1>1. PICK K \in SUBSET Str : IsFiniteSet(K) /\ m \in [K -> Items]
  BY DEF Map
<1>2. IsFiniteSet(K \ {k}) /\ K \ {k} \in SUBSET Str
  BY <1>1, FS_RemoveElement
<1>3. Drop(m, k) \in [K \ {k} -> Items]
  BY <1>1 DEF Drop, Restrict
<1> QED BY <1>2, <1>3 DEF Map

LEMMA RestrictMap ==
  ASSUME NEW m, Map(m), NEW S \in SUBSET DOMAIN m
  PROVE  Map(Restrict(m, S))
<1>1. PICK K \in SUBSET Str : IsFiniteSet(K) /\ m \in [K -> Items]
  BY DEF Map
<1>2. IsFiniteSet(S) /\ S \in SUBSET Str
  BY <1>1, FS_Subset
<1>3. Restrict(m, S) \in [S -> Items]
  BY <1>1 DEF Restrict
<1> QED BY <1>2, <1>3 DEF Map

LEMMA AtMap ==
  ASSUME NEW m, Map(m), NEW k \in DOMAIN m
  PROVE  k \in Str /\ m[k] \in Items /\ m[k].val \in Str /\ m[k].exp \in Int
BY DEF Map, Items

LEMMA SetMap ==
  ASSUME NEW m, Map(m), NEW k \in DOMAIN m, NEW i \in Items
  PROVE  Map([m EXCEPT ![k] = i])
<1>1. PICK K \in SUBSET Str : IsFiniteSet(K) /\ m \in [K -> Items]
  BY DEF Map
<1>2. [m EXCEPT ![k] = i] \in [K -> Items]
  BY <1>1
<1> QED BY <1>1, <1>2 DEF Map

\* What the calls of the cache leave of it.
LEMMA CallsStore ==
  ASSUME Stored(db), NEW k \in Str
  PROVE  /\ \A v \in Str, e \in Int : Stored(With(k, v, e))
         /\ Stored(Without(k)) /\ Stored(Looked(k))
         /\ \A v \in Str : Stored(Updated(k, v))
         /\ Alive(k) => \A e \in Int : Stored([db EXCEPT !.items[k].exp = e])
<1> DEFINE m == db.items
           n == db.total
<1>1. Map(m) /\ n \in Int /\ db = [items |-> m, total |-> n]
  BY DEF Stored
<1>2. \A v \in Str, e \in Int : [val |-> v, exp |-> e] \in Items
  BY DEF Items
<1>3. \A i \in Items : Map(Put(m, k, i))
  BY <1>1, PutMap
<1>4. Map(Drop(m, k))
  BY <1>1, DropMap
<1>5. Alive(k) => k \in DOMAIN m
  BY DEF Alive, There
<1>6. ASSUME NEW v \in Str, NEW e \in Int PROVE Stored(With(k, v, e))
  <2> DEFINE q == Put(m, k, [val |-> v, exp |-> e])
             r == IF There(k) THEN n ELSE n + 1
  <2>1. Map(q) /\ r \in Int
    BY <1>1, <1>2, <1>3
  <2>2. With(k, v, e) = [items |-> q, total |-> r]
    BY DEF With
  <2> HIDE DEF q, r
  <2> QED BY <2>1, <2>2, StoredIs
<1>7. Stored(Without(k))
  <2> DEFINE q == Drop(m, k)
             r == IF There(k) THEN n - 1 ELSE n
  <2>1. Map(q) /\ r \in Int
    BY <1>1, <1>4
  <2>2. Without(k) = [items |-> q, total |-> r]
    BY DEF Without
  <2> HIDE DEF q, r
  <2> QED BY <2>1, <2>2, StoredIs
<1>8. Stored(Looked(k))
  <2> DEFINE q == Drop(m, k)
  <2>1. Looked(k) = IF Alive(k) THEN db ELSE [items |-> q, total |-> n]
    <3> HIDE DEF q
    <3>1. Looked(k) = IF Alive(k) THEN db ELSE [db EXCEPT !.items = q]
      BY DEF Looked, q
    <3> QED BY <3>1, <1>1
  <2> HIDE DEF q
  <2>2. Map(q)
    BY <1>4 DEF q
  <2> QED BY <1>1, <2>1, <2>2, StoredIs
<1>9. ASSUME Alive(k), NEW i \in Items PROVE Stored([items |-> [m EXCEPT ![k] = i], total |-> n])
  <2>1. Map([m EXCEPT ![k] = i])
    BY <1>1, <1>5, <1>9, SetMap
  <2> HIDE DEF m, n
  <2> QED BY <1>1, <2>1, StoredIs
<1>10. ASSUME NEW v \in Str PROVE Stored(Updated(k, v))
  <2>1. CASE Alive(k)
    <3> DEFINE i == [m[k] EXCEPT !.val = v]
    <3>1. i \in Items
      BY <2>1, <1>1, <1>5, AtMap DEF Items
    <3>2. Updated(k, v) = [items |-> [m EXCEPT ![k] = i], total |-> n]
      <4>1. Updated(k, v) = [db EXCEPT !.items = [m EXCEPT ![k] = i]]
        BY <2>1 DEF Updated
      <4> HIDE DEF i
      <4> QED BY <4>1, <1>1
    <3> HIDE DEF i
    <3> QED BY <2>1, <3>1, <3>2, <1>9
  <2>2. CASE ~Alive(k)
    <3> DEFINE q == Put(m, k, [val |-> v, exp |-> 0])
    <3>1. Map(q)
      BY <1>2, <1>3
    <3>2. Updated(k, v) = [items |-> q, total |-> n + 1]
      BY <2>2 DEF Updated
    <3> HIDE DEF q, n
    <3> QED BY <3>1, <3>2, <1>1, StoredIs
  <2> QED BY <2>1, <2>2
<1>11. ASSUME Alive(k), NEW e \in Int PROVE Stored([db EXCEPT !.items[k].exp = e])
  <2> DEFINE i == [m[k] EXCEPT !.exp = e]
  <2>1. i \in Items
    BY <1>1, <1>5, <1>11, AtMap DEF Items
  <2>2. [db EXCEPT !.items[k].exp = e] = [items |-> [m EXCEPT ![k] = i], total |-> n]
    <3>1. [db EXCEPT !.items[k].exp = e] = [db EXCEPT !.items = [m EXCEPT ![k] = i]]
      OBVIOUS
    <3> HIDE DEF i
    <3> QED BY <3>1, <1>1
  <2> HIDE DEF i
  <2> QED BY <1>11, <2>1, <2>2, <1>9
<1> QED BY <1>6, <1>7, <1>8, <1>10, <1>11

-------------------------------------------------------------------------------
(* The inductive invariant.  Told(pw, h, j, o, a) relates what a connection   *)
(* has heard (h), what it has on hand (j), what it has written (o) and        *)
(* whether it is let in (a), pw being the password: o consists of whole       *)
(* replies, one for each command but the one on hand, each of its kind; and   *)
(* with a password, only one who has shown it is let in and has commands run. *)
(* Held says that a RENAME which has found its item can read the lifetime.    *)

Heard == {x \in Seq(Str) : x # <<>>}

Shown(pw, h, n) == \E i \in 1..n : h[i] = <<<<"AUTH">>, pw>>

OnHand(h, j) == /\ j \in Jobs /\ Len(h) # 0
                /\ j.cmd = Command(h[Len(h)]) /\ j.args = Tail(h[Len(h)])
                /\ j.cmd = "MSET" => j.at % 2 = 1

Told(pw, h, j, o, a) ==
  /\ h \in Seq(Heard) /\ a \in BOOLEAN /\ Framed(o)
  /\ j # None => OnHand(h, j)
  /\ Len(Replies(o)) = Len(h) - IF j = None THEN 0 ELSE 1
  /\ \A i \in 1..Len(Replies(o)) : Replies(o)[i] \in {"-"} \cup Kinds(Command(h[i]))
  /\ pw # <<>> =>
       /\ a => Shown(pw, h, Len(h))
       /\ j # None => Shown(pw, h, Len(h) - 1)
       /\ \A i \in 1..Len(Replies(o)) :
            Replies(o)[i] # "-" /\ Command(h[i]) \notin {"AUTH", "QUIT"} => Shown(pw, h, i - 1)

Typed == /\ password \in Str
         /\ sent \in [Conns -> Seq(Str)] /\ inbuf \in [Conns -> Str]
         /\ heard = [c \in Conns |-> heard[c]] /\ job = [c \in Conns |-> job[c]]
         /\ out = [c \in Conns |-> out[c]] /\ auth = [c \in Conns |-> auth[c]]
         /\ Stored(db) /\ now \in Int

\* The item that command j holds is in the map m, or its expiry time g is kept.
Keeps(j, g, m) == /\ Holding(j) /\ g = None => j.args[1] \in DOMAIN m
                  /\ g # None => Holding(j) /\ g \in Int

Held == /\ gone = [c \in Conns |-> gone[c]]
        /\ \A c \in Conns : Keeps(job[c], gone[c], db.items)

Inv == Typed /\ Held /\ \A c \in Conns : Told(password, heard[c], job[c], out[c], auth[c])

LEMMA RepliesTyped ==
  ASSUME NEW o, Framed(o)
  PROVE  Replies(o) \in Seq(Kind) /\ Len(Replies(o)) \in Nat
<1>1. PICK g : FramedBy(o, g) /\ Replies(o) = g[Len(o)].kinds
  BY DEF Framed
<1>2. Len(o) \in 0..Len(o)
  BY LenProperties DEF Framed, Str
<1>3. g[Len(o)] \in States
  BY <1>1, <1>2 DEF FramedBy, Divides
<1> QED BY <1>1, <1>3, LenProperties DEF States

\* What one whole reply more does to the replies.
LEMMA OneReplyMore ==
  ASSUME NEW o, Framed(o), NEW r, Whole(r)
  PROVE  LET q == Replies(o \o r)  n == Len(Replies(o)) IN
         /\ Framed(o \o r) /\ n \in Nat /\ Len(q) = n + 1
         /\ \A i \in 1..n : q[i] = Replies(o)[i]
         /\ q[n + 1] = r[1]
<1> DEFINE p == Replies(o)
<1>1. Framed(o \o r) /\ Replies(o \o r) = Append(p, r[1])
  BY FramedAppend
<1>2. p \in Seq(Kind) /\ Len(p) \in Nat
  BY RepliesTyped
<1>3. r[1] \in Kind
  BY FirstIs DEF Whole, Kind
<1> HIDE DEF p
<1>4. /\ Len(Append(p, r[1])) = Len(p) + 1
      /\ \A i \in 1..Len(p) : Append(p, r[1])[i] = p[i]
      /\ Append(p, r[1])[Len(p) + 1] = r[1]
  BY <1>2, <1>3, AppendProperties
<1> QED BY <1>1, <1>2, <1>4 DEF p

\* The command on hand gets its reply.
LEMMA ToldReply ==
  ASSUME NEW pw, NEW h, NEW j, NEW o, NEW a, Told(pw, h, j, o, a), j # None,
         NEW r, Whole(r), r[1] \in {"-"} \cup Kinds(j.cmd)
  PROVE  Told(pw, h, None, o \o r, a)
<1> DEFINE p == Replies(o)
           q == Replies(o \o r)
           n == Len(p)
<1>1. /\ h \in Seq(Heard) /\ a \in BOOLEAN /\ Framed(o) /\ OnHand(h, j)
      /\ n = Len(h) - 1
      /\ \A i \in 1..n : p[i] \in {"-"} \cup Kinds(Command(h[i]))
      /\ pw # <<>> =>
           /\ a => Shown(pw, h, Len(h))
           /\ Shown(pw, h, Len(h) - 1)
           /\ \A i \in 1..n :
                p[i] # "-" /\ Command(h[i]) \notin {"AUTH", "QUIT"} => Shown(pw, h, i - 1)
  BY DEF Told
<1>2. /\ Framed(o \o r) /\ n \in Nat /\ Len(q) = n + 1
      /\ \A i \in 1..n : q[i] = p[i]
      /\ q[n + 1] = r[1]
  BY <1>1, OneReplyMore
<1>3. Len(h) \in Nat /\ Len(h) = n + 1
  BY <1>1, <1>2, LenProperties
<1> HIDE DEF p, q, n
<1>4. \A i \in 1..n+1 : i \in 1..n \/ i = n + 1
  BY <1>2
<1>5. \A i \in 1..Len(q) : q[i] \in {"-"} \cup Kinds(Command(h[i]))
  <2> SUFFICES ASSUME NEW i \in 1..n+1 PROVE q[i] \in {"-"} \cup Kinds(Command(h[i]))
    BY <1>2
  <2>1. CASE i \in 1..n
    BY <2>1, <1>1, <1>2
  <2>2. CASE i = n + 1
    BY <2>2, <1>1, <1>2, <1>3 DEF OnHand
  <2> QED BY <2>1, <2>2, <1>4
<1>6. ASSUME pw # <<>>, NEW i \in 1..Len(q), q[i] # "-", Command(h[i]) \notin {"AUTH", "QUIT"}
      PROVE  Shown(pw, h, i - 1)
  <2>1. CASE i \in 1..n
    BY <2>1, <1>1, <1>2, <1>6
  <2>2. CASE i = n + 1
    BY <2>2, <1>1, <1>3, <1>6
  <2> QED BY <2>1, <2>2, <1>2, <1>4
<1>7. Len(q) = Len(h)
  BY <1>2, <1>3
<1> QED BY <1>1, <1>2, <1>3, <1>5, <1>6, <1>7 DEF Told, q

LEMMA AppendHeard ==
  ASSUME NEW h \in Seq(Heard), NEW x \in Heard
  PROVE  LET g == Append(h, x)  n == Len(h) IN
         /\ g \in Seq(Heard) /\ n \in Nat /\ Len(g) = n + 1
         /\ \A i \in 1..n : g[i] = h[i]
         /\ g[n + 1] = x
         /\ \A pw : \A i \in 0..n : Shown(pw, h, i) => Shown(pw, g, i) /\ Shown(pw, g, i + 1)
         /\ \A pw : x = <<<<"AUTH">>, pw>> => Shown(pw, g, n + 1)
<1> DEFINE g == Append(h, x)
           n == Len(h)
<1>1. /\ g \in Seq(Heard) /\ n \in Nat /\ Len(g) = n + 1
      /\ \A i \in 1..n : g[i] = h[i]
      /\ g[n + 1] = x
  BY AppendProperties, LenProperties
<1> HIDE DEF g, n
<1>2. ASSUME NEW pw, NEW i \in 0..n, Shown(pw, h, i) PROVE Shown(pw, g, i) /\ Shown(pw, g, i + 1)
  <2>1. PICK k \in 1..i : h[k] = <<<<"AUTH">>, pw>>
    BY <1>2 DEF Shown
  <2>2. k \in 1..n /\ k \in 1..i + 1
    BY <1>1
  <2>3. g[k] = <<<<"AUTH">>, pw>>
    BY <2>1, <2>2, <1>1
  <2> QED BY <2>2, <2>3 DEF Shown
<1>3. ASSUME NEW pw, x = <<<<"AUTH">>, pw>> PROVE Shown(pw, g, n + 1)
  <2>1. n + 1 \in 1..n + 1
    BY <1>1
  <2> QED BY <2>1, <1>1, <1>3 DEF Shown
<1> QED BY <1>1, <1>2, <1>3 DEF g, n

\* A command that is answered as soon as it is read.
LEMMA ToldAtOnce ==
  ASSUME NEW pw, NEW h, NEW o, NEW a, Told(pw, h, None, o, a),
         NEW x \in Heard, NEW r, Whole(r), r[1] \in {"-"} \cup Kinds(Command(x)),
         r[1] # "-" => Command(x) \in {"AUTH", "QUIT"},
         NEW b \in BOOLEAN, pw # <<>> /\ b => a \/ x = <<<<"AUTH">>, pw>>
  PROVE  Told(pw, Append(h, x), None, o \o r, b)
<1> DEFINE p == Replies(o)
           q == Replies(o \o r)
           n == Len(h)
           g == Append(h, x)
<1>1. /\ h \in Seq(Heard) /\ a \in BOOLEAN /\ Framed(o)
      /\ Len(p) = n
      /\ \A i \in 1..n : p[i] \in {"-"} \cup Kinds(Command(h[i]))
      /\ pw # <<>> =>
           /\ a => Shown(pw, h, n)
           /\ \A i \in 1..n :
                p[i] # "-" /\ Command(h[i]) \notin {"AUTH", "QUIT"} => Shown(pw, h, i - 1)
  <2>1. n \in Nat /\ n - 0 = n
    BY LenProperties DEF Told
  <2> QED BY <2>1 DEF Told
<1>2. /\ Framed(o \o r) /\ Len(q) = n + 1
      /\ \A i \in 1..n : q[i] = p[i]
      /\ q[n + 1] = r[1]
  BY <1>1, OneReplyMore
<1>3. /\ g \in Seq(Heard) /\ n \in Nat /\ Len(g) = n + 1
      /\ \A i \in 1..n : g[i] = h[i]
      /\ g[n + 1] = x
      /\ \A i \in 0..n : Shown(pw, h, i) => Shown(pw, g, i) /\ Shown(pw, g, i + 1)
      /\ x = <<<<"AUTH">>, pw>> => Shown(pw, g, n + 1)
  BY <1>1, AppendHeard
<1> HIDE DEF p, q, n, g
<1>4. \A i \in 1..n+1 : i \in 1..n \/ i = n + 1
  BY <1>3
<1>5. \A i \in 1..Len(q) : q[i] \in {"-"} \cup Kinds(Command(g[i]))
  <2> SUFFICES ASSUME NEW i \in 1..n+1 PROVE q[i] \in {"-"} \cup Kinds(Command(g[i]))
    BY <1>2
  <2>1. CASE i \in 1..n
    BY <2>1, <1>1, <1>2, <1>3
  <2>2. CASE i = n + 1
    BY <2>2, <1>2, <1>3
  <2> QED BY <2>1, <2>2, <1>4
<1>6. ASSUME pw # <<>>, NEW i \in 1..Len(q), q[i] # "-", Command(g[i]) \notin {"AUTH", "QUIT"}
      PROVE  Shown(pw, g, i - 1)
  <2>1. CASE i \in 1..n
    <3>1. i - 1 \in 0..n /\ p[i] # "-" /\ Command(h[i]) \notin {"AUTH", "QUIT"}
      BY <2>1, <1>2, <1>3, <1>6
    <3>2. Shown(pw, h, i - 1)
      BY <2>1, <3>1, <1>1, <1>6
    <3> QED BY <3>1, <3>2, <1>3
  <2>2. CASE i = n + 1
    BY <2>2, <1>2, <1>3, <1>6
  <2> QED BY <2>1, <2>2, <1>2, <1>4
<1>7. ASSUME pw # <<>>, b PROVE Shown(pw, g, n + 1)
  <2>1. CASE a
    <3>1. n \in 0..n /\ Shown(pw, h, n)
      BY <2>1, <1>1, <1>3, <1>7
    <3> QED BY <3>1, <1>3
  <2>2. CASE ~a
    BY <2>2, <1>3, <1>7
  <2> QED BY <2>1, <2>2
<1>8. Len(q) = Len(g) - 0
  BY <1>2, <1>3
<1> QED BY <1>2, <1>3, <1>5, <1>6, <1>7, <1>8 DEF Told, q, g

\* A command that is taken on.
LEMMA ToldRun ==
  ASSUME NEW pw, NEW h, NEW o, NEW a, Told(pw, h, None, o, a), a,
         NEW x \in Heard, NEW j \in Jobs, j.cmd = Command(x), j.args = Tail(x), j.at = 1
  PROVE  Told(pw, Append(h, x), j, o, a)
<1> DEFINE p == Replies(o)
           n == Len(h)
           g == Append(h, x)
<1>1. /\ h \in Seq(Heard) /\ a \in BOOLEAN /\ Framed(o)
      /\ Len(p) = n
      /\ \A i \in 1..n : p[i] \in {"-"} \cup Kinds(Command(h[i]))
      /\ pw # <<>> =>
           /\ Shown(pw, h, n)
           /\ \A i \in 1..n :
                p[i] # "-" /\ Command(h[i]) \notin {"AUTH", "QUIT"} => Shown(pw, h, i - 1)
  <2>1. n \in Nat /\ n - 0 = n
    BY LenProperties DEF Told
  <2> QED BY <2>1 DEF Told
<1>2. /\ g \in Seq(Heard) /\ n \in Nat /\ Len(g) = n + 1
      /\ \A i \in 1..n : g[i] = h[i]
      /\ g[n + 1] = x
      /\ \A i \in 0..n : Shown(pw, h, i) => Shown(pw, g, i) /\ Shown(pw, g, i + 1)
  BY <1>1, AppendHeard
<1>3. j # None
  BY NoneIs
<1> HIDE DEF p, n, g
<1>4. OnHand(g, j)
  <2>1. Len(g) # 0 /\ g[Len(g)] = x
    BY <1>2
  <2>2. j.at % 2 = 1
    OBVIOUS
  <2> QED BY <2>1, <2>2 DEF OnHand
<1>5. \A i \in 1..Len(p) : p[i] \in {"-"} \cup Kinds(Command(g[i]))
  BY <1>1, <1>2
<1>6. ASSUME pw # <<>>, NEW i \in 1..Len(p), p[i] # "-", Command(g[i]) \notin {"AUTH", "QUIT"}
      PROVE  Shown(pw, g, i - 1)
  <2>1. i - 1 \in 0..n /\ Command(h[i]) \notin {"AUTH", "QUIT"}
    BY <1>1, <1>2, <1>6
  <2>2. Shown(pw, h, i - 1)
    BY <2>1, <1>1, <1>6
  <2> QED BY <2>1, <2>2, <1>2
<1>7. pw # <<>> => Shown(pw, g, Len(g)) /\ Shown(pw, g, Len(g) - 1)
  <2>1. n \in 0..n /\ Len(g) = n + 1 /\ Len(g) - 1 = n
    BY <1>2
  <2> QED BY <2>1, <1>1, <1>2
<1>8. Len(p) = Len(g) - 1
  BY <1>1, <1>2
<1> QED BY <1>1, <1>2, <1>3, <1>4, <1>5, <1>6, <1>7, <1>8 DEF Told, p, g

\* A command gets on.
LEMMA ToldGo ==
  ASSUME NEW pw, NEW h, NEW j, NEW o, NEW a, Told(pw, h, j, o, a), j # None,
         NEW k \in Jobs, k.cmd = j.cmd, k.args = j.args, k.cmd = "MSET" => k.at % 2 = 1
  PROVE  Told(pw, h, k, o, a)
<1>1. k # None
  BY NoneIs
<1>2. OnHand(h, k)
  BY DEF Told, OnHand
<1> QED BY <1>1, <1>2 DEF Told

-------------------------------------------------------------------------------
(* The replies the handlers give *)

\* r is a whole reply, of kind k.
Is(r, k) == Whole(r) /\ r[1] = k

LEMMA RepliesAre ==
  /\ Is(RespErrorMsg("no password is set"), "-")
  /\ Is(RespErrorMsg("wrong number of arguments"), "-")
  /\ Is(RespErrorMsg("WRONGPASS"), "-")
  /\ Is(RespErrorMsg("NOAUTH"), "-")
  /\ Is(RespErrorMsg("syntax error"), "-")
  /\ Is(RespErrorMsg("invalid expire time"), "-")
  /\ Is(RespErrorMsg("no such key"), "-")
  /\ Is(RespErrorMsg("unknown command"), "-")
  /\ Is(NotInteger, "-") /\ Is(RespOK, "+") /\ Is(RespNilBulk, "$")
  /\ Is(RespSimple("PONG"), "+") /\ Is(RespSimple("string"), "+") /\ Is(RespSimple("none"), "+")
  /\ \A s \in Str : Is(RespBulk(s), "$")
  /\ \A n \in Int : Is(RespInt(n), ":")
  /\ \A items \in Seq(Str \cup {None}) : Is(RespArray(items, None), "*")
<1>1. \A m \in Symbols : m # "LF" => Is(RespErrorMsg(m), "-") /\ Is(RespSimple(m), "+")
  <2> TAKE m \in Symbols
  <2>1. m \in Byte
    BY SymbolsAreBytes
  <2> QED BY <2>1, ErrorWhole, SimpleWhole DEF Is
<1>e. \A m \in {"no password is set", "wrong number of arguments", "WRONGPASS", "NOAUTH", "syntax error",
               "invalid expire time", "no such key", "unknown command",
               "value is not an integer or out of range"} : Is(RespErrorMsg(m), "-")
  BY <1>1, Zenon DEF Symbols
<1>s. \A m \in {"OK", "PONG", "string", "none"} : Is(RespSimple(m), "+")
  BY <1>1, Zenon DEF Symbols
<1>2. Is(RespNilBulk, "$") /\ \A s \in Str : Is(RespBulk(s), "$")
  BY NilBulkWhole, BulkWhole, WholeBulkIs DEF Is
<1>3. \A n \in Int : Is(RespInt(n), ":")
  BY IntWhole DEF Is
<1>4. \A items \in Seq(Str \cup {None}) : Is(RespArray(items, None), "*")
  BY ArrayWhole DEF Is
<1> QED BY <1>2, <1>3, <1>4, <1>e, <1>s, Zenon DEF NotInteger, RespOK

LEMMA KindsAre ==
  ASSUME NEW cmd
  PROVE  /\ cmd \in {"GET", "ECHO", "INFO", "SET", "PING"} => "$" \in Kinds(cmd)
         /\ cmd \in {"MGET", "KEYS", "CONFIG"} => "*" \in Kinds(cmd)
         /\ cmd \in {"SET", "PING", "CONFIG", "AUTH", "QUIT", "SETEX", "MSET", "TYPE", "RENAME",
                     "FLUSHDB", "FLUSHALL", "SELECT", "COMMAND", "CLIENT"} => "+" \in Kinds(cmd)
         /\ cmd \in {"DEL", "EXISTS", "SETNX", "INCR", "DECR", "INCRBY", "DECRBY", "APPEND",
                     "STRLEN", "EXPIRE", "PEXPIRE", "PERSIST", "TTL", "PTTL", "DBSIZE"}
              => ":" \in Kinds(cmd)
BY DEF Kinds

\* The command of c is answered, or gets on.
Replied(c) == \E r, d : /\ Whole(r) /\ r[1] \in {"-"} \cup Kinds(job[c].cmd)
                        /\ Stored(d) /\ Reply(c, r, d)

GotOn(c) == \E k, d : /\ k \in Jobs /\ k.cmd = job[c].cmd /\ k.args = job[c].args
                      /\ k.cmd = "MSET" => k.at % 2 = 1
                      /\ Holding(k) => ~Holding(job[c]) /\ k.args[1] \in DOMAIN d.items
                      /\ Stored(d) /\ Go(c, k, d)

LEMMA Answers1 ==
  ASSUME NEW c, NEW r, NEW d, Reply(c, r, d), NEW k, Is(r, k),
         k = "-" \/ k \in Kinds(job[c].cmd), Stored(d)
  PROVE  Replied(c)
BY DEF Replied, Is

LEMMA JobIs ==
  ASSUME Inv, NEW c \in Conns, job[c] # None
  PROVE  /\ job[c] \in Jobs /\ Stored(db) /\ now \in Int
         /\ job[c].at \in Nat \ {0} /\ job[c].seen \in BOOLEAN /\ job[c].acc \in Seq(Str \cup {None})
         /\ job[c].val \in Str /\ job[c].exp \in Int
         /\ Args(c) = job[c].args /\ Args(c) \in Seq(Str) /\ Len(Args(c)) \in Nat
         /\ \A i \in 1..Len(Args(c)) : Arg(c, i) \in Str
         /\ job[c].cmd = "MSET" => job[c].at % 2 = 1
<1>1. OnHand(heard[c], job[c])
  BY DEF Inv, Told
<1>2. /\ job[c] \in Jobs /\ job[c].args \in Seq(Str) /\ job[c].acc \in Seq(Str \cup {None})
      /\ job[c].val \in Str
  BY <1>1 DEF OnHand, Jobs, Str, Byte
<1>3. \A i \in 1..Len(Args(c)) : Arg(c, i) \in Str
  BY <1>2, ElementOfSeq DEF Args, Arg
<1> QED BY <1>1, <1>2, <1>3, LenProperties DEF Inv, Typed, Args, OnHand, Jobs

\* Another place, another finding, another item to write: the command is the same.
SameJob(k, j) == k \in Jobs /\ k.cmd = j.cmd /\ k.args = j.args

LEMMA JobSet ==
  ASSUME NEW j \in Jobs
  PROVE  /\ \A n \in Nat \ {0} : SameJob([j EXCEPT !.at = n], j) /\ [j EXCEPT !.at = n].at = n
         /\ \A b \in BOOLEAN : SameJob([j EXCEPT !.seen = b], j) /\ [j EXCEPT !.seen = b].at = j.at
         /\ \A e \in Int : SameJob([j EXCEPT !.exp = e], j) /\ [j EXCEPT !.exp = e].at = j.at
         /\ \A v \in Str : SameJob([j EXCEPT !.val = v], j) /\ [j EXCEPT !.val = v].at = j.at
BY DEF Jobs, SameJob, Str, Byte

LEMMA NextPlace ==
  ASSUME NEW j \in Jobs
  PROVE  SameJob([j EXCEPT !.at = 2], j) /\ [j EXCEPT !.at = 2].at = 2
<1>1. 2 \in Nat \ {0}
  OBVIOUS
<1> DEFINE n == 2
<1> HIDE DEF n
<1>2. SameJob([j EXCEPT !.at = n], j) /\ [j EXCEPT !.at = n].at = n
  <2>1. n \in Nat \ {0}
    BY <1>1 DEF n
  <2> QED BY <2>1, JobSet
<1> QED BY <1>2 DEF n

\* A command other than RENAME and MSET gets on.
LEMMA GoesOn ==
  ASSUME NEW c, NEW k, NEW d, SameJob(k, job[c]), job[c].cmd # "MSET", Go(c, k, d), Stored(d),
         job[c].cmd = "RENAME" => k.at # 2
  PROVE  GotOn(c)
BY DEF GotOn, SameJob, Holding

LEMMA FitsIs ==
  ASSUME NEW c, Fits(c), Len(Args(c)) \in Nat
  PROVE  /\ job[c].cmd = "SET" => Len(Args(c)) >= 2
         /\ job[c].cmd \in {"DEL", "EXISTS", "MGET"} => Len(Args(c)) >= 1
         /\ job[c].cmd = "MSET" => Len(Args(c)) % 2 = 0
         /\ job[c].cmd \in {"GET", "INCR", "DECR", "STRLEN", "PERSIST", "TYPE", "KEYS", "ECHO"} =>
              Len(Args(c)) = 1
         /\ job[c].cmd \in {"SETNX", "INCRBY", "DECRBY", "APPEND", "EXPIRE", "PEXPIRE", "RENAME"} =>
              Len(Args(c)) = 2
         /\ job[c].cmd = "SETEX" => Len(Args(c)) = 3
<1> DEFINE cmd == job[c].cmd
<1>1. Len(Args(c)) \in Arity(cmd)
  BY DEF Fits
<1> HIDE DEF cmd
<1>2. CASE cmd = "SET"
  <2>1. Arity(cmd) = Nat \ {0, 1}
    BY <1>2 DEF Arity
  <2> DEFINE n == Len(Args(c))
  <2>2. n \in Nat \ {0, 1}
    BY <1>1, <2>1
  <2> HIDE DEF n
  <2>3. n >= 2
    BY <2>2
  <2> QED BY <1>2, <2>3 DEF cmd, n
<1>3. CASE cmd \in {"DEL", "EXISTS", "MGET"}
  BY <1>1, <1>3 DEF Arity, cmd
<1>4. CASE cmd = "MSET"
  BY <1>1, <1>4 DEF Arity, cmd
<1>5. CASE cmd \in {"GET", "INCR", "DECR", "STRLEN", "PERSIST", "TYPE", "KEYS", "ECHO"}
  BY <1>1, <1>5 DEF Arity, cmd
<1>6. CASE cmd \in {"SETNX", "INCRBY", "DECRBY", "APPEND", "EXPIRE", "PEXPIRE", "RENAME"}
  BY <1>1, <1>6 DEF Arity, cmd
<1>7. CASE cmd = "SETEX"
  BY <1>1, <1>7 DEF Arity, cmd
<1> QED BY <1>2, <1>3, <1>4, <1>5, <1>6, <1>7 DEF cmd

-------------------------------------------------------------------------------
(* The options of SET *)

Opts == [nx : BOOLEAN, xx : BOOLEAN, ttl : Int, unit : Int,
         err : {r \in Str : r = <<>> \/ Is(r, "-")}]

LEMMA OptionTyped == ASSUME NEW o \in Opts, NEW w PROVE Option(o, w) \in Opts
<1> DEFINE E == {r \in Str : r = <<>> \/ Is(r, "-")}
<1>1. NotInteger \in E /\ RespErrorMsg("syntax error") \in E
  BY RepliesAre DEF Is, Whole
<1>2. o \in [nx : BOOLEAN, xx : BOOLEAN, ttl : Int, unit : Int, err : E]
  BY DEF Opts
<1>3. \A opt : Unit(opt) \in Int
  BY SizesAre DEF Unit
<1>4. Opts = [nx : BOOLEAN, xx : BOOLEAN, ttl : Int, unit : Int, err : E]
  BY DEF Opts
<1> HIDE DEF E
<1>5. CASE o.err # <<>>
  BY <1>5 DEF Option
<1>6. CASE o.err = <<>> /\ o.unit # 0
  <2>1. CASE IsInt(w)
    <3> DEFINE t == Wrap(Atoi(w) * o.unit)
    <3>1. t \in Int
      <4> DEFINE x == Atoi(w)
                 y == o.unit
      <4>1. x \in Int /\ y \in Int
        BY <2>1, <1>2, IntTyped
      <4> HIDE DEF x, y
      <4>2. x * y \in Int
        BY <4>1
      <4>3. Wrap(x * y) \in Int
        BY <4>2, WrapTyped
      <4> QED BY <4>3 DEF x, y
    <3>2. Option(o, w) = [o EXCEPT !.ttl = t, !.unit = 0]
      BY <1>6, <2>1 DEF Option
    <3> HIDE DEF t
    <3> DEFINE u == [o EXCEPT !.ttl = t]
    <3>3. [o EXCEPT !.ttl = t, !.unit = 0] = [u EXCEPT !.unit = 0]
      OBVIOUS
    <3>4. u \in Opts
      BY <3>1, <1>2, <1>4
    <3> HIDE DEF u
    <3>5. [u EXCEPT !.unit = 0] \in Opts
      BY <3>4, <1>4
    <3> QED BY <3>2, <3>3, <3>5
  <2>2. CASE ~IsInt(w)
    <3>1. Option(o, w) = [o EXCEPT !.err = NotInteger]
      BY <1>6, <2>2 DEF Option
    <3> QED BY <3>1, <1>1, <1>2, <1>4
  <2> QED BY <2>1, <2>2
<1>7. CASE o.err = <<>> /\ ~(o.unit # 0)
  <2>1. \/ Option(o, w) = [o EXCEPT !.nx = TRUE]
        \/ Option(o, w) = [o EXCEPT !.xx = TRUE]
        \/ Option(o, w) = [o EXCEPT !.unit = Unit(w[1])]
        \/ Option(o, w) = [o EXCEPT !.err = RespErrorMsg("syntax error")]
    <3>1. Option(o, w) = CASE w = <<"NX">> -> [o EXCEPT !.nx = TRUE]
                           [] w = <<"XX">> -> [o EXCEPT !.xx = TRUE]
                           [] w \in {<<"EX">>, <<"PX">>} -> [o EXCEPT !.unit = Unit(w[1])]
                           [] OTHER -> [o EXCEPT !.err = RespErrorMsg("syntax error")]
      BY <1>7 DEF Option
    <3>2. CASE w = <<"NX">>
      BY <3>1, <3>2
    <3>3. CASE w = <<"XX">>
      BY <3>1, <3>3
    <3>4. CASE w \in {<<"EX">>, <<"PX">>}
      BY <3>1, <3>4
    <3>5. CASE w # <<"NX">> /\ w # <<"XX">> /\ w \notin {<<"EX">>, <<"PX">>}
      BY <3>1, <3>5
    <3> QED BY <3>2, <3>3, <3>4, <3>5
  <2> QED BY <2>1, <1>1, <1>2, <1>3, <1>4
<1> QED BY <1>5, <1>6, <1>7

\* The function of OptionsRead.
Optioning(words, g) ==
  [i \in 0..Len(words) |->
     IF i = 0 THEN [nx |-> FALSE, xx |-> FALSE, ttl |-> 0, unit |-> 0, err |-> <<>>]
     ELSE Option(g[i-1], words[i])]

\* The options that words make.
LEMMA OptionsReadTyped ==
  ASSUME NEW words \in Seq(Str)
  PROVE  OptionsRead(words) \in Opts
<1> DEFINE n == Len(words)
           x == [nx |-> FALSE, xx |-> FALSE, ttl |-> 0, unit |-> 0, err |-> <<>>]
           f == [p \in (1..n) \X Opts |-> Option(p[2], words[p[1]])]
           c == CHOOSE g : g = Optioning(words, g)
<1>1. n \in Nat /\ x \in Opts
  <2>1. <<>> \in Str
    BY EmptySeq DEF Str
  <2> QED BY <2>1, LenProperties DEF Opts
<1>2. OptionsRead(words) = c[n]
  BY DEF OptionsRead, Optioning, n, c
<1>3. f \in [(1..n) \X Opts -> Opts]
  BY OptionTyped
<1>4. \A i \in 1..n, r \in Opts : f[<<i, r>>] = Option(r, words[i])
  OBVIOUS
<1>5. \A g : Optioning(words, g) = [i \in 0..n |-> IF i = 0 THEN x ELSE Option(g[i-1], words[i])]
  BY DEF Optioning, n, x
<1> HIDE DEF f, x, n
<1>6. \E g : g = Optioning(words, g)
  <2>1. PICK g : Chain(g, n, Opts, x, f)
    BY <1>1, <1>3, ChainExists
  <2>2. ASSUME NEW i \in 0..n PROVE g[i] = IF i = 0 THEN x ELSE Option(g[i-1], words[i])
    <3>1. CASE i = 0
      BY <3>1, <2>1 DEF Chain
    <3>2. CASE i # 0
      <4>1. i \in 1..n /\ i - 1 \in 0..n
        BY <1>1, <3>2
      <4>2. g[i-1] \in Opts /\ g[i] = f[<<i, g[i-1]>>]
        BY <4>1, <2>1 DEF Chain
      <4> QED BY <3>2, <4>1, <4>2, <1>4
    <3> QED BY <3>1, <3>2
  <2>3. g = [i \in 0..n |-> g[i]]
    BY <2>1 DEF Chain
  <2>4. g = Optioning(words, g)
    BY <2>2, <2>3, <1>5, Zenon
  <2> QED BY <2>4
<1>7. c = Optioning(words, c)
  BY <1>6, Zenon
<1> HIDE DEF c
<1>8. \A i \in 0..n : c[i] = IF i = 0 THEN x ELSE Option(c[i-1], words[i])
  BY <1>5, <1>7, Zenon
<1>9. c = [i \in 0..n |-> c[i]]
  BY <1>5, <1>7, <1>8, Zenon
<1>10. c[0] = x /\ \A i \in 1..n : c[i] = Option(c[i-1], words[i])
  <2>1. 0 \in 0..n /\ \A i \in 1..n : i \in 0..n /\ i # 0
    BY <1>1
  <2> QED BY <2>1, <1>8
<1>11. Chain(c, n, Opts, x, f)
  <2>1. \A i \in 1..n : c[i-1] \in Opts => c[i] = f[<<i, c[i-1]>>]
    BY <1>4, <1>10
  <2> QED BY <2>1, <1>1, <1>3, <1>9, <1>10, ChainIs
<1>12. c[n] \in Opts
  <2>1. n \in 0..n
    BY <1>1
  <2> QED BY <2>1, <1>11 DEF Chain
<1> QED BY <1>2, <1>12

LEMMA OptionsTyped ==
  ASSUME NEW words \in Seq(Str)
  PROVE  Options(words) \in Opts
<1> DEFINE o == OptionsRead(words)
           e == RespErrorMsg("syntax error")
<1>1. o \in Opts
  BY OptionsReadTyped
<1>2. e \in {r \in Str : r = <<>> \/ Is(r, "-")}
  BY RepliesAre DEF Is, Whole
<1>3. Options(words) = IF o.err = <<>> /\ o.unit # 0 THEN [o EXCEPT !.err = e] ELSE o
  BY DEF Options
<1> HIDE DEF o, e
<1>4. [o EXCEPT !.err = e] \in Opts
  <2> DEFINE E == {r \in Str : r = <<>> \/ Is(r, "-")}
  <2>1. Opts = [nx : BOOLEAN, xx : BOOLEAN, ttl : Int, unit : Int, err : E] /\ e \in E
    BY <1>2 DEF Opts
  <2> HIDE DEF E
  <2> QED BY <1>1, <2>1
<1> QED BY <1>1, <1>3, <1>4

-------------------------------------------------------------------------------
(* Each handler answers its command, or gets on with it. *)

LEMMA WrongNumberStep ==
  ASSUME Inv, NEW c \in Conns, WrongNumber(c)
  PROVE  Replied(c)
<1>1. job[c] # None /\ Reply(c, RespErrorMsg("wrong number of arguments"), db)
  BY DEF WrongNumber
<1>2. Stored(db)
  BY <1>1, JobIs
<1> QED BY <1>1, <1>2, RepliesAre, Answers1

\* A word that is there.
LEMMA ValueIs ==
  ASSUME Stored(db), NEW k, Alive(k)
  PROVE  db.items[k].val \in Str /\ db.items[k].exp \in Int /\ db.items[k] \in Items /\ k \in Str
BY AtMap DEF Stored, Alive, There

LEMMA SETStep ==
  ASSUME Inv, NEW c \in Conns, cmdSET(c)
  PROVE  Replied(c) \/ GotOn(c)
<1> DEFINE o == Options(SubSeq(Args(c), 3, Len(Args(c))))
           k == Arg(c, 1)
           v == Arg(c, 2)
           e == Deadline(o.ttl)
           j == [job[c] EXCEPT !.seen = TRUE]
           w == [job[c] EXCEPT !.at = 2, !.exp = e]
           x == IF o.nx THEN job[c].exp ELSE e
<1>1. job[c] # None /\ job[c].cmd = "SET" /\ Fits(c)
  BY DEF cmdSET, Doing
<1>2. /\ job[c] \in Jobs /\ Stored(db) /\ now \in Int /\ job[c].exp \in Int
      /\ Args(c) \in Seq(Str) /\ Len(Args(c)) \in Nat
      /\ \A i \in 1..Len(Args(c)) : Arg(c, i) \in Str
  BY <1>1, JobIs
<1>3. Len(Args(c)) >= 2
  BY <1>1, <1>2, FitsIs
<1>4. k \in Str /\ v \in Str
  BY <1>2, <1>3
<1>5. o \in Opts
  <2>1. SubSeq(Args(c), 3, Len(Args(c))) \in Seq(Str)
    <3> DEFINE n == Len(Args(c))
    <3>1. \A i \in 3..n : Args(c)[i] \in Str
      BY <1>2, ElementOfSeq
    <3>2. n \in Int /\ 3 \in Int
      BY <1>2
    <3> HIDE DEF n
    <3>3. SubSeq(Args(c), 3, n) \in Seq(Str)
      BY <3>1, <3>2, SubSeqProperties
    <3> QED BY <3>3 DEF n
  <2> QED BY <2>1, OptionsTyped
<1>6. e \in Int
  <2>1. o.ttl \in Int
    BY <1>5 DEF Opts
  <2> HIDE DEF o
  <2> QED BY <1>2, <2>1, WrapTyped DEF Deadline
<1>7. \/ o.err # <<>> /\ Reply(c, o.err, db)
      \/ Go(c, j, db)
      \/ Reply(c, RespNilBulk, db)
      \/ Go(c, w, db)
      \/ Reply(c, RespOK, With(k, v, x))
  BY DEF cmdSET
<1>8. "$" \in Kinds(job[c].cmd) /\ "+" \in Kinds(job[c].cmd)
  BY <1>1, KindsAre
<1>13. x \in Int
  <2> HIDE DEF e, o
  <2> QED BY <1>2, <1>6
<1> HIDE DEF k, v, e, x
<1>9. CASE o.err # <<>> /\ Reply(c, o.err, db)
  <2>1. Is(o.err, "-")
    BY <1>5, <1>9 DEF Opts
  <2> HIDE DEF o
  <2> QED BY <1>2, <1>9, <2>1, Answers1
<1>10. CASE Go(c, j, db)
  <2>1. SameJob(j, job[c])
    BY <1>2, JobSet
  <2> HIDE DEF j
  <2> QED BY <1>1, <1>2, <1>10, <2>1, GoesOn
<1>11. CASE Reply(c, RespNilBulk, db)
  BY <1>2, <1>8, <1>11, RepliesAre, Answers1
<1>12. CASE Reply(c, RespOK, With(k, v, x))
  <2>1. Stored(With(k, v, x))
    BY <1>2, <1>4, <1>13, CallsStore
  <2> QED BY <2>1, <1>8, <1>12, RepliesAre, Answers1
<1>14. CASE Go(c, w, db)
  <2> DEFINE u == [job[c] EXCEPT !.at = 2]
             y == [u EXCEPT !.exp = e]
  <2>1. w = y
    OBVIOUS
  <2>2. SameJob(u, job[c])
    BY <1>2, NextPlace
  <2> HIDE DEF u, w
  <2>3. SameJob(y, u)
    BY <1>6, <2>2, JobSet DEF SameJob
  <2> HIDE DEF y
  <2>4. SameJob(w, job[c])
    BY <2>1, <2>2, <2>3 DEF SameJob
  <2> QED BY <1>1, <1>2, <1>14, <2>4, GoesOn
<1> QED BY <1>7, <1>9, <1>10, <1>11, <1>12, <1>14

LEMMA FirstArgs ==
  ASSUME Inv, NEW c \in Conns, job[c] # None, Fits(c)
  PROVE  /\ job[c].cmd \in {"GET", "INCR", "DECR", "STRLEN", "PERSIST", "TYPE", "KEYS", "ECHO",
                            "SETNX", "INCRBY", "DECRBY", "APPEND", "EXPIRE", "PEXPIRE", "RENAME",
                            "SETEX"} => Arg(c, 1) \in Str
         /\ job[c].cmd \in {"SETNX", "INCRBY", "DECRBY", "APPEND", "EXPIRE", "PEXPIRE", "RENAME",
                            "SETEX"} => Arg(c, 2) \in Str
         /\ job[c].cmd = "SETEX" => Arg(c, 3) \in Str
<1> DEFINE n == Len(Args(c))
<1>1. n \in Nat /\ \A i \in 1..n : Arg(c, i) \in Str
  BY JobIs
<1>2. /\ n >= 1 => Arg(c, 1) \in Str
      /\ n >= 2 => Arg(c, 1) \in Str /\ Arg(c, 2) \in Str
      /\ n >= 3 => Arg(c, 1) \in Str /\ Arg(c, 2) \in Str /\ Arg(c, 3) \in Str
  <2> HIDE DEF n
  <2> QED BY <1>1
<1>3. CASE job[c].cmd \in {"GET", "INCR", "DECR", "STRLEN", "PERSIST", "TYPE", "KEYS", "ECHO"}
  <2>1. n = 1
    BY <1>1, <1>3, FitsIs
  <2> QED BY <1>2, <1>3, <2>1
<1>4. CASE job[c].cmd \in {"SETNX", "INCRBY", "DECRBY", "APPEND", "EXPIRE", "PEXPIRE", "RENAME"}
  <2>1. n = 2
    BY <1>1, <1>4, FitsIs
  <2> QED BY <1>2, <1>4, <2>1
<1>5. CASE job[c].cmd = "SETEX"
  <2>1. n = 3
    BY <1>1, <1>5, FitsIs
  <2> QED BY <1>2, <1>5, <2>1
<1> QED BY <1>3, <1>4, <1>5

LEMMA GETStep ==
  ASSUME Inv, NEW c \in Conns, cmdGET(c)
  PROVE  Replied(c)
<1> DEFINE k == Arg(c, 1)
           r == IF Alive(k) THEN RespBulk(db.items[k].val) ELSE RespNilBulk
<1>1. job[c] # None /\ job[c].cmd = "GET" /\ Fits(c)
  BY DEF cmdGET, Doing
<1>2. Stored(db)
  BY <1>1, JobIs
<1>3. k \in Str
  BY <1>1, FirstArgs
<1>4. Reply(c, r, Looked(k))
  BY DEF cmdGET
<1> HIDE DEF k
<1>5. Is(r, "$")
  BY <1>2, ValueIs, RepliesAre
<1>6. Stored(Looked(k))
  BY <1>2, <1>3, CallsStore
<1>7. "$" \in Kinds(job[c].cmd)
  BY <1>1, KindsAre
<1> HIDE DEF r
<1> QED BY <1>4, <1>5, <1>6, <1>7, Answers1

\* The next argument's turn.
LEMMA OnwardIs ==
  ASSUME NEW j \in Jobs, j.cmd # "MSET", NEW f \in Seq(Str \cup {None})
  PROVE  LET k == Onward(j, f) IN
         k \in Jobs /\ k.cmd = j.cmd /\ k.args = j.args
<1> DEFINE a == j.acc \o f
           n == j.at + 1
<1>1. j.acc \in Seq(Str \cup {None}) /\ j.at \in Nat \ {0}
  BY DEF Jobs, Str, Byte
<1>2. a \in Seq(Str \cup {None})
  BY <1>1, ConcatProperties
<1>3. n \in Nat \ {0}
  BY <1>1
<1>4. Onward(j, f) = [j EXCEPT !.at = n, !.seen = FALSE, !.acc = a]
  BY DEF Onward
<1>5. a \in Seq(Seq(STRING) \cup {None})
  BY <1>2 DEF Str, Byte
<1> HIDE DEF a, n
<1> DEFINE u == [j EXCEPT !.at = n]
           v == [u EXCEPT !.seen = FALSE]
           w == [v EXCEPT !.acc = a]
<1>6. Onward(j, f) = w
  BY <1>4
<1>7. u \in Jobs /\ u.cmd = j.cmd /\ u.args = j.args
  BY <1>3 DEF Jobs
<1> HIDE DEF u
<1>8. v \in Jobs /\ v.cmd = j.cmd /\ v.args = j.args
  BY <1>7 DEF Jobs
<1> HIDE DEF v
<1>9. w \in Jobs /\ w.cmd = j.cmd /\ w.args = j.args
  BY <1>5, <1>8 DEF Jobs
<1> HIDE DEF w
<1> QED BY <1>6, <1>9

LEMMA OnwardGoes ==
  ASSUME NEW c, job[c] \in Jobs, job[c].cmd \notin {"MSET", "RENAME"},
         NEW f \in Seq(Str \cup {None}),
         NEW d, Stored(d), Go(c, Onward(job[c], f), d)
  PROVE  GotOn(c)
<1> DEFINE k == Onward(job[c], f)
<1>1. k \in Jobs /\ k.cmd = job[c].cmd /\ k.args = job[c].args
  BY OnwardIs
<1>2. Go(c, k, d)
  OBVIOUS
<1> HIDE DEF k
<1> QED BY <1>1, <1>2, GoesOn DEF SameJob

LEMMA OneItem ==
  /\ \A v \in Str \cup {None} : <<v>> \in Seq(Str \cup {None})
  /\ <<>> \in Seq(Str \cup {None})
OBVIOUS

\* The arguments DEL, EXISTS and MGET go through.
LEMMA KeyIs ==
  ASSUME Inv, NEW c \in Conns, job[c] # None, ~Through(c)
  PROVE  Key(c) \in Str
BY JobIs DEF Through, Key

LEMMA LengthTyped == ASSUME NEW S, NEW a \in Seq(S) PROVE Len(a) \in Int
BY LenProperties

LEMMA DELStep ==
  ASSUME Inv, NEW c \in Conns, cmdDEL(c)
  PROVE  Replied(c) \/ GotOn(c)
<1> DEFINE n == Len(job[c].acc)
           j == [job[c] EXCEPT !.seen = TRUE]
           k == Key(c)
<1>1. job[c] # None /\ job[c].cmd = "DEL"
  BY DEF cmdDEL, Doing
<1>2. job[c] \in Jobs /\ Stored(db) /\ n \in Int
  BY <1>1, JobIs, LengthTyped
<1>3. \/ Reply(c, RespInt(n), db)
      \/ Go(c, j, db)
      \/ Go(c, Onward(job[c], <<>>), db)
      \/ ~Through(c) /\ Go(c, Onward(job[c], <<k>>), Without(k))
  BY DEF cmdDEL
<1> HIDE DEF n, k
<1>4. CASE Reply(c, RespInt(n), db)
  <2>1. ":" \in Kinds(job[c].cmd)
    BY <1>1, KindsAre
  <2> QED BY <2>1, <1>2, <1>4, RepliesAre, Answers1
<1>5. CASE Go(c, j, db)
  <2>1. SameJob(j, job[c])
    BY <1>2, JobSet
  <2> HIDE DEF j
  <2> QED BY <1>1, <1>2, <1>5, <2>1, GoesOn
<1>6. CASE Go(c, Onward(job[c], <<>>), db)
  BY <1>1, <1>2, <1>6, OneItem, OnwardGoes
<1>7. CASE ~Through(c) /\ Go(c, Onward(job[c], <<k>>), Without(k))
  <2>1. k \in Str
    BY <1>1, <1>7, KeyIs DEF k
  <2>2. <<k>> \in Seq(Str \cup {None}) /\ Stored(Without(k))
    BY <2>1, <1>2, OneItem, CallsStore
  <2> QED BY <2>2, <1>1, <1>2, <1>7, OnwardGoes
<1> QED BY <1>3, <1>4, <1>5, <1>6, <1>7

LEMMA EXISTSStep ==
  ASSUME Inv, NEW c \in Conns, cmdEXISTS(c)
  PROVE  Replied(c) \/ GotOn(c)
<1> DEFINE n == Len(job[c].acc)
           f == IF Alive(Key(c)) THEN <<Key(c)>> ELSE <<>>
<1>1. job[c] # None /\ job[c].cmd = "EXISTS"
  BY DEF cmdEXISTS, Doing
<1>2. job[c] \in Jobs /\ Stored(db) /\ n \in Int
  BY <1>1, JobIs, LengthTyped
<1>3. \/ Reply(c, RespInt(n), db)
      \/ ~Through(c) /\ Go(c, Onward(job[c], f), db)
  BY DEF cmdEXISTS
<1> HIDE DEF n
<1>4. CASE Reply(c, RespInt(n), db)
  <2>1. ":" \in Kinds(job[c].cmd)
    BY <1>1, KindsAre
  <2> QED BY <2>1, <1>2, <1>4, RepliesAre, Answers1
<1>5. CASE ~Through(c) /\ Go(c, Onward(job[c], f), db)
  <2>1. f \in Seq(Str \cup {None})
    BY <1>1, <1>5, KeyIs, OneItem
  <2> HIDE DEF f
  <2> QED BY <2>1, <1>1, <1>2, <1>5, OnwardGoes
<1> QED BY <1>3, <1>4, <1>5

LEMMA MGETStep ==
  ASSUME Inv, NEW c \in Conns, cmdMGET(c)
  PROVE  Replied(c) \/ GotOn(c)
<1> DEFINE a == job[c].acc
           v == IF Alive(Key(c)) THEN db.items[Key(c)].val ELSE None
           d == Looked(Key(c))
<1>1. job[c] # None /\ job[c].cmd = "MGET"
  BY DEF cmdMGET, Doing
<1>2. job[c] \in Jobs /\ Stored(db) /\ a \in Seq(Str \cup {None})
  BY <1>1, JobIs
<1>3. \/ Reply(c, RespArray(a, None), db)
      \/ ~Through(c) /\ Go(c, Onward(job[c], <<v>>), d)
  BY DEF cmdMGET
<1>4. CASE Reply(c, RespArray(a, None), db)
  <2>1. "*" \in Kinds(job[c].cmd)
    BY <1>1, KindsAre
  <2> QED BY <2>1, <1>2, <1>4, RepliesAre, Answers1
<1>5. CASE ~Through(c) /\ Go(c, Onward(job[c], <<v>>), d)
  <2>1. v \in Str \cup {None}
    BY <1>2, ValueIs
  <2>2. Key(c) \in Str /\ Stored(d)
    BY <1>1, <1>2, <1>5, KeyIs, CallsStore
  <2> HIDE DEF v, d
  <2> QED BY <2>1, <2>2, <1>1, <1>2, <1>5, OneItem, OnwardGoes
<1> QED BY <1>3, <1>4, <1>5

LEMMA MSETStep ==
  ASSUME Inv, NEW c \in Conns, cmdMSET(c)
  PROVE  Replied(c) \/ GotOn(c)
<1> DEFINE n == job[c].at
           j == [job[c] EXCEPT !.at = @ + 2]
           d == With(Key(c), Arg(c, n + 1), 0)
<1>1. job[c] # None /\ job[c].cmd = "MSET" /\ Fits(c)
  BY DEF cmdMSET, Doing
<1>2. /\ job[c] \in Jobs /\ Stored(db) /\ Len(Args(c)) \in Nat
      /\ n \in Nat \ {0} /\ n % 2 = 1
      /\ \A i \in 1..Len(Args(c)) : Arg(c, i) \in Str
  BY <1>1, JobIs
<1>3. \/ Reply(c, RespOK, db)
      \/ ~Through(c) /\ Go(c, j, d)
  BY DEF cmdMSET
<1>4. CASE Reply(c, RespOK, db)
  <2>1. "+" \in Kinds(job[c].cmd)
    BY <1>1, KindsAre
  <2> QED BY <2>1, <1>2, <1>4, RepliesAre, Answers1
<1>5. CASE ~Through(c) /\ Go(c, j, d)
  <2>1. Len(Args(c)) % 2 = 0
    BY <1>1, <1>2, FitsIs
  <2>2. Key(c) = Arg(c, n) /\ n <= Len(Args(c))
    BY <1>2, <1>5 DEF Key, Through
  <2>3. n + 1 \in 1..Len(Args(c)) /\ n \in 1..Len(Args(c))
    <3> DEFINE m == Len(Args(c))
    <3>1. m \in Nat /\ m % 2 = 0 /\ n <= m /\ n \in Nat \ {0} /\ n % 2 = 1
      BY <1>2, <2>1, <2>2
    <3> HIDE DEF m, n
    <3>2. n # m
      BY <3>1
    <3>3. n + 1 \in 1..m /\ n \in 1..m
      BY <3>1, <3>2
    <3> QED BY <3>3 DEF m, n
  <2>4. Key(c) \in Str /\ Arg(c, n + 1) \in Str
    BY <1>2, <2>2, <2>3
  <2>5. Stored(d)
    BY <1>2, <2>4, CallsStore
  <2>6. j \in Jobs /\ j.cmd = job[c].cmd /\ j.args = job[c].args /\ j.at = n + 2
    <3> DEFINE m == n + 2
               o == job[c]
               u == [o EXCEPT !.at = m]
    <3>1. m \in Nat \ {0} /\ o \in Jobs
      BY <1>2
    <3>2. j = u
      OBVIOUS
    <3> HIDE DEF m, o
    <3>3. u \in Jobs /\ u.cmd = o.cmd /\ u.args = o.args /\ u.at = m
      BY <3>1 DEF Jobs
    <3> HIDE DEF u, j
    <3> QED BY <3>2, <3>3 DEF o, m
  <2>7. j.at % 2 = 1
    <3>1. n + 2 \in Nat /\ (n + 2) % 2 = 1
      BY <1>2
    <3> QED BY <3>1, <2>6
  <2>8. ~Holding(j)
    BY <1>1, <2>6 DEF Holding
  <2> HIDE DEF j, d
  <2> QED BY <1>5, <2>5, <2>6, <2>7, <2>8 DEF GotOn
<1> QED BY <1>3, <1>4, <1>5

LEMMA SETNXStep ==
  ASSUME Inv, NEW c \in Conns, cmdSETNX(c)
  PROVE  Replied(c) \/ GotOn(c)
<1> DEFINE k == Arg(c, 1)
           v == Arg(c, 2)
           j == [job[c] EXCEPT !.at = 2]
<1>1. job[c] # None /\ job[c].cmd = "SETNX" /\ Fits(c)
  BY DEF cmdSETNX, Doing
<1>2. job[c] \in Jobs /\ Stored(db) /\ k \in Str /\ v \in Str
  BY <1>1, JobIs, FirstArgs
<1>3. Reply(c, RespInt(0), db) \/ Go(c, j, db) \/ Reply(c, RespInt(1), With(k, v, 0))
  BY DEF cmdSETNX
<1>4. ":" \in Kinds(job[c].cmd)
  BY <1>1, KindsAre
<1> HIDE DEF k, v
<1>5. Stored(With(k, v, 0))
  BY <1>2, CallsStore
<1>6. Is(RespInt(0), ":") /\ Is(RespInt(1), ":")
  BY IntWhole DEF Is
<1>7. CASE Reply(c, RespInt(0), db)
  BY <1>2, <1>4, <1>6, <1>7, Answers1
<1>8. CASE Reply(c, RespInt(1), With(k, v, 0))
  BY <1>4, <1>5, <1>6, <1>8, Answers1
<1>9. CASE Go(c, j, db)
  <2>1. SameJob(j, job[c])
    BY <1>2, NextPlace
  <2> HIDE DEF j
  <2> QED BY <1>1, <1>2, <1>9, <2>1, GoesOn
<1> QED BY <1>3, <1>7, <1>8, <1>9

LEMMA DeadlineTyped ==
  ASSUME now \in Int, NEW t \in Int
  PROVE  Deadline(t) \in Int
BY WrapTyped DEF Deadline

\* A number of units of time.
LEMMA TimesTyped ==
  ASSUME NEW w, IsInt(w), NEW u \in Nat \ {0}
  PROVE  Wrap(Atoi(w) * u) \in Int
<1> DEFINE n == Atoi(w)
<1>1. n \in Int
  BY IntTyped
<1> HIDE DEF n
<1>2. n * u \in Int
  BY <1>1
<1>3. Wrap(n * u) \in Int
  BY <1>2, WrapTyped
<1> QED BY <1>3 DEF n

LEMMA SETEXStep ==
  ASSUME Inv, NEW c \in Conns, cmdSETEX(c)
  PROVE  Replied(c)
<1> DEFINE k == Arg(c, 1)
           w == Arg(c, 2)
           v == Arg(c, 3)
           t == Wrap(Atoi(w) * Second)
           e == Deadline(t)
<1>1. job[c] # None /\ job[c].cmd = "SETEX" /\ Fits(c)
  BY DEF cmdSETEX, Doing
<1>2. Stored(db) /\ now \in Int /\ k \in Str /\ v \in Str
  BY <1>1, JobIs, FirstArgs
<1>3. \/ IsInt(w) /\ Reply(c, RespOK, With(k, v, e))
      \/ Reply(c, RespErrorMsg("invalid expire time"), db)
  BY DEF cmdSETEX
<1> HIDE DEF k, v
<1>4. CASE IsInt(w) /\ Reply(c, RespOK, With(k, v, e))
  <2>1. t \in Int
    BY <1>4, SizesAre, TimesTyped
  <2> HIDE DEF t
  <2>2. e \in Int
    BY <1>2, <2>1, DeadlineTyped
  <2> HIDE DEF e
  <2>3. Stored(With(k, v, e)) /\ "+" \in Kinds(job[c].cmd)
    BY <1>1, <1>2, <2>2, CallsStore, KindsAre
  <2> QED BY <2>3, <1>4, RepliesAre, Answers1
<1>5. CASE Reply(c, RespErrorMsg("invalid expire time"), db)
  BY <1>2, <1>5, RepliesAre, Answers1
<1> QED BY <1>3, <1>4, <1>5

LEMMA IncrByStep ==
  ASSUME NEW c, Stored(db), Arg(c, 1) \in Str, NEW delta \in Int, IncrBy(c, delta),
         ":" \in Kinds(job[c].cmd)
  PROVE  Replied(c)
<1> DEFINE k == Arg(c, 1)
           w == db.items[k].val
           n == IF Alive(k) THEN Wrap(Atoi(w) + delta) ELSE delta
<1>1. \/ Reply(c, NotInteger, db)
      \/ (Alive(k) => IsInt(w)) /\ Reply(c, RespInt(n), Updated(k, Numeral(n)))
  BY DEF IncrBy
<1>2. CASE Reply(c, NotInteger, db)
  BY <1>2, RepliesAre, Answers1
<1>3. CASE (Alive(k) => IsInt(w)) /\ Reply(c, RespInt(n), Updated(k, Numeral(n)))
  <2>1. n \in Int
    <3>1. ASSUME Alive(k) PROVE Wrap(Atoi(w) + delta) \in Int
      <4> DEFINE a == Atoi(w)
      <4>1. a \in Int
        BY <1>3, <3>1, IntTyped
      <4> HIDE DEF a
      <4>2. a + delta \in Int
        BY <4>1
      <4> QED BY <4>2, WrapTyped DEF a
    <3> QED BY <3>1
  <2> HIDE DEF n, k
  <2>2. Numeral(n) \in Str
    BY <2>1, NumeralReads
  <2>3. Stored(Updated(k, Numeral(n))) /\ Is(RespInt(n), ":")
    BY <2>1, <2>2, CallsStore, RepliesAre DEF k
  <2> QED BY <2>3, <1>3, Answers1
<1> QED BY <1>1, <1>2, <1>3

LEMMA INCRStep ==
  ASSUME Inv, NEW c \in Conns, cmdINCR(c)
  PROVE  Replied(c)
<1>1. job[c] # None /\ job[c].cmd \in {"INCR", "DECR"} /\ Fits(c)
  BY DEF cmdINCR, Doing
<1>2. Stored(db) /\ Arg(c, 1) \in Str /\ ":" \in Kinds(job[c].cmd)
  BY <1>1, JobIs, FirstArgs, KindsAre
<1>3. \E delta \in Int : IncrBy(c, delta)
  <2>1. IncrBy(c, 1) \/ IncrBy(c, -1)
    BY DEF cmdINCR
  <2> QED BY <2>1
<1> QED BY <1>2, <1>3, IncrByStep

LEMMA INCRBYStep ==
  ASSUME Inv, NEW c \in Conns, cmdINCRBY(c)
  PROVE  Replied(c)
<1> DEFINE n == Atoi(Arg(c, 2))
           m == Wrap(-n)
<1>1. job[c] # None /\ job[c].cmd \in {"INCRBY", "DECRBY"} /\ Fits(c)
  BY DEF cmdINCRBY, Doing
<1>2. Stored(db) /\ Arg(c, 1) \in Str /\ ":" \in Kinds(job[c].cmd)
  BY <1>1, JobIs, FirstArgs, KindsAre
<1>3. \/ IsInt(Arg(c, 2)) /\ (IncrBy(c, n) \/ IncrBy(c, m))
      \/ Reply(c, NotInteger, db)
  BY DEF cmdINCRBY
<1>4. CASE IsInt(Arg(c, 2)) /\ (IncrBy(c, n) \/ IncrBy(c, m))
  <2>1. n \in Int
    BY <1>4, IntTyped
  <2> HIDE DEF n
  <2>2. m \in Int
    BY <2>1, WrapTyped
  <2> HIDE DEF m
  <2> QED BY <1>2, <1>4, <2>1, <2>2, IncrByStep
<1>5. CASE Reply(c, NotInteger, db)
  BY <1>2, <1>5, RepliesAre, Answers1
<1> QED BY <1>3, <1>4, <1>5

LEMMA APPENDStep ==
  ASSUME Inv, NEW c \in Conns, cmdAPPEND(c)
  PROVE  Replied(c)
<1> DEFINE k == Arg(c, 1)
           u == Arg(c, 2)
           v == IF Alive(k) THEN db.items[k].val \o u ELSE u
<1>1. job[c] # None /\ job[c].cmd = "APPEND" /\ Fits(c)
  BY DEF cmdAPPEND, Doing
<1>2. Stored(db) /\ k \in Str /\ u \in Str /\ ":" \in Kinds(job[c].cmd)
  BY <1>1, JobIs, FirstArgs, KindsAre
<1>3. Reply(c, RespInt(Len(v)), Updated(k, v))
  BY DEF cmdAPPEND
<1> HIDE DEF k, u
<1>4. v \in Str
  BY <1>2, ValueIs, ConcatProperties DEF Str
<1> HIDE DEF v
<1>5. Stored(Updated(k, v)) /\ Len(v) \in Int
  BY <1>2, <1>4, CallsStore, LengthTyped DEF Str
<1>6. Is(RespInt(Len(v)), ":")
  BY <1>5, RepliesAre
<1> QED BY <1>2, <1>3, <1>5, <1>6, Answers1

LEMMA STRLENStep ==
  ASSUME Inv, NEW c \in Conns, cmdSTRLEN(c)
  PROVE  Replied(c)
<1> DEFINE k == Arg(c, 1)
           n == IF Alive(k) THEN Len(db.items[k].val) ELSE 0
<1>1. job[c] # None /\ job[c].cmd = "STRLEN" /\ Fits(c)
  BY DEF cmdSTRLEN, Doing
<1>2. Stored(db) /\ ":" \in Kinds(job[c].cmd)
  BY <1>1, JobIs, KindsAre
<1>3. Reply(c, RespInt(n), db)
  BY DEF cmdSTRLEN
<1>4. n \in Int
  BY <1>2, ValueIs, LengthTyped DEF Str
<1> HIDE DEF n
<1> QED BY <1>2, <1>3, <1>4, RepliesAre, Answers1

LEMMA ExpireStep ==
  ASSUME NEW c, Stored(db), Arg(c, 1) \in Str, NEW e \in Int, Expire(c, e),
         ":" \in Kinds(job[c].cmd)
  PROVE  Replied(c)
<1> DEFINE k == Arg(c, 1)
           d == [db EXCEPT !.items[k].exp = e]
<1>1. \/ Alive(k) /\ Reply(c, RespInt(1), d)
      \/ Reply(c, RespInt(0), db)
  BY DEF Expire
<1>2. Is(RespInt(0), ":") /\ Is(RespInt(1), ":")
  BY IntWhole DEF Is
<1>3. CASE Alive(k) /\ Reply(c, RespInt(1), d)
  <2>1. Stored(d)
    BY <1>3, CallsStore
  <2> HIDE DEF d
  <2> QED BY <1>2, <1>3, <2>1, Answers1
<1>4. CASE Reply(c, RespInt(0), db)
  BY <1>2, <1>4, Answers1
<1> QED BY <1>1, <1>3, <1>4

LEMMA EXPIREStep ==
  ASSUME Inv, NEW c \in Conns, cmdEXPIRE(c)
  PROVE  Replied(c)
<1> DEFINE w == Arg(c, 2)
           u == IF job[c].cmd = "EXPIRE" THEN Second ELSE Milli
           t == Wrap(Atoi(w) * u)
           e == Wrap(now + t)
<1>1. job[c] # None /\ job[c].cmd \in {"EXPIRE", "PEXPIRE"} /\ Fits(c)
  BY DEF cmdEXPIRE, Doing
<1>2. Stored(db) /\ now \in Int /\ Arg(c, 1) \in Str /\ ":" \in Kinds(job[c].cmd)
  BY <1>1, JobIs, FirstArgs, KindsAre
<1>3. (IsInt(w) /\ Expire(c, e)) \/ Reply(c, NotInteger, db)
  BY DEF cmdEXPIRE
<1>4. CASE IsInt(w) /\ Expire(c, e)
  <2>1. u \in Nat \ {0}
    BY SizesAre
  <2> HIDE DEF u
  <2>2. t \in Int
    BY <1>4, <2>1, TimesTyped
  <2> HIDE DEF t
  <2>3. now + t \in Int
    BY <1>2, <2>2
  <2>4. e \in Int
    BY <2>3, WrapTyped
  <2> HIDE DEF e
  <2> QED BY <1>2, <1>4, <2>4, ExpireStep
<1>5. CASE Reply(c, NotInteger, db)
  BY <1>2, <1>5, RepliesAre, Answers1
<1> QED BY <1>3, <1>4, <1>5

LEMMA PERSISTStep ==
  ASSUME Inv, NEW c \in Conns, cmdPERSIST(c)
  PROVE  Replied(c)
<1>1. job[c] # None /\ job[c].cmd = "PERSIST" /\ Fits(c) /\ Expire(c, 0)
  BY DEF cmdPERSIST, Doing
<1>2. Stored(db) /\ Arg(c, 1) \in Str /\ ":" \in Kinds(job[c].cmd)
  BY <1>1, JobIs, FirstArgs, KindsAre
<1> QED BY <1>1, <1>2, ExpireStep

LEMMA TTLStep ==
  ASSUME Inv, NEW c \in Conns, TTL(c)
  PROVE  Replied(c)
<1> DEFINE k == Arg(c, 1)
           u == IF job[c].cmd = "TTL" THEN Second ELSE Milli
           n == Left(k, u)
<1>1. job[c] # None /\ job[c].cmd \in {"TTL", "PTTL"} /\ Reply(c, RespInt(n), db)
  BY DEF TTL, Doing
<1>2. Stored(db) /\ now \in Int /\ ":" \in Kinds(job[c].cmd)
  BY <1>1, JobIs, KindsAre
<1>3. n \in Int
  <2>1. u \in Nat \ {0}
    BY SizesAre
  <2> HIDE DEF u
  <2>2. ASSUME Alive(k) PROVE n \in Int
    <3> DEFINE e == db.items[k].exp
    <3>1. e \in Int
      BY <1>2, <2>2, ValueIs
    <3>2. n \in {-1, -2} \/ n = (e - now) \div u
      BY <2>2, <3>1 DEF Left
    <3> HIDE DEF e, n
    <3>3. (e - now) \div u \in Int
      BY <1>2, <2>1, <3>1
    <3> QED BY <3>2, <3>3
  <2>3. ASSUME ~Alive(k) PROVE n \in Int
    BY <2>3 DEF Left
  <2> QED BY <2>2, <2>3
<1> HIDE DEF n
<1> QED BY <1>1, <1>2, <1>3, RepliesAre, Answers1

LEMMA TYPEStep ==
  ASSUME Inv, NEW c \in Conns, cmdTYPE(c)
  PROVE  Replied(c)
<1>1. /\ job[c] # None /\ job[c].cmd = "TYPE"
      /\ Reply(c, RespSimple("string"), db) \/ Reply(c, RespSimple("none"), db)
  BY DEF cmdTYPE, Doing
<1>2. Stored(db) /\ "+" \in Kinds(job[c].cmd)
  BY <1>1, JobIs, KindsAre
<1> QED BY <1>1, <1>2, RepliesAre, Answers1

\* What RENAME reads of its item is there.
LEMMA ItemExpTyped ==
  ASSUME Inv, NEW c \in Conns, Holding(job[c])
  PROVE  ItemExp(c) \in Int
<1>1. Keeps(job[c], gone[c], db.items) /\ Stored(db)
  BY DEF Inv, Held, Typed
<1>2. CASE gone[c] = None
  <2>1. Arg(c, 1) \in DOMAIN db.items
    BY <1>1, <1>2 DEF Keeps, Arg
  <2>2. db.items[Arg(c, 1)].exp \in Int
    BY <1>1, <2>1, AtMap DEF Stored
  <2> QED BY <1>2, <2>2 DEF ItemExp
<1>3. CASE gone[c] # None
  BY <1>1, <1>3 DEF Keeps, ItemExp
<1> QED BY <1>2, <1>3

LEMMA RenameFindStep ==
  ASSUME Inv, NEW c \in Conns, Doing(c, {"RENAME"}), Fits(c), RenameFind(c)
  PROVE  Replied(c) \/ GotOn(c)
<1> DEFINE k == Arg(c, 1)
           v == db.items[k].val
           u == [job[c] EXCEPT !.at = 2]
           j == [u EXCEPT !.val = v]
<1>1. job[c] # None /\ job[c].cmd = "RENAME"
  BY DEF Doing
<1>2. job[c] \in Jobs /\ Stored(db)
  BY <1>1, JobIs
<1>3. \/ Alive(k) /\ Go(c, j, db)
      \/ Reply(c, RespErrorMsg("no such key"), db)
  BY DEF RenameFind
<1>4. CASE Alive(k) /\ Go(c, j, db)
  <2>1. v \in Str /\ k \in DOMAIN db.items
    BY <1>2, <1>4, ValueIs DEF Alive, There
  <2> HIDE DEF v
  <2>2. SameJob(u, job[c])
    BY <1>2, NextPlace
  <2> HIDE DEF u
  <2>3. SameJob(j, u)
    BY <2>1, <2>2, JobSet DEF SameJob
  <2> HIDE DEF j
  <2>4. SameJob(j, job[c])
    BY <2>2, <2>3 DEF SameJob
  <2>5. j.args[1] \in DOMAIN db.items /\ ~Holding(job[c])
    <3>1. j.args = job[c].args /\ k = job[c].args[1]
      BY <2>4 DEF SameJob, Arg
    <3>2. job[c].at = 1
      BY ONLY RenameFind(c) DEF RenameFind
    <3> QED BY <2>1, <3>1, <3>2 DEF Holding
  <2>6. /\ j \in Jobs /\ j.cmd = job[c].cmd /\ j.args = job[c].args /\ j.cmd # "MSET"
        /\ Holding(j) => ~Holding(job[c]) /\ j.args[1] \in DOMAIN db.items
    BY <1>1, <2>4, <2>5 DEF SameJob
  <2> QED BY <1>2, <1>4, <2>6 DEF GotOn
<1>5. CASE Reply(c, RespErrorMsg("no such key"), db)
  BY <1>2, <1>5, RepliesAre, Answers1
<1> QED BY <1>3, <1>4, <1>5

LEMMA RenameReadStep ==
  ASSUME Inv, NEW c \in Conns, Doing(c, {"RENAME"}), RenameRead(c)
  PROVE  GotOn(c)
<1> DEFINE e == ItemExp(c)
           u == [job[c] EXCEPT !.at = 3]
           j == [u EXCEPT !.exp = e]
<1>1. job[c] # None /\ job[c].cmd = "RENAME" /\ job[c].at = 2
  BY DEF Doing, RenameRead
<1>2. job[c] \in Jobs /\ Stored(db)
  BY <1>1, JobIs
<1>3. Go(c, j, db)
  BY DEF RenameRead
<1>4. e \in Int
  BY <1>1, ItemExpTyped DEF Holding
<1> HIDE DEF e
<1>5. SameJob(u, job[c]) /\ u.at = 3
  BY <1>2, JobSet
<1> HIDE DEF u
<1>6. SameJob(j, u) /\ j.at = u.at
  BY <1>4, <1>5, JobSet DEF SameJob
<1> HIDE DEF j
<1>7. SameJob(j, job[c]) /\ j.at # 2
  BY <1>5, <1>6 DEF SameJob
<1> QED BY <1>1, <1>2, <1>3, <1>7, GoesOn

LEMMA RenameMoveStep ==
  ASSUME Inv, NEW c \in Conns, Doing(c, {"RENAME"}), Fits(c), RenameMove(c)
  PROVE  Replied(c) \/ GotOn(c)
<1> DEFINE m == db.items
           n == db.total
           i == [val |-> job[c].val, exp |-> job[c].exp]
           p == Put(m, Arg(c, 2), i)
           q == Drop(m, Arg(c, 1))
           b == There(Arg(c, 2))
<1>1. job[c] # None /\ job[c].cmd = "RENAME"
  BY DEF Doing
<1>2. /\ job[c] \in Jobs /\ Stored(db) /\ Arg(c, 2) \in Str
      /\ job[c].val \in Str /\ job[c].exp \in Int
  BY <1>1, JobIs, FirstArgs
<1>3. Map(m) /\ n \in Int /\ db = [items |-> m, total |-> n] /\ i \in Items
  BY <1>2 DEF Stored, Items
<1>4. Map(p) /\ Map(q)
  <2> HIDE DEF i, m
  <2> QED BY <1>2, <1>3, PutMap, DropMap
<1>5. \/ Go(c, [job[c] EXCEPT !.at = 4], [db EXCEPT !.items = q])
      \/ Go(c, [job[c] EXCEPT !.at = 5], [db EXCEPT !.total = n - 1])
      \/ Go(c, [job[c] EXCEPT !.at = 6, !.seen = b], [db EXCEPT !.items = p])
      \/ Reply(c, RespOK, db)
      \/ Reply(c, RespOK, [db EXCEPT !.total = n + 1])
  BY DEF RenameMove
<1> HIDE DEF i, p, q, m, n
<1>6. /\ Stored([db EXCEPT !.items = q]) /\ Stored([db EXCEPT !.items = p])
      /\ Stored([db EXCEPT !.total = n - 1]) /\ Stored([db EXCEPT !.total = n + 1])
  <2>1. /\ [db EXCEPT !.items = q] = [items |-> q, total |-> n]
        /\ [db EXCEPT !.items = p] = [items |-> p, total |-> n]
        /\ [db EXCEPT !.total = n - 1] = [items |-> m, total |-> n - 1]
        /\ [db EXCEPT !.total = n + 1] = [items |-> m, total |-> n + 1]
    BY <1>3
  <2>2. n - 1 \in Int /\ n + 1 \in Int
    BY <1>3
  <2> QED BY <2>1, <2>2, <1>3, <1>4, StoredIs
<1>7. ASSUME NEW a \in {4, 5}, NEW d, Stored(d), Go(c, [job[c] EXCEPT !.at = a], d) PROVE GotOn(c)
  <2> DEFINE j == [job[c] EXCEPT !.at = a]
  <2>1. SameJob(j, job[c]) /\ j.at # 2
    BY <1>2, JobSet
  <2>2. Go(c, j, d)
    BY <1>7
  <2> HIDE DEF j
  <2> QED BY <1>1, <1>7, <2>1, <2>2, GoesOn
<1>8. CASE Go(c, [job[c] EXCEPT !.at = 6, !.seen = b], [db EXCEPT !.items = p])
  <2> DEFINE u == [job[c] EXCEPT !.at = 6]
             j == [u EXCEPT !.seen = b]
             d == [db EXCEPT !.items = p]
  <2>1. SameJob(u, job[c]) /\ u.at = 6
    BY <1>2, JobSet
  <2>2. b \in BOOLEAN
    BY DEF There
  <2>3. Go(c, j, d) /\ Stored(d)
    BY <1>6, <1>8
  <2> HIDE DEF u, b, d
  <2>4. SameJob(j, u) /\ j.at = u.at
    BY <2>1, <2>2, JobSet DEF SameJob
  <2> HIDE DEF j
  <2>5. SameJob(j, job[c]) /\ j.at # 2
    BY <2>1, <2>4 DEF SameJob
  <2> QED BY <1>1, <2>3, <2>5, GoesOn
<1>9. "+" \in Kinds(job[c].cmd)
  BY <1>1, KindsAre
<1>10. CASE Reply(c, RespOK, db) \/ Reply(c, RespOK, [db EXCEPT !.total = n + 1])
  <2> DEFINE d == [db EXCEPT !.total = n + 1]
  <2>1. Stored(d)
    BY <1>6
  <2> HIDE DEF d
  <2>2. Reply(c, RespOK, db) \/ Reply(c, RespOK, d)
    BY <1>10 DEF d
  <2> QED BY <1>2, <1>9, <2>1, <2>2, RepliesAre, Answers1
<1>11. CASE Go(c, [job[c] EXCEPT !.at = 4], [db EXCEPT !.items = q])
  BY <1>6, <1>7, <1>11
<1>12. CASE Go(c, [job[c] EXCEPT !.at = 5], [db EXCEPT !.total = n - 1])
  BY <1>6, <1>7, <1>12
<1> QED BY <1>5, <1>8, <1>10, <1>11, <1>12

LEMMA RENAMEStep ==
  ASSUME Inv, NEW c \in Conns, cmdRENAME(c)
  PROVE  Replied(c) \/ GotOn(c)
<1>1. Doing(c, {"RENAME"}) /\ Fits(c) /\ (RenameFind(c) \/ RenameRead(c) \/ RenameMove(c))
  BY DEF cmdRENAME
<1> QED BY <1>1, RenameFindStep, RenameReadStep, RenameMoveStep

LEMMA KEYSStep ==
  ASSUME Inv, NEW c \in Conns, cmdKEYS(c)
  PROVE  Replied(c) \/ GotOn(c)
<1> DEFINE K == Matching(job[c].at, Arg(c, 1))
           a == job[c].acc
<1>1. job[c] # None /\ job[c].cmd = "KEYS"
  BY DEF cmdKEYS, Doing
<1>2. job[c] \in Jobs /\ Stored(db) /\ "*" \in Kinds(job[c].cmd) /\ a \in Seq(Str \cup {None})
  BY <1>1, JobIs, KindsAre
<1>3. \/ Reply(c, RespArray(a, None), db)
      \/ \E ks \in SetToSeqs(K) : Go(c, Onward(job[c], ks), db)
  BY DEF cmdKEYS
<1>4. IsFiniteSet(K) /\ K \in SUBSET Str
  <2>1. PICK D \in SUBSET Str : IsFiniteSet(D) /\ db.items \in [D -> Items]
    BY <1>2 DEF Stored, Map
  <2>2. K \in SUBSET D
    BY <2>1 DEF Matching
  <2> HIDE DEF K
  <2> QED BY <2>1, <2>2, FS_Subset
<1> HIDE DEF K
<1>5. Cardinality(K) \in Nat
  BY <1>4, FS_CardinalityType
<1>6. CASE Reply(c, RespArray(a, None), db)
  <2>1. Is(RespArray(a, None), "*")
    BY <1>2, RepliesAre
  <2> QED BY <1>2, <1>6, <2>1, Answers1
<1>7. CASE \E ks \in SetToSeqs(K) : Go(c, Onward(job[c], ks), db)
  <2>1. PICK ks \in SetToSeqs(K) : Go(c, Onward(job[c], ks), db)
    BY <1>7
  <2>2. ks \in [1..Cardinality(K) -> K]
    BY DEF SetToSeqs
  <2>3. ks \in Seq(K)
    BY <1>5, <2>2
  <2>4. ks \in Seq(Str \cup {None})
    BY <1>4, <2>3
  <2> QED BY <1>1, <1>2, <2>1, <2>4, OnwardGoes
<1> QED BY <1>3, <1>6, <1>7

LEMMA EchoStep ==
  ASSUME Inv, NEW c \in Conns, Echo(c)
  PROVE  Replied(c)
<1>1. /\ job[c] # None /\ job[c].cmd \in {"PING", "ECHO"}
      /\ \/ job[c].cmd = "PING" /\ Args(c) = <<>> /\ Reply(c, RespSimple("PONG"), db)
         \/ Args(c) # <<>> /\ Reply(c, RespBulk(Arg(c, 1)), db)
  <2>1. job[c] # None /\ job[c].cmd \in {"PING", "ECHO"} /\ Fits(c)
    BY DEF Echo, Doing
  <2>2. job[c].cmd = "ECHO" => Args(c) # <<>>
    <3>1. job[c].cmd = "ECHO" => Len(Args(c)) = 1
      BY <2>1, JobIs, FitsIs
    <3>2. Len(<<>>) = 0
      OBVIOUS
    <3> QED BY <3>1, <3>2
  <2> QED BY <2>1, <2>2 DEF Echo
<1>2. /\ Stored(db) /\ "$" \in Kinds(job[c].cmd)
      /\ job[c].cmd = "PING" => "+" \in Kinds(job[c].cmd)
  BY <1>1, JobIs, KindsAre
<1>3. CASE job[c].cmd = "PING" /\ Reply(c, RespSimple("PONG"), db)
  BY <1>2, <1>3, RepliesAre, Answers1
<1>4. CASE Args(c) # <<>> /\ Reply(c, RespBulk(Arg(c, 1)), db)
  <2>1. Arg(c, 1) \in Str
    <3>1. Args(c) \in Seq(Str) /\ \A i \in 1..Len(Args(c)) : Arg(c, i) \in Str
      BY <1>1, JobIs
    <3>2. 1 \in 1..Len(Args(c))
      BY <1>4, <3>1, EmptySeq, LenProperties
    <3> QED BY <3>1, <3>2
  <2> QED BY <2>1, <1>2, <1>4, RepliesAre, Answers1
<1> QED BY <1>1, <1>3, <1>4

LEMMA DBSIZEStep ==
  ASSUME Inv, NEW c \in Conns, DBSIZE(c)
  PROVE  Replied(c)
<1>1. job[c] # None /\ job[c].cmd = "DBSIZE" /\ Reply(c, RespInt(db.total), db)
  BY DEF DBSIZE, Doing
<1>2. Stored(db) /\ db.total \in Int /\ ":" \in Kinds(job[c].cmd)
  BY <1>1, JobIs, KindsAre DEF Stored
<1> QED BY <1>1, <1>2, RepliesAre, Answers1

LEMMA INFOStep ==
  ASSUME Inv, NEW c \in Conns, cmdINFO(c)
  PROVE  Replied(c)
<1> DEFINE s == <<"# Server">> \o CRLF \o Numeral(db.total) \o CRLF
<1>1. job[c] # None /\ job[c].cmd = "INFO" /\ Reply(c, RespBulk(s), db)
  BY DEF cmdINFO, Doing
<1>2. Stored(db) /\ db.total \in Int /\ "$" \in Kinds(job[c].cmd)
  BY <1>1, JobIs, KindsAre DEF Stored
<1>3. s \in Str
  <2>1. <<"# Server">> \in Str
    <3>1. "# Server" \in Byte
      BY SymbolsAreBytes DEF Symbols
    <3> QED BY <3>1, OneSymbol
  <2>2. Numeral(db.total) \in Str
    BY <1>2, NumeralReads
  <2>3. CRLF \in Str
    BY CRLFIs
  <2> QED BY <2>1, <2>2, <2>3, ConcatProperties DEF Str
<1> HIDE DEF s
<1> QED BY <1>1, <1>2, <1>3, RepliesAre, Answers1

LEMMA FLUSHDBStep ==
  ASSUME Inv, NEW c \in Conns, FLUSHDB(c)
  PROVE  Replied(c) \/ GotOn(c)
<1> DEFINE S == {k \in DOMAIN db.items : ShardOf(k) # job[c].at}
           m == Restrict(db.items, S)
           d == [db EXCEPT !.items = m]
           z == [db EXCEPT !.total = 0]
<1>1. job[c] # None /\ job[c].cmd \in {"FLUSHDB", "FLUSHALL"}
  BY DEF FLUSHDB, Doing
<1>2. job[c] \in Jobs /\ Stored(db) /\ "+" \in Kinds(job[c].cmd)
  BY <1>1, JobIs, KindsAre
<1>3. Reply(c, RespOK, z) \/ Go(c, Onward(job[c], <<>>), d)
  BY DEF FLUSHDB
<1>4. /\ Map(db.items) /\ db.total \in Int /\ Map(m)
      /\ db = [items |-> db.items, total |-> db.total]
  BY <1>2, RestrictMap DEF Stored
<1> HIDE DEF m
<1>5. d = [items |-> m, total |-> db.total] /\ z = [items |-> db.items, total |-> 0]
  BY <1>4
<1>6. Stored(d) /\ Stored(z)
  BY <1>4, <1>5, StoredIs
<1> HIDE DEF d, z
<1>7. CASE Reply(c, RespOK, z)
  BY <1>2, <1>6, <1>7, RepliesAre, Answers1
<1>8. CASE Go(c, Onward(job[c], <<>>), d)
  BY <1>1, <1>2, <1>6, <1>8, OneItem, OnwardGoes
<1> QED BY <1>3, <1>7, <1>8

LEMMA AcceptStep ==
  ASSUME Inv, NEW c \in Conns, Accept(c)
  PROVE  Replied(c)
<1>1. /\ job[c] # None /\ job[c].cmd \in {"SELECT", "COMMAND", "CLIENT", "CONFIG"}
      /\ \/ job[c].cmd = "CONFIG" /\ Reply(c, RespArray(<<>>, None), db)
         \/ Reply(c, RespOK, db)
  BY DEF Accept, Doing
<1>2. /\ Stored(db) /\ "+" \in Kinds(job[c].cmd)
      /\ job[c].cmd = "CONFIG" => "*" \in Kinds(job[c].cmd)
  BY <1>1, JobIs, KindsAre
<1>3. CASE job[c].cmd = "CONFIG" /\ Reply(c, RespArray(<<>>, None), db)
  <2>1. Is(RespArray(<<>>, None), "*")
    BY OneItem, RepliesAre
  <2> QED BY <2>1, <1>2, <1>3, Answers1
<1>4. CASE Reply(c, RespOK, db)
  BY <1>2, <1>4, RepliesAre, Answers1
<1> QED BY <1>1, <1>3, <1>4

LEMMA UnknownStep ==
  ASSUME Inv, NEW c \in Conns, Unknown(c)
  PROVE  Replied(c)
<1>1. job[c] # None /\ Reply(c, RespErrorMsg("unknown command"), db)
  BY DEF Unknown
<1>2. Stored(db)
  BY <1>1, JobIs
<1> QED BY <1>1, <1>2, RepliesAre, Answers1

\* Whatever the command: it is answered, gets on, or makes the server panic.
LEMMA CommandStep ==
  ASSUME Inv, NEW c \in Conns, executeCommand(c)
  PROVE  job[c] # None /\ (Replied(c) \/ GotOn(c) \/ Panic(c))
<1>1. job[c] # None
  BY Zenon DEF executeCommand, WrongNumber, cmdSET, cmdGET, cmdDEL, cmdSETNX, cmdSETEX, cmdMGET, cmdMSET,
     cmdINCR, cmdINCRBY, cmdAPPEND, cmdSTRLEN, cmdEXISTS, cmdEXPIRE, TTL, Panic, cmdPERSIST, cmdTYPE,
     cmdRENAME, cmdKEYS, Echo, DBSIZE, FLUSHDB, cmdINFO, Accept, Unknown, Doing
<1>2. Replied(c) \/ GotOn(c) \/ Panic(c)
  BY WrongNumberStep, SETStep, GETStep, DELStep, SETNXStep, SETEXStep, MGETStep, MSETStep, INCRStep,
     INCRBYStep, APPENDStep, STRLENStep, EXISTSStep, EXPIREStep, TTLStep, PERSISTStep, TYPEStep,
     RENAMEStep, KEYSStep, EchoStep, DBSIZEStep, FLUSHDBStep, INFOStep, AcceptStep, UnknownStep,
     Zenon DEF executeCommand
<1> QED BY <1>1, <1>2

-------------------------------------------------------------------------------
(* The start: what the clients send are texts, in pieces that are texts. *)

Sendable == [words : Seq(Str), as : Byte]

LEMMA Flattened ==
  ASSUME NEW n \in Nat, NEW f, \A i \in 1..n : f[i] \in Str, f = [i \in 1..n |-> f[i]]
  PROVE  FlattenSeq(f) \in Str
<1>1. f \in [1..n -> Str]
  OBVIOUS
<1>2. f \in Seq(Str)
  BY <1>1, SeqDef
<1> QED BY <1>2, FlattenTyped DEF Str

LEMMA EncodedTyped ==
  ASSUME NEW cmd \in Sendable
  PROVE  Encoded(cmd) \in Str
<1> DEFINE w == cmd.words
           n == Len(w)
           f == [i \in DOMAIN w |-> (IF i = 1 THEN <<>> ELSE <<" ">>) \o w[i]]
           b == [i \in DOMAIN w |-> RespBulk(w[i])]
<1>1. w \in Seq(Str) /\ n \in Nat /\ DOMAIN w = 1..n /\ \A i \in 1..n : w[i] \in Str
  BY LenProperties, ElementOfSeq DEF Sendable
<1>2. <<>> \in Str /\ <<" ">> \in Str /\ <<"*">> \in Str /\ <<"LF">> \in Str
  <2>1. " " \in Byte /\ "*" \in Byte /\ "LF" \in Byte
    BY SymbolsAreBytes DEF Symbols
  <2> QED BY <2>1, OneSymbol, EmptySeq DEF Str
<1>3. Encoded(cmd) = CASE cmd.as = "line" -> FlattenSeq(f) \o <<"LF">>
                       [] cmd.as = "array" -> <<"*">> \o Numeral(n) \o CRLF \o FlattenSeq(b)
                       [] cmd.as = "badLength" -> <<"*">> \o Numeral(1) \o CRLF
                                                  \o (<<"$">> \o FlattenSeq(w) \o CRLF)
                       [] OTHER -> <<"*">> \o FlattenSeq(w) \o CRLF
  BY DEF Encoded
<1>4. FlattenSeq(f) \in Str
  <2>1. f = [i \in 1..n |-> f[i]]
    BY <1>1
  <2>2. \A i \in 1..n : f[i] \in Str
    BY <1>1, <1>2, ConcatProperties DEF Str
  <2> HIDE DEF f
  <2> QED BY <1>1, <2>1, <2>2, Flattened
<1>5. FlattenSeq(b) \in Str
  <2>1. b = [i \in 1..n |-> b[i]]
    BY <1>1
  <2>2. \A i \in 1..n : b[i] \in Str
    BY <1>1, RepliesAre DEF Is, Whole
  <2> HIDE DEF b
  <2> QED BY <1>1, <2>1, <2>2, Flattened
<1>6. FlattenSeq(w) \in Str
  BY <1>1, FlattenTyped DEF Str
<1>7. Numeral(n) \in Str /\ Numeral(1) \in Str /\ CRLF \in Str
  <2>1. n \in Int
    BY <1>1
  <2> QED BY <2>1, NumeralReads, CRLFIs
<1> HIDE DEF f, b, w, n
<1>8. FlattenSeq(f) \o <<"LF">> \in Str
  BY <1>2, <1>4, Concats
<1>9. <<"*">> \o Numeral(n) \o CRLF \o FlattenSeq(b) \in Str
  BY <1>2, <1>5, <1>7, ConcatProperties DEF Str
<1>10. <<"*">> \o FlattenSeq(w) \o CRLF \in Str
  BY <1>2, <1>6, <1>7, ConcatProperties DEF Str
<1>11. <<"*">> \o Numeral(1) \o CRLF \o (<<"$">> \o FlattenSeq(w) \o CRLF) \in Str
  <2>1. <<"$">> \in Str
    <3>1. "$" \in Byte
      BY SymbolsAreBytes DEF Symbols
    <3> QED BY <3>1, OneSymbol
  <2>2. <<"$">> \o FlattenSeq(w) \o CRLF \in Str
    BY <2>1, <1>6, <1>7, ConcatProperties DEF Str
  <2> QED BY <2>2, <1>2, <1>7, ConcatProperties DEF Str
<1> QED BY <1>3, <1>8, <1>9, <1>10, <1>11

LEMMA CutTyped ==
  ASSUME NEW s \in Str, NEW n \in Nat \ {0}
  PROVE  Cut(s, n) \in Seq(Str)
<1> DEFINE l == Len(s)
           m == (l + n - 1) \div n
           piece(i) == SubSeq(s, n * (i - 1) + 1, IF n * i < l THEN n * i ELSE l)
<1>1. l \in Nat
  BY LenProperties DEF Str
<1>2. Cut(s, n) = [i \in 1..m |-> piece(i)]
  BY DEF Cut
<1>3. m \in Nat
  <2> HIDE DEF l
  <2> QED BY <1>1
<1>4. ASSUME NEW i \in 1..m PROVE piece(i) \in Str
  <2> DEFINE a == n * (i - 1)
             b == IF n * i < l THEN n * i ELSE l
  <2> HIDE DEF l, m
  <2>1. i \in Nat /\ i - 1 \in Nat
    BY <1>3, <1>4
  <2>2. a \in Nat /\ n * i \in Nat
    BY <2>1
  <2>3. b \in Int /\ b <= l
    BY <1>1, <2>2
  <2> HIDE DEF a, b
  <2>4. a + 1 \in Nat \ {0}
    BY <2>2
  <2>5. SubSeq(s, a + 1, b) \in Str
    BY <2>3, <2>4, SubStr DEF l
  <2> QED BY <2>5 DEF a, b
<1> HIDE DEF m, piece
<1>5. [i \in 1..m |-> piece(i)] \in [1..m -> Str]
  BY <1>4
<1>6. [i \in 1..m |-> piece(i)] \in Seq(Str)
  BY <1>3, <1>5, SeqDef
<1> QED BY <1>2, <1>6

LEMMA SetupIs ==
  ASSUME NEW s \in Setups
  PROVE  /\ s.password \in Str
         /\ \A c \in Conns : s.scripts[c] \in Seq(Sendable) /\ s.cut[c] \in Nat \ {0}
<1>1. s \in [password : Seq(Byte), scripts : [Conns -> Seq([words : Seq(Seq(Byte)), as : Byte])],
              cut : [Conns -> Nat \ {0}]]
  BY ServerAssumptions DEF Byte
<1>2. s \in [password : Str, scripts : [Conns -> Seq(Sendable)], cut : [Conns -> Nat \ {0}]]
  BY <1>1 DEF Str, Sendable
<1> QED BY <1>2

LEMMA InitHolds == Init => Inv
<1> SUFFICES ASSUME Init PROVE Inv
  OBVIOUS
<1>1. PICK s \in Setups :
        /\ password = s.password /\ script = s.scripts
        /\ sent = [c \in Conns |->
                      Cut(FlattenSeq([i \in DOMAIN script[c] |-> Encoded(script[c][i])]), s.cut[c])]
  BY DEF Init
<1>2. sent \in [Conns -> Seq(Str)]
  <2> SUFFICES ASSUME NEW c \in Conns
               PROVE  Cut(FlattenSeq([i \in DOMAIN script[c] |-> Encoded(script[c][i])]), s.cut[c])
                        \in Seq(Str)
    BY <1>1
  <2> DEFINE q == script[c]
             n == Len(q)
             f == [i \in DOMAIN q |-> Encoded(q[i])]
  <2>1. q \in Seq(Sendable) /\ s.cut[c] \in Nat \ {0}
    BY <1>1, SetupIs
  <2>2. n \in Nat /\ DOMAIN q = 1..n /\ \A i \in 1..n : q[i] \in Sendable
    BY <2>1, LenProperties, ElementOfSeq
  <2>3. f = [i \in 1..n |-> f[i]] /\ \A i \in 1..n : f[i] \in Str
    BY <2>2, EncodedTyped
  <2> HIDE DEF f, n, q
  <2>4. FlattenSeq(f) \in Str
    BY <2>2, <2>3, Flattened
  <2>5. Cut(FlattenSeq(f), s.cut[c]) \in Seq(Str)
    BY <2>1, <2>4, CutTyped
  <2> QED BY <2>5 DEF f, q
<1>3. Typed
  <2>1. password \in Str
    BY <1>1, SetupIs
  <2>2. <<>> \in Str
    BY EmptySeq DEF Str
  <2>3. Stored(db)
    BY EmptyStored DEF Init
  <2>4. /\ inbuf \in [Conns -> Str] /\ heard = [c \in Conns |-> heard[c]]
        /\ job = [c \in Conns |-> job[c]] /\ out = [c \in Conns |-> out[c]]
        /\ auth = [c \in Conns |-> auth[c]] /\ now \in Int
    BY <2>2 DEF Init
  <2> QED BY <1>2, <2>1, <2>3, <2>4 DEF Typed
<1>4. ASSUME NEW c \in Conns PROVE Told(password, heard[c], job[c], out[c], auth[c])
  <2>1. heard[c] = <<>> /\ job[c] = None /\ out[c] = <<>> /\ auth[c] = (password = <<>>)
    BY DEF Init
  <2>2. <<>> \in Seq(Heard) /\ Len(<<>>) = 0 /\ Framed(<<>>) /\ Replies(<<>>) = <<>>
    BY EmptySeq, FramedEmpty
  <2>3. Told(password, <<>>, None, <<>>, (password = <<>>))
    BY <2>2 DEF Told
  <2> QED BY <2>1, <2>3
<1>5. Held
  BY DEF Init, Held, Keeps, Holding
<1> QED BY <1>3, <1>4, <1>5 DEF Inv

-------------------------------------------------------------------------------
(* Each step keeps the invariant. *)

\* What RENAME holds stays where it is,
LEMMA HeldStays ==
  ASSUME Inv, job' = job, db' = db, gone' = gone
  PROVE  Held'
BY DEF Inv, Held

\* or leaves the map and is kept.
LEMMA HeldCalled ==
  ASSUME Inv, NEW K, Detach(K), DOMAIN db.items \ DOMAIN db'.items \subseteq K,
         \A x \in Conns : Holding(job'[x]) =>
            (job'[x] = job[x]) \/ (~Holding(job[x]) /\ job'[x].args[1] \in DOMAIN db'.items)
  PROVE  Held'
<1> DEFINE next(x) == CASE ~Holding(job'[x]) -> None
                        [] Holding(job'[x]) /\ Holding(job[x]) /\ gone[x] = None /\ Arg(x, 1) \in K ->
                             db.items[Arg(x, 1)].exp
                        [] OTHER -> gone[x]
<1>1. gone' = [x \in Conns |-> next(x)]
  BY DEF Detach
<1>2. ASSUME NEW x \in Conns PROVE Keeps(job'[x], gone'[x], db'.items)
  <2>1. Keeps(job[x], gone[x], db.items) /\ Stored(db) /\ gone'[x] = next(x) /\ Arg(x, 1) = job[x].args[1]
    BY <1>1 DEF Inv, Held, Typed, Arg
  <2>2. CASE ~Holding(job'[x])
    BY <2>1, <2>2 DEF Keeps
  <2>3. CASE Holding(job'[x]) /\ ~Holding(job[x])
    <3>1. job'[x].args[1] \in DOMAIN db'.items
      BY <2>3
    <3>2. gone'[x] = gone[x] /\ gone[x] = None
      BY <2>1, <2>3 DEF Keeps
    <3> QED BY <3>1, <3>2 DEF Keeps
  <2>4. CASE Holding(job'[x]) /\ Holding(job[x])
    <3>1. job'[x] = job[x]
      BY <2>4
    <3>2. CASE gone[x] # None
      BY <2>1, <2>4, <3>1, <3>2 DEF Keeps
    <3>3. CASE gone[x] = None /\ Arg(x, 1) \in K
      <4>1. Arg(x, 1) \in DOMAIN db.items
        BY <2>1, <2>4, <3>3 DEF Keeps
      <4>2. db.items[Arg(x, 1)].exp \in Int
        BY <2>1, <4>1, AtMap DEF Stored
      <4>3. gone'[x] = db.items[Arg(x, 1)].exp
        BY <2>1, <2>4, <3>3
      <4> QED BY <2>4, <4>2, <4>3, NoneIs DEF Keeps
    <3>4. CASE gone[x] = None /\ Arg(x, 1) \notin K
      <4>1. Arg(x, 1) \in DOMAIN db.items /\ gone'[x] = None
        BY <2>1, <2>4, <3>4 DEF Keeps
      <4> QED BY <2>1, <2>4, <3>1, <3>4, <4>1 DEF Keeps
    <3> QED BY <3>2, <3>3, <3>4
  <2> QED BY <2>2, <2>3, <2>4
<1>3. gone' = [x \in Conns |-> gone'[x]]
  BY <1>1
<1> QED BY <1>2, <1>3 DEF Held

Fields == <<heard, job, out, auth>>

\* A step that leaves what is said alone.
LEMMA NothingSaid ==
  ASSUME Inv, password' = password, UNCHANGED Fields,
         sent' \in [Conns -> Seq(Str)], inbuf' \in [Conns -> Str], Stored(db'), now' \in Int, Held'
  PROVE  Inv'
<1>1. heard' = heard /\ job' = job /\ out' = out /\ auth' = auth
  BY DEF Fields
<1>2. Typed'
  BY <1>1 DEF Inv, Typed
<1>3. \A c \in Conns : Told(password', heard'[c], job'[c], out'[c], auth'[c])
  BY <1>1 DEF Inv
<1> QED BY <1>2, <1>3 DEF Inv

\* A step of connection c.
LEMMA OneSpeaks ==
  ASSUME Inv, NEW c \in Conns, password' = password,
         heard' = [x \in Conns |-> heard'[x]], job' = [x \in Conns |-> job'[x]],
         out' = [x \in Conns |-> out'[x]], auth' = [x \in Conns |-> auth'[x]],
         \A x \in Conns : x # c => /\ heard'[x] = heard[x] /\ job'[x] = job[x]
                                  /\ out'[x] = out[x] /\ auth'[x] = auth[x],
         Told(password, heard'[c], job'[c], out'[c], auth'[c]),
         sent' \in [Conns -> Seq(Str)], inbuf' \in [Conns -> Str], Stored(db'), now' \in Int, Held'
  PROVE  Inv'
<1>1. Typed'
  BY DEF Inv, Typed
<1>2. ASSUME NEW x \in Conns PROVE Told(password', heard'[x], job'[x], out'[x], auth'[x])
  <2>1. CASE x = c
    BY <2>1
  <2>2. CASE x # c
    BY <2>2 DEF Inv
  <2> QED BY <2>1, <2>2
<1> QED BY <1>1, <1>2 DEF Inv

LEMMA RepliedInv ==
  ASSUME Inv, NEW c \in Conns, job[c] # None, Replied(c)
  PROVE  Inv'
<1>1. PICK r, d : /\ Whole(r) /\ r[1] \in {"-"} \cup Kinds(job[c].cmd)
                  /\ Stored(d) /\ Reply(c, r, d)
  BY DEF Replied
<1>2. /\ password' = password /\ heard' = heard /\ auth' = auth /\ sent' = sent /\ inbuf' = inbuf
      /\ job' = [job EXCEPT ![c] = None] /\ out' = [out EXCEPT ![c] = out[c] \o r]
      /\ db' = d /\ now' = now
  BY <1>1 DEF Reply, Call, Write, setup
<1>3. Typed /\ Told(password, heard[c], job[c], out[c], auth[c])
  BY DEF Inv
<1>4. Told(password, heard[c], None, out[c] \o r, auth[c])
  BY <1>1, <1>3, ToldReply
<1>5. /\ job = [x \in Conns |-> job[x]] /\ out = [x \in Conns |-> out[x]]
      /\ heard = [x \in Conns |-> heard[x]] /\ auth = [x \in Conns |-> auth[x]]
  BY <1>3 DEF Typed
<1>6. job'[c] = None /\ out'[c] = out[c] \o r
  BY <1>2, <1>5
<1>7. /\ job' = [x \in Conns |-> job'[x]] /\ out' = [x \in Conns |-> out'[x]]
      /\ heard' = [x \in Conns |-> heard'[x]] /\ auth' = [x \in Conns |-> auth'[x]]
      /\ \A x \in Conns : x # c => /\ heard'[x] = heard[x] /\ job'[x] = job[x]
                                  /\ out'[x] = out[x] /\ auth'[x] = auth[x]
  BY <1>2, <1>5
<1>8. sent' \in [Conns -> Seq(Str)] /\ inbuf' \in [Conns -> Str] /\ Stored(db') /\ now' \in Int
  BY <1>1, <1>2, <1>3 DEF Typed
<1>9. Told(password, heard'[c], job'[c], out'[c], auth'[c])
  BY <1>2, <1>4, <1>6
<1>10. Held'
  <2>1. \E K : DOMAIN db.items \ DOMAIN db'.items \subseteq K /\ Detach(K)
    BY <1>1 DEF Reply, Call
  <2>2. \A x \in Conns : Holding(job'[x]) => job'[x] = job[x]
    BY <1>6, <1>7 DEF Holding
  <2> QED BY <2>1, <2>2, HeldCalled
<1> QED BY <1>2, <1>7, <1>8, <1>9, <1>10, OneSpeaks

LEMMA GotOnInv ==
  ASSUME Inv, NEW c \in Conns, job[c] # None, GotOn(c)
  PROVE  Inv'
<1>1. PICK k, d : /\ k \in Jobs /\ k.cmd = job[c].cmd /\ k.args = job[c].args
                  /\ k.cmd = "MSET" => k.at % 2 = 1
                  /\ Holding(k) => ~Holding(job[c]) /\ k.args[1] \in DOMAIN d.items
                  /\ Stored(d) /\ Go(c, k, d)
  BY DEF GotOn
<1>2. /\ password' = password /\ heard' = heard /\ auth' = auth /\ sent' = sent /\ inbuf' = inbuf
      /\ job' = [job EXCEPT ![c] = k] /\ out' = out
      /\ db' = d /\ now' = now
  BY <1>1 DEF Go, Call, setup
<1>3. Typed /\ Told(password, heard[c], job[c], out[c], auth[c])
  BY DEF Inv
<1>4. Told(password, heard[c], k, out[c], auth[c])
  BY <1>1, <1>3, ToldGo
<1>5. /\ job = [x \in Conns |-> job[x]] /\ out = [x \in Conns |-> out[x]]
      /\ heard = [x \in Conns |-> heard[x]] /\ auth = [x \in Conns |-> auth[x]]
  BY <1>3 DEF Typed
<1>6. job'[c] = k
  BY <1>2, <1>5
<1>7. /\ job' = [x \in Conns |-> job'[x]] /\ out' = [x \in Conns |-> out'[x]]
      /\ heard' = [x \in Conns |-> heard'[x]] /\ auth' = [x \in Conns |-> auth'[x]]
      /\ \A x \in Conns : x # c => /\ heard'[x] = heard[x] /\ job'[x] = job[x]
                                  /\ out'[x] = out[x] /\ auth'[x] = auth[x]
  BY <1>2, <1>5
<1>8. sent' \in [Conns -> Seq(Str)] /\ inbuf' \in [Conns -> Str] /\ Stored(db') /\ now' \in Int
  BY <1>1, <1>2, <1>3 DEF Typed
<1>9. Told(password, heard'[c], job'[c], out'[c], auth'[c])
  BY <1>2, <1>4, <1>6
<1>10. Held'
  <2>1. \E K : DOMAIN db.items \ DOMAIN db'.items \subseteq K /\ Detach(K)
    BY <1>1 DEF Go, Call
  <2>2. \A x \in Conns : Holding(job'[x]) =>
          (job'[x] = job[x]) \/ (~Holding(job[x]) /\ job'[x].args[1] \in DOMAIN db'.items)
    BY <1>1, <1>2, <1>6, <1>7
  <2> QED BY <2>1, <2>2, HeldCalled
<1> QED BY <1>2, <1>7, <1>8, <1>9, <1>10, OneSpeaks

LEMMA ReceiveInv ==
  ASSUME Inv, NEW c \in Conns, Receive(c)
  PROVE  Inv'
<1>1. Typed /\ sent[c] \in Seq(Str) /\ sent[c] # <<>> /\ inbuf[c] \in Str
  BY DEF Inv, Typed, Receive
<1>2. Head(sent[c]) \in Str /\ Tail(sent[c]) \in Seq(Str)
  BY <1>1, HeadTailProperties
<1>3. inbuf[c] \o Head(sent[c]) \in Str
  BY <1>1, <1>2, ConcatProperties DEF Str
<1>4. /\ inbuf' = [inbuf EXCEPT ![c] = inbuf[c] \o Head(sent[c])]
      /\ sent' = [sent EXCEPT ![c] = Tail(sent[c])]
      /\ password' = password /\ UNCHANGED Fields /\ db' = db /\ gone' = gone /\ now' = now
  BY DEF Receive, setup, cache, Fields
<1>5. sent' \in [Conns -> Seq(Str)] /\ inbuf' \in [Conns -> Str] /\ Stored(db') /\ now' \in Int
  BY <1>1, <1>2, <1>3, <1>4 DEF Typed
<1>6. Held'
  BY <1>4, HeldStays DEF Fields
<1> QED BY <1>4, <1>5, <1>6, NothingSaid

LEMMA InputTyped ==
  ASSUME Inv, NEW c \in Conns
  PROVE  Input(c) \in Inputs /\ Rest(c) \in Str
<1>1. inbuf[c] \in Str
  BY DEF Inv, Typed
<1>2. Input(c) \in Inputs
  BY <1>1, CommandTyped DEF Input
<1> QED BY <1>2 DEF Inputs, Rest

LEMMA TakeIs ==
  ASSUME Inv, NEW c \in Conns, Take(c)
  PROVE  /\ password' = password /\ job[c] = None /\ db' = db /\ gone' = gone
         /\ sent' \in [Conns -> Seq(Str)] /\ inbuf' \in [Conns -> Str] /\ Stored(db') /\ now' \in Int
<1>1. /\ inbuf' = [inbuf EXCEPT ![c] = Rest(c)] /\ job[c] = None
      /\ password' = password /\ sent' = sent /\ db' = db /\ gone' = gone /\ now' = now
  BY DEF Take, Reading, setup, cache
<1>2. Typed /\ Rest(c) \in Str
  BY InputTyped DEF Inv
<1> QED BY <1>1, <1>2 DEF Typed

\* A command is read, and answered at once.
LEMMA AtOnceInv ==
  ASSUME Inv, NEW c \in Conns, Hear(c),
         NEW r, Whole(r), r[1] \in {"-"} \cup Kinds(Command(Input(c).args)),
         r[1] # "-" => Command(Input(c).args) \in {"AUTH", "QUIT"},
         NEW b \in BOOLEAN,
         password # <<>> /\ b => auth[c] \/ Input(c).args = <<<<"AUTH">>, password>>,
         auth' = [auth EXCEPT ![c] = b], Write(c, r), job' = job
  PROVE  Inv'
<1> DEFINE x == Input(c).args
<1>1. x \in Heard
  <2>1. x \in Seq(Str)
    BY InputTyped DEF Inputs
  <2> QED BY <2>1 DEF Heard, Hear
<1>2. heard' = [heard EXCEPT ![c] = Append(heard[c], x)]
  BY DEF Hear
<1>3. out' = [out EXCEPT ![c] = out[c] \o r]
  BY DEF Write
<1>4. Typed /\ Told(password, heard[c], None, out[c], auth[c])
  BY TakeIs DEF Inv, Hear
<1> HIDE DEF x
<1>5. Told(password, Append(heard[c], x), None, out[c] \o r, b)
  <2>1. r[1] \in {"-"} \cup Kinds(Command(x)) /\ (r[1] # "-" => Command(x) \in {"AUTH", "QUIT"})
        /\ (password # <<>> /\ b => auth[c] \/ x = <<<<"AUTH">>, password>>)
    BY DEF x
  <2> QED BY <1>1, <1>4, <2>1, ToldAtOnce
<1>6. /\ job = [y \in Conns |-> job[y]] /\ out = [y \in Conns |-> out[y]]
      /\ heard = [y \in Conns |-> heard[y]] /\ auth = [y \in Conns |-> auth[y]]
  BY <1>4 DEF Typed
<1>7. heard'[c] = Append(heard[c], x) /\ job'[c] = None /\ out'[c] = out[c] \o r /\ auth'[c] = b
  <2>1. job[c] = None
    BY TakeIs DEF Hear
  <2> QED BY <1>2, <1>3, <1>6, <2>1
<1>8. /\ job' = [y \in Conns |-> job'[y]] /\ out' = [y \in Conns |-> out'[y]]
      /\ heard' = [y \in Conns |-> heard'[y]] /\ auth' = [y \in Conns |-> auth'[y]]
      /\ \A y \in Conns : y # c => /\ heard'[y] = heard[y] /\ job'[y] = job[y]
                                  /\ out'[y] = out[y] /\ auth'[y] = auth[y]
  BY <1>2, <1>3, <1>6
<1>9. Told(password, heard'[c], job'[c], out'[c], auth'[c])
  BY <1>5, <1>7
<1>10. /\ password' = password
       /\ sent' \in [Conns -> Seq(Str)] /\ inbuf' \in [Conns -> Str] /\ Stored(db') /\ now' \in Int
  BY TakeIs DEF Hear
<1>11. Held'
  BY TakeIs, HeldStays DEF Hear
<1> QED BY <1>8, <1>9, <1>10, <1>11, OneSpeaks

\* Only the right password is let in.
LEMMA AdmittedIs ==
  ASSUME NEW x \in Heard, Command(x) = "AUTH", Admitted(Tail(x))
  PROVE  x = <<<<"AUTH">>, password>>
<1>1. x \in Seq(Str) /\ x # <<>> /\ Len(x) \in Nat
  BY LenProperties DEF Heard
<1>2. Len(x) = 2
  <2>1. Len(Tail(x)) = 1 /\ Len(Tail(x)) = Len(x) - 1
    BY <1>1, HeadTailProperties DEF Admitted
  <2> QED BY <1>1, <2>1
<1>3. x[2] = password
  <2>1. Tail(x)[1] = password
    BY DEF Admitted
  <2>2. 1 \in 1..Len(x)-1
    BY <1>2
  <2>3. Tail(x)[1] = x[1 + 1] /\ 1 + 1 = 2
    BY <1>1, <2>2, HeadTailProperties
  <2>4. x[1 + 1] = x[2]
    BY <2>3
  <2> QED BY <2>1, <2>3, <2>4
<1>4. x[1] \in Str /\ Len(x[1]) = 1 /\ x[1][1] = "AUTH"
  <2>1. x[1] \in Str
    BY <1>1, <1>2, ElementOfSeq
  <2>2. Len(x[1]) = 1 /\ x[1][1] = "AUTH"
    BY DEF Command
  <2> QED BY <2>1, <2>2
<1>5. x[1] = <<"AUTH">>
  BY <1>4 DEF Str
<1>6. x = <<x[1], x[2]>>
  BY <1>1, <1>2
<1> QED BY <1>3, <1>5, <1>6

LEMMA AuthInv ==
  ASSUME Inv, NEW c \in Conns, Auth(c)
  PROVE  Inv'
<1> DEFINE x == Input(c).args
           b == auth[c] \/ Admitted(Tail(x))
           r == CASE password = <<>> -> RespErrorMsg("no password is set")
                  [] password # <<>> /\ Len(Tail(x)) # 1 -> RespErrorMsg("wrong number of arguments")
                  [] OTHER -> IF Admitted(Tail(x)) THEN RespOK ELSE RespErrorMsg("WRONGPASS")
<1>1. /\ Hear(c) /\ Command(x) = "AUTH" /\ auth' = [auth EXCEPT ![c] = b] /\ Write(c, r)
      /\ job' = job
  BY DEF Auth
<1>2. x \in Heard
  <2>1. x \in Seq(Str)
    BY InputTyped DEF Inputs
  <2> QED BY <1>1, <2>1 DEF Heard, Hear
<1>3. auth[c] \in BOOLEAN
  BY DEF Inv, Told
<1>4. b \in BOOLEAN
  BY <1>3 DEF Admitted
<1>5. b => auth[c] \/ x = <<<<"AUTH">>, password>>
  <2> HIDE DEF x
  <2> QED BY <1>1, <1>2, AdmittedIs
<1>6. \/ r = RespErrorMsg("no password is set") \/ r = RespErrorMsg("wrong number of arguments")
      \/ r = RespErrorMsg("WRONGPASS") \/ r = RespOK
  <2> HIDE DEF x
  <2> QED OBVIOUS
<1>7. Is(r, "-") \/ Is(r, "+")
  <2> HIDE DEF r
  <2> QED BY <1>6, RepliesAre
<1>8. "+" \in Kinds(Command(x))
  BY <1>1, KindsAre
<1> HIDE DEF b, r
<1>9. Whole(r) /\ r[1] \in {"-"} \cup Kinds(Command(x))
  BY <1>7, <1>8 DEF Is
<1> QED BY <1>1, <1>4, <1>5, <1>9, AtOnceInv

LEMMA QuitInv ==
  ASSUME Inv, NEW c \in Conns, Quit(c)
  PROVE  Inv'
<1> DEFINE x == Input(c).args
           b == auth[c]
<1>1. Hear(c) /\ Command(x) = "QUIT" /\ auth' = auth /\ Write(c, RespOK) /\ job' = job
  BY DEF Quit
<1>2. b \in BOOLEAN /\ auth = [y \in Conns |-> auth[y]]
  BY DEF Inv, Told, Typed
<1>3. auth' = [auth EXCEPT ![c] = b]
  BY <1>1, <1>2
<1>4. "+" \in Kinds(Command(x)) /\ Is(RespOK, "+")
  BY <1>1, KindsAre, RepliesAre
<1>5. Whole(RespOK) /\ RespOK[1] \in {"-"} \cup Kinds(Command(x))
  BY <1>4 DEF Is
<1> QED BY <1>1, <1>2, <1>3, <1>5, AtOnceInv

LEMMA RunInv ==
  ASSUME Inv, NEW c \in Conns, Run(c)
  PROVE  Inv'
<1> DEFINE x == Input(c).args
           j == [cmd |-> Command(x), args |-> Tail(x), at |-> 1, seen |-> FALSE, acc |-> <<>>,
                 val |-> <<>>, exp |-> 0]
           b == auth[c]
<1>1. /\ Hear(c) /\ auth' = auth
      /\ IF auth[c] THEN job' = [job EXCEPT ![c] = j] /\ out' = out
         ELSE Write(c, RespErrorMsg("NOAUTH")) /\ job' = job
  BY DEF Run
<1>2. Typed /\ b \in BOOLEAN /\ Told(password, heard[c], None, out[c], auth[c])
  BY <1>1, TakeIs DEF Inv, Told, Hear
<1>3. /\ job = [y \in Conns |-> job[y]] /\ out = [y \in Conns |-> out[y]]
      /\ heard = [y \in Conns |-> heard[y]] /\ auth = [y \in Conns |-> auth[y]]
  BY <1>2 DEF Typed
<1>4. CASE ~auth[c]
  <2>1. auth' = [auth EXCEPT ![c] = b]
    BY <1>1, <1>3
  <2>2. Whole(RespErrorMsg("NOAUTH")) /\ RespErrorMsg("NOAUTH")[1] = "-"
    BY RepliesAre DEF Is
  <2> QED BY <1>1, <1>2, <1>4, <2>1, <2>2, AtOnceInv
<1>5. CASE auth[c]
  <2>1. x \in Heard /\ x \in Seq(Str) /\ x # <<>>
    <3>1. x \in Seq(Str)
      BY InputTyped DEF Inputs
    <3> QED BY <1>1, <3>1 DEF Heard, Hear
  <2>2. heard' = [heard EXCEPT ![c] = Append(heard[c], x)]
    BY <1>1 DEF Hear
  <2>3. job' = [job EXCEPT ![c] = j] /\ out' = out
    BY <1>1, <1>5
  <2>4. j \in Jobs /\ j.cmd = Command(x) /\ j.args = Tail(x) /\ j.at = 1
    <3> HIDE DEF x
    <3>1. Command(x) \in Byte
      <4>1. x[1] \in Str
        <5>1. 1 \in 1..Len(x)
          BY <2>1
        <5> QED BY <2>1, <5>1, ElementOfSeq
      <4>2. ASSUME Len(x[1]) = 1 PROVE x[1][1] \in Byte
        BY <4>1, <4>2, ElementOfSeq DEF Str
      <4>3. "unknown" \in Byte
        <5>1. "unknown" \in Symbols
          BY DEF Symbols
        <5> QED BY <5>1, SymbolsAreBytes
      <4> QED BY <4>2, <4>3 DEF Command
    <3>2. Tail(x) \in Seq(Str)
      BY <2>1, HeadTailProperties
    <3>3. <<>> \in Seq(Str \cup {None}) /\ <<>> \in Str
      BY OneItem, EmptySeq DEF Str
    <3> DEFINE a == Tail(x)
               m == Command(x)
               e == <<>>
               i == [cmd |-> m, args |-> a, at |-> 1, seen |-> FALSE, acc |-> e, val |-> e, exp |-> 0]
    <3>4. /\ a \in Seq(Seq(STRING)) /\ m \in STRING /\ i = j
          /\ e \in Seq(Seq(STRING) \cup {None}) /\ e \in Seq(STRING)
      BY <3>1, <3>2, <3>3 DEF Str, Byte
    <3> HIDE DEF a, m, e
    <3>5. i \in Jobs /\ i.cmd = m /\ i.args = a /\ i.at = 1
      BY <3>4 DEF Jobs
    <3> HIDE DEF i, j
    <3> QED BY <3>4, <3>5 DEF a, m
  <2> HIDE DEF x, j
  <2>5. Told(password, Append(heard[c], x), j, out[c], auth[c])
    BY <1>2, <1>5, <2>1, <2>4, ToldRun
  <2>6. heard'[c] = Append(heard[c], x) /\ job'[c] = j /\ out'[c] = out[c] /\ auth'[c] = auth[c]
    BY <1>1, <1>3, <2>2, <2>3
  <2>7. /\ job' = [y \in Conns |-> job'[y]] /\ out' = [y \in Conns |-> out'[y]]
        /\ heard' = [y \in Conns |-> heard'[y]] /\ auth' = [y \in Conns |-> auth'[y]]
        /\ \A y \in Conns : y # c => /\ heard'[y] = heard[y] /\ job'[y] = job[y]
                                    /\ out'[y] = out[y] /\ auth'[y] = auth[y]
    BY <1>1, <1>3, <2>2, <2>3
  <2>8. Told(password, heard'[c], job'[c], out'[c], auth'[c])
    BY <2>5, <2>6
  <2>9. /\ password' = password
        /\ sent' \in [Conns -> Seq(Str)] /\ inbuf' \in [Conns -> Str] /\ Stored(db') /\ now' \in Int
    BY <1>1, TakeIs DEF Hear
  <2>10. Held'
    <3>1. ~Holding(j) /\ ~Holding(None)
      BY <2>4 DEF Holding
    <3>2. job[c] = None /\ db' = db /\ gone' = gone
      BY <1>1, TakeIs DEF Hear
    <3>3. /\ gone = [y \in Conns |-> gone[y]]
          /\ \A y \in Conns : Keeps(job[y], gone[y], db.items)
      BY DEF Inv, Held
    <3>4. \A y \in Conns : Keeps(job'[y], gone'[y], db'.items)
      BY <3>1, <3>2, <3>3, <2>6, <2>7 DEF Keeps
    <3>5. gone' = [y \in Conns |-> gone'[y]]
      BY <3>2, <3>3
    <3> QED BY <3>4, <3>5 DEF Held
  <2> QED BY <2>7, <2>8, <2>9, <2>10, OneSpeaks
<1> QED BY <1>4, <1>5

\* The steps of a connection that say nothing.
LEMMA SilentInv ==
  ASSUME Inv, NEW c \in Conns, Leave(c) \/ Reject(c) \/ Exhaust(c) \/ SkipEmpty(c) \/ Panic(c)
  PROVE  Inv'
<1>1. CASE Leave(c) \/ Reject(c) \/ Exhaust(c) \/ Panic(c)
  <2>1. /\ password' = password /\ UNCHANGED Fields
        /\ sent' = sent /\ inbuf' = inbuf /\ db' = db /\ gone' = gone /\ now' = now
    BY <1>1 DEF Leave, Reject, Exhaust, Panic, setup, cache, Fields
  <2>2. sent' \in [Conns -> Seq(Str)] /\ inbuf' \in [Conns -> Str] /\ Stored(db') /\ now' \in Int
    BY <2>1 DEF Inv, Typed
  <2>3. Held'
    BY <2>1, HeldStays DEF Fields
  <2> QED BY <2>1, <2>2, <2>3, NothingSaid
<1>2. CASE SkipEmpty(c)
  <2>1. UNCHANGED Fields /\ Take(c)
    BY <1>2 DEF SkipEmpty, Fields
  <2>2. Held'
    BY <2>1, TakeIs, HeldStays DEF Fields
  <2> QED BY <2>1, <2>2, TakeIs, NothingSaid
<1> QED BY <1>1, <1>2

LEMMA NextInv == Inv /\ [Next]_vars => Inv'
<1> SUFFICES ASSUME Inv, [Next]_vars PROVE Inv'
  OBVIOUS
<1>1. ASSUME NEW c \in Conns, Receive(c) PROVE Inv'
  BY <1>1, ReceiveInv
<1>2. ASSUME NEW c \in Conns, Leave(c) PROVE Inv'
  BY <1>2, SilentInv
<1>3. ASSUME NEW c \in Conns, Serve(c) PROVE Inv'
  <2>1. CASE Reject(c) \/ Exhaust(c) \/ SkipEmpty(c)
    BY <2>1, SilentInv
  <2>2. CASE Auth(c)
    BY <2>2, AuthInv
  <2>3. CASE Quit(c)
    BY <2>3, QuitInv
  <2>4. CASE Run(c)
    BY <2>4, RunInv
  <2>5. CASE executeCommand(c)
    <3>1. job[c] # None /\ (Replied(c) \/ GotOn(c) \/ Panic(c))
      BY <2>5, CommandStep
    <3> QED BY <3>1, RepliedInv, GotOnInv, SilentInv
  <2> QED BY <1>3, <2>1, <2>2, <2>3, <2>4, <2>5 DEF Serve
<1>4. CASE Tick
  <2>1. /\ password' = password /\ UNCHANGED Fields
        /\ sent' = sent /\ inbuf' = inbuf /\ db' = db /\ gone' = gone /\ now' = now + 1
    BY <1>4 DEF Tick, setup, conn, cache, Fields
  <2>2. sent' \in [Conns -> Seq(Str)] /\ inbuf' \in [Conns -> Str] /\ Stored(db') /\ now' \in Int
    BY <2>1 DEF Inv, Typed
  <2>3. Held'
    BY <2>1, HeldStays DEF Fields
  <2> QED BY <2>1, <2>2, <2>3, NothingSaid
<1>5. ASSUME NEW k \in DOMAIN db.items, ExpireByTTL(k) PROVE Inv'
  <2>1. /\ password' = password /\ UNCHANGED Fields
        /\ sent' = sent /\ inbuf' = inbuf /\ db' = Without(k) /\ now' = now /\ Detach({k})
    BY <1>5 DEF ExpireByTTL, setup, conn, Fields
  <2>2. Stored(db)
    BY DEF Inv, Typed
  <2>3. k \in Str
    BY <2>2, AtMap DEF Stored
  <2>4. Stored(Without(k))
    BY <2>2, <2>3, CallsStore
  <2>5. sent' \in [Conns -> Seq(Str)] /\ inbuf' \in [Conns -> Str] /\ Stored(db') /\ now' \in Int
    BY <2>1, <2>4 DEF Inv, Typed
  <2>6. DOMAIN db.items \ DOMAIN db'.items \subseteq {k}
    BY <2>1 DEF Without, Drop, Restrict
  <2>7. Held'
    <3>1. \A x \in Conns : job'[x] = job[x]
      BY <2>1 DEF Fields
    <3> QED BY <2>1, <2>6, <3>1, HeldCalled
  <2> QED BY <2>1, <2>5, <2>7, NothingSaid
<1>6. CASE UNCHANGED vars
  <2>1. /\ password' = password /\ UNCHANGED Fields
        /\ sent' = sent /\ inbuf' = inbuf /\ db' = db /\ gone' = gone /\ now' = now
    BY <1>6 DEF vars, setup, conn, cache, Fields
  <2>2. sent' \in [Conns -> Seq(Str)] /\ inbuf' \in [Conns -> Str] /\ Stored(db') /\ now' \in Int
    BY <2>1 DEF Inv, Typed
  <2>3. Held'
    BY <2>1, HeldStays DEF Fields
  <2> QED BY <2>1, <2>2, <2>3, NothingSaid
<1> QED BY <1>1, <1>2, <1>3, <1>4, <1>5, <1>6 DEF Next

\* What every reachable state satisfies.
THEOREM InvHolds == Spec => []Inv
<1>1. Init => Inv
  BY InitHolds
<1>2. Inv /\ [Next]_vars => Inv'
  BY NextInv
<1> QED BY <1>1, <1>2, PTL DEF Spec

\* Whatever the clients send, however it is cut and whatever the values contain: what is
\* written to a connection falls into one reply for each command answered, each of the kind
\* its command has or an error (handleConnection, the resp builders).
THEOREM RepliesAreFramed == Spec => []RepliesFramed
<1>1. Inv => RepliesFramed
  <2> SUFFICES ASSUME Inv, NEW c \in Conns
               PROVE  /\ Len(Answers(c)) = Len(heard[c]) - IF job[c] = None THEN 0 ELSE 1
                      /\ \A i \in DOMAIN Answers(c) :
                           Answers(c)[i] \in {"-"} \cup Kinds(Command(heard[c][i]))
    BY DEF RepliesFramed
  <2>1. Told(password, heard[c], job[c], out[c], auth[c])
    BY DEF Inv
  <2>2. Answers(c) = Replies(out[c]) /\ DOMAIN Replies(out[c]) = 1..Len(Replies(out[c]))
    BY <2>1, RepliesTyped, LenProperties DEF Answers, Told
  <2> QED BY <2>1, <2>2 DEF Told
<1> QED BY <1>1, InvHolds, PTL

\* With a password set, a command other than AUTH and QUIT gets an error unless the right
\* password came before it on the same connection (handleConnection).
THEOREM AuthComesFirst == Spec => []AuthFirst
<1>1. Inv => AuthFirst
  <2> SUFFICES ASSUME Inv, password # <<>>, NEW c \in Conns, NEW i \in DOMAIN Answers(c),
                      Answers(c)[i] # "-", Command(heard[c][i]) \notin {"AUTH", "QUIT"}
               PROVE  \E j \in 1..i-1 : heard[c][j] = <<<<"AUTH">>, password>>
    BY DEF AuthFirst
  <2>1. Told(password, heard[c], job[c], out[c], auth[c])
    BY DEF Inv
  <2>2. Answers(c) = Replies(out[c]) /\ DOMAIN Replies(out[c]) = 1..Len(Replies(out[c]))
    BY <2>1, RepliesTyped, LenProperties DEF Answers, Told
  <2>3. Shown(password, heard[c], i - 1)
    BY <2>1, <2>2 DEF Told
  <2> QED BY <2>3 DEF Shown
<1> QED BY <1>1, InvHolds, PTL

-------------------------------------------------------------------------------
(* What is left of a stream: u[i] is what follows the first i of seqs, when t *)
(* follows them all.                                                          *)

Follows(seqs, t, u) ==
  /\ u \in [0..Len(seqs) -> Str] /\ u[Len(seqs)] = t
  /\ \A i \in 1..Len(seqs) : u[i-1] = seqs[i] \o u[i]

\* u goes on where g, which puts seqs one behind the other, stops
Splits(seqs, t, g, u) == \A i \in 0..Len(seqs) : g[Len(seqs)] \o t = g[i] \o u[i]

\* What follows each of seqs exists, and goes on where the front stops.
LEMMA FollowsExists ==
  ASSUME NEW seqs \in Seq(Str), NEW t \in Str, NEW g, Flattens(seqs, Byte, g)
  PROVE  \E u : Follows(seqs, t, u) /\ Splits(seqs, t, g, u)
<1> DEFINE n == Len(seqs)
           f == [p \in (1..n) \X Str |-> seqs[n - p[1] + 1] \o p[2]]
<1>1. n \in Nat /\ \A i \in 1..n : seqs[i] \in Str
  BY LenProperties, ElementOfSeq
<1>2. \A i \in 1..n, a \in Str : f[<<i, a>>] = seqs[n - i + 1] \o a
  OBVIOUS
<1>3. f \in [(1..n) \X Str -> Str]
  <2>1. \A i \in 1..n : n - i + 1 \in 1..n
    BY <1>1
  <2>2. \A i \in 1..n, a \in Str : seqs[n - i + 1] \o a \in Str
    BY <1>1, <2>1, ConcatProperties DEF Str
  <2> QED BY <2>2
<1> HIDE DEF f, n
<1>4. PICK h : Chain(h, n, Str, t, f)
  BY <1>1, <1>3, ChainExists
<1>5. /\ h \in [0..n -> Str] /\ h[0] = t
      /\ \A i \in 1..n : h[i] = seqs[n - i + 1] \o h[i-1]
  <2> SUFFICES ASSUME NEW i \in 1..n PROVE h[i] = seqs[n - i + 1] \o h[i-1]
    BY <1>4 DEF Chain
  <2>1. i - 1 \in 0..n /\ h[i] = f[<<i, h[i-1]>>]
    BY <1>1, <1>4 DEF Chain
  <2>2. h[i-1] \in Str
    BY <2>1, <1>4 DEF Chain
  <2> QED BY <2>1, <2>2, <1>2
<1> DEFINE u == [i \in 0..n |-> h[n - i]]
<1>6. \A i \in 0..n : n - i \in 0..n /\ n - (n - i) = i /\ u[i] = h[n - i] /\ u[n - i] = h[i]
  BY <1>1
<1>7. u \in [0..n -> Str] /\ u[n] = t
  <2>1. u[n] = h[0]
    <3>1. 0 \in 0..n /\ n - 0 = n
      BY <1>1
    <3> HIDE DEF u
    <3> QED BY <3>1, <1>6
  <2> QED BY <2>1, <1>5, <1>6
<1> HIDE DEF u
<1>8. ASSUME NEW i \in 1..n PROVE u[i-1] = seqs[i] \o u[i]
  <2>1. /\ n - i + 1 \in 1..n /\ n - (n - i + 1) + 1 = i /\ (n - i + 1) - 1 = n - i
        /\ i \in 0..n /\ i - 1 \in 0..n /\ n - (i - 1) = n - i + 1
    BY <1>1
  <2>2. h[n - i + 1] = seqs[i] \o h[n - i]
    BY <2>1, <1>5
  <2> QED BY <2>1, <2>2, <1>6
<1>9. Follows(seqs, t, u)
  BY <1>7, <1>8 DEF Follows, n
<1> DEFINE Same(k) == g[n] \o t = g[k] \o u[k]
           I == {i \in Nat : i <= n => Same(n - i)}
<1>10. 0 \in I
  <2>1. n - 0 = n
    BY <1>1
  <2> QED BY <2>1, <1>7
<1>11. ASSUME NEW i \in Nat, i \in I PROVE i + 1 \in I
  <2> SUFFICES ASSUME i + 1 <= n PROVE Same(n - (i + 1))
    <3> HIDE DEF Same
    <3> QED OBVIOUS
  <2> DEFINE k == n - i
  <2>0. k \in 1..n /\ k \in 0..n /\ k - 1 \in 0..n /\ n - (i + 1) = k - 1 /\ i <= n
    BY <1>1
  <2>1. Same(k)
    BY <2>0, <1>11 DEF k
  <2> HIDE DEF k
  <2>2. g[k] = g[k-1] \o seqs[k] /\ g[k-1] \in Str /\ seqs[k] \in Str
    BY <1>1, <2>0 DEF Flattens, Str, n
  <2>3. u[k-1] = seqs[k] \o u[k] /\ u[k] \in Str
    BY <1>7, <1>8, <2>0
  <2>4. (g[k-1] \o seqs[k]) \o u[k] = g[k-1] \o (seqs[k] \o u[k])
    <3> DEFINE a == g[k-1]
               b == seqs[k]
               c == u[k]
    <3>1. a \in Str /\ b \in Str /\ c \in Str
      BY <2>2, <2>3
    <3> HIDE DEF a, b, c
    <3>2. (a \o b) \o c = a \o (b \o c)
      BY <3>1, ConcatTwice, Zenon
    <3> QED BY <3>2 DEF a, b, c
  <2> QED BY <2>0, <2>1, <2>2, <2>3, <2>4
<1>12. Nat \subseteq I
  <2> HIDE DEF I
  <2> QED BY <1>10, <1>11, NatInduct
<1>13. ASSUME NEW i \in 0..n PROVE g[n] \o t = g[i] \o u[i]
  <2>1. n - i \in Nat /\ n - i <= n /\ n - (n - i) = i
    BY <1>1
  <2> HIDE DEF I
  <2>2. n - i \in I
    BY <2>1, <1>12
  <2>3. Same(n - (n - i))
    BY <2>1, <2>2 DEF I
  <2> QED BY <2>1, <2>3
<1>14. Splits(seqs, t, g, u)
  BY <1>13 DEF Splits, n
<1> QED BY <1>9, <1>14

\* The whole stream is what follows nothing.
LEMMA StreamFollows ==
  ASSUME NEW seqs \in Seq(Str), NEW t \in Str
  PROVE  \E u : Follows(seqs, t, u) /\ u[0] = FlattenSeq(seqs) \o t
<1>1. PICK g : Flattens(seqs, Byte, g) /\ FlattenSeq(seqs) = g[Len(seqs)]
  BY FlattenIs DEF Str
<1>2. PICK u : Follows(seqs, t, u) /\ Splits(seqs, t, g, u)
  BY <1>1, FollowsExists
<1>3. 0 \in 0..Len(seqs) /\ g[0] = <<>>
  BY <1>1, LenProperties DEF Flattens
<1>4. <<>> \o u[0] = u[0]
  BY <1>2, <1>3, ConcatEmptySeq DEF Follows, Str
<1>5. g[Len(seqs)] \o t = g[0] \o u[0]
  BY <1>2, <1>3 DEF Splits
<1> QED BY <1>1, <1>2, <1>3, <1>4, <1>5

\* What is left of the pieces of a text is what is left of the text.
LEMMA CutFollows ==
  ASSUME NEW s \in Str, NEW n \in Nat \ {0}
  PROVE  \E v : Follows(Cut(s, n), <<>>, v) /\ v[0] = s
<1> DEFINE l == Len(s)
           m == (l + n - 1) \div n
           upto(i) == IF n * i < l THEN n * i ELSE l
           v == [i \in 0..m |-> SubSeq(s, upto(i) + 1, l)]
<1>1. l \in Nat
  BY LenProperties DEF Str
<1>2. m \in Nat /\ n * m >= l
  <2> HIDE DEF l
  <2>1. l + n - 1 \in Nat
    BY <1>1
  <2> DEFINE x == l + n - 1
             r == x % n
  <2>2. x = n * (x \div n) + r /\ r \in 0..n-1 /\ x \div n \in Nat
    <3>1. x \in Nat
      BY <2>1
    <3> HIDE DEF x
    <3>2. r \in 0..n-1
      BY <3>1
    <3>3. x \div n \in Nat
      BY <3>1
    <3>4. x = n * (x \div n) + r
      BY <3>1
    <3> QED BY <3>2, <3>3, <3>4
  <2>3. x = l + n - 1 /\ m = x \div n
    OBVIOUS
  <2> HIDE DEF x, m, r
  <2> DEFINE y == n * m
  <2>4. x = y + r /\ y \in Nat
    BY <2>2, <2>3
  <2> HIDE DEF y
  <2>5. y >= l
    BY <2>2, <2>3, <2>4, <1>1
  <2> QED BY <2>5, <2>3, <2>2 DEF y
<1>3. Cut(s, n) = [i \in 1..m |-> SubSeq(s, n * (i - 1) + 1, upto(i))]
  BY DEF Cut
<1>4. Cut(s, n) \in Seq(Str)
  BY CutTyped
<1> DEFINE q == Cut(s, n)
<1>5. Len(q) = m /\ \A i \in 1..m : q[i] = SubSeq(s, n * (i - 1) + 1, upto(i))
  <2> HIDE DEF m, upto
  <2>1. DOMAIN q = 1..m
    BY <1>3
  <2>2. DOMAIN q = 1..Len(q) /\ Len(q) \in Nat
    BY <1>4, LenProperties
  <2> HIDE DEF q
  <2>3. Len(q) = m
    BY <1>2, <2>1, <2>2
  <2> QED BY <1>3, <2>3 DEF q
<1>6. \A i \in 0..m : upto(i) \in 0..l
  <2> HIDE DEF l, m
  <2> TAKE i \in 0..m
  <2>1. n * i \in Nat
    BY <1>2
  <2> QED BY <2>1, <1>1
<1>7. upto(0) = 0 /\ upto(m) = l
  <2> HIDE DEF l, m
  <2> QED BY <1>1, <1>2
<1>8. \A i \in 1..m : i \in 0..m /\ i - 1 \in 0..m /\ upto(i-1) <= upto(i)
                      /\ (n * (i - 1) < l \/ upto(i-1) = l)
  <2> HIDE DEF l, m
  <2> TAKE i \in 1..m
  <2>1. n * (i - 1) = n * i - n /\ n * i \in Nat
    BY <1>2
  <2> QED BY <2>1, <1>1, <1>2
<1> HIDE DEF m, q, l, upto
<1>9. ASSUME NEW i \in 0..m PROVE v[i] = SubSeq(s, upto(i) + 1, l) /\ v[i] \in Str
  BY <1>1, <1>6, Suffix DEF l
<1>10. v[0] = s
  <2>1. 0 \in 0..m
    BY <1>2
  <2> HIDE DEF v
  <2>2. v[0] = SubSeq(s, 1, l)
    BY <2>1, <1>7, <1>9
  <2>3. SubSeq(s, 1, l) = s
    BY SubSeqFull DEF Str, l
  <2> QED BY <2>2, <2>3
<1>11. v[m] = <<>>
  BY <1>1, <1>2, <1>7, <1>9, SubSeqEmpty
<1>12. ASSUME NEW i \in 1..m PROVE v[i-1] = q[i] \o v[i]
  <2> DEFINE a == upto(i-1)
             b == upto(i)
  <2>1. a \in 0..l /\ b \in 0..l /\ a <= b
    BY <1>6, <1>8
  <2>2. v[i-1] = SubSeq(s, a + 1, l) /\ v[i] = SubSeq(s, b + 1, l) /\ v[i] \in Str
    BY <1>8, <1>9
  <2>3. q[i] = SubSeq(s, a + 1, b)
    <3>1. CASE n * (i - 1) < l
      BY <3>1, <1>5 DEF upto
    <3>2. CASE ~(n * (i - 1) < l)
      <4>1. a = l /\ b = l
        BY <3>2, <1>8, <2>1, <1>1
      <4>2. SubSeq(s, n * (i - 1) + 1, b) = <<>> /\ SubSeq(s, a + 1, b) = <<>>
        <5>1. n * (i - 1) \in Int /\ n * (i - 1) + 1 \in Int /\ l < n * (i - 1) + 1
          BY <3>2, <1>1, <1>2
        <5> HIDE DEF a, b
        <5> QED BY <4>1, <5>1, <1>1, SubSeqEmpty
      <4> QED BY <4>2, <1>5
    <3> QED BY <3>1, <3>2
  <2> HIDE DEF a, b
  <2>4. a + 1 \in 1..Len(s)+1 /\ b \in (a + 1)-1..Len(s) /\ l \in b..Len(s)
    BY <2>1, <1>1 DEF l
  <2>5. SubSeq(s, a + 1, b) \o SubSeq(s, b + 1, l) = SubSeq(s, a + 1, l)
    BY <2>4, ConcatAdjacentSubSeq DEF Str
  <2> QED BY <2>2, <2>3, <2>5
<1>13. v \in [0..m -> Str]
  <2> SUFFICES ASSUME NEW i \in 0..m PROVE SubSeq(s, upto(i) + 1, l) \in Str
    OBVIOUS
  <2> QED BY <1>9
<1> HIDE DEF v
<1>14. Follows(q, <<>>, v)
  BY <1>5, <1>11, <1>12, <1>13 DEF Follows
<1> QED BY <1>10, <1>14 DEF q

-------------------------------------------------------------------------------
(* The parser again: a command that is there is not changed by what comes    *)
(* after it.                                                                 *)

\* The front and the rest of a text do not depend on what comes after.
LEMMA FrontOfConcat ==
  ASSUME NEW s \in Str, NEW t \in Str, NEW n \in 0..Len(s)
  PROVE  SubSeq(s \o t, 1, n) = SubSeq(s, 1, n)
<1>1. Len(s) \in Nat
  BY LenProperties DEF Str
<1>2. CASE n = 0
  BY <1>2, SubSeqEmpty
<1>3. CASE n # 0
  <2>1. 1 \in 1..Len(s) /\ n \in 1..Len(s)
    BY <1>1, <1>3
  <2> QED BY <2>1, SubSeqOfConcat1 DEF Str
<1> QED BY <1>2, <1>3

\* A bulk string of n symbols is there: q is what follows its line.
BulkThere(s) == BulkSized(s) /\ Len(ReadLine(s).rest) >= Count(s) + 2

\* A bulk string is read once its last byte is there.
LEMMA ReadBulkIs ==
  ASSUME NEW s \in Str
  PROVE  /\ ReadBulk(s).is = "done" => BulkThere(s)
         /\ BulkThere(s) => LET q == ReadLine(s).rest IN
              ReadBulk(s) = Done(<<SubSeq(q, 1, Count(s))>>, SubSeq(q, Count(s) + 3, Len(q)))
<1> DEFINE q == ReadLine(s).rest
           n == Count(s)
           d == Done(<<SubSeq(q, 1, n)>>, SubSeq(q, n + 3, Len(q)))
<1>1. ReadLine(s).is # "done" => ReadBulk(s) = ReadLine(s)
  BY ReadersAre
<1>2. ReadLine(s).is = "done" /\ ~BulkSized(s) => ReadBulk(s) \in {Err, Fatal}
  BY ReadersAre
<1>3. BulkSized(s) => ReadBulk(s) = IF Len(q) < n + 2 THEN More ELSE d
  BY ReadersAre
<1>4. More.is # "done" /\ Err.is # "done" /\ Fatal.is # "done"
  BY DEF More, Err, Fatal
<1>5. BulkSized(s) => Len(q) \in Nat /\ n \in Int
  BY SizedIs, CountIs, LenProperties DEF Str
<1>6. BulkThere(s) <=> BulkSized(s) /\ Len(q) >= n + 2
  BY DEF BulkThere
<1> HIDE DEF q, n, d
<1>7. ASSUME ReadBulk(s).is = "done" PROVE BulkThere(s)
  <2>1. BulkSized(s)
    BY <1>1, <1>2, <1>4, <1>7
  <2>2. ~(Len(q) < n + 2)
    BY <1>3, <1>4, <1>7, <2>1
  <2> QED BY <1>5, <1>6, <2>1, <2>2
<1>8. ASSUME BulkThere(s) PROVE ReadBulk(s) = d
  <2>1. BulkSized(s) /\ ~(Len(q) < n + 2)
    BY <1>5, <1>6, <1>8
  <2> QED BY <2>1, <1>3
<1> QED BY <1>7, <1>8 DEF d, q, n

\* A bulk string that is read is read with anything behind it.
LEMMA ReadBulkExtends ==
  ASSUME NEW s \in Str, NEW t \in Str, ReadBulk(s).is = "done"
  PROVE  ReadBulk(s \o t) = Done(ReadBulk(s).args, ReadBulk(s).rest \o t)
<1> DEFINE q == ReadLine(s).rest
           n == Count(s)
<1>1. BulkThere(s)
  BY ReadBulkIs
<1>2. /\ BulkSized(s) /\ ReadLine(s).is = "done" /\ Counted(s, "$") /\ n \in Nat
      /\ Len(q) >= n + 2
  BY <1>1, SizedIs DEF BulkThere
<1>3. q \in Str /\ n \in Nat /\ Len(q) \in Nat
  BY <1>2, CountIs, LenProperties DEF Str
<1>4. BulkSized(s \o t) /\ Count(s \o t) = n /\ ReadLine(s \o t).rest = q \o t
  BY <1>2, CountExtends, SizedExtends
<1>5. s \o t \in Str /\ q \o t \in Str /\ Len(q \o t) = Len(q) + Len(t) /\ Len(t) \in Nat
  BY <1>3, ConcatProperties, LenProperties DEF Str
<1>6. ReadBulk(s) = Done(<<SubSeq(q, 1, n)>>, SubSeq(q, n + 3, Len(q)))
  BY <1>1, ReadBulkIs
<1> HIDE DEF q, n
<1>7. BulkThere(s \o t)
  <2>1. Len(q \o t) >= n + 2
    BY <1>2, <1>3, <1>5
  <2> QED BY <1>2, <1>4, <2>1 DEF BulkThere
<1>8. ReadBulk(s \o t) = Done(<<SubSeq(q \o t, 1, n)>>, SubSeq(q \o t, n + 3, Len(q \o t)))
  BY <1>4, <1>5, <1>7, ReadBulkIs
<1>9. SubSeq(q \o t, 1, n) = SubSeq(q, 1, n)
  <2>1. n \in 0..Len(q)
    BY <1>2, <1>3
  <2> QED BY <2>1, <1>3, FrontOfConcat
<1>10. SubSeq(q \o t, n + 3, Len(q \o t)) = SubSeq(q, n + 3, Len(q)) \o t
  <2>1. n + 2 \in 0..Len(q) /\ n + 3 = (n + 2) + 1
    BY <1>2, <1>3
  <2>2. SubSeq(q \o t, (n + 2) + 1, Len(q \o t)) = SubSeq(q, (n + 2) + 1, Len(q)) \o t
    BY <1>3, <2>1, SuffixOfConcat
  <2> QED BY <2>1, <2>2
<1>11. ReadBulk(s).args = <<SubSeq(q, 1, n)>> /\ ReadBulk(s).rest = SubSeq(q, n + 3, Len(q))
  BY <1>6, DoneFields
<1> QED BY <1>8, <1>9, <1>10, <1>11

\* One bulk string more is read only behind those that are.
LEMMA OneMoreIs ==
  ASSUME NEW r \in Inputs
  PROVE  /\ r.is # "done" => OneMore(r) = r
         /\ r.is = "done" => LET b == ReadBulk(r.rest) IN
              /\ b \in Inputs /\ r.args \in Seq(Str) /\ r.rest \in Str
              /\ OneMore(r).is = b.is
              /\ b.is = "done" => OneMore(r) = Done(r.args \o b.args, b.rest)
<1> DEFINE b == ReadBulk(r.rest)
           a == r.args \o b.args
<1>1. b \in Inputs /\ r.rest \in Str /\ r.args \in Seq(Str)
  BY ReadBulkTyped DEF Inputs
<1>2. OneMore(r) = IF r.is = "done" THEN [b EXCEPT !.args = a] ELSE r
  BY DEF OneMore
<1> HIDE DEF a, b
<1>3. [b EXCEPT !.args = a] = [is |-> b.is, args |-> a, rest |-> b.rest]
  BY <1>1 DEF Inputs
<1>4. r.is = "done" => OneMore(r).is = b.is
  BY <1>2, <1>3
<1>5. r.is = "done" /\ b.is = "done" => OneMore(r) = Done(a, b.rest)
  BY <1>2, <1>3 DEF Done
<1> QED BY <1>1, <1>2, <1>4, <1>5 DEF a, b

\* One bulk string more is the same one with anything behind it.
LEMMA OneMoreExtends ==
  ASSUME NEW r \in Inputs, NEW t \in Str, OneMore(r).is = "done"
  PROVE  /\ r.is = "done"
         /\ OneMore(Done(r.args, r.rest \o t)) = Done(OneMore(r).args, OneMore(r).rest \o t)
<1> DEFINE x == Done(r.args, r.rest \o t)
           b == ReadBulk(r.rest)
           d == ReadBulk(r.rest \o t)
<1>1. r.is = "done"
  BY OneMoreIs
<1>2. b \in Inputs /\ r.rest \in Str /\ r.args \in Seq(Str) /\ b.is = "done"
      /\ OneMore(r) = Done(r.args \o b.args, b.rest)
  <2>1. /\ b \in Inputs /\ r.args \in Seq(Str) /\ r.rest \in Str
        /\ OneMore(r).is = b.is
        /\ b.is = "done" => OneMore(r) = Done(r.args \o b.args, b.rest)
    BY <1>1, OneMoreIs
  <2> HIDE DEF b
  <2> QED BY <2>1
<1>3. d = Done(b.args, b.rest \o t)
  BY <1>2, ReadBulkExtends
<1>4. r.rest \o t \in Str
  BY <1>2, ConcatProperties DEF Str
<1>5. x \in Inputs /\ x.is = "done" /\ x.args = r.args /\ x.rest = r.rest \o t
  <2> DEFINE z == r.rest \o t
  <2>1. z \in Str /\ r.args \in Seq(Str)
    BY <1>2, <1>4
  <2> HIDE DEF z
  <2>2. Done(r.args, z) \in Inputs /\ Done(r.args, z).is = "done"
        /\ Done(r.args, z).args = r.args /\ Done(r.args, z).rest = z
    BY <2>1, InputsAre, DoneIs
  <2> QED BY <2>2 DEF z
<1> HIDE DEF x, b, d
<1>6. d.is = "done" /\ d.args = b.args /\ d.rest = b.rest \o t
  <2>1. \A v, w : d = Done(v, w) => d.is = "done" /\ d.args = v /\ d.rest = w
    BY DoneIs
  <2> QED BY <1>3, <2>1, Zenon
<1>7. OneMore(x) = Done(r.args \o b.args, b.rest \o t)
  <2>1. ReadBulk(x.rest) = d
    BY <1>5 DEF d
  <2>2. OneMore(x) = Done(x.args \o d.args, d.rest)
    BY <1>5, <1>6, <2>1, OneMoreIs
  <2> QED BY <2>2, <1>5, <1>6
<1>8. OneMore(r).args = r.args \o b.args /\ OneMore(r).rest = b.rest
  <2> DEFINE o == OneMore(r)
  <2>1. \A v, w : o = Done(v, w) => o.args = v /\ o.rest = w
    BY DoneIs
  <2>2. o = Done(r.args \o b.args, b.rest)
    BY <1>2
  <2> HIDE DEF o
  <2>3. o.args = r.args \o b.args /\ o.rest = b.rest
    BY <2>1, <2>2, Zenon
  <2> QED BY <2>3 DEF o
<1> QED BY <1>1, <1>7, <1>8 DEF x

\* So are all the bulk strings of an array, one after the other.
LEMMA MultireadsExtend ==
  ASSUME NEW q \in Str, NEW t \in Str, NEW n \in Nat, NEW g, Multireads(q, n, g),
         NEW h, Multireads(q \o t, n, h), NEW i \in 0..n, g[i].is = "done"
  PROVE  h[i] = Done(g[i].args, g[i].rest \o t)
<1> DEFINE P(r) == g[r].is = "done" => h[r] = Done(g[r].args, g[r].rest \o t)
           I == {r \in Nat : r <= n => P(r)}
<1>1. 0 \in I
  <2>1. g[0] = Done(<<>>, q) /\ h[0] = Done(<<>>, q \o t)
    BY DEF Multireads
  <2>2. g[0].rest = q /\ g[0].args = <<>>
    BY <2>1, DoneFields
  <2> QED BY <2>1, <2>2
<1>2. ASSUME NEW r \in Nat, r \in I PROVE r + 1 \in I
  <2> SUFFICES ASSUME r + 1 <= n, g[r+1].is = "done"
               PROVE  h[r+1] = Done(g[r+1].args, g[r+1].rest \o t)
    OBVIOUS
  <2>1. r + 1 \in 1..n /\ (r + 1) - 1 = r /\ r \in 0..n
    OBVIOUS
  <2>2. g[r+1] = OneMore(g[r]) /\ h[r+1] = OneMore(h[r]) /\ g[r] \in Inputs
    BY <2>1 DEF Multireads
  <2>3. /\ g[r].is = "done"
        /\ OneMore(Done(g[r].args, g[r].rest \o t)) = Done(g[r+1].args, g[r+1].rest \o t)
    BY <2>2, OneMoreExtends
  <2>4. h[r] = Done(g[r].args, g[r].rest \o t)
    BY <1>2, <2>1, <2>3
  <2> QED BY <2>2, <2>3, <2>4
<1>3. i \in I
  <2>1. i \in Nat
    OBVIOUS
  <2> HIDE DEF I
  <2> QED BY <2>1, <1>1, <1>2, NatInduct
<1> QED BY <1>3

\* An array that is read is read with anything behind it.
LEMMA ReadMultibulkExtends ==
  ASSUME NEW s \in Str, NEW t \in Str, ReadMultibulk(s).is = "done"
  PROVE  ReadMultibulk(s \o t) = Done(ReadMultibulk(s).args, ReadMultibulk(s).rest \o t)
<1>1. ArraySized(s) /\ ReadLine(s).is = "done"
  <2>1. Err.is # "done" /\ Fatal.is # "done"
    BY DEF Err, Fatal
  <2>2. ReadLine(s).is # "done" => ReadMultibulk(s) = ReadLine(s)
    BY ReadersAre
  <2>3. ReadLine(s).is = "done" /\ ~ArraySized(s) => ReadMultibulk(s) \in {Err, Fatal}
    BY ReadersAre
  <2> QED BY <2>1, <2>2, <2>3
<1>2. PICK g : Multireads(ReadLine(s).rest, Count(s), g) /\ ReadMultibulk(s) = g[Count(s)]
  BY <1>1, MultibulkReads
<1>3. /\ ReadLine(s).rest \in Str /\ Count(s) \in Nat /\ s \o t \in Str
      /\ ArraySized(s \o t) /\ Count(s \o t) = Count(s)
      /\ ReadLine(s \o t).rest = ReadLine(s).rest \o t
  BY <1>1, MultibulkReads, CountExtends, SizedExtends, ConcatProperties DEF Str
<1>4. PICK h : /\ Multireads(ReadLine(s).rest \o t, Count(s), h)
               /\ ReadMultibulk(s \o t) = h[Count(s)]
  <2>1. \E h : /\ Multireads(ReadLine(s \o t).rest, Count(s \o t), h)
               /\ ReadMultibulk(s \o t) = h[Count(s \o t)]
    BY <1>1, <1>3, MultibulkReads
  <2> QED BY <2>1, <1>3
<1>5. Count(s) \in 0..Count(s)
  BY <1>3
<1>6. h[Count(s)] = Done(g[Count(s)].args, g[Count(s)].rest \o t)
  BY <1>2, <1>3, <1>4, <1>5, MultireadsExtend
<1> QED BY <1>2, <1>4, <1>6

\* What the parser reads of a text it reads of the text with anything behind it.
LEMMA CommandExtends ==
  ASSUME NEW s \in Str, NEW t \in Str, ReadRESPCommand(s).is = "done"
  PROVE  ReadRESPCommand(s \o t) = Done(ReadRESPCommand(s).args, ReadRESPCommand(s).rest \o t)
<1>1. s # <<>>
  BY DEF ReadRESPCommand, More
<1>2. s \o t # <<>> /\ (s \o t)[1] = s[1] /\ s \o t \in Str
  BY <1>1, FirstOfConcat
<1>3. CASE s[1] = "*"
  <2>1. ReadRESPCommand(s) = ReadMultibulk(s) /\ ReadRESPCommand(s \o t) = ReadMultibulk(s \o t)
    BY <1>1, <1>2, <1>3 DEF ReadRESPCommand
  <2> QED BY <2>1, ReadMultibulkExtends
<1>4. CASE s[1] # "*"
  <2>1. ReadRESPCommand(s) = ReadInline(s) /\ ReadRESPCommand(s \o t) = ReadInline(s \o t)
    BY <1>1, <1>2, <1>4 DEF ReadRESPCommand
  <2>2. ReadLine(s).is = "done"
    BY <2>1 DEF ReadInline
  <2>3. ReadLine(s \o t) = Done(ReadLine(s).args, ReadLine(s).rest \o t)
    BY <2>2, LineExtends
  <2>4. ReadLine(s \o t).is = "done" /\ ReadLine(s \o t).args = ReadLine(s).args
        /\ ReadLine(s \o t).rest = ReadLine(s).rest \o t
    BY <2>3, DoneFields
  <2>5. ReadInline(s) = Done(Words(ReadLine(s).args), ReadLine(s).rest)
    BY <2>2 DEF ReadInline
  <2>6. ReadInline(s \o t) = Done(Words(ReadLine(s).args), ReadLine(s).rest \o t)
    BY <2>4 DEF ReadInline
  <2>7. ReadInline(s).args = Words(ReadLine(s).args) /\ ReadInline(s).rest = ReadLine(s).rest
    BY <2>5, DoneFields
  <2> QED BY <2>1, <2>6, <2>7
<1> QED BY <1>3, <1>4

-------------------------------------------------------------------------------
(* The parser reads what a client has written.                               *)

\* A value sent as a bulk string is read as it is, whatever bytes it has.
LEMMA BulkRead ==
  ASSUME NEW w \in Str, Len(w) + 2 <= Memory, NEW t \in Str
  PROVE  ReadBulk(RespBulk(w) \o t) = Done(<<w>>, t)
<1> DEFINE n == Len(w)
           a == <<"$">> \o Numeral(n) \o CRLF
           b == w \o CRLF
           y == b \o t
           z == a \o y
<1>1. "$" \in Byte /\ n \in Nat /\ Len(t) \in Nat
  BY SymbolsAreBytes, LenProperties DEF Symbols, Str
<1>2. a \in Str
  <2>1. Numeral(n) \in Str
    BY <1>1, NumeralReads
  <2> QED BY <2>1, <1>1, OneSymbol, CRLFIs, ConcatProperties DEF Str
<1>3. b \in Str /\ Len(b) = n + 2
  <2>1. b \in Str /\ Len(b) = Len(w) + Len(CRLF)
    BY CRLFIs, ConcatProperties DEF Str
  <2>2. Len(CRLF) = 2
    BY CRLFIs
  <2> HIDE DEF b
  <2> QED BY <2>1, <2>2
<1>4. y \in Str /\ Len(y) = n + 2 + Len(t)
  <2> HIDE DEF b
  <2>1. y \in Str /\ Len(y) = Len(b) + Len(t)
    BY <1>3, ConcatProperties DEF Str
  <2> QED BY <2>1, <1>3
<1>5. RespBulk(w) \o t = z
  <2>1. RespBulk(w) = (a \o w) \o CRLF
    BY DEF RespBulk
  <2> HIDE DEF a
  <2>2. (a \o w) \o CRLF = a \o b
    BY <1>2, CRLFIs, ConcatTwice, Zenon
  <2> HIDE DEF b
  <2>3. (a \o b) \o t = a \o y
    BY <1>2, <1>3, ConcatTwice, Zenon
  <2> QED BY <2>1, <2>2, <2>3
<1>6. z \in Str /\ ReadLine(z).rest = y /\ Counted(z, "$") /\ Count(z) = n
  <2>1. n \in Int /\ n >= 0 /\ "$" # "LF"
    BY <1>1
  <2> HIDE DEF y, n
  <2> QED BY <2>1, <1>1, <1>4, NumberedLine
<1> HIDE DEF z
<1>7. BulkThere(z)
  <2>1. Len(y) >= n + 2 /\ n \in Nat /\ n + 2 <= Memory
    BY <1>1, <1>4
  <2> HIDE DEF y, n
  <2>2. BulkSized(z)
    BY <2>1, <1>6, SizedIs
  <2> QED BY <2>1, <2>2, <1>6 DEF BulkThere
<1>8. ReadBulk(z) = Done(<<SubSeq(y, 1, n)>>, SubSeq(y, n + 3, Len(y)))
  <2> HIDE DEF y, n
  <2> QED BY <1>6, <1>7, ReadBulkIs
<1>9. SubSeq(y, 1, n) = w
  <2>1. n \in 0..Len(b) /\ n \in 0..Len(w)
    BY <1>1, <1>3
  <2>2. SubSeq(y, 1, n) = SubSeq(b, 1, n)
    <3> HIDE DEF b, n
    <3> QED BY <2>1, <1>3, FrontOfConcat
  <2>3. SubSeq(b, 1, n) = SubSeq(w, 1, n)
    <3> HIDE DEF n
    <3> QED BY <2>1, CRLFIs, FrontOfConcat
  <2>4. SubSeq(w, 1, n) = w
    BY SubSeqFull DEF Str
  <2> QED BY <2>2, <2>3, <2>4
<1>10. SubSeq(y, n + 3, Len(y)) = t
  <2> HIDE DEF b
  <2>1. n + 2 \in 0..Len(b) /\ n + 3 = (n + 2) + 1
    BY <1>1, <1>3
  <2> HIDE DEF n
  <2>2. SubSeq(y, (n + 2) + 1, Len(y)) = SubSeq(b, (n + 2) + 1, Len(b)) \o t
    BY <1>3, <2>1, SuffixOfConcat
  <2>3. SubSeq(b, (n + 2) + 1, Len(b)) = <<>>
    BY <1>1, <1>3, SubSeqEmpty
  <2>4. <<>> \o t = t
    BY ConcatEmptySeq DEF Str
  <2> QED BY <2>1, <2>2, <2>3, <2>4
<1> QED BY <1>5, <1>8, <1>9, <1>10

\* Values sent one behind the other are read one after the other.
LEMMA BulksRead ==
  ASSUME NEW w \in Seq(Str), NEW t \in Str, NEW bulks \in Seq(Str), Len(bulks) = Len(w),
         \A i \in 1..Len(w) : bulks[i] = RespBulk(w[i]) /\ Len(w[i]) + 2 <= Memory,
         NEW u, Follows(bulks, t, u), NEW h, Multireads(u[0], Len(w), h)
  PROVE  h[Len(w)] = Done(w, t)
<1> DEFINE n == Len(w)
           P(i) == h[i] = Done(SubSeq(w, 1, i), u[i])
           I == {i \in Nat : i <= n => P(i)}
<1>1. n \in Nat /\ \A i \in 1..n : w[i] \in Str /\ Len(w[i]) + 2 <= Memory
  BY LenProperties, ElementOfSeq
<1>2. /\ u \in [0..n -> Str] /\ u[n] = t
      /\ \A i \in 1..n : u[i-1] = RespBulk(w[i]) \o u[i]
  BY DEF Follows
<1>3. /\ h \in [0..n -> Inputs] /\ h[0] = Done(<<>>, u[0])
      /\ \A i \in 1..n : h[i] = OneMore(h[i-1])
  BY DEF Multireads
<1> HIDE DEF n
<1>4. 0 \in I
  <2>1. SubSeq(w, 1, 0) = <<>>
    BY SubSeqEmpty
  <2> QED BY <2>1, <1>3
<1>5. ASSUME NEW i \in Nat, i \in I PROVE i + 1 \in I
  <2> SUFFICES ASSUME i + 1 <= n PROVE P(i + 1)
    OBVIOUS
  <2> DEFINE a == SubSeq(w, 1, i)
             x == w[i+1]
             q == u[i]
             r == u[i+1]
  <2>1. i + 1 \in 1..n /\ (i + 1) - 1 = i /\ i \in 0..n /\ i + 1 \in 0..n /\ i <= n
    BY <1>1
  <2>2. h[i] = Done(a, q)
    BY <1>5, <2>1
  <2>3. /\ x \in Str /\ Len(x) + 2 <= Memory /\ q = RespBulk(x) \o r /\ r \in Str
        /\ h[i+1] = OneMore(h[i]) /\ h[i] \in Inputs
    BY <1>1, <1>2, <1>3, <2>1
  <2>4. SubSeq(w, 1, i + 1) = a \o <<x>>
    <3>1. i + 1 \in 1..Len(w) /\ 1 \in 1..Len(w) /\ i + 1 \in 1..Len(w)
      BY <2>1 DEF n
    <3>2. SubSeq(w, 1, i + 1) = SubSeq(w, 1, (i + 1) - 1) \o <<w[i+1]>>
      BY <3>1, SubSeqRecursiveSecond
    <3> QED BY <2>1, <3>2
  <2> HIDE DEF a, x, q, r
  <2>5. h[i].is = "done" /\ h[i].args = a /\ h[i].rest = q
    BY <2>2, DoneFields
  <2>6. ReadBulk(q) = Done(<<x>>, r)
    BY <2>3, BulkRead
  <2>7. ReadBulk(q).is = "done" /\ ReadBulk(q).args = <<x>> /\ ReadBulk(q).rest = r
    BY <2>6, DoneFields
  <2>8. OneMore(h[i]) = Done(h[i].args \o ReadBulk(h[i].rest).args, ReadBulk(h[i].rest).rest)
    BY <2>3, <2>5, <2>7, OneMoreIs
  <2>9. h[i+1] = Done(a \o <<x>>, r)
    BY <2>3, <2>5, <2>7, <2>8
  <2> QED BY <2>4, <2>9 DEF r
<1>6. P(n)
  <2>1. n \in I
    <3> HIDE DEF I
    <3> QED BY <1>1, <1>4, <1>5, NatInduct
  <2> QED BY <2>1, <1>1
<1>7. SubSeq(w, 1, n) = w
  BY SubSeqFull DEF n
<1> QED BY <1>2, <1>6, <1>7 DEF n

\* A command sent as an array is read as its words.
LEMMA ArrayRead ==
  ASSUME NEW cmd \in Sendable, cmd.as = "array", Speakable(cmd), NEW t \in Str
  PROVE  ReadRESPCommand(Encoded(cmd) \o t) = Done(cmd.words, t)
<1> DEFINE w == cmd.words
           n == Len(w)
           bulks == [i \in DOMAIN w |-> RespBulk(w[i])]
           a == <<"*">> \o Numeral(n) \o CRLF
           y == FlattenSeq(bulks) \o t
           z == a \o y
<1>1. w \in Seq(Str) /\ n \in Nat /\ DOMAIN w = 1..n /\ \A i \in 1..n : w[i] \in Str
  BY LenProperties, ElementOfSeq DEF Sendable
<1>2. Encoded(cmd) = a \o FlattenSeq(bulks)
  BY DEF Encoded
<1>12. Header * n <= Memory /\ \A i \in 1..n : Len(w[i]) + 2 <= Memory
  BY <1>1 DEF Speakable, NoCommands
<1>3. bulks \in Seq(Str) /\ Len(bulks) = n /\ \A i \in 1..n : bulks[i] = RespBulk(w[i])
  <2>1. bulks = [i \in 1..n |-> bulks[i]] /\ \A i \in 1..n : bulks[i] = RespBulk(w[i])
    BY <1>1
  <2> HIDE DEF bulks, w, n
  <2>2. \A i \in 1..n : bulks[i] \in Str
    BY <1>1, <2>1, RepliesAre DEF Is, Whole
  <2>3. bulks \in [1..n -> Str]
    BY <2>1, <2>2
  <2>4. bulks \in Seq(Str)
    BY <1>1, <2>3, SeqDef
  <2>5. Len(bulks) = n
    BY <1>1, <2>3, <2>4, LenProperties
  <2> QED BY <2>1, <2>4, <2>5
<1>4. PICK u : Follows(bulks, t, u) /\ u[0] = y
  <2> HIDE DEF bulks
  <2> QED BY <1>3, StreamFollows
<1>5. FlattenSeq(bulks) \in Str /\ "*" \in Byte /\ "*" # "LF"
  <2> HIDE DEF bulks
  <2>1. FlattenSeq(bulks) \in Str
    BY <1>3, FlattenTyped DEF Str
  <2> QED BY <2>1, SymbolsAreBytes DEF Symbols
<1> HIDE DEF w, n, bulks
<1>6. y \in Str /\ a \in Str
  <2>1. Numeral(n) \in Str
    BY <1>1, NumeralReads
  <2>2. a \in Str
    BY <2>1, <1>5, OneSymbol, CRLFIs, ConcatProperties DEF Str
  <2> QED BY <2>2, <1>5, ConcatProperties DEF Str
<1>7. Encoded(cmd) \o t = z
  <2> HIDE DEF a
  <2>1. (a \o FlattenSeq(bulks)) \o t = a \o (FlattenSeq(bulks) \o t)
    BY <1>5, <1>6, ConcatTwice, Zenon
  <2> QED BY <1>2, <2>1, Zenon
<1>8. /\ z \in Str /\ z # <<>> /\ z[1] = "*" /\ ReadLine(z).rest = y
      /\ Counted(z, "*") /\ Count(z) = n
  <2>1. n \in Int /\ n >= 0
    BY <1>1
  <2> HIDE DEF y
  <2> QED BY <2>1, <1>5, <1>6, NumberedLine
<1> HIDE DEF z, y
<1>9. ReadRESPCommand(z) = ReadMultibulk(z)
  BY <1>8 DEF ReadRESPCommand
<1>10. PICK h : Multireads(u[0], n, h) /\ ReadMultibulk(z) = h[n]
  <2>1. ArraySized(z)
    BY <1>1, <1>8, <1>12, SizedIs
  <2>2. \E h : Multireads(ReadLine(z).rest, Count(z), h) /\ ReadMultibulk(z) = h[Count(z)]
    BY <2>1, <1>8, MultibulkReads
  <2> QED BY <2>2, <1>4, <1>8
<1>11. h[n] = Done(w, t)
  <2>1. /\ Len(bulks) = Len(w)
        /\ \A i \in 1..Len(w) : bulks[i] = RespBulk(w[i]) /\ Len(w[i]) + 2 <= Memory
        /\ Multireads(u[0], Len(w), h)
    BY <1>3, <1>10, <1>12 DEF n
  <2>2. h[Len(w)] = Done(w, t)
    BY <1>1, <1>3, <1>4, <2>1, BulksRead
  <2> QED BY <2>2 DEF n
<1> QED BY <1>7, <1>9, <1>10, <1>11 DEF w

\* A line that is the mark d and w, and t behind it.
LEMMA MarkedLine ==
  ASSUME NEW d \in Byte, d # "LF", NEW w \in Str, NoEnd(w), NEW t \in Str
  PROVE  LET z == <<d>> \o w \o CRLF \o t IN
         /\ z \in Str /\ z # <<>> /\ z[1] = d
         /\ ReadLine(z).is = "done"
         /\ Counted(z, d) => IsNumeral(w) /\ Atoi(w) = Count(z)
<1> DEFINE a == <<d>> \o w
           z == a \o CRLF \o t
<1>1. a \in Str /\ NoEnd(a) /\ a # <<>> /\ a[1] = d /\ Tail(a) = w
  BY Marked
<1> HIDE DEF a
<1>2. z \in Str /\ ReadLine(z) = Done(a, t)
  BY <1>1, LineOf
<1>3. z # <<>> /\ z[1] = d
  <2>1. a \o CRLF \in Str /\ a \o CRLF # <<>> /\ (a \o CRLF)[1] = d
    BY <1>1, CRLFIs, FirstOfConcat
  <2> QED BY <2>1, FirstOfConcat
<1> HIDE DEF z
<1>4. ReadLine(z).is = "done" /\ ReadLine(z).args = a
  BY <1>2, DoneFields
<1>5. Counted(z, d) => IsNumeral(w) /\ Atoi(w) = Count(z)
  BY <1>1, <1>4 DEF Counted, Count
<1> QED BY <1>2, <1>3, <1>4, <1>5 DEF z, a

\* What is no command: the words, and what they are not.
LEMMA BadWords ==
  ASSUME NEW cmd \in Sendable, cmd.as \in NoCommands, Speakable(cmd)
  PROVE  LET w == FlattenSeq(cmd.words) IN
         /\ w \in Str /\ NoEnd(w)
         /\ cmd.as = "badCount" => ~Holds(w, Header, 0)
         /\ cmd.as = "badLength" => ~Holds(w, 1, 2)
<1> DEFINE w == FlattenSeq(cmd.words)
<1>1. w \in Str
  BY FlattenTyped DEF Sendable, Str
<1>2. DOMAIN w = 1..Len(w)
  BY <1>1, LenProperties DEF Str
<1>3. /\ \A k \in DOMAIN w : w[k] # "LF"
      /\ ~(IF cmd.as = "badCount" THEN Holds(w, Header, 0) ELSE Holds(w, 1, 2))
  <2>1. cmd.as # "line" /\ cmd.as # "array"
    BY DEF NoCommands
  <2> QED BY <2>1, Zenon DEF Speakable
<1> QED BY <1>1, <1>2, <1>3 DEF NoEnd

\* A length that cannot be is refused, or ends the server.
LEMMA BadLengthRead ==
  ASSUME NEW w \in Str, NoEnd(w), ~Holds(w, 1, 2), NEW t \in Str
  PROVE  LET z == <<"$">> \o w \o CRLF \o t IN z \in Str /\ ReadBulk(z).is \in {"err", "fatal"}
<1> DEFINE z == <<"$">> \o w \o CRLF \o t
<1>1. "$" \in Byte /\ "$" # "LF"
  BY SymbolsAreBytes DEF Symbols
<1>2. z \in Str /\ ReadLine(z).is = "done" /\ (Counted(z, "$") => IsNumeral(w) /\ Atoi(w) = Count(z))
  BY <1>1, MarkedLine
<1> HIDE DEF z
<1>3. ~BulkSized(z)
  <2> SUFFICES ASSUME BulkSized(z) PROVE FALSE
    OBVIOUS
  <2>1. IsNumeral(w) /\ Atoi(w) \in Nat /\ Atoi(w) + 2 <= Memory
    BY <1>2, SizedIs DEF BulkSized
  <2> QED BY <2>1, MemoryIs DEF Holds
<1>4. ReadBulk(z) \in {Err, Fatal}
  BY <1>2, <1>3, ReadersAre
<1>5. ReadBulk(z).is \in {"err", "fatal"}
  BY <1>4 DEF Err, Fatal
<1> QED BY <1>2, <1>5 DEF z

\* What is no command is refused, or ends the server.
LEMMA BadRead ==
  ASSUME NEW cmd \in Sendable, cmd.as \in NoCommands, Speakable(cmd), NEW t \in Str
  PROVE  ReadRESPCommand(Encoded(cmd) \o t).is \in {"err", "fatal"}
<1> DEFINE w == FlattenSeq(cmd.words)
<1>1. /\ w \in Str /\ NoEnd(w)
      /\ cmd.as = "badCount" => ~Holds(w, Header, 0)
      /\ cmd.as = "badLength" => ~Holds(w, 1, 2)
  BY BadWords
<1>2. "*" \in Byte /\ "*" # "LF" /\ "$" \in Byte
  BY SymbolsAreBytes DEF Symbols
<1>3. Err.is \in {"err", "fatal"} /\ Fatal.is \in {"err", "fatal"}
  BY DEF Err, Fatal
<1>4. CASE cmd.as = "badCount"
  <2> DEFINE z == <<"*">> \o w \o CRLF \o t
  <2>1. Encoded(cmd) \o t = z
    BY <1>4 DEF Encoded
  <2> HIDE DEF w
  <2>2. /\ z # <<>> /\ z[1] = "*" /\ ReadLine(z).is = "done"
        /\ Counted(z, "*") => IsNumeral(w) /\ Atoi(w) = Count(z)
    BY <1>1, <1>2, MarkedLine
  <2> HIDE DEF z
  <2>3. ~ArraySized(z)
    <3> SUFFICES ASSUME ArraySized(z) PROVE FALSE
      OBVIOUS
    <3>1. IsNumeral(w) /\ Atoi(w) \in Nat /\ Header * Atoi(w) <= Memory
      BY <2>2, SizedIs DEF ArraySized
    <3> QED BY <3>1, <1>1, <1>4, MemoryIs DEF Holds, Header
  <2>4. ReadMultibulk(z) \in {Err, Fatal}
    BY <2>2, <2>3, ReadersAre
  <2>5. ReadRESPCommand(z) = ReadMultibulk(z)
    BY <2>2 DEF ReadRESPCommand
  <2> QED BY <2>1, <2>4, <2>5, <1>3
<1>5. CASE cmd.as = "badLength"
  <2> DEFINE a == <<"*">> \o Numeral(1) \o CRLF
             d == <<"$">> \o w
             b == d \o CRLF
             y == b \o t
             z == a \o y
  <2>1. Encoded(cmd) = a \o b
    BY <1>5 DEF Encoded
  <2>2. w \in Str
    BY <1>1
  <2> HIDE DEF w
  <2>3. a \in Str /\ d \in Str
    <3>1. Numeral(1) \in Str
      BY NumeralReads
    <3> QED BY <3>1, <2>2, <1>2, OneSymbol, CRLFIs, ConcatProperties DEF Str
  <2> HIDE DEF d
  <2>4. b \in Str
    BY <2>3, CRLFIs, ConcatProperties DEF Str
  <2>5. y \in Str /\ ReadBulk(y).is \in {"err", "fatal"}
    BY <1>1, <1>5, BadLengthRead DEF d
  <2> HIDE DEF b
  <2>6. Encoded(cmd) \o t = z
    <3> HIDE DEF a
    <3>1. (a \o b) \o t = a \o (b \o t)
      BY <2>3, <2>4, ConcatTwice, Zenon
    <3> QED BY <2>1, <3>1, Zenon
  <2>7. /\ z \in Str /\ z # <<>> /\ z[1] = "*" /\ ReadLine(z).is = "done"
        /\ ReadLine(z).rest = y /\ Count(z) = 1
    <3> HIDE DEF y
    <3> QED BY <1>2, <2>5, NumberedLine
  <2> HIDE DEF z, y
  <2>8. ReadRESPCommand(z) = ReadMultibulk(z)
    BY <2>7 DEF ReadRESPCommand
  <2>9. CASE ~ArraySized(z)
    <3>1. ReadMultibulk(z) \in {Err, Fatal}
      BY <2>7, <2>9, ReadersAre
    <3> QED BY <3>1, <2>6, <2>8, <1>3
  <2>10. CASE ArraySized(z)
    <3>1. PICK h : Multireads(y, 1, h) /\ ReadMultibulk(z) = h[1]
      BY <2>7, <2>10, MultibulkReads
    <3>2. h[1] = OneMore(h[0]) /\ h[0] = Done(<<>>, y) /\ h[0] \in Inputs
      BY <3>1 DEF Multireads
    <3>3. h[0].is = "done" /\ h[0].rest = y
      BY <3>2, DoneFields
    <3>4. OneMore(h[0]).is = ReadBulk(y).is
      BY <3>2, <3>3, OneMoreIs
    <3> QED BY <3>1, <3>2, <3>4, <2>5, <2>6, <2>8
  <2> QED BY <2>9, <2>10
<1> QED BY <1>4, <1>5 DEF NoCommands

-------------------------------------------------------------------------------
(* A line is read as the words it is made of. *)

\* Where a text is that stands between two others.
LEMMA Within ==
  ASSUME NEW a \in Str, NEW b \in Str, NEW c \in Str
  PROVE  LET s == a \o (b \o c) IN
         /\ s \in Str /\ Len(s) = Len(a) + Len(b) + Len(c)
         /\ \A i \in 1..Len(b) : s[Len(a) + i] = b[i]
<1> DEFINE m == b \o c
           s == a \o m
<1>1. Len(a) \in Nat /\ Len(b) \in Nat /\ Len(c) \in Nat
  BY LenProperties DEF Str
<1>2. /\ m \in Str /\ Len(m) = Len(b) + Len(c)
      /\ \A i \in 1..Len(b) + Len(c) : m[i] = IF i <= Len(b) THEN b[i] ELSE c[i - Len(b)]
  BY ConcatProperties DEF Str
<1> HIDE DEF m
<1>3. /\ s \in Str /\ Len(s) = Len(a) + Len(m)
      /\ \A i \in 1..Len(a) + Len(m) : s[i] = IF i <= Len(a) THEN a[i] ELSE m[i - Len(a)]
  <2>1. a \in Seq(Byte) /\ m \in Seq(Byte)
    BY <1>2 DEF Str
  <2> QED BY <2>1, ConcatProperties DEF Str
<1> HIDE DEF s
<1>4. ASSUME NEW i \in 1..Len(b) PROVE s[Len(a) + i] = b[i]
  <2>1. /\ i \in 1..Len(b) + Len(c) /\ i <= Len(b) /\ Len(a) + i \in 1..Len(a) + Len(m)
        /\ ~(Len(a) + i <= Len(a)) /\ (Len(a) + i) - Len(a) = i
    BY <1>1, <1>2
  <2>2. s[Len(a) + i] = m[i]
    BY <2>1, <1>3
  <2> QED BY <2>1, <2>2, <1>2
<1>5. Len(s) = Len(a) + Len(b) + Len(c)
  BY <1>1, <1>2, <1>3
<1> QED BY <1>3, <1>4, <1>5 DEF s, m

\* The symbols of a text that stands between two others.
LEMMA WithinAt ==
  ASSUME NEW a \in Str, NEW b \in Str, NEW c \in Str, NEW i \in 1..Len(b)
  PROVE  (a \o (b \o c))[Len(a) + i] = b[i]
<1> DEFINE s == a \o (b \o c)
<1>1. \A k \in 1..Len(b) : s[Len(a) + k] = b[k]
  BY Within, Zenon
<1> HIDE DEF s
<1>2. s[Len(a) + i] = b[i]
  BY <1>1
<1> QED BY <1>2 DEF s

\* A text without LF, and without CR at its end, is a line that LF ends.
LEMMA BareLine ==
  ASSUME NEW a \in Str, NoEnd(a), a # <<>> => a[Len(a)] # "CR", NEW t \in Str
  PROVE  a \o <<"LF">> \o t \in Str /\ ReadLine(a \o <<"LF">> \o t) = Done(a, t)
<1> DEFINE e == <<"LF">>
           b == a \o e
           s == b \o t
           n == Len(a) + 1
<1>1. e \in Str /\ Len(e) = 1 /\ e[1] = "LF" /\ Len(a) \in Nat /\ Len(t) \in Nat
  <2>1. "LF" \in Byte
    BY SymbolsAreBytes DEF Symbols
  <2> QED BY <2>1, OneSymbol, LenProperties DEF Str
<1> HIDE DEF e
<1>2. b \in Str /\ Len(b) = n
  <2>1. b \in Str /\ Len(b) = Len(a) + Len(e)
    BY <1>1, ConcatProperties DEF Str
  <2> HIDE DEF b
  <2> QED BY <1>1, <2>1
<1>3. s = a \o (e \o t)
  BY <1>1, ConcatTwice, Zenon
<1>4. s \in Str /\ Len(s) = n + Len(t) /\ s[n] = "LF"
  <2> DEFINE z == a \o (e \o t)
  <2>1. z \in Str /\ Len(z) = Len(a) + Len(e) + Len(t) /\ \A i \in 1..Len(e) : z[Len(a) + i] = e[i]
    BY <1>1, Within
  <2> HIDE DEF z, s
  <2>2. s = z
    BY <1>3 DEF z
  <2> QED BY <1>1, <2>1, <2>2
<1>5. \A i \in 1..Len(a) : s[i] = a[i]
  <2> DEFINE z == a \o (e \o t)
             y == e \o t
  <2>1. y \in Str /\ Len(y) \in Nat
    BY <1>1, ConcatProperties, LenProperties DEF Str
  <2> HIDE DEF y
  <2>2. \A i \in 1..Len(a) + Len(y) : (a \o y)[i] = IF i <= Len(a) THEN a[i] ELSE y[i - Len(a)]
    BY <2>1, ConcatProperties DEF Str
  <2>3. \A i \in 1..Len(a) : i \in 1..Len(a) + Len(y) /\ i <= Len(a)
    BY <1>1, <2>1
  <2>4. \A i \in 1..Len(a) : (a \o y)[i] = a[i]
    BY <2>2, <2>3
  <2> QED BY <1>3, <2>4 DEF y
<1>6. FirstEnd(s, n) /\ LineLength(s, n) = Len(a)
  <2> HIDE DEF s
  <2>1. n \in 1..Len(s) /\ \A j \in 1..n-1 : j \in 1..Len(a)
    BY <1>1, <1>4
  <2>2. FirstEnd(s, n)
    BY <1>4, <1>5, <2>1 DEF FirstEnd, NoEnd
  <2>3. n > 1 => s[n - 1] # "CR"
    <3> SUFFICES ASSUME n > 1 PROVE s[n - 1] # "CR"
      OBVIOUS
    <3>1. Len(a) \in 1..Len(a) /\ n - 1 = Len(a)
      BY <1>1
    <3>2. a # <<>>
      BY <3>1
    <3> HIDE DEF n
    <3> QED BY <1>5, <3>1, <3>2
  <2>4. LineLength(s, n) = n - 1
    BY <2>3 DEF LineLength
  <2> QED BY <1>1, <2>2, <2>4
<1>7. SubSeq(s, 1, Len(a)) = a
  <2>1. Len(a) \in 0..Len(b) /\ Len(a) \in 0..Len(a)
    BY <1>1, <1>2
  <2>2. SubSeq(s, 1, Len(a)) = SubSeq(b, 1, Len(a))
    <3> HIDE DEF b, n
    <3> QED BY <1>2, <2>1, FrontOfConcat
  <2>3. SubSeq(b, 1, Len(a)) = SubSeq(a, 1, Len(a))
    BY <1>1, <2>1, FrontOfConcat
  <2>4. SubSeq(a, 1, Len(a)) = a
    BY SubSeqFull DEF Str
  <2> QED BY <2>2, <2>3, <2>4
<1>8. SubSeq(s, n + 1, Len(s)) = t
  <2>1. n \in 0..Len(b) /\ n \in Int /\ Len(b) < n + 1
    BY <1>1, <1>2
  <2> HIDE DEF b, n
  <2>2. SubSeq(s, n + 1, Len(s)) = SubSeq(b, n + 1, Len(b)) \o t
    BY <1>2, <2>1, SuffixOfConcat
  <2>3. SubSeq(b, n + 1, Len(b)) = <<>>
    <3>1. n + 1 \in Int /\ Len(b) \in Int
      BY <1>2, <2>1
    <3> QED BY <2>1, <3>1, SubSeqEmpty
  <2>4. <<>> \o t = t
    BY ConcatEmptySeq DEF Str
  <2> QED BY <2>2, <2>3, <2>4
<1>9. ReadLine(s) = Done(SubSeq(s, 1, LineLength(s, n)), SubSeq(s, n + 1, Len(s)))
  <2> HIDE DEF s, n
  <2> QED BY <1>4, <1>6, LineAt
<1>10. ReadLine(s) = Done(a, t)
  BY <1>6, <1>7, <1>8, <1>9
<1> QED BY <1>4, <1>10 DEF e

\* Another last element.
LEMMA LastExcept ==
  ASSUME NEW S, NEW w \in Seq(S), NEW d \in S, NEW e \in S
  PROVE  LET a == Append(w, d) IN
         /\ a \in Seq(S) /\ a[Len(a)] = d
         /\ [a EXCEPT ![Len(a)] = e] = Append(w, e)
<1> DEFINE a == Append(w, d)
           b == Append(w, e)
           k == Len(w) + 1
<1>1. Len(w) \in Nat
  BY LenProperties
<1>2. a \in Seq(S) /\ Len(a) = k /\ a[k] = d /\ \A i \in 1..Len(w) : a[i] = w[i]
  BY AppendProperties
<1>3. b \in Seq(S) /\ Len(b) = k /\ b[k] = e /\ \A i \in 1..Len(w) : b[i] = w[i]
  BY AppendProperties
<1> DEFINE x == [a EXCEPT ![k] = e]
<1> HIDE DEF a, b
<1>4. k \in 1..Len(a)
  BY <1>1, <1>2
<1>5. x \in Seq(S) /\ Len(x) = Len(a) /\ \A i \in 1..Len(a) : x[i] = IF i = k THEN e ELSE a[i]
  <2> HIDE DEF k
  <2> QED BY <1>2, <1>4, ExceptSeq
<1> HIDE DEF x
<1>6. \A i \in 1..Len(x) : x[i] = b[i]
  <2> TAKE i \in 1..Len(x)
  <2>1. i \in 1..Len(a) /\ (i # k => i \in 1..Len(w))
    BY <1>1, <1>2, <1>5
  <2> HIDE DEF k
  <2> QED BY <2>1, <1>2, <1>3, <1>5
<1>7. x = b
  BY <1>2, <1>3, <1>5, <1>6, SeqEqual
<1> QED BY <1>2, <1>7 DEF x, a, b

\* the symbol between words
Space == " "

\* v stands in the line, from symbol p on, behind a space or at the front, and has no space
Stands(v, line, p) ==
  /\ p + Len(v) <= Len(line) /\ (p = 0 \/ line[p] = Space)
  /\ \A i \in 1..Len(v) : line[p + i] = v[i] /\ v[i] # Space

\* A word is read.
LEMMA WordRead ==
  ASSUME NEW line \in Str, NEW g, Worded(line, g), NEW p \in 0..Len(line), NEW v \in Str, v # <<>>,
         Stands(v, line, p)
  PROVE  g[p + Len(v)] = Append(g[p], v)
<1> DEFINE n == Len(v)
           w == g[p]
           P(k) == g[p + k] = Append(w, SubSeq(v, 1, k))
           I == {k \in Nat : k + 1 <= n => P(k + 1)}
<1>1. n \in Nat \ {0} /\ Len(line) \in Nat /\ p \in Nat
  BY EmptySeq, LenProperties DEF Str
<1>2. w \in Seq(Str)
  BY DEF Worded
<1>3. \A k \in 0..n : SubSeq(v, 1, k) \in Str
  <2> TAKE k \in 0..n
  <2>1. k \in Int /\ k <= Len(v)
    BY <1>1
  <2> QED BY <2>1, SubStr
<1>4. \A k \in 1..n : SubSeq(v, 1, k) = SubSeq(v, 1, k - 1) \o <<v[k]>> /\ v[k] \in Byte
  <2> TAKE k \in 1..n
  <2>1. 1 \in 1..Len(v) /\ k \in 1..Len(v)
    BY <1>1
  <2>2. SubSeq(v, 1, k) = SubSeq(v, 1, k - 1) \o <<v[k]>>
    BY <2>1, SubSeqRecursiveSecond DEF Str
  <2> QED BY <2>1, <2>2, ElementOfSeq DEF Str
<1>5. \A k \in 1..n : p + k \in 1..Len(line) /\ (p + k) - 1 = p + (k - 1)
  <2>1. p + n <= Len(line)
    BY DEF Stands
  <2> QED BY <1>1, <2>1
<1>6. ASSUME NEW k \in 1..n
      PROVE  line[p + k] = v[k] /\ line[p + k] # Space /\ g[p + k] = OneWord(line, g[p + (k - 1)], p + k)
  <2>1. line[p + k] = v[k] /\ line[p + k] # Space
    BY DEF Stands
  <2>2. g[p + k] = OneWord(line, g[(p + k) - 1], p + k)
    BY <1>5 DEF Worded
  <2> QED BY <2>1, <2>2, <1>5
<1>60. p = 0 \/ line[p] = Space
  BY DEF Stands
<1> HIDE DEF w, n
<1>7. 0 \in I
  <2> SUFFICES ASSUME 0 + 1 <= n PROVE P(1)
    OBVIOUS
  <2>1. 1 \in 1..n /\ p + (1 - 1) = p
    BY <1>1
  <2>2. g[p + 1] = OneWord(line, w, p + 1) /\ line[p + 1] # Space /\ line[p + 1] = v[1]
    BY <1>6, <2>1 DEF w
  <2>3. p + 1 = 1 \/ line[(p + 1) - 1] = Space
    <3>1. (p + 1) - 1 = p /\ (p = 0 => p + 1 = 1)
      BY <1>1
    <3> QED BY <3>1, <1>60
  <2>4. OneWord(line, w, p + 1) = Append(w, <<line[p + 1]>>)
    BY <2>2, <2>3, Zenon DEF OneWord, Space
  <2>5. SubSeq(v, 1, 1) = <<v[1]>>
    <3>1. SubSeq(v, 1, 1) = SubSeq(v, 1, 1 - 1) \o <<v[1]>> /\ v[1] \in Byte
      BY <1>4, <2>1
    <3>2. SubSeq(v, 1, 1 - 1) = <<>>
      BY SubSeqEmpty
    <3>3. <<>> \o <<v[1]>> = <<v[1]>>
      BY <3>1, OneSymbol, ConcatEmptySeq DEF Str
    <3> QED BY <3>1, <3>2, <3>3
  <2> QED BY <2>2, <2>4, <2>5
<1>8. ASSUME NEW k \in Nat, k \in I PROVE k + 1 \in I
  <2> SUFFICES ASSUME (k + 1) + 1 <= n PROVE P((k + 1) + 1)
    OBVIOUS
  <2> DEFINE j == k + 1
             d == line[p + (j + 1)]
             x == SubSeq(v, 1, j)
             a == Append(w, x)
  <2>1. j \in 1..n /\ j + 1 \in 1..n /\ j \in 0..n /\ (j + 1) - 1 = j /\ p + (j + 1) # 1
        /\ (p + (j + 1)) - 1 = p + j
    BY <1>1
  <2>2. g[p + j] = a
    BY <1>8, <2>1
  <2>3. d # Space /\ d = v[j + 1] /\ g[p + (j + 1)] = OneWord(line, a, p + (j + 1))
    <3>1. d = v[j + 1]
      BY <1>6, <2>1
    <3>2. d # Space /\ g[p + (j + 1)] = OneWord(line, g[p + ((j + 1) - 1)], p + (j + 1))
      BY <1>6, <2>1
    <3> QED BY <2>1, <2>2, <3>1, <3>2
  <2>4. line[(p + (j + 1)) - 1] # Space
    BY <1>6, <2>1
  <2>5. x \in Str /\ SubSeq(v, 1, j + 1) = x \o <<d>> /\ d \in Byte
    BY <1>3, <1>4, <2>1, <2>3
  <2> HIDE DEF j, x, d
  <2>6. Append(x, d) = x \o <<d>> /\ Append(x, d) \in Str
    BY <2>5, AppendIsConcat, AppendProperties DEF Str
  <2>7. OneWord(line, a, p + (j + 1)) = [a EXCEPT ![Len(a)] = Append(a[Len(a)], d)]
    <3>1. d = line[p + (j + 1)]
      BY DEF d
    <3> HIDE DEF a
    <3> QED BY <2>1, <2>3, <2>4, <3>1, Zenon DEF OneWord, Space
  <2>8. a[Len(a)] = x /\ [a EXCEPT ![Len(a)] = Append(x, d)] = Append(w, Append(x, d))
    <3> DEFINE e == Append(x, d)
    <3>1. x \in Str /\ e \in Str
      BY <2>5, <2>6
    <3> HIDE DEF e
    <3>2. a[Len(a)] = x /\ [a EXCEPT ![Len(a)] = e] = Append(w, e)
      BY <1>2, <3>1, LastExcept
    <3> QED BY <3>2 DEF e
  <2> HIDE DEF a
  <2>9. g[p + (j + 1)] = Append(w, SubSeq(v, 1, j + 1))
    BY <2>3, <2>5, <2>6, <2>7, <2>8
  <2> QED BY <2>9 DEF j
<1>9. P(n)
  <2>1. n - 1 \in I
    <3>1. n - 1 \in Nat
      BY <1>1
    <3> HIDE DEF I
    <3> QED BY <3>1, <1>7, <1>8, NatInduct
  <2>2. (n - 1) + 1 = n /\ (n - 1) + 1 <= n
    BY <1>1
  <2>3. P((n - 1) + 1)
    <3> HIDE DEF P
    <3> QED BY <2>1, <2>2
  <2> QED BY <2>2, <2>3
<1>10. SubSeq(v, 1, n) = v
  BY SubSeqFull DEF Str, n
<1> QED BY <1>9, <1>10 DEF n, w

\* A space ends no word and begins none.
LEMMA SpaceRead ==
  ASSUME NEW line \in Str, NEW g, Worded(line, g), NEW p \in 1..Len(line), line[p] = Space
  PROVE  g[p] = g[p - 1]
BY Zenon DEF Worded, OneWord, Space

\* a word of a line
Bare(v) == v # <<>> /\ \A k \in 1..Len(v) : v[k] # Space /\ v[k] # "LF"

\* The first word of a line is read.
LEMMA FirstWordRead ==
  ASSUME NEW v \in Str, Bare(v), NEW y \in Str, NEW c, Worded(v \o y, c)
  PROVE  c[Len(v)] = <<v>>
<1> DEFINE line == v \o y
           m == Len(v)
<1>1. m \in Nat /\ Len(y) \in Nat
  BY LenProperties DEF Str
<1>2. /\ line \in Str /\ Len(line) = m + Len(y)
      /\ \A i \in 1..m + Len(y) : line[i] = IF i <= m THEN v[i] ELSE y[i - m]
  BY ConcatProperties DEF Str
<1> HIDE DEF line
<1>3. Stands(v, line, 0)
  <2>1. 0 + Len(v) <= Len(line)
    BY <1>1, <1>2
  <2>2. \A i \in 1..m : i \in 1..m + Len(y) /\ i <= m /\ 0 + i = i
    BY <1>1
  <2>3. \A i \in 1..m : line[0 + i] = v[i]
    BY <1>2, <2>2
  <2>4. \A i \in 1..m : v[i] # Space
    BY DEF Bare
  <2> QED BY <2>1, <2>3, <2>4 DEF Stands
<1>4. Worded(line, c)
  BY DEF line
<1>5. 0 \in 0..Len(line) /\ 0 + Len(v) = m
  BY <1>1, <1>2
<1>6. v # <<>>
  BY DEF Bare
<1>7. c[0 + Len(v)] = Append(c[0], v)
  BY <1>2, <1>3, <1>4, <1>5, <1>6, WordRead
<1>8. c[0] = <<>>
  BY <1>4 DEF Worded
<1> QED BY <1>5, <1>7, <1>8

\* in the line, v comes after a and a space, and before y
Between(a, v, y, line) == line = a \o ((<<Space>> \o v) \o y)

\* Another word is read, behind a space.
LEMMA NextWordRead ==
  ASSUME NEW a \in Str, NEW v \in Str, Bare(v), NEW y \in Str, NEW line, NEW c, Worded(line, c),
         Between(a, v, y, line)
  PROVE  c[Len(a \o (<<Space>> \o v))] = Append(c[Len(a)], v)
<1> DEFINE e == <<Space>>
           b == a \o e
           p == Len(a) + 1
<1>1. e \in Str /\ Len(e) = 1 /\ e[1] = Space
  <2>1. Space \in Byte
    BY SymbolsAreBytes, Zenon DEF Symbols, Space
  <2> QED BY <2>1, OneSymbol
<1> HIDE DEF e, b, p
<1>2. a \in Seq(Byte) /\ e \in Seq(Byte) /\ v \in Seq(Byte) /\ y \in Seq(Byte)
  BY <1>1 DEF Str
<1>3. Len(a) \in Nat /\ Len(v) \in Nat /\ Len(y) \in Nat
  BY LenProperties DEF Str
<1>4. b \in Str /\ Len(b) = p
  <2>1. b \in Str /\ Len(b) = Len(a) + Len(e)
    BY <1>2, ConcatProperties DEF Str, b
  <2> QED BY <1>1, <2>1 DEF p
<1>5. v \o y \in Str /\ e \o v \in Str
  BY <1>1, ConcatProperties DEF Str
<1>6. line = a \o (e \o (v \o y))
  <2>1. (e \o v) \o y = e \o (v \o y)
    BY <1>2, ConcatAssociative
  <2>2. line = a \o ((e \o v) \o y)
    BY DEF e, Between
  <2> QED BY <2>1, <2>2
<1>7. line = b \o (v \o y)
  <2> DEFINE z == v \o y
  <2>1. z \in Str
    BY <1>5
  <2> HIDE DEF z
  <2>2. (a \o e) \o z = a \o (e \o z)
    BY <1>1, <2>1, ConcatTwice, Zenon
  <2> QED BY <1>6, <2>2 DEF b, z
<1>8. line[Len(a) + 1] = Space
  <2> DEFINE z == v \o y
  <2>1. z \in Str /\ line = a \o (e \o z)
    BY <1>5, <1>6
  <2> HIDE DEF z
  <2>2. 1 \in 1..Len(e)
    BY <1>1
  <2>3. (a \o (e \o z))[Len(a) + 1] = e[1]
    BY <1>1, <2>1, <2>2, WithinAt, Zenon
  <2> QED BY <1>1, <2>1, <2>3, Zenon
<1>9. /\ line \in Str /\ Len(line) = p + Len(v) + Len(y)
      /\ \A i \in 1..Len(v) : line[p + i] = v[i]
  <2> HIDE DEF b, p
  <2> DEFINE s == b \o (v \o y)
  <2>1. /\ s \in Str /\ Len(s) = Len(b) + Len(v) + Len(y)
        /\ \A i \in 1..Len(v) : s[Len(b) + i] = v[i]
    BY <1>4, Within
  <2>2. line = s
    BY <1>7
  <2> HIDE DEF s
  <2> QED BY <1>4, <2>1, <2>2
<1>10. p \in 1..Len(line) /\ p \in 0..Len(line) /\ p - 1 = Len(a) /\ p + Len(v) <= Len(line)
  BY <1>3, <1>9 DEF p
<1>11. Stands(v, line, p)
  <2>1. \A i \in 1..Len(v) : v[i] # Space
    BY DEF Bare
  <2> QED BY <1>8, <1>9, <1>10, <2>1 DEF Stands
<1>12. c[p] = c[p - 1]
  BY <1>8, <1>9, <1>10, SpaceRead
<1>13. c[p + Len(v)] = Append(c[p], v)
  <2>1. v # <<>>
    BY DEF Bare
  <2>2. line \in Str /\ p \in 0..Len(line)
    BY <1>9, <1>10
  <2> QED BY <1>11, <2>1, <2>2, WordRead
<1>14. Len(a \o (e \o v)) = p + Len(v)
  <2> DEFINE x == e \o v
  <2>1. x \in Str /\ Len(x) = Len(e) + Len(v)
    BY <1>1, ConcatProperties DEF Str
  <2> HIDE DEF x
  <2> DEFINE z == a \o x
  <2>2. Len(z) = Len(a) + Len(x)
    BY <2>1, ConcatProperties DEF Str
  <2> HIDE DEF z
  <2>3. Len(z) = p + Len(v)
    BY <1>1, <1>3, <2>1, <2>2 DEF p
  <2> QED BY <2>3 DEF x, z
<1> QED BY <1>10, <1>12, <1>13, <1>14 DEF e

\* the words of a line, all but the first with a space in front
Spaced(words) == [i \in DOMAIN words |-> (IF i = 1 THEN <<>> ELSE <<Space>>) \o words[i]]

\* The words with their spaces are texts.
LEMMA SpacedIs ==
  ASSUME NEW words \in Seq(Str)
  PROVE  /\ Spaced(words) \in Seq(Str) /\ Len(Spaced(words)) = Len(words) /\ Len(words) \in Nat
         /\ words # <<>> => Spaced(words)[1] = words[1]
         /\ \A i \in 1..Len(words) : i # 1 => Spaced(words)[i] = <<Space>> \o words[i]
<1> DEFINE f == Spaced(words)
           n == Len(words)
<1>1. DOMAIN words = 1..n /\ n \in Nat /\ \A i \in 1..n : words[i] \in Str
  BY LenProperties, ElementOfSeq
<1>2. /\ f = [i \in 1..n |-> f[i]]
      /\ \A i \in 1..n : f[i] = (IF i = 1 THEN <<>> ELSE <<Space>>) \o words[i]
  BY <1>1 DEF Spaced
<1> HIDE DEF f, n
<1>3. <<Space>> \in Str
  <2>1. Space \in Byte
    BY SymbolsAreBytes, Zenon DEF Symbols, Space
  <2> QED BY <2>1, OneSymbol
<1>4. \A i \in 1..n : i # 1 => f[i] = <<Space>> \o words[i]
  BY <1>2
<1>5. \A i \in 1..n : i = 1 => f[i] = words[i]
  <2> TAKE i \in 1..n
  <2> HAVE i = 1
  <2>1. words[i] \in Str
    BY <1>1
  <2>2. <<>> \o words[i] = words[i]
    BY <2>1, ConcatEmptySeq DEF Str
  <2> QED BY <1>2, <2>2
<1>6. \A i \in 1..n : f[i] \in Str
  <2> TAKE i \in 1..n
  <2>1. words[i] \in Str
    BY <1>1
  <2>2. <<Space>> \o words[i] \in Str
    BY <1>3, <2>1, ConcatProperties DEF Str
  <2> QED BY <1>4, <1>5, <2>1, <2>2
<1>7. f \in [1..n -> Str]
  BY <1>2, <1>6
<1>8. f \in Seq(Str) /\ Len(f) = n
  BY <1>1, <1>7, SeqDef, LenProperties
<1>9. words # <<>> => 1 \in 1..n
  BY <1>1, EmptySeq DEF n
<1> QED BY <1>1, <1>4, <1>5, <1>8, <1>9 DEF f, n

\* The last symbol of two texts is that of the second.
LEMMA LastOfConcat ==
  ASSUME NEW a \in Str, NEW b \in Str, b # <<>>
  PROVE  a \o b \in Str /\ a \o b # <<>> /\ (a \o b)[Len(a \o b)] = b[Len(b)]
<1> DEFINE s == a \o b
<1>1. Len(a) \in Nat /\ Len(b) \in Nat /\ 1 <= Len(b)
  <2>1. 1 \in 1..Len(b)
    BY FirstIs
  <2> QED BY <2>1, LenProperties DEF Str
<1>2. /\ s \in Str /\ Len(s) = Len(a) + Len(b)
      /\ \A i \in 1..Len(a) + Len(b) : s[i] = IF i <= Len(a) THEN a[i] ELSE b[i - Len(a)]
  BY ConcatProperties DEF Str
<1> HIDE DEF s
<1>3. Len(a) + Len(b) \in 1..Len(a) + Len(b) /\ ~(Len(a) + Len(b) <= Len(a))
      /\ (Len(a) + Len(b)) - Len(a) = Len(b)
  BY <1>1
<1>4. s[Len(s)] = b[Len(b)]
  BY <1>2, <1>3
<1>5. s # <<>>
  BY <1>1, <1>2, EmptySeq DEF Str
<1> QED BY <1>2, <1>4, <1>5 DEF s

\* NoEnd of what is put together
LEMMA NoEndConcat ==
  ASSUME NEW a \in Str, NoEnd(a), NEW b \in Str, NoEnd(b)
  PROVE  NoEnd(a \o b)
<1> DEFINE s == a \o b
<1>1. Len(a) \in Nat /\ Len(b) \in Nat
  BY LenProperties DEF Str
<1>2. /\ Len(s) = Len(a) + Len(b)
      /\ \A i \in 1..Len(a) + Len(b) : s[i] = IF i <= Len(a) THEN a[i] ELSE b[i - Len(a)]
  BY ConcatProperties DEF Str
<1> HIDE DEF s
<1>3. ASSUME NEW i \in 1..Len(s) PROVE s[i] # "LF"
  <2>1. i \in 1..Len(a) + Len(b) /\ (i <= Len(a) => i \in 1..Len(a))
        /\ (~(i <= Len(a)) => i - Len(a) \in 1..Len(b))
    BY <1>1, <1>2
  <2>2. CASE i <= Len(a)
    <3>1. s[i] = a[i]
      BY <1>2, <2>1, <2>2
    <3> QED BY <2>1, <2>2, <3>1 DEF NoEnd
  <2>3. CASE ~(i <= Len(a))
    <3>1. s[i] = b[i - Len(a)]
      BY <1>2, <2>1, <2>3
    <3> QED BY <2>1, <2>3, <3>1 DEF NoEnd
  <2> QED BY <2>2, <2>3
<1> QED BY <1>3 DEF NoEnd, s

\* what words have of which a line is made
AllBare(words) == \A i \in 1..Len(words) : Bare(words[i])

\* The words of a line, put one behind the other, are read as they are, and the line holds no LF.
LEMMA LineWords ==
  ASSUME NEW words \in Seq(Str), AllBare(words)
  PROVE  LET line == FlattenSeq(Spaced(words)) IN
         /\ line \in Str /\ Words(line) = words /\ NoEnd(line)
         /\ IF words = <<>> THEN line = <<>>
            ELSE /\ line # <<>> /\ line[1] = words[1][1]
                 /\ line[Len(line)] = words[Len(words)][Len(words[Len(words)])]
<1> DEFINE f == Spaced(words)
           n == Len(words)
           line == FlattenSeq(f)
<1>1. /\ f \in Seq(Str) /\ Len(f) = n /\ n \in Nat
      /\ (words # <<>> => f[1] = words[1])
      /\ \A i \in 1..n : i # 1 => f[i] = <<Space>> \o words[i]
  BY SpacedIs
<1>2. \A i \in 1..n : words[i] \in Str /\ Bare(words[i]) /\ f[i] \in Str
  <2>1. \A i \in 1..n : words[i] \in Str /\ f[i] \in Str
    BY <1>1, ElementOfSeq
  <2> QED BY <2>1 DEF AllBare
<1>3. n = 0 <=> words = <<>>
  BY EmptySeq
<1> HIDE DEF f
<1>4. PICK g : Flattens(f, Byte, g) /\ FlattenSeq(f) = g[Len(f)]
  BY <1>1, FlattenIs DEF Str
<1>5. <<>> \in Str
  BY EmptySeq DEF Str
<1>6. PICK u : Follows(f, <<>>, u) /\ Splits(f, <<>>, g, u)
  BY <1>1, <1>4, <1>5, FollowsExists
<1>7. /\ g \in [0..n -> Str] /\ g[0] = <<>> /\ line = g[n]
      /\ \A i \in 1..n : g[i] = g[i-1] \o f[i]
  BY <1>1, <1>4 DEF Flattens, Str
<1>8. /\ u \in [0..n -> Str]
      /\ \A i \in 1..n : u[i-1] = f[i] \o u[i]
  BY <1>1, <1>6 DEF Follows
<1> HIDE DEF n, line
<1>9. line \in Str
  <2>1. n \in 0..n
    BY <1>1
  <2> QED BY <1>7, <2>1
<1>10. \A i \in 0..n : line = g[i] \o u[i]
  <2>1. line \o <<>> = line
    BY <1>9, ConcatEmptySeq DEF Str
  <2> QED BY <1>1, <1>6, <1>7, <2>1 DEF Splits
<1>11. PICK c : Worded(line, c) /\ Words(line) = c[Len(line)]
  BY <1>9, WordsAre
<1> DEFINE Read(i) == c[Len(g[i])] = SubSeq(words, 1, i)
           I == {i \in Nat : i <= n => Read(i) /\ NoEnd(g[i])}
<1>12. 0 \in I
  <2>1. c[0] = <<>>
    BY <1>11 DEF Worded
  <2>2. Len(g[0]) = 0 /\ SubSeq(words, 1, 0) = <<>>
    BY <1>7, SubSeqEmpty
  <2>3. NoEnd(g[0])
    BY <2>2 DEF NoEnd
  <2> QED BY <2>1, <2>2, <2>3
<1>13. ASSUME NEW i \in Nat, i \in I PROVE i + 1 \in I
  <2> SUFFICES ASSUME i + 1 <= n PROVE Read(i + 1) /\ NoEnd(g[i + 1])
    OBVIOUS
  <2> DEFINE j == i + 1
             v == words[j]
             a == g[i]
             y == u[j]
  <2>1. j \in 1..n /\ j - 1 = i /\ i \in 0..n /\ j \in 0..n /\ i <= n /\ (i # 0 => j # 1)
    BY <1>1
  <2>2. c[Len(a)] = SubSeq(words, 1, i) /\ NoEnd(a)
    BY <1>13, <2>1
  <2>3. v \in Str /\ Bare(v) /\ f[j] \in Str /\ a \in Str /\ y \in Str
    BY <1>2, <1>7, <1>8, <2>1
  <2>4. g[j] = a \o f[j] /\ line = a \o (f[j] \o y)
    BY <1>7, <1>8, <1>10, <2>1
  <2>5. SubSeq(words, 1, j) = Append(SubSeq(words, 1, i), v)
    <3>1. 1 \in 1..Len(words) /\ j \in 1..Len(words)
      BY <1>1, <2>1 DEF n
    <3>2. SubSeq(words, 1, j) = SubSeq(words, 1, j - 1) \o <<words[j]>>
      BY <3>1, SubSeqRecursiveSecond
    <3>3. SubSeq(words, 1, i) \in Seq(Str)
      <4>1. \A k \in 1..i : words[k] \in Str
        <5>1. \A k \in 1..i : k \in 1..n
          BY <1>1, <2>1
        <5> QED BY <1>2, <5>1
      <4>2. i \in Int
        BY <2>1
      <4> QED BY <4>1, <4>2, SubSeqProperties
    <3> HIDE DEF v, j
    <3>4. SubSeq(words, 1, j) = SubSeq(words, 1, i) \o <<v>>
      BY <2>1, <3>2 DEF v
    <3> QED BY <2>3, <3>3, <3>4, AppendIsConcat
  <2>6. NoEnd(v)
    BY <2>3 DEF Bare, NoEnd
  <2> HIDE DEF v, a, y, j
  <2>7. CASE i = 0
    <3>1. f[j] = v /\ a = <<>>
      <4>1. j = 1 /\ words # <<>>
        BY <1>1, <1>3, <2>1, <2>7 DEF j
      <4> QED BY <1>1, <1>7, <2>7, <4>1 DEF v, a
    <3>2. g[j] = v /\ line = v \o y
      <4>1. v \o y \in Str
        BY <2>3, ConcatProperties DEF Str
      <4>2. <<>> \o v = v /\ <<>> \o (v \o y) = v \o y
        BY <2>3, <4>1, ConcatEmptySeq DEF Str
      <4> QED BY <2>4, <3>1, <4>2
    <3>3. c[Len(v)] = <<v>>
      <4>1. Worded(v \o y, c)
        BY <1>11, <3>2
      <4> QED BY <2>3, <4>1, FirstWordRead
    <3>4. Append(SubSeq(words, 1, i), v) = <<v>>
      <4>1. SubSeq(words, 1, i) = <<>>
        BY <2>7, SubSeqEmpty
      <4>2. Append(<<>>, v) = <<v>>
        OBVIOUS
      <4> QED BY <4>1, <4>2
    <3>5. c[Len(g[j])] = SubSeq(words, 1, j) /\ NoEnd(g[j])
      BY <2>5, <2>6, <3>2, <3>3, <3>4
    <3> QED BY <3>5 DEF j
  <2>8. CASE i # 0
    <3>1. f[j] = <<Space>> \o v
      BY <1>1, <2>1, <2>8 DEF v
    <3>2. Between(a, v, y, line)
      BY <2>4, <3>1 DEF Between
    <3>3. c[Len(a \o (<<Space>> \o v))] = Append(c[Len(a)], v)
      BY <1>11, <2>3, <3>2, NextWordRead
    <3>4. NoEnd(g[j])
      <4>1. <<Space>> \in Str /\ NoEnd(<<Space>>)
        <5>1. " " \in Byte /\ " " # "LF"
          BY SymbolsAreBytes, Zenon DEF Symbols
        <5>2. Space \in Byte /\ Space # "LF"
          BY <5>1, Zenon DEF Space
        <5> QED BY <5>2, OneSymbol DEF NoEnd
      <4>2. NoEnd(f[j])
        BY <2>3, <2>6, <3>1, <4>1, NoEndConcat
      <4> QED BY <2>2, <2>3, <2>4, <4>2, NoEndConcat
    <3>5. c[Len(g[j])] = SubSeq(words, 1, j)
      BY <2>2, <2>4, <2>5, <3>1, <3>3
    <3> QED BY <3>4, <3>5 DEF j
  <2> QED BY <2>7, <2>8
<1>14. Read(n) /\ NoEnd(g[n])
  <2>1. n \in I
    <3> HIDE DEF I
    <3> QED BY <1>1, <1>12, <1>13, NatInduct
  <2> QED BY <1>1, <2>1
<1>15. Words(line) = words /\ NoEnd(line)
  <2>1. SubSeq(words, 1, n) = words
    BY SubSeqFull DEF n
  <2> QED BY <1>7, <1>11, <1>14, <2>1
<1>16. ASSUME words = <<>> PROVE line = <<>>
  BY <1>3, <1>7, <1>16
<1>17. ASSUME words # <<>>
       PROVE  line # <<>> /\ line[1] = words[1][1] /\ line[Len(line)] = words[n][Len(words[n])]
  <2>1. 1 \in 1..n /\ n \in 1..n /\ 1 - 1 = 0 /\ 0 \in 0..n /\ n - 1 \in 0..n /\ 1 \in 0..n
    BY <1>1, <1>3, <1>17
  <2>2. words[1] \in Str /\ words[1] # <<>> /\ words[n] \in Str /\ words[n] # <<>> /\ f[1] = words[1]
    BY <1>1, <1>2, <1>17, <2>1 DEF Bare
  <2>3. line # <<>> /\ line[1] = words[1][1]
    <3> DEFINE y == u[1]
               b == words[1]
    <3>1. line = <<>> \o (b \o y) /\ y \in Str
      BY <1>7, <1>8, <1>10, <2>1, <2>2
    <3> HIDE DEF y
    <3>2. b \o y \in Str /\ b \o y # <<>> /\ (b \o y)[1] = b[1]
      BY <2>2, <3>1, FirstOfConcat
    <3>3. <<>> \o (b \o y) = b \o y
      BY <3>2, ConcatEmptySeq DEF Str
    <3> QED BY <3>1, <3>2, <3>3
  <2>4. line[Len(line)] = words[n][Len(words[n])]
    <3> DEFINE a == g[n-1]
               b == f[n]
               v == words[n]
    <3>1. line = a \o b /\ a \in Str /\ b \in Str /\ v \in Str /\ v # <<>>
      BY <1>2, <1>7, <2>1, <2>2
    <3>2. b # <<>> /\ b[Len(b)] = v[Len(v)]
      <4>1. CASE n = 1
        BY <2>2, <4>1
      <4>2. CASE n # 1
        <5>1. b = <<Space>> \o v
          BY <1>1, <2>1, <4>2
        <5>2. <<Space>> \in Str
          <6>1. " " \in Byte
            BY SymbolsAreBytes, Zenon DEF Symbols
          <6>2. Space \in Byte
            BY <6>1, Zenon DEF Space
          <6> QED BY <6>2, OneSymbol
        <5> HIDE DEF v, b
        <5> QED BY <3>1, <5>1, <5>2, LastOfConcat
      <4> QED BY <4>1, <4>2
    <3> HIDE DEF a, b, v
    <3>3. (a \o b)[Len(a \o b)] = b[Len(b)]
      BY <3>1, <3>2, LastOfConcat
    <3>4. line[Len(line)] = v[Len(v)]
      BY <3>1, <3>2, <3>3
    <3> QED BY <3>4 DEF v
  <2> QED BY <2>3, <2>4
<1> QED BY <1>9, <1>15, <1>16, <1>17 DEF line, f, n

\* A line is read as the words it is made of.
LEMMA LineRead ==
  ASSUME NEW cmd \in Sendable, cmd.as = "line", Speakable(cmd), NEW t \in Str
  PROVE  ReadRESPCommand(Encoded(cmd) \o t) = Done(cmd.words, t)
<1> DEFINE words == cmd.words
           line == FlattenSeq(Spaced(words))
           s == line \o <<"LF">> \o t
           n == Len(words)
<1>1. words \in Seq(Str) /\ n \in Nat /\ DOMAIN words = 1..n
  BY LenProperties DEF Sendable
<1>2. Encoded(cmd) = line \o <<"LF">>
  BY Zenon DEF Encoded, Spaced, Space
<1>3. /\ \A i \in DOMAIN words :
           words[i] # <<>> /\ \A k \in DOMAIN words[i] : words[i][k] \notin {Space, "LF"}
      /\ words # <<>> => words[1][1] # "*" /\ Last(Last(words)) # "CR"
  <2>1. cmd.as # "array" /\ cmd.as \notin NoCommands
    BY DEF NoCommands
  <2> QED BY <2>1, Zenon DEF Speakable, Space
<1> HIDE DEF words, n
<1>4. AllBare(words)
  <2> SUFFICES ASSUME NEW i \in 1..n PROVE Bare(words[i])
    BY DEF AllBare, n
  <2>1. words[i] \in Str
    BY <1>1, ElementOfSeq DEF n
  <2>2. DOMAIN words[i] = 1..Len(words[i])
    BY <2>1, LenProperties DEF Str
  <2> QED BY <1>1, <1>3, <2>2 DEF Bare
<1>5. /\ line \in Str /\ Words(line) = words /\ NoEnd(line)
      /\ IF words = <<>> THEN line = <<>>
         ELSE /\ line # <<>> /\ line[1] = words[1][1]
              /\ line[Len(line)] = words[Len(words)][Len(words[Len(words)])]
  BY <1>1, <1>4, LineWords, Zenon
<1> HIDE DEF line
<1>6. line # <<>> => line[1] # "*" /\ line[Len(line)] # "CR"
  BY <1>3, <1>5 DEF Last
<1>7. s \in Str /\ ReadLine(s) = Done(line, t)
  BY <1>5, <1>6, BareLine
<1>8. s # <<>> /\ s[1] # "*"
  <2>1. <<"LF">> \in Str /\ <<"LF">> # <<>> /\ <<"LF">>[1] = "LF"
    <3>1. "LF" \in Byte
      BY SymbolsAreBytes DEF Symbols
    <3> QED BY <3>1, OneSymbol
  <2>2. s = line \o (<<"LF">> \o t) /\ <<"LF">> \o t \in Str
    BY <1>5, <2>1, Concats
  <2>3. CASE line = <<>>
    <3>1. s = <<"LF">> \o t
      BY <2>2, <2>3, ConcatEmptySeq DEF Str
    <3> HIDE DEF s
    <3> QED BY <2>1, <3>1, FirstOfConcat
  <2>4. CASE line # <<>>
    <3> DEFINE y == <<"LF">> \o t
    <3>1. s = line \o y /\ y \in Str
      BY <2>2
    <3> HIDE DEF s, y
    <3> QED BY <1>5, <1>6, <2>4, <3>1, FirstOfConcat
  <2> QED BY <2>3, <2>4
<1>9. ReadInline(s) = Done(words, t)
  <2> HIDE DEF s
  <2>1. ReadLine(s).is = "done" /\ ReadLine(s).args = line /\ ReadLine(s).rest = t
    BY <1>7 DEF Done
  <2> QED BY <1>5, <2>1 DEF ReadInline
<1>10. ReadRESPCommand(s) = Done(words, t)
  <2> HIDE DEF s
  <2> QED BY <1>8, <1>9 DEF ReadRESPCommand
<1> QED BY <1>2, <1>10 DEF words

\* What is read of a command and what follows it: its words, or an error.
LEMMA CommandRead ==
  ASSUME NEW cmd \in Sendable, Speakable(cmd), NEW t \in Str
  PROVE  LET r == ReadRESPCommand(Encoded(cmd) \o t) IN
         /\ cmd.as \in NoCommands => r.is \in {"err", "fatal"}
         /\ cmd.as \notin NoCommands => r = Done(cmd.words, t)
<1>1. cmd.as \in {"line", "array"} \cup NoCommands
  BY Zenon DEF Speakable
<1>2. CASE cmd.as = "line"
  <2>1. cmd.as \notin NoCommands
    BY <1>2 DEF NoCommands
  <2> QED BY <1>2, <2>1, LineRead
<1>3. CASE cmd.as = "array"
  <2>1. cmd.as \notin NoCommands
    BY <1>3 DEF NoCommands
  <2> QED BY <1>3, <2>1, ArrayRead
<1>4. CASE cmd.as \in NoCommands
  BY <1>4, BadRead
<1> QED BY <1>1, <1>2, <1>3, <1>4

-------------------------------------------------------------------------------
(* What a script means, command by command. *)

\* what is meant by the first i commands of q, when w is by those before
Further(q, w, i) ==
  IF q[i].words = <<>> \/ (\E n \in 1..i : q[n].as \in NoCommands) THEN w ELSE Append(w, q[i].words)

Meaning(q, g) == [i \in 0..Len(q) |-> IF i = 0 THEN <<>> ELSE Further(q, g[i-1], i)]

Means(q, g) ==
  /\ g \in [0..Len(q) -> Seq(Seq(Str))] /\ g[0] = <<>>
  /\ \A i \in 1..Len(q) : g[i] = Further(q, g[i-1], i)

\* What is meant is a sequence of commands.
LEMMA FurtherTyped ==
  ASSUME NEW q \in Seq(Sendable), NEW i \in 1..Len(q), NEW w \in Seq(Seq(Str))
  PROVE  Further(q, w, i) \in Seq(Seq(Str))
<1>1. q[i].words \in Seq(Str)
  <2>1. q[i] \in Sendable
    BY ElementOfSeq
  <2> QED BY <2>1 DEF Sendable
<1>2. Append(w, q[i].words) \in Seq(Seq(Str))
  BY <1>1, AppendProperties
<1> QED BY <1>2 DEF Further

\* What a script means is what its last command adds to the others.
LEMMA CommandedIs ==
  ASSUME NEW q \in Seq(Sendable)
  PROVE  \E g : Means(q, g) /\ Commanded(q) = g[Len(q)]
<1> DEFINE n == Len(q)
           S == Seq(Seq(Str))
           x == <<>>
           f == [p \in (1..n) \X S |-> Further(q, p[2], p[1])]
           c == CHOOSE g : g = Meaning(q, g)
<1>1. n \in Nat /\ x \in S
  BY LenProperties, EmptySeq
<1>2. Commanded(q) = c[n]
  BY DEF Commanded, Meaning, Further, n, c
<1>3. f \in [(1..n) \X S -> S]
  BY FurtherTyped
<1>4. \A i \in 1..n, r \in S : f[<<i, r>>] = Further(q, r, i)
  OBVIOUS
<1>5. \A g : Meaning(q, g) = [i \in 0..n |-> IF i = 0 THEN x ELSE Further(q, g[i-1], i)]
  BY DEF Meaning, n, x
<1> HIDE DEF f, x, n, S
<1>6. \E g : g = Meaning(q, g)
  <2>1. PICK g : Chain(g, n, S, x, f)
    BY <1>1, <1>3, ChainExists
  <2>2. ASSUME NEW i \in 0..n PROVE g[i] = IF i = 0 THEN x ELSE Further(q, g[i-1], i)
    <3>1. CASE i = 0
      BY <3>1, <2>1 DEF Chain
    <3>2. CASE i # 0
      <4>1. i \in 1..n /\ i - 1 \in 0..n
        BY <1>1, <3>2
      <4>2. g[i-1] \in S /\ g[i] = f[<<i, g[i-1]>>]
        BY <4>1, <2>1 DEF Chain
      <4> QED BY <3>2, <4>1, <4>2, <1>4
    <3> QED BY <3>1, <3>2
  <2>3. g = [i \in 0..n |-> g[i]]
    BY <2>1 DEF Chain
  <2>4. g = Meaning(q, g)
    BY <2>2, <2>3, <1>5, Zenon
  <2> QED BY <2>4
<1>7. c = Meaning(q, c)
  BY <1>6, Zenon
<1> HIDE DEF c
<1>8. \A i \in 0..n : c[i] = IF i = 0 THEN x ELSE Further(q, c[i-1], i)
  BY <1>5, <1>7, Zenon
<1>9. c = [i \in 0..n |-> c[i]]
  BY <1>5, <1>7, <1>8, Zenon
<1>10. c[0] = x /\ \A i \in 1..n : c[i] = Further(q, c[i-1], i)
  <2>1. 0 \in 0..n /\ \A i \in 1..n : i \in 0..n /\ i # 0
    BY <1>1
  <2> QED BY <2>1, <1>8
<1>11. Chain(c, n, S, x, f)
  <2>1. \A i \in 1..n : c[i-1] \in S => c[i] = f[<<i, c[i-1]>>]
    BY <1>4, <1>10
  <2> QED BY <2>1, <1>1, <1>3, <1>9, <1>10, ChainIs
<1>12. Means(q, c)
  BY <1>10, <1>11 DEF Chain, Means, n, x, S
<1> QED BY <1>2, <1>12 DEF n

\* A sequence is its own beginning,
LEMMA PrefixItself == ASSUME NEW S, NEW s \in Seq(S) PROVE IsPrefix(s, s)
BY LenProperties DEF IsPrefix

\* and that of what it grows to.
LEMMA PrefixAppend ==
  ASSUME NEW S, NEW s \in Seq(S), NEW t \in Seq(S), IsPrefix(s, t), NEW x \in S
  PROVE  IsPrefix(s, Append(t, x))
<1> DEFINE a == Append(t, x)
           k == Len(s)
<1>1. k \in Nat /\ Len(t) \in Nat /\ k <= Len(t) /\ SubSeq(s, 1, k) = SubSeq(t, 1, k)
  BY LenProperties DEF IsPrefix
<1>2. a \in Seq(S) /\ Len(a) = Len(t) + 1 /\ \A i \in 1..Len(t) : a[i] = t[i]
  BY AppendProperties
<1> HIDE DEF a, k
<1>3. \A i \in 1..k : i \in 1..Len(t) /\ t[i] \in S /\ a[i] = t[i]
  <2>1. \A i \in 1..k : i \in 1..Len(t)
    BY <1>1
  <2> QED BY <1>2, <2>1, ElementOfSeq
<1>4. SubSeq(a, 1, k) = SubSeq(t, 1, k)
  <2> DEFINE b == SubSeq(a, 1, k)
             d == SubSeq(t, 1, k)
  <2>1. k \in Int /\ (IF 1 <= k THEN k - 1 + 1 ELSE 0) = k /\ k - 1 + 1 = k /\ \A i \in 1..k : 1 + i - 1 = i
    BY <1>1
  <2>2. b \in Seq(S) /\ Len(b) = k /\ \A i \in 1..k : b[i] = a[i]
    BY <1>3, <2>1, SubSeqProperties
  <2>3. d \in Seq(S) /\ Len(d) = k /\ \A i \in 1..k : d[i] = t[i]
    BY <1>3, <2>1, SubSeqProperties
  <2> HIDE DEF b, d
  <2>4. b = d
    BY <1>3, <2>2, <2>3, SeqEqual
  <2> QED BY <2>4 DEF b, d
<1>5. k <= Len(a)
  BY <1>1, <1>2
<1> QED BY <1>1, <1>4, <1>5 DEF IsPrefix, a, k

\* What is meant grows with every command.
LEMMA MeansGrows ==
  ASSUME NEW q \in Seq(Sendable), NEW m, Means(q, m), NEW p \in 0..Len(q)
  PROVE  IsPrefix(m[p], m[Len(q)])
<1> DEFINE n == Len(q)
           I == {r \in Nat : p + r <= n => IsPrefix(m[p], m[p + r])}
<1>1. n \in Nat /\ p \in Nat /\ n - p \in Nat /\ p + (n - p) = n /\ p + 0 = p
  BY LenProperties
<1>2. \A i \in 0..n : m[i] \in Seq(Seq(Str))
  BY DEF Means
<1>3. 0 \in I
  <2>1. IsPrefix(m[p], m[p])
    BY <1>2, PrefixItself
  <2> QED BY <1>1, <2>1
<1>4. ASSUME NEW r \in Nat, r \in I PROVE r + 1 \in I
  <2> SUFFICES ASSUME p + (r + 1) <= n PROVE IsPrefix(m[p], m[p + (r + 1)])
    OBVIOUS
  <2> DEFINE i == p + (r + 1)
             w == q[i].words
             t == m[i-1]
  <2>1. i \in 1..n /\ i - 1 = p + r /\ p + r <= n /\ i - 1 \in 0..n
    BY <1>1
  <2>2. IsPrefix(m[p], t)
    BY <1>4, <2>1
  <2>3. m[i] = t \/ m[i] = Append(t, w)
    <3>1. m[i] = Further(q, t, i)
      BY <2>1 DEF Means
    <3> HIDE DEF i, t
    <3> QED BY <3>1 DEF Further
  <2>4. w \in Seq(Str) /\ t \in Seq(Seq(Str)) /\ m[p] \in Seq(Seq(Str))
    <3>1. q[i] \in Sendable
      BY <2>1, ElementOfSeq
    <3>2. w \in Seq(Str)
      BY <3>1 DEF Sendable
    <3> QED BY <1>2, <2>1, <3>2
  <2> HIDE DEF i, t, w
  <2>5. IsPrefix(m[p], m[i])
    BY <2>2, <2>3, <2>4, PrefixAppend
  <2> QED BY <2>5 DEF i
<1>5. n - p \in I
  <2> HIDE DEF I, n
  <2> QED BY <1>1, <1>3, <1>4, NatInduct
<1> QED BY <1>1, <1>5

-------------------------------------------------------------------------------
(* Where the reader stands: between two commands of the script. *)

Speaks(q) == q \in Seq(Sendable) /\ \A i \in 1..Len(q) : Speakable(q[i])

Encodings(q) == [i \in DOMAIN q |-> Encoded(q[i])]

\* The first p commands have been read, none of which was none: heard is what they mean, and
\* what has arrived and is not read, with the pieces that have not arrived, is the others.
Stood(q, pieces, inb, hrd, m, u, v, p) ==
  /\ Means(q, m) /\ Follows(Encodings(q), <<>>, u) /\ Follows(pieces, <<>>, v)
  /\ p \in 0..Len(q) /\ inb \o v[0] = u[p] /\ hrd = m[p] /\ Commanded(q) = m[Len(q)]
  /\ \A i \in 1..p : q[i].as \notin NoCommands

Understood(q, pieces, inb, hrd) == \E m, u, v, p : Stood(q, pieces, inb, hrd, m, u, v, p)

\* The encodings of a script are texts.
LEMMA EncodingsAre ==
  ASSUME NEW q \in Seq(Sendable)
  PROVE  /\ Encodings(q) \in Seq(Str) /\ Len(Encodings(q)) = Len(q)
         /\ \A i \in 1..Len(q) : Encodings(q)[i] = Encoded(q[i]) /\ Encoded(q[i]) \in Str
<1> DEFINE f == Encodings(q)
           n == Len(q)
<1>1. n \in Nat /\ DOMAIN q = 1..n /\ \A i \in 1..n : q[i] \in Sendable
  BY LenProperties, ElementOfSeq
<1>2. f = [i \in 1..n |-> f[i]] /\ \A i \in 1..n : f[i] = Encoded(q[i]) /\ Encoded(q[i]) \in Str
  BY <1>1, EncodedTyped DEF Encodings
<1> HIDE DEF f, n
<1>3. f \in [1..n -> Str]
  BY <1>2
<1>4. f \in Seq(Str) /\ Len(f) = n
  BY <1>1, <1>3, SeqDef, LenProperties
<1> QED BY <1>2, <1>4 DEF f, n

\* At the start nothing has been read and nothing has arrived.
LEMMA UnderstoodAtFirst ==
  ASSUME NEW q \in Seq(Sendable), NEW n \in Nat \ {0}
  PROVE  Understood(q, Cut(FlattenSeq(Encodings(q)), n), <<>>, <<>>)
<1> DEFINE e == Encodings(q)
           s == FlattenSeq(e)
<1>1. e \in Seq(Str) /\ <<>> \in Str
  BY EncodingsAre, EmptySeq DEF Str
<1>2. PICK m : Means(q, m) /\ Commanded(q) = m[Len(q)]
  BY CommandedIs
<1> HIDE DEF e
<1>3. PICK u : Follows(e, <<>>, u) /\ u[0] = s \o <<>>
  BY <1>1, StreamFollows
<1>4. s \in Str
  BY <1>1, FlattenTyped DEF Str
<1> HIDE DEF s
<1>5. PICK v : Follows(Cut(s, n), <<>>, v) /\ v[0] = s
  BY <1>4, CutFollows
<1>6. <<>> \o v[0] = u[0]
  BY <1>3, <1>4, <1>5, ConcatEmptySeq DEF Str
<1>7. m[0] = <<>> /\ 0 \in 0..Len(q) /\ \A i \in 1..0 : q[i].as \notin NoCommands
  BY <1>2, LenProperties DEF Means
<1>8. Stood(q, Cut(s, n), <<>>, <<>>, m, u, v, 0)
  BY <1>2, <1>3, <1>5, <1>6, <1>7 DEF Stood, e
<1> QED BY <1>8, Zenon DEF Understood, s, e

\* A piece arrives.
LEMMA UnderstoodArrived ==
  ASSUME NEW q, NEW s \in Seq(Str), s # <<>>, NEW b \in Str, NEW h, Understood(q, s, b, h)
  PROVE  Understood(q, Tail(s), b \o Head(s), h)
<1>1. PICK m, u, v, p : Stood(q, s, b, h, m, u, v, p)
  BY Zenon DEF Understood
<1> DEFINE t == Tail(s)
           n == Len(s)
           w == [i \in 0..Len(t) |-> v[i + 1]]
<1>2. /\ n \in Nat \ {0} /\ t \in Seq(Str) /\ Len(t) = n - 1 /\ Head(s) = s[1]
      /\ \A i \in 1..n-1 : t[i] = s[i + 1]
  BY EmptySeq, LenProperties, HeadTailProperties
<1>3. /\ v \in [0..n -> Str] /\ v[n] = <<>>
      /\ \A i \in 1..n : v[i-1] = s[i] \o v[i]
  BY <1>1 DEF Stood, Follows
<1> HIDE DEF t, n
<1>4. w \in [0..Len(t) -> Str]
  BY <1>2, <1>3
<1>5. w[Len(t)] = <<>>
  <2>1. Len(t) \in 0..Len(t) /\ Len(t) + 1 = n
    BY <1>2
  <2> QED BY <1>3, <2>1
<1>6. ASSUME NEW i \in 1..Len(t) PROVE w[i-1] = t[i] \o w[i]
  <2>1. i \in 1..n-1 /\ i + 1 \in 1..n /\ (i + 1) - 1 = i /\ (i - 1) + 1 = i
        /\ i \in 0..Len(t) /\ i - 1 \in 0..Len(t)
    BY <1>2
  <2>2. w[i-1] = v[i] /\ w[i] = v[i + 1]
    BY <2>1
  <2>3. v[i] = s[i + 1] \o v[i + 1] /\ t[i] = s[i + 1]
    BY <1>2, <1>3, <2>1
  <2> QED BY <2>2, <2>3
<1>7. Follows(t, <<>>, w)
  BY <1>4, <1>5, <1>6 DEF Follows
<1>8. (b \o Head(s)) \o w[0] = b \o v[0]
  <2>1. 1 \in 1..n /\ 1 - 1 = 0 /\ 0 \in 0..Len(t) /\ 0 + 1 = 1 /\ 1 \in 0..n
    BY <1>2
  <2>2. w[0] = v[1] /\ v[0] = s[1] \o v[1] /\ v[1] \in Str
    BY <1>3, <2>1
  <2>3. Head(s) \in Str
    BY HeadTailProperties
  <2> HIDE DEF w
  <2>4. (b \o Head(s)) \o v[1] = b \o (Head(s) \o v[1])
    BY <2>2, <2>3, ConcatTwice
  <2> QED BY <1>2, <2>2, <2>4
<1> HIDE DEF w
<1>9. Stood(q, t, b \o Head(s), h, m, u, w, p)
  BY <1>1, <1>7, <1>8 DEF Stood
<1> QED BY <1>9, Zenon DEF Understood, t

\* A command is read: what has been read of it is what was sent.
LEMMA UnderstoodRead ==
  ASSUME NEW q, Speaks(q), NEW s \in Seq(Str), NEW b \in Str, NEW h, Understood(q, s, b, h),
         ReadRESPCommand(b).is = "done"
  PROVE  LET r == ReadRESPCommand(b) IN
         Understood(q, s, r.rest, IF r.args = <<>> THEN h ELSE Append(h, r.args))
<1>1. PICK m, u, v, p : Stood(q, s, b, h, m, u, v, p)
  BY Zenon DEF Understood
<1> DEFINE r == ReadRESPCommand(b)
           n == Len(q)
           cmd == q[p + 1]
<1>2. v[0] \in Str
  BY <1>1, LenProperties DEF Stood, Follows
<1>3. ReadRESPCommand(u[p]) = Done(r.args, r.rest \o v[0])
  <2>1. ReadRESPCommand(b \o v[0]) = Done(r.args, r.rest \o v[0])
    BY <1>2, CommandExtends
  <2> QED BY <1>1, <2>1 DEF Stood
<1>4. q \in Seq(Sendable) /\ n \in Nat /\ p \in 0..n
  BY <1>1, LenProperties DEF Stood, Speaks
<1>5. /\ u \in [0..n -> Str] /\ u[n] = <<>>
      /\ \A i \in 1..n : u[i-1] = Encoded(q[i]) \o u[i]
  BY <1>1, <1>4, EncodingsAre DEF Stood, Follows
<1> HIDE DEF r, n
<1>6. p # n
  <2>1. ReadRESPCommand(<<>>).is = "more"
    BY DEF ReadRESPCommand, More
  <2>2. ReadRESPCommand(u[p]).is = "done"
    BY <1>3, DoneIs
  <2> QED BY <1>5, <2>1, <2>2
<1>7. p + 1 \in 1..n /\ p + 1 \in 0..n /\ (p + 1) - 1 = p
  BY <1>4, <1>6
<1>8. cmd \in Sendable /\ Speakable(cmd) /\ u[p + 1] \in Str /\ u[p] = Encoded(cmd) \o u[p + 1]
  <2>1. cmd \in Sendable /\ Speakable(cmd)
    BY <1>4, <1>7, ElementOfSeq DEF Speaks, n
  <2> QED BY <1>5, <1>7, <2>1
<1> HIDE DEF cmd
<1>9. /\ cmd.as \in NoCommands => ReadRESPCommand(u[p]).is \in {"err", "fatal"}
      /\ cmd.as \notin NoCommands => ReadRESPCommand(u[p]) = Done(cmd.words, u[p + 1])
  BY <1>8, CommandRead
<1>10. cmd.as \notin NoCommands /\ r.args = cmd.words /\ r.rest \o v[0] = u[p + 1]
  <2>1. cmd.as \notin NoCommands
    <3>1. ReadRESPCommand(u[p]).is = "done"
      BY <1>3, DoneIs
    <3> QED BY <1>9, <3>1
  <2> DEFINE e == ReadRESPCommand(u[p])
  <2>2. \A x, w : e = Done(x, w) => e.args = x /\ e.rest = w
    BY DoneIs
  <2>3. e = Done(r.args, r.rest \o v[0]) /\ e = Done(cmd.words, u[p + 1])
    BY <1>3, <1>9, <2>1
  <2> HIDE DEF e
  <2>4. e.args = r.args /\ e.rest = r.rest \o v[0]
    BY <2>2, <2>3, Zenon
  <2>5. e.args = cmd.words /\ e.rest = u[p + 1]
    BY <2>2, <2>3, Zenon
  <2> QED BY <2>1, <2>4, <2>5, Zenon
<1> DEFINE k == IF r.args = <<>> THEN h ELSE Append(h, r.args)
<1>11. \A i \in 1..p+1 : q[i].as \notin NoCommands
  <2> TAKE i \in 1..p+1
  <2>1. i \in 1..p \/ i = p + 1
    BY <1>4
  <2>2. \A j \in 1..p : q[j].as \notin NoCommands
    BY <1>1 DEF Stood
  <2> QED BY <1>10, <2>1, <2>2 DEF cmd
<1>12. k = m[p + 1]
  <2>1. m[p + 1] = Further(q, m[p], p + 1) /\ h = m[p]
    <3>1. /\ h = m[p]
          /\ \A i \in 1..n : m[i] = Further(q, m[i-1], i)
      BY <1>1 DEF Stood, Means, n
    <3> QED BY <1>7, <3>1
  <2>2. ~\E i \in 1..p+1 : q[i].as \in NoCommands
    BY <1>11
  <2>3. Further(q, h, p + 1) = IF cmd.words = <<>> THEN h ELSE Append(h, cmd.words)
    BY <2>2, Zenon DEF Further, cmd
  <2>4. k = IF cmd.words = <<>> THEN h ELSE Append(h, cmd.words)
    BY <1>10
  <2> HIDE DEF k
  <2> QED BY <2>1, <2>3, <2>4, Zenon
<1> HIDE DEF k
<1>13. Stood(q, s, r.rest, k, m, u, v, p + 1)
  <2>1. Means(q, m) /\ Follows(Encodings(q), <<>>, u) /\ Follows(s, <<>>, v) /\ Commanded(q) = m[Len(q)]
    BY <1>1 DEF Stood
  <2>2. p + 1 \in 0..Len(q)
    BY <1>7 DEF n
  <2> QED BY <1>10, <1>11, <1>12, <2>1, <2>2 DEF Stood
<1> QED BY <1>13, Zenon DEF Understood, k, r

\* What has been heard is the beginning of what was meant.
LEMMA UnderstoodHeard ==
  ASSUME NEW q, Speaks(q), NEW s, NEW b, NEW h, Understood(q, s, b, h)
  PROVE  IsPrefix(h, Commanded(q))
<1>1. PICK m, u, v, p : Stood(q, s, b, h, m, u, v, p)
  BY Zenon DEF Understood
<1>2. q \in Seq(Sendable) /\ Means(q, m) /\ p \in 0..Len(q) /\ h = m[p] /\ Commanded(q) = m[Len(q)]
  BY <1>1 DEF Stood, Speaks
<1>3. IsPrefix(m[p], m[Len(q)])
  BY <1>2, MeansGrows
<1> QED BY <1>2, <1>3

\* When everything has arrived and the reader waits, all that was meant has been heard.
LEMMA UnderstoodWhole ==
  ASSUME NEW q, Speaks(q), NEW b \in Str, NEW h, Understood(q, <<>>, b, h),
         ReadRESPCommand(b).is = "more"
  PROVE  h = Commanded(q)
<1>1. PICK m, u, v, p : Stood(q, <<>>, b, h, m, u, v, p)
  BY Zenon DEF Understood
<1> DEFINE n == Len(q)
           cmd == q[p + 1]
<1>2. /\ q \in Seq(Sendable) /\ p \in 0..n /\ n \in Nat /\ h = m[p] /\ Commanded(q) = m[n]
      /\ b \o v[0] = u[p]
  BY <1>1, LenProperties DEF Stood, Speaks
<1>3. b = u[p]
  <2>1. v[0] = <<>>
    BY <1>1 DEF Stood, Follows
  <2>2. b \o <<>> = b
    BY ConcatEmptySeq DEF Str
  <2> QED BY <1>2, <2>1, <2>2
<1>4. /\ u \in [0..n -> Str]
      /\ \A i \in 1..n : u[i-1] = Encoded(q[i]) \o u[i]
  BY <1>1, <1>2, EncodingsAre DEF Stood, Follows
<1> HIDE DEF n
<1>5. ASSUME p # n PROVE FALSE
  <2>1. p + 1 \in 1..n /\ p + 1 \in 0..n /\ (p + 1) - 1 = p
    BY <1>2, <1>5
  <2>2. cmd \in Sendable /\ Speakable(cmd)
    BY <1>2, <2>1, ElementOfSeq DEF Speaks, n
  <2>3. u[p + 1] \in Str /\ u[p] = Encoded(cmd) \o u[p + 1]
    BY <1>4, <2>1, <2>2
  <2> HIDE DEF cmd
  <2>4. /\ cmd.as \in NoCommands => ReadRESPCommand(u[p]).is \in {"err", "fatal"}
        /\ cmd.as \notin NoCommands => ReadRESPCommand(u[p]) = Done(cmd.words, u[p + 1])
    BY <2>2, <2>3, CommandRead
  <2>5. Done(cmd.words, u[p + 1]).is = "done"
    BY DoneIs
  <2>6. ReadRESPCommand(u[p]).is = "more"
    BY <1>3
  <2> QED BY <2>4, <2>5, <2>6
<1> QED BY <1>2, <1>5

-------------------------------------------------------------------------------
(* Each step keeps the reader between two commands. *)

\* What has been sent is understood on every connection.
Heeded == \A c \in Conns : Speaks(script[c]) /\ Understood(script[c], sent[c], inbuf[c], heard[c])

Stream == <<script, sent, inbuf, heard>>

\* The start: everything has been sent and nothing has been read.
LEMMA HeededAtFirst == Init => Heeded
<1> SUFFICES ASSUME Init, NEW c \in Conns
             PROVE  Speaks(script[c]) /\ Understood(script[c], sent[c], inbuf[c], heard[c])
  BY DEF Heeded
<1> DEFINE q == script[c]
<1>1. PICK s \in Setups :
        /\ script = s.scripts
        /\ sent = [x \in Conns |->
                      Cut(FlattenSeq([i \in DOMAIN script[x] |-> Encoded(script[x][i])]), s.cut[x])]
  BY DEF Init
<1>2. q \in Seq(Sendable) /\ s.cut[c] \in Nat \ {0}
  BY <1>1, SetupIs
<1>3. Speaks(q)
  <2>1. DOMAIN q = 1..Len(q)
    BY <1>2, LenProperties
  <2>2. \A i \in DOMAIN s.scripts[c] : Speakable(s.scripts[c][i])
    BY ClientsSpeakRESP
  <2> QED BY <1>1, <1>2, <2>1, <2>2 DEF Speaks
<1>4. sent[c] = Cut(FlattenSeq(Encodings(q)), s.cut[c])
  BY <1>1 DEF Encodings
<1>5. inbuf[c] = <<>> /\ heard[c] = <<>>
  BY DEF Init
<1> HIDE DEF q
<1>6. Understood(q, sent[c], inbuf[c], heard[c])
  BY <1>2, <1>4, <1>5, UnderstoodAtFirst
<1> QED BY <1>3, <1>6 DEF q

\* A step that leaves the streams alone.
LEMMA NothingHeeded ==
  ASSUME Heeded, UNCHANGED Stream
  PROVE  Heeded'
<1>1. script' = script /\ sent' = sent /\ inbuf' = inbuf /\ heard' = heard
  BY DEF Stream
<1> QED BY <1>1 DEF Heeded

\* A step of the stream of connection c.
LEMMA OneHeeds ==
  ASSUME Heeded, NEW c \in Conns, script' = script,
         \A x \in Conns : x # c => sent'[x] = sent[x] /\ inbuf'[x] = inbuf[x] /\ heard'[x] = heard[x],
         Understood(script[c], sent'[c], inbuf'[c], heard'[c])
  PROVE  Heeded'
<1> SUFFICES ASSUME NEW x \in Conns
             PROVE  Speaks(script'[x]) /\ Understood(script'[x], sent'[x], inbuf'[x], heard'[x])
  BY DEF Heeded
<1>1. Speaks(script[x]) /\ Understood(script[x], sent[x], inbuf[x], heard[x])
  BY DEF Heeded
<1>2. CASE x = c
  BY <1>1, <1>2
<1>3. CASE x # c
  BY <1>1, <1>3
<1> QED BY <1>2, <1>3

\* A piece arrives on a connection.
LEMMA ReceiveHeeded ==
  ASSUME Inv, Heeded, NEW c \in Conns, Receive(c)
  PROVE  Heeded'
<1>1. /\ sent \in [Conns -> Seq(Str)] /\ inbuf \in [Conns -> Str] /\ sent[c] # <<>>
      /\ inbuf' = [inbuf EXCEPT ![c] = inbuf[c] \o Head(sent[c])]
      /\ sent' = [sent EXCEPT ![c] = Tail(sent[c])]
      /\ script' = script /\ heard' = heard
  BY DEF Inv, Typed, Receive, setup
<1>2. /\ sent'[c] = Tail(sent[c]) /\ inbuf'[c] = inbuf[c] \o Head(sent[c])
      /\ \A x \in Conns : x # c => sent'[x] = sent[x] /\ inbuf'[x] = inbuf[x] /\ heard'[x] = heard[x]
  BY <1>1
<1>3. sent[c] \in Seq(Str) /\ inbuf[c] \in Str /\ Understood(script[c], sent[c], inbuf[c], heard[c])
  BY <1>1 DEF Heeded
<1>4. Understood(script[c], Tail(sent[c]), inbuf[c] \o Head(sent[c]), heard[c])
  BY <1>1, <1>3, UnderstoodArrived
<1>5. Understood(script[c], sent'[c], inbuf'[c], heard'[c])
  BY <1>1, <1>2, <1>4
<1> QED BY <1>1, <1>2, <1>5, OneHeeds

\* A command is read on a connection.
LEMMA TakeHeeded ==
  ASSUME Inv, Heeded, NEW c \in Conns, SkipEmpty(c) \/ Hear(c)
  PROVE  Heeded'
<1> DEFINE r == Input(c)
           h == IF r.args = <<>> THEN heard[c] ELSE Append(heard[c], r.args)
<1>1. /\ sent \in [Conns -> Seq(Str)] /\ inbuf \in [Conns -> Str] /\ heard = [x \in Conns |-> heard[x]]
      /\ r.is = "done" /\ inbuf' = [inbuf EXCEPT ![c] = r.rest]
      /\ sent' = sent /\ script' = script
      /\ heard' = IF r.args = <<>> THEN heard ELSE [heard EXCEPT ![c] = Append(heard[c], r.args)]
  BY DEF Inv, Typed, SkipEmpty, Hear, Take, Rest, setup
<1> HIDE DEF r
<1>2. /\ inbuf'[c] = r.rest /\ heard'[c] = h
      /\ \A x \in Conns : x # c => sent'[x] = sent[x] /\ inbuf'[x] = inbuf[x] /\ heard'[x] = heard[x]
  BY <1>1
<1>3. /\ sent[c] \in Seq(Str) /\ inbuf[c] \in Str /\ Speaks(script[c])
      /\ Understood(script[c], sent[c], inbuf[c], heard[c])
  BY <1>1 DEF Heeded
<1>4. Understood(script[c], sent[c], r.rest, h)
  <2>1. r = ReadRESPCommand(inbuf[c])
    BY DEF r, Input
  <2>2. ReadRESPCommand(inbuf[c]).is = "done"
    BY <1>1, <2>1
  <2> DEFINE y == ReadRESPCommand(inbuf[c])
  <2>3. Understood(script[c], sent[c], y.rest, IF y.args = <<>> THEN heard[c] ELSE Append(heard[c], y.args))
    BY <1>3, <2>2, UnderstoodRead, Zenon
  <2> HIDE DEF y
  <2>4. r = y
    BY <2>1 DEF y
  <2> QED BY <2>3, <2>4
<1> HIDE DEF h
<1>5. Understood(script[c], sent'[c], inbuf'[c], heard'[c])
  BY <1>1, <1>2, <1>4
<1> QED BY <1>1, <1>2, <1>5, OneHeeds

\* No step leaves the reader anywhere else.
LEMMA NextHeeded == Inv /\ Heeded /\ [Next]_vars => Heeded'
<1> SUFFICES ASSUME Inv, Heeded, [Next]_vars PROVE Heeded'
  OBVIOUS
<1>1. ASSUME NEW c \in Conns, Receive(c) PROVE Heeded'
  BY <1>1, ReceiveHeeded
<1>2. ASSUME NEW c \in Conns, Leave(c) PROVE Heeded'
  BY <1>2, NothingHeeded DEF Leave, setup, Stream
<1>3. ASSUME NEW c \in Conns, Serve(c) PROVE Heeded'
  <2>1. CASE Reject(c) \/ Exhaust(c)
    BY <2>1, NothingHeeded DEF Reject, Exhaust, setup, Stream
  <2>2. CASE SkipEmpty(c)
    BY <2>2, TakeHeeded
  <2>3. CASE Auth(c) \/ Quit(c) \/ Run(c)
    <3>1. Hear(c)
      BY <2>3 DEF Auth, Quit, Run
    <3> QED BY <3>1, TakeHeeded
  <2>4. CASE executeCommand(c)
    <3>1. Replied(c) \/ GotOn(c) \/ Panic(c)
      BY <2>4, CommandStep
    <3>2. UNCHANGED Stream
      BY <3>1 DEF Replied, GotOn, Reply, Go, Panic, setup, Stream
    <3> QED BY <3>2, NothingHeeded
  <2> QED BY <1>3, <2>1, <2>2, <2>3, <2>4 DEF Serve
<1>4. CASE Tick
  BY <1>4, NothingHeeded DEF Tick, setup, conn, Stream
<1>5. ASSUME NEW k \in DOMAIN db.items, ExpireByTTL(k) PROVE Heeded'
  BY <1>5, NothingHeeded DEF ExpireByTTL, setup, conn, Stream
<1>6. CASE UNCHANGED vars
  BY <1>6, NothingHeeded DEF vars, setup, conn, Stream
<1> QED BY <1>1, <1>2, <1>3, <1>4, <1>5, <1>6 DEF Next

\* On every connection the reader stands between two of the commands its client has sent:
\* what has been heard is what those before it mean, and the bytes to come, those that have
\* arrived and those that have not, are the encodings of those after it.
THEOREM StreamsHeeded == Spec => []Heeded
<1>1. Init => Heeded
  BY HeededAtFirst
<1>2. Inv /\ Heeded /\ [Next]_vars => Heeded'
  BY NextHeeded
<1> QED BY <1>1, <1>2, InvHolds, PTL DEF Spec

\* However the bytes are cut, and whatever line ends the values contain: the commands read
\* from a connection are those its client has sent, in order and complete (readMultibulk,
\* readInline).
THEOREM CommandsAreParsedAsSent == Spec => []ParsedAsSent
<1>1. Heeded => ParsedAsSent
  BY UnderstoodHeard DEF Heeded, ParsedAsSent, Meant
<1> QED BY <1>1, StreamsHeeded, PTL

\* Pipelined or not: when all that a client sends has arrived and the server waits for more,
\* each of its commands has been read and answered (handleConnection, bufio.Reader).
THEOREM EachIsAnswered == Spec => []EachAnswered
<1>1. Inv /\ Heeded => EachAnswered
  <2> SUFFICES ASSUME Inv, Heeded, NEW c \in Conns, Reading(c), sent[c] = <<>>, Input(c).is = "more"
               PROVE  Len(Answers(c)) = Len(Meant(c))
    BY DEF EachAnswered
  <2>1. heard[c] = Meant(c)
    <3>1. inbuf[c] \in Str /\ Speaks(script[c]) /\ Understood(script[c], <<>>, inbuf[c], heard[c])
      BY DEF Inv, Typed, Heeded
    <3>2. ReadRESPCommand(inbuf[c]).is = "more"
      BY DEF Input
    <3> QED BY <3>1, <3>2, UnderstoodWhole DEF Meant
  <2>2. Told(password, heard[c], None, out[c], auth[c])
    BY DEF Inv, Reading
  <2>3. Len(Replies(out[c])) = Len(heard[c])
    BY <2>2, LenProperties DEF Told
  <2> QED BY <2>1, <2>3 DEF Answers
<1> QED BY <1>1, InvHolds, StreamsHeeded, PTL
===============================================================================
