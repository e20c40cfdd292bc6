---------------------------- MODULE LoggingProofs ----------------------------
(***************************************************************************)
(* Theorems about the lines of the LOG_ macros, for any instance of        *)
(* Logging.                                                                *)
(*                                                                         *)
(* A line ends with '\n' or fills its buffer (LinesEnd), a number printed  *)
(* in a line reads back (NumbersSurvive), and a fatal line is shown before *)
(* abort() (FatalLinesShown).  Logging calls AsyncLogging as its interface *)
(* allows (LoggingUsesAsyncLogging), so what AsyncLoggingProofs proves     *)
(* holds of the macros (LoggedInOrder, LoggedWithBuffers).                 *)
(*                                                                         *)
(* The digit loops and the readers are recursive functions.  What they     *)
(* compute is proved by induction over the prefixes of their input         *)
(* (InductionOnNat).                                                       *)
(***************************************************************************)
EXTENDS Logging, AsyncLoggingProofs

(* A recursive function over the prefixes of a sequence of digits. *)
IsValue(f, base, digit, s, n) ==
  f = [i \in 0..n |-> IF i = 0 THEN 0 ELSE base * f[i - 1] + digit[s[i]]]

(* One step of it. *)
LEMMA ValueAt ==
  ASSUME NEW f, NEW base, NEW digit, NEW s, NEW n, IsValue(f, base, digit, s, n), NEW i \in 0..n
  PROVE  f[i] = IF i = 0 THEN 0 ELSE base * f[i - 1] + digit[s[i]]
BY DEF IsValue

(* There is one for every length. *)
LEMMA ValueExists ==
  ASSUME NEW base, NEW digit, NEW s, NEW n \in Nat
  PROVE  \E f : IsValue(f, base, digit, s, n)
<1> DEFINE P == {k \in Nat : \E f : IsValue(f, base, digit, s, k)}
<1>0. 0 \in P
  <2>1. IsValue([i \in 0..0 |-> 0], base, digit, s, 0)
    BY DEF IsValue
  <2> QED
    BY <2>1
<1>1. ASSUME NEW k \in Nat, k \in P
      PROVE  k + 1 \in P
  <2>1. PICK f : IsValue(f, base, digit, s, k)
    BY <1>1
  <2> DEFINE v == base * f[k] + digit[s[k + 1]]
             g == [i \in 0..(k + 1) |-> IF i = k + 1 THEN v ELSE f[i]]
  <2> HIDE DEF v
  <2>2. \A i \in 0..k : g[i] = f[i]
    OBVIOUS
  <2>3. \A i \in 0..(k + 1) : g[i] = IF i = 0 THEN 0 ELSE base * g[i - 1] + digit[s[i]]
    <3> SUFFICES ASSUME NEW i \in 0..(k + 1)
                 PROVE  g[i] = IF i = 0 THEN 0 ELSE base * g[i - 1] + digit[s[i]]
      OBVIOUS
    <3>1. CASE i = k + 1
      <4>1. i # 0 /\ i - 1 = k /\ g[k] = f[k] /\ g[i] = v
        BY <2>2, <3>1
      <4> QED
        BY <3>1, <4>1 DEF v
    <3>2. CASE i # k + 1
      <4>1. i \in 0..k /\ (i # 0 => i - 1 \in 0..k)
        BY <3>2
      <4>2. f[i] = IF i = 0 THEN 0 ELSE base * f[i - 1] + digit[s[i]]
        BY <2>1, <4>1, ValueAt
      <4> QED
        BY <2>2, <4>1, <4>2
    <3> QED
      BY <3>1, <3>2
  <2>4. g = [i \in 0..(k + 1) |-> g[i]]
    OBVIOUS
  <2> HIDE DEF g
  <2>5. IsValue(g, base, digit, s, k + 1)
    BY <2>3, <2>4, Zenon DEF IsValue
  <2> QED
    BY <2>5
<1> HIDE DEF P
<1>2. n \in P
  BY <1>0, <1>1, InductionOnNat
<1> QED
  BY <1>2 DEF P

(* And only one for the same digits. *)
LEMMA ValueUnique ==
  ASSUME NEW base, NEW digit, NEW s, NEW n \in Nat, NEW m \in Nat, NEW f, NEW g, n <= m,
         IsValue(f, base, digit, s, n), IsValue(g, base, digit, s, m)
  PROVE  \A i \in 0..n : f[i] = g[i]
<1> DEFINE P == {k \in Nat : k \in 0..n => f[k] = g[k]}
<1>0. 0 \in P
  <2>1. 0 \in 0..n /\ 0 \in 0..m
    OBVIOUS
  <2>2. f[0] = 0 /\ g[0] = 0
    BY <2>1, ValueAt, Zenon
  <2> QED
    BY <2>2
<1>1. ASSUME NEW k \in Nat, k \in P
      PROVE  k + 1 \in P
  <2> SUFFICES ASSUME k + 1 \in 0..n PROVE f[k + 1] = g[k + 1]
    OBVIOUS
  <2>0. k + 1 \in 0..m /\ (k + 1) - 1 = k /\ k + 1 # 0 /\ k \in 0..n
    OBVIOUS
  <2>1. f[k + 1] = IF k + 1 = 0 THEN 0 ELSE base * f[(k + 1) - 1] + digit[s[k + 1]]
    BY ValueAt
  <2>2. g[k + 1] = IF k + 1 = 0 THEN 0 ELSE base * g[(k + 1) - 1] + digit[s[k + 1]]
    BY <2>0, ValueAt
  <2>3. f[k] = g[k]
    BY <1>1, <2>0
  <2> QED
    BY <2>0, <2>1, <2>2, <2>3
<1> HIDE DEF P
<1>2. Nat \subseteq P
  BY <1>0, <1>1, InductionOnNat
<1> QED
  BY <1>2 DEF P

(* What Value computes. *)
LEMMA ValueUnfold ==
  ASSUME NEW base, NEW digit, NEW s, Len(s) \in Nat
  PROVE  \E f : IsValue(f, base, digit, s, Len(s)) /\ Value(base, digit, s) = f[Len(s)]
<1> DEFINE h == CHOOSE g : IsValue(g, base, digit, s, Len(s))
<1>1. IsValue(h, base, digit, s, Len(s))
  BY ValueExists
<1>2. Value(base, digit, s) = h[Len(s)]
  BY DEF Value, IsValue
<1> HIDE DEF h
<1> QED
  BY <1>1, <1>2

(* No digits stand for 0. *)
LEMMA ValueEmpty ==
  ASSUME NEW base, NEW digit
  PROVE  Value(base, digit, <<>>) = 0
<1>1. PICK f : IsValue(f, base, digit, <<>>, 0) /\ Value(base, digit, <<>>) = f[0]
  BY ValueUnfold
<1>2. 0 \in 0..0
  OBVIOUS
<1> QED
  BY <1>1, <1>2, ValueAt

(* One more digit. *)
LEMMA ValueAppend ==
  ASSUME NEW base, NEW digit, NEW S, NEW s \in Seq(S), NEW c \in S
  PROVE  Value(base, digit, Append(s, c)) = base * Value(base, digit, s) + digit[c]
<1> DEFINE t == Append(s, c)
           n == Len(s)
           m == n + 1
<1>0. /\ n \in Nat /\ m \in Nat /\ Len(t) = m /\ t[m] = c /\ m \in 0..m /\ n <= m /\ m # 0 /\ m - 1 = n
      /\ n \in 0..n
      /\ \A i \in 1..n : s[i] = t[i]
  OBVIOUS
<1> HIDE DEF t
<1>1. PICK f : IsValue(f, base, digit, t, m) /\ Value(base, digit, t) = f[m]
  <2> HIDE DEF m
  <2> QED
    BY <1>0, ValueUnfold
<1>2. PICK g : IsValue(g, base, digit, s, n) /\ Value(base, digit, s) = g[n]
  BY <1>0, ValueUnfold
<1>3. IsValue(g, base, digit, t, n)
  <2>1. [i \in 0..n |-> IF i = 0 THEN 0 ELSE base * g[i - 1] + digit[s[i]]]
          = [i \in 0..n |-> IF i = 0 THEN 0 ELSE base * g[i - 1] + digit[t[i]]]
    BY <1>0
  <2> QED
    BY <1>2, <2>1, Zenon DEF IsValue
<1> HIDE DEF n, m
<1>4. g[n] = f[n]
  BY <1>0, <1>1, <1>3, ValueUnique
<1>5. f[m] = IF m = 0 THEN 0 ELSE base * f[m - 1] + digit[t[m]]
  BY <1>0, <1>1, ValueAt
<1> QED
  BY <1>0, <1>1, <1>2, <1>4, <1>5 DEF t

-----------------------------------------------------------------------------
(* The digit loops write, least significant first, the character of each  *)
(* number and go on with the rest of it while that is not 0.              *)
IsLoop(f, dom, ch, rest) ==
  f = [n \in dom |-> <<ch[n]>> \o IF rest[n] # 0 THEN f[rest[n]] ELSE <<>>]

(* The loop goes on with a number that is smaller, by the measure m. *)
Shrinks(dom, rest, m) ==
  /\ m \in [dom -> Nat]
  /\ \A n \in dom : rest[n] # 0 => rest[n] \in dom /\ m[rest[n]] < m[n]

(* In each pass it writes the digit that the rest leaves out. *)
WritesDigits(dom, ch, rest, m, C, base, digit) ==
  /\ ch \in [dom -> C]
  /\ \A c \in C : digit[c] \in Nat
  /\ \A n \in dom : m[n] = (IF rest[n] # 0 THEN base * m[rest[n]] ELSE 0) + digit[ch[n]]

LEMMA LoopAt ==
  ASSUME NEW f, NEW dom, NEW ch, NEW rest, IsLoop(f, dom, ch, rest), NEW n \in dom
  PROVE  f[n] = <<ch[n]>> \o IF rest[n] # 0 THEN f[rest[n]] ELSE <<>>
BY Zenon DEF IsLoop

(* A loop that shrinks its number ends, so that there is such a function. *)
LEMMA LoopExists ==
  ASSUME NEW dom, NEW ch, NEW rest, NEW m, Shrinks(dom, rest, m),
         NEW bound \in Nat, \A n \in dom : m[n] < bound
  PROVE  \E f : IsLoop(f, dom, ch, rest)
<1> DEFINE below(k) == {n \in dom : m[n] < k}
           P == {k \in Nat : \E f : IsLoop(f, below(k), ch, rest)}
<1>0. 0 \in P
  <2>1. below(0) = {}
    BY DEF Shrinks
  <2>2. IsLoop([n \in {} |-> <<>>], {}, ch, rest)
    BY DEF IsLoop
  <2> QED
    BY <2>1, <2>2, Zenon
<1>1. ASSUME NEW k \in Nat, k \in P
      PROVE  k + 1 \in P
  <2>1. PICK f : IsLoop(f, below(k), ch, rest)
    BY <1>1
  <2> DEFINE body(n) == <<ch[n]>> \o IF rest[n] # 0 THEN f[rest[n]] ELSE <<>>
             g == [n \in below(k + 1) |-> IF n \in below(k) THEN f[n] ELSE body(n)]
  <2>2. \A n \in below(k + 1) : rest[n] # 0 => rest[n] \in below(k) /\ rest[n] \in below(k + 1)
    BY DEF Shrinks
  <2>3. \A n \in below(k) : n \in below(k + 1)
    BY DEF Shrinks
  <2> HIDE DEF below
  <2>4. \A n \in below(k) : g[n] = f[n]
    BY <2>3
  <2>5. \A n \in below(k + 1) : g[n] = body(n)
    BY <2>1, LoopAt, SMTT(30)
  <2>6. \A n \in below(k + 1) : body(n) = <<ch[n]>> \o IF rest[n] # 0 THEN g[rest[n]] ELSE <<>>
    BY <2>2, <2>4
  <2>7. g = [n \in below(k + 1) |-> g[n]]
    OBVIOUS
  <2> HIDE DEF g, body
  <2>8. IsLoop(g, below(k + 1), ch, rest)
    BY <2>5, <2>6, <2>7, Zenon DEF IsLoop
  <2> QED
    BY <2>8
<1>2. bound \in P
  <2> HIDE DEF P
  <2> QED
    BY <1>0, <1>1, InductionOnNat
<1>3. below(bound) = dom
  OBVIOUS
<1> QED
  BY <1>2, <1>3

(* The reverse of a sequence that has one more element in front. *)
LEMMA ReverseCons ==
  ASSUME NEW S, NEW c \in S, NEW t \in Seq(S)
  PROVE  /\ Reverse(<<c>> \o t) = Append(Reverse(t), c)
         /\ Reverse(t) \in Seq(S) /\ Len(Reverse(t)) = Len(t)
<1>1. Reverse(t) \in Seq(S) /\ Len(Reverse(t)) = Len(t)
  BY DEF Reverse
<1> DEFINE u == <<c>> \o t
           r == Reverse(u)
           a == Append(Reverse(t), c)
<1>2. u \in Seq(S) /\ Len(u) = Len(t) + 1 /\ u[1] = c /\ \A i \in 1..Len(t) : u[i + 1] = t[i]
  OBVIOUS
<1>3. r \in Seq(S) /\ Len(r) = Len(t) + 1 /\ \A i \in 1..(Len(t) + 1) : r[i] = u[(Len(t) + 1 - i) + 1]
  <2> HIDE DEF u
  <2> QED
    BY <1>2 DEF Reverse
<1>4. /\ a \in Seq(S) /\ Len(a) = Len(t) + 1 /\ a[Len(t) + 1] = c
      /\ \A i \in 1..Len(t) : a[i] = t[(Len(t) - i) + 1]
  BY <1>1 DEF Reverse
<1> HIDE DEF r, a, u
<1>5. \A i \in 1..(Len(t) + 1) : r[i] = a[i]
  <2> SUFFICES ASSUME NEW i \in 1..(Len(t) + 1) PROVE r[i] = a[i]
    OBVIOUS
  <2>1. CASE i = Len(t) + 1
    BY <1>2, <1>3, <1>4, <2>1
  <2>2. CASE i # Len(t) + 1
    <3>1. i \in 1..Len(t) /\ (Len(t) - i) + 1 \in 1..Len(t) /\ (Len(t) + 1 - i) + 1 = ((Len(t) - i) + 1) + 1
      BY <2>2
    <3> QED
      BY <1>2, <1>3, <1>4, <3>1, Zenon
  <2> QED
    BY <2>1, <2>2
<1>6. r = a
  BY <1>3, <1>4, <1>5
<1> QED
  BY <1>1, <1>6 DEF r, a, u

(* What the loop wrote, read from its end, is the number: the last        *)
(* character is the most significant digit, which is 0 for the number 0   *)
(* only.                                                                  *)
LEMMA LoopReads ==
  ASSUME NEW f, NEW dom, NEW ch, NEW rest, IsLoop(f, dom, ch, rest),
         NEW m, Shrinks(dom, rest, m),
         NEW C, NEW base \in Nat, NEW digit, WritesDigits(dom, ch, rest, m, C, base, digit),
         NEW n \in dom
  PROVE  /\ f[n] \in Seq(C) /\ Len(f[n]) > 0
         /\ Value(base, digit, Reverse(f[n])) = m[n]
         /\ \E k \in dom : /\ f[n][Len(f[n])] = ch[k] /\ rest[k] = 0
                           /\ k # 0 \/ k = n
         /\ rest[n] = 0 => Len(f[n]) = 1
<1> DEFINE Good(a) == /\ f[a] \in Seq(C) /\ Len(f[a]) > 0
                      /\ Value(base, digit, Reverse(f[a])) = m[a]
                      /\ \E k \in dom : /\ f[a][Len(f[a])] = ch[k] /\ rest[k] = 0
                                        /\ k # 0 \/ k = a
                      /\ rest[a] = 0 => Len(f[a]) = 1
           P == {b \in Nat : \A a \in dom : m[a] < b => Good(a)}
<1>0. 0 \in P
  BY DEF Shrinks
<1>1. ASSUME NEW b \in Nat, b \in P
      PROVE  b + 1 \in P
  <2> SUFFICES ASSUME NEW a \in dom, m[a] < b + 1
               PROVE  Good(a)
    OBVIOUS
  <2> DEFINE c == ch[a]
             q == rest[a]
  <2>0. c \in C /\ digit[c] \in Nat /\ m[a] \in Nat
    BY DEF Shrinks, WritesDigits
  <2>a. f[a] = <<c>> \o IF q # 0 THEN f[q] ELSE <<>>
    BY LoopAt
  <2>1. CASE q = 0
    <3>1. f[a] = <<c>>
      <4>1. f[a] = <<c>> \o <<>>
        BY <2>1, <2>a
      <4> HIDE DEF c
      <4> QED
        BY <2>0, <4>1
    <3>2. m[a] = 0 + digit[c]
      BY <2>1 DEF WritesDigits
    <3> HIDE DEF c
    <3>3. Reverse(<<c>> \o <<>>) = Append(Reverse(<<>>), c) /\ Reverse(<<>>) = <<>> /\ <<c>> \o <<>> = <<c>>
      <4>1. <<>> \in Seq(C) /\ Reverse(<<>>) = <<>> /\ <<c>> \o <<>> = <<c>>
        BY <2>0 DEF Reverse
      <4> QED
        BY <2>0, <4>1, ReverseCons, Zenon
    <3>4. Value(base, digit, Append(<<>>, c)) = base * Value(base, digit, <<>>) + digit[c]
      <4> DEFINE e == <<>>
      <4>1. e \in Seq(C)
        OBVIOUS
      <4> HIDE DEF e
      <4>2. Value(base, digit, Append(e, c)) = base * Value(base, digit, e) + digit[c]
        BY <2>0, <4>1, ValueAppend
      <4> QED
        BY <4>2 DEF e
    <3>5. Value(base, digit, Reverse(f[a])) = m[a]
      BY <2>0, <3>1, <3>2, <3>3, <3>4, ValueEmpty
    <3>6. f[a] \in Seq(C) /\ Len(f[a]) = 1 /\ f[a][Len(f[a])] = c
      BY <2>0, <3>1
    <3> QED
      BY <2>1, <3>5, <3>6 DEF c
  <2>2. CASE q # 0
    <3>0. q \in dom /\ m[q] < m[a] /\ m[q] \in Nat
      BY <2>2 DEF Shrinks
    <3>1. Good(q)
      BY <1>1, <2>0, <3>0
    <3> DEFINE t == f[q]
    <3>2. f[a] = <<c>> \o t
      BY <2>2, <2>a
    <3>3. m[a] = base * m[q] + digit[c]
      BY <2>2 DEF WritesDigits
    <3>4. t \in Seq(C) /\ Len(t) > 0 /\ Value(base, digit, Reverse(t)) = m[q]
      BY <3>1
    <3>k. PICK k \in dom : t[Len(t)] = ch[k] /\ rest[k] = 0 /\ k # 0
      BY <2>2, <3>1
    <3> HIDE DEF c, t
    <3>5. /\ Reverse(<<c>> \o t) = Append(Reverse(t), c) /\ Reverse(t) \in Seq(C)
      BY <2>0, <3>4, ReverseCons
    <3>6. Value(base, digit, Append(Reverse(t), c)) = base * Value(base, digit, Reverse(t)) + digit[c]
      BY <2>0, <3>5, ValueAppend
    <3>7. f[a] \in Seq(C) /\ Len(f[a]) > 0 /\ f[a][Len(f[a])] = t[Len(t)]
      BY <2>0, <3>2, <3>4
    <3>8. Value(base, digit, Reverse(f[a])) = m[a]
      BY <3>2, <3>3, <3>4, <3>5, <3>6, Zenon
    <3> QED
      BY <2>2, <3>7, <3>8, <3>k
  <2> QED
    BY <2>1, <2>2
<1>2. m[n] + 1 \in P
  <2> HIDE DEF P
  <2>1. m[n] + 1 \in Nat
    BY DEF Shrinks
  <2> QED
    BY <1>0, <1>1, <2>1, InductionOnNat
<1>3. m[n] < m[n] + 1
  BY DEF Shrinks
<1> QED
  BY <1>2, <1>3

-----------------------------------------------------------------------------
DecChars == {zero(d) : d \in 0..9}
HexChars == {digitsHex[d + 1] : d \in 0..15}

(* The mirrored table: a remainder and its negation have the same digit,   *)
(* no two others do, and none looks like a sign or a '/'.                  *)
LEMMA TenDigits ==
  /\ "-" \notin DecChars /\ "/" \notin DecChars
  /\ \A d \in 0..9 : zero(d) \in DecChars /\ zero(-d) = zero(d)
  /\ \A d \in 0..9 : zero(d) = "0" => d = 0
  /\ \A d, e \in 0..9 : zero(d) = zero(e) => d = e
<1>1. /\ zero(0) = "0" /\ zero(1) = "1" /\ zero(2) = "2" /\ zero(3) = "3" /\ zero(4) = "4"
      /\ zero(5) = "5" /\ zero(6) = "6" /\ zero(7) = "7" /\ zero(8) = "8" /\ zero(9) = "9"
  BY DEF zero, digits
<1>2. /\ zero(-0) = "0" /\ zero(-1) = "1" /\ zero(-2) = "2" /\ zero(-3) = "3" /\ zero(-4) = "4"
      /\ zero(-5) = "5" /\ zero(-6) = "6" /\ zero(-7) = "7" /\ zero(-8) = "8" /\ zero(-9) = "9"
  BY DEF zero, digits
<1>3. \A d \in 0..9 : \/ d = 0 \/ d = 1 \/ d = 2 \/ d = 3 \/ d = 4
                      \/ d = 5 \/ d = 6 \/ d = 7 \/ d = 8 \/ d = 9
  OBVIOUS
<1>4. DecChars = {"0", "1", "2", "3", "4", "5", "6", "7", "8", "9"}
  BY <1>1, <1>3 DEF DecChars
<1>5. \A d \in 0..9 : zero(d) \in DecChars /\ zero(-d) = zero(d)
  BY <1>1, <1>2, <1>3, <1>4
<1>6. \A d \in 0..9 : zero(d) = "0" => d = 0
  BY <1>1, <1>3
<1>7. \A d, e \in 0..9 : zero(d) = zero(e) => d = e
  BY <1>1, <1>3
<1>8. "-" \notin DecChars /\ "/" \notin DecChars
  BY <1>4, SMTT(30)
<1> QED
  BY <1>5, <1>6, <1>7, <1>8

(* Likewise the digits of convertHex. *)
LEMMA SixteenDigits ==
  /\ \A d \in 0..15 : digitsHex[d + 1] \in HexChars
  /\ \A d, e \in 0..15 : digitsHex[d + 1] = digitsHex[e + 1] => d = e
<1>1. /\ digitsHex[1] = "0" /\ digitsHex[2] = "1" /\ digitsHex[3] = "2" /\ digitsHex[4] = "3"
      /\ digitsHex[5] = "4" /\ digitsHex[6] = "5" /\ digitsHex[7] = "6" /\ digitsHex[8] = "7"
      /\ digitsHex[9] = "8" /\ digitsHex[10] = "9" /\ digitsHex[11] = "A" /\ digitsHex[12] = "B"
      /\ digitsHex[13] = "C" /\ digitsHex[14] = "D" /\ digitsHex[15] = "E" /\ digitsHex[16] = "F"
  BY DEF digitsHex
<1>2. \A i \in 1..16 :
        \/ (digitsHex[i] = "0" /\ i = 1) \/ (digitsHex[i] = "1" /\ i = 2)
        \/ (digitsHex[i] = "2" /\ i = 3) \/ (digitsHex[i] = "3" /\ i = 4)
        \/ (digitsHex[i] = "4" /\ i = 5) \/ (digitsHex[i] = "5" /\ i = 6)
        \/ (digitsHex[i] = "6" /\ i = 7) \/ (digitsHex[i] = "7" /\ i = 8)
        \/ (digitsHex[i] = "8" /\ i = 9) \/ (digitsHex[i] = "9" /\ i = 10)
        \/ (digitsHex[i] = "A" /\ i = 11) \/ (digitsHex[i] = "B" /\ i = 12)
        \/ (digitsHex[i] = "C" /\ i = 13) \/ (digitsHex[i] = "D" /\ i = 14)
        \/ (digitsHex[i] = "E" /\ i = 15) \/ (digitsHex[i] = "F" /\ i = 16)
  BY <1>1
<1>3. \A i, j \in 1..16 : digitsHex[i] = digitsHex[j] => i = j
  BY <1>2
<1>4. \A d, e \in 0..15 : digitsHex[d + 1] = digitsHex[e + 1] => d = e
  <2> SUFFICES ASSUME NEW d \in 0..15, NEW e \in 0..15, digitsHex[d + 1] = digitsHex[e + 1]
               PROVE  d = e
    OBVIOUS
  <2>1. d + 1 \in 1..16 /\ e + 1 \in 1..16
    OBVIOUS
  <2>2. d + 1 = e + 1
    BY <1>3, <2>1
  <2> QED
    BY <2>2
<1> QED
  BY <1>4 DEF HexChars

(* A reader finds the digit of a character. *)
LEMMA DecDigitOf == \A d \in 0..9 : DecDigit[zero(d)] = d
<1> SUFFICES ASSUME NEW d \in 0..9 PROVE DecDigit[zero(d)] = d
  OBVIOUS
<1>1. DecDigit[zero(d)] = CHOOSE e \in 0..9 : zero(e) = zero(d)
  BY DEF DecDigit
<1>2. (CHOOSE e \in 0..9 : zero(e) = zero(d)) \in 0..9 /\ zero(CHOOSE e \in 0..9 : zero(e) = zero(d)) = zero(d)
  BY SMTT(30)
<1> QED
  BY <1>1, <1>2, TenDigits

LEMMA HexDigitOf == \A d \in 0..15 : HexDigit[digitsHex[d + 1]] = d
<1> SUFFICES ASSUME NEW d \in 0..15 PROVE HexDigit[digitsHex[d + 1]] = d
  BY SMTT(30)
<1>1. HexDigit[digitsHex[d + 1]] = CHOOSE e \in 0..15 : digitsHex[e + 1] = digitsHex[d + 1]
  BY DEF HexDigit
<1>2. /\ (CHOOSE e \in 0..15 : digitsHex[e + 1] = digitsHex[d + 1]) \in 0..15
      /\ digitsHex[(CHOOSE e \in 0..15 : digitsHex[e + 1] = digitsHex[d + 1]) + 1] = digitsHex[d + 1]
  BY Zenon
<1> QED
  BY <1>1, <1>2, SixteenDigits

Abs(n) == IF n >= 0 THEN n ELSE -n

(* C's division by 10 shortens a number of either sign, and with its       *)
(* remainder gives the number again.                                       *)
LEMMA DivideByTen ==
  ASSUME NEW n \in Int
  PROVE  /\ CDiv(n, 10) \in Int /\ CMod(n, 10) \in -9..9 /\ Abs(n) \in Nat
         /\ Abs(n) = 10 * Abs(CDiv(n, 10)) + Abs(CMod(n, 10))
         /\ Abs(CMod(n, 10)) \in 0..9
         /\ CMod(n, 10) = Abs(CMod(n, 10)) \/ CMod(n, 10) = -Abs(CMod(n, 10))
         /\ CDiv(n, 10) # 0 => Abs(CDiv(n, 10)) < Abs(n)
         /\ n >= 0 => CDiv(n, 10) \in 0..n
         /\ n <= 0 => CDiv(n, 10) \in n..0
<1>1. ASSUME NEW k \in Nat
      PROVE  /\ k \div 10 \in Nat /\ k % 10 \in 0..9 /\ k = 10 * (k \div 10) + (k % 10)
             /\ k \div 10 <= k /\ (k \div 10 # 0 => k \div 10 < k)
  <2> DEFINE q == k \div 10
             r == k % 10
  <2>1. q \in Int /\ r \in 0..9 /\ k = 10 * q + r
    OBVIOUS
  <2> HIDE DEF q, r
  <2>2. q \in Nat /\ q <= k /\ (q # 0 => q < k)
    BY <2>1
  <2> QED
    BY <2>1, <2>2 DEF q, r
<1>2. CASE n >= 0
  BY <1>1, <1>2 DEF CDiv, CMod, Abs
<1>3. CASE n < 0
  <2>1. -n \in Nat
    BY <1>3
  <2> DEFINE q == (-n) \div 10
             r == (-n) % 10
  <2>2. q \in Nat /\ r \in 0..9 /\ -n = 10 * q + r /\ q <= -n /\ (q # 0 => q < -n)
    BY <1>1, <2>1
  <2>3. CDiv(n, 10) = -q /\ CMod(n, 10) = -r
    BY <1>3 DEF CDiv, CMod
  <2> HIDE DEF q, r
  <2> QED
    BY <1>3, <2>2, <2>3 DEF Abs
<1> QED
  BY <1>2, <1>3

-----------------------------------------------------------------------------
DecCh   == [n \in Ints |-> zero(CMod(n, 10))]
DecRest == [n \in Ints |-> CDiv(n, 10)]
DecSize == [n \in Ints |-> Abs(n)]

HexCh   == [n \in 0..UIntMax |-> digitsHex[(n % 16) + 1]]
HexRest == [n \in 0..UIntMax |-> n \div 16]
HexSize == [n \in 0..UIntMax |-> n]

(* One pass through the loop of formatInteger. *)
LEMMA DecimalPass ==
  /\ Shrinks(Ints, DecRest, DecSize)
  /\ WritesDigits(Ints, DecCh, DecRest, DecSize, DecChars, 10, DecDigit)
<1>0. IntMin \in Int /\ UIntMax \in Nat /\ IntMin <= 0 /\ Ints \subseteq Int
  BY NumericAssumption DEF Ints
<1>1. \A c \in DecChars : DecDigit[c] \in Nat
  BY DecDigitOf DEF DecChars
<1>2. ASSUME NEW n \in Ints
      PROVE  /\ DecSize[n] \in Nat /\ DecSize[n] = Abs(n) /\ DecRest[n] = CDiv(n, 10)
             /\ DecRest[n] \in Ints /\ DecSize[DecRest[n]] = Abs(CDiv(n, 10))
             /\ DecRest[n] # 0 => Abs(CDiv(n, 10)) < Abs(n)
             /\ DecCh[n] = zero(CMod(n, 10)) /\ DecCh[n] \in DecChars
             /\ DecDigit[DecCh[n]] = Abs(CMod(n, 10))
  <2>1. n \in Int /\ IntMin <= n /\ n <= UIntMax
    BY <1>0 DEF Ints
  <2> DEFINE q == CDiv(n, 10)
             r == CMod(n, 10)
  <2>2. /\ q \in Int /\ Abs(n) \in Nat /\ Abs(r) \in 0..9 /\ (r = Abs(r) \/ r = -Abs(r))
        /\ q # 0 => Abs(q) < Abs(n)
        /\ n >= 0 => q \in 0..n
        /\ n <= 0 => q \in n..0
    BY <2>1, DivideByTen
  <2> HIDE DEF q, r
  <2>3. q \in Ints
    BY <1>0, <2>1, <2>2 DEF Ints
  <2>4. zero(r) = zero(Abs(r)) /\ zero(r) \in DecChars
    BY <2>2, TenDigits
  <2>5. DecDigit[zero(r)] = Abs(r)
    BY <2>2, <2>4, DecDigitOf
  <2>6. DecSize[n] = Abs(n) /\ DecRest[n] = q /\ DecSize[q] = Abs(q) /\ DecCh[n] = zero(r)
    BY <2>3 DEF DecSize, DecRest, DecCh, q, r
  <2> QED
    BY <2>2, <2>3, <2>4, <2>5, <2>6 DEF q, r
<1>3. Shrinks(Ints, DecRest, DecSize) /\ DecCh \in [Ints -> DecChars]
  <2>1. DecSize \in [Ints -> Nat] /\ DecCh \in [Ints -> DecChars]
    BY <1>2, Zenon DEF DecSize, DecCh
  <2> QED
    BY <1>2, <2>1 DEF Shrinks
<1>4. ASSUME NEW n \in Ints
      PROVE  DecSize[n] = (IF DecRest[n] # 0 THEN 10 * DecSize[DecRest[n]] ELSE 0) + DecDigit[DecCh[n]]
  <2> DEFINE q == CDiv(n, 10)
             r == CMod(n, 10)
  <2>1. n \in Int
    BY <1>0
  <2>2. Abs(n) = 10 * Abs(q) + Abs(r) /\ Abs(r) \in 0..9
    BY <2>1, DivideByTen
  <2>3. DecSize[n] = Abs(n) /\ DecRest[n] = q /\ DecSize[q] = Abs(q) /\ DecDigit[DecCh[n]] = Abs(r)
    BY <1>2
  <2>4. q = 0 => Abs(q) = 0
    BY DEF Abs
  <2> HIDE DEF q, r
  <2> QED
    BY <2>2, <2>3, <2>4
<1> QED
  BY <1>1, <1>3, <1>4 DEF WritesDigits

(* Its function. *)
LEMMA DecimalIsLoop == IsLoop(DecimalLoop, Ints, DecCh, DecRest)
<1> DEFINE Pass(f) == [num \in Ints |-> <<zero(CMod(num, 10))>> \o
                         IF MoreDigits(CDiv(num, 10)) THEN f[CDiv(num, 10)] ELSE <<>>]
<1>1. ASSUME NEW f
      PROVE  IsLoop(f, Ints, DecCh, DecRest) <=> f = Pass(f)
  <2>1. Pass(f) = [n \in Ints |-> <<DecCh[n]>> \o IF DecRest[n] # 0 THEN f[DecRest[n]] ELSE <<>>]
    BY DEF DecCh, DecRest, MoreDigits
  <2> QED
    BY <2>1, Zenon DEF IsLoop
<1>2. \E f : IsLoop(f, Ints, DecCh, DecRest)
  <2> DEFINE bound == UIntMax - IntMin + 1
  <2>1. bound \in Nat /\ \A n \in Ints : DecSize[n] < bound
    BY NumericAssumption DEF Ints, DecSize, Abs
  <2> HIDE DEF bound
  <2> QED
    BY <2>1, DecimalPass, LoopExists, Zenon
<1>3. DecimalLoop = CHOOSE f : f = Pass(f)
  BY DEF DecimalLoop
<1> HIDE DEF Pass
<1>4. DecimalLoop = Pass(DecimalLoop)
  BY <1>1, <1>2, <1>3
<1> QED
  BY <1>1, <1>4

(* One pass through the loop of convertHex, and its function. *)
LEMMA HexPass ==
  /\ Shrinks(0..UIntMax, HexRest, HexSize)
  /\ WritesDigits(0..UIntMax, HexCh, HexRest, HexSize, HexChars, 16, HexDigit)
<1>1. \A c \in HexChars : HexDigit[c] \in Nat
  BY HexDigitOf DEF HexChars
<1>2. ASSUME NEW n \in 0..UIntMax
      PROVE  /\ HexSize[n] = n /\ n \in Nat /\ HexRest[n] \in 0..UIntMax /\ HexSize[HexRest[n]] = HexRest[n]
             /\ HexRest[n] # 0 => HexRest[n] < n
             /\ HexCh[n] \in HexChars
             /\ n = 16 * HexRest[n] + HexDigit[HexCh[n]]
  <2> DEFINE q == n \div 16
             r == n % 16
  <2>0. n \in Nat /\ n <= UIntMax /\ UIntMax \in Nat
    BY NumericAssumption
  <2>1. q \in Int /\ r \in 0..15 /\ n = 16 * q + r
    BY <2>0
  <2>2. HexSize[n] = n /\ HexRest[n] = q /\ HexCh[n] = digitsHex[r + 1]
    BY DEF HexSize, HexRest, HexCh
  <2> HIDE DEF q, r
  <2>3. q \in 0..UIntMax /\ (q # 0 => q < n)
    BY <2>0, <2>1
  <2>4. HexSize[q] = q
    BY <2>3 DEF HexSize
  <2>5. digitsHex[r + 1] \in HexChars /\ HexDigit[digitsHex[r + 1]] = r
    BY <2>1, SixteenDigits, HexDigitOf
  <2> QED
    BY <2>0, <2>1, <2>2, <2>3, <2>4, <2>5
<1>3. Shrinks(0..UIntMax, HexRest, HexSize) /\ HexCh \in [0..UIntMax -> HexChars]
  <2>1. HexSize \in [0..UIntMax -> Nat] /\ HexCh \in [0..UIntMax -> HexChars]
    BY <1>2, Zenon DEF HexSize, HexCh
  <2> QED
    BY <1>2, <2>1 DEF Shrinks
<1>4. ASSUME NEW n \in 0..UIntMax
      PROVE  HexSize[n] = (IF HexRest[n] # 0 THEN 16 * HexSize[HexRest[n]] ELSE 0) + HexDigit[HexCh[n]]
  <2>1. /\ HexSize[n] = n /\ HexRest[n] \in Nat /\ HexSize[HexRest[n]] = HexRest[n]
        /\ HexDigit[HexCh[n]] \in Nat /\ n = 16 * HexRest[n] + HexDigit[HexCh[n]]
    BY <1>1, <1>2
  <2> QED
    BY <2>1
<1> QED
  BY <1>1, <1>3, <1>4 DEF WritesDigits

LEMMA HexIsLoop == IsLoop(HexLoop, 0..UIntMax, HexCh, HexRest)
<1> DEFINE Pass(f) == [i \in 0..UIntMax |-> <<digitsHex[(i % 16) + 1]>> \o
                         IF i \div 16 # 0 THEN f[i \div 16] ELSE <<>>]
<1>1. ASSUME NEW f
      PROVE  IsLoop(f, 0..UIntMax, HexCh, HexRest) <=> f = Pass(f)
  <2>1. Pass(f) = [n \in 0..UIntMax |-> <<HexCh[n]>> \o IF HexRest[n] # 0 THEN f[HexRest[n]] ELSE <<>>]
    BY DEF HexCh, HexRest
  <2> QED
    BY <2>1, Zenon DEF IsLoop
<1>2. \E f : IsLoop(f, 0..UIntMax, HexCh, HexRest)
  <2> DEFINE bound == UIntMax + 1
  <2>1. bound \in Nat /\ \A n \in 0..UIntMax : HexSize[n] < bound
    BY NumericAssumption DEF HexSize
  <2> HIDE DEF bound
  <2> QED
    BY <2>1, HexPass, LoopExists, Zenon
<1>3. HexLoop = CHOOSE f : f = Pass(f)
  BY DEF HexLoop
<1> HIDE DEF Pass
<1>4. HexLoop = Pass(HexLoop)
  BY <1>1, <1>2, <1>3
<1> QED
  BY <1>1, <1>4

-----------------------------------------------------------------------------
(* What formatInteger writes reads back as the number it was given, of     *)
(* whatever width, and has no leading zeros.                               *)
LEMMA DecimalReads ==
  ASSUME NEW n \in Ints
  PROVE  /\ Decimal(n) \in Seq(DecChars \cup {"-"}) /\ Len(Decimal(n)) > 0
         /\ IntOf(Decimal(n)) = n
         /\ Len(Decimal(n)) > 1 => Decimal(n)[1] # "0"
<1> DEFINE f == DecimalLoop[n]
           C == DecChars
<1>0. n \in Int
  BY NumericAssumption DEF Ints
<1>1. /\ f \in Seq(C) /\ Len(f) > 0
      /\ Value(10, DecDigit, Reverse(f)) = DecSize[n]
      /\ \E k \in Ints : f[Len(f)] = DecCh[k] /\ DecRest[k] = 0 /\ (k # 0 \/ k = n)
      /\ DecRest[n] = 0 => Len(f) = 1
  <2>1. 10 \in Nat
    OBVIOUS
  <2> QED
    BY <2>1, DecimalPass, DecimalIsLoop, LoopReads
<1>2. DecSize[n] = Abs(n)
  BY DEF DecSize
<1>3. /\ Reverse(f) \in Seq(C) /\ Len(Reverse(f)) = Len(f) /\ Reverse(f)[1] = f[Len(f)]
  <2> HIDE DEF f, C
  <2> QED
    BY <1>1 DEF Reverse
<1>4. Len(f) > 1 => f[Len(f)] # "0"
  <2> SUFFICES ASSUME Len(f) > 1, f[Len(f)] = "0" PROVE FALSE
    OBVIOUS
  <2>1. PICK k \in Ints : DecCh[k] = "0" /\ DecRest[k] = 0 /\ (k # 0 \/ k = n)
    BY <1>1
  <2>2. DecRest[n] # 0
    BY <1>1
  <2>3. k # 0 /\ k \in Int
    BY <2>1, <2>2, NumericAssumption DEF Ints
  <2>4. CDiv(k, 10) = 0 /\ zero(CMod(k, 10)) = "0"
    BY <2>1 DEF DecRest, DecCh
  <2> DEFINE r == CMod(k, 10)
             q == CDiv(k, 10)
  <2>5. Abs(k) = 10 * Abs(q) + Abs(r) /\ Abs(r) \in 0..9 /\ (r = Abs(r) \/ r = -Abs(r))
    BY <2>3, DivideByTen
  <2>6. Abs(q) = 0
    BY <2>4 DEF Abs
  <2>7. zero(Abs(r)) = "0"
    BY <2>4, <2>5, TenDigits, Zenon
  <2>8. Abs(r) = 0
    BY <2>5, <2>7, TenDigits, Zenon
  <2> HIDE DEF r, q
  <2>9. Abs(k) = 0
    BY <2>5, <2>6, <2>8
  <2> QED
    BY <2>3, <2>9 DEF Abs
<1>5. CASE n >= 0
  <2> HIDE DEF f, C
  <2>1. Decimal(n) = Reverse(f)
    <3>1. f \o <<>> = f
      BY <1>1
    <3> QED
      <4>1. ~(n < 0)
        BY <1>0, <1>5
      <4> QED
        BY <3>1, <4>1 DEF Decimal, f
  <2>2. Head(Reverse(f)) = Reverse(f)[1] /\ Reverse(f)[1] \in C /\ Reverse(f) \in Seq(C \cup {"-"})
    BY <1>1, <1>3
  <2>3. Head(Reverse(f)) # "-"
    BY <2>2, TenDigits, Zenon DEF C
  <2>4. IntOf(Reverse(f)) = n
    BY <1>1, <1>2, <1>5, <2>3 DEF IntOf, Abs
  <2> QED
    BY <1>1, <1>3, <1>4, <2>1, <2>2, <2>4 DEF C
<1>6. CASE n < 0
  <2> HIDE DEF f, C
  <2> DEFINE d == <<"-">> \o Reverse(f)
  <2>1. Decimal(n) = d
    <3> DEFINE u == f \o <<"-">>
               D == C \cup {"-"}
    <3>1. u \in Seq(D) /\ Len(u) = Len(f) + 1 /\ u[Len(f) + 1] = "-" /\ \A i \in 1..Len(f) : u[i] = f[i]
      BY <1>1
    <3>2. d \in Seq(D) /\ Len(d) = Len(f) + 1 /\ d[1] = "-" /\ \A i \in 1..Len(f) : d[i + 1] = f[(Len(f) - i) + 1]
      <4>1. Reverse(f) \in Seq(D) /\ "-" \in D
        BY <1>3
      <4>2. \A i \in 1..Len(f) : Reverse(f)[i] = f[(Len(f) - i) + 1]
        BY <1>1 DEF Reverse
      <4> HIDE DEF D
      <4> QED
        BY <1>3, <4>1, <4>2
    <3> HIDE DEF u, d, D
    <3>3. Reverse(u) \in Seq(D) /\ Len(Reverse(u)) = Len(f) + 1 /\ \A i \in 1..(Len(f) + 1) : Reverse(u)[i] = u[(Len(f) + 1 - i) + 1]
      BY <1>1, <3>1 DEF Reverse
    <3>4. \A i \in 1..(Len(f) + 1) : Reverse(u)[i] = d[i]
      <4> SUFFICES ASSUME NEW i \in 1..(Len(f) + 1) PROVE Reverse(u)[i] = d[i]
        OBVIOUS
      <4>0. Len(f) \in Nat
        BY <1>1
      <4>1. CASE i = 1
        BY <3>1, <3>2, <3>3, <4>0, <4>1
      <4>2. CASE i # 1
        <5> DEFINE j == i - 1
        <5>1. j \in 1..Len(f) /\ i = j + 1 /\ (Len(f) + 1 - i) + 1 = (Len(f) - j) + 1 /\ (Len(f) - j) + 1 \in 1..Len(f)
          BY <4>0, <4>2
        <5> HIDE DEF j
        <5> QED
          BY <3>1, <3>2, <3>3, <5>1
      <4> QED
        BY <4>1, <4>2
    <3>5. Reverse(u) = d
      BY <3>2, <3>3, <3>4
    <3>6. Decimal(n) = Reverse(u)
      BY <1>0, <1>6 DEF Decimal, u, f
    <3> QED
      BY <3>5, <3>6
  <2>2. /\ d \in Seq(C \cup {"-"}) /\ Len(d) > 0 /\ d[1] = "-" /\ Head(d) = "-" /\ Tail(d) = Reverse(f)
    <3> DEFINE D == C \cup {"-"}
               r == Reverse(f)
    <3>1. r \in Seq(D) /\ "-" \in D
      BY <1>3
    <3> HIDE DEF D, r
    <3>2. <<"-">> \o r \in Seq(D) /\ Len(<<"-">> \o r) > 0 /\ (<<"-">> \o r)[1] = "-" /\ Head(<<"-">> \o r) = "-"
      BY <3>1
    <3>3. Tail(<<"-">> \o r) = r
      BY <3>1
    <3> QED
      BY <3>2, <3>3 DEF D, r
  <2> HIDE DEF d
  <2>3. IntOf(d) = -Value(10, DecDigit, Reverse(f))
    BY <2>2, Zenon DEF IntOf
  <2>4. IntOf(d) = n
    BY <1>0, <1>1, <1>2, <1>6, <2>3 DEF Abs
  <2> QED
    BY <2>1, <2>2, <2>4 DEF C
<1> QED
  BY <1>0, <1>5, <1>6

(* What convertHex writes reads back as the pointer. *)
LEMMA HexReads ==
  ASSUME NEW n \in 0..UIntMax
  PROVE  convertHex(n) \in Seq(HexChars) /\ HexOf(convertHex(n)) = n
<1> DEFINE f == HexLoop[n]
<1>1. f \in Seq(HexChars) /\ Value(16, HexDigit, Reverse(f)) = HexSize[n]
  <2>1. 16 \in Nat
    OBVIOUS
  <2> DEFINE D == 0..UIntMax
  <2>2. /\ n \in D /\ Shrinks(D, HexRest, HexSize) /\ IsLoop(HexLoop, D, HexCh, HexRest)
        /\ WritesDigits(D, HexCh, HexRest, HexSize, HexChars, 16, HexDigit)
    BY HexPass, HexIsLoop
  <2> HIDE DEF D
  <2> QED
    BY <2>1, <2>2, LoopReads
<1>2. HexSize[n] = n
  BY DEF HexSize
<1>3. Reverse(f) \in Seq(HexChars)
  <2> HIDE DEF f
  <2> QED
    BY <1>1 DEF Reverse
<1> QED
  BY <1>1, <1>2, <1>3 DEF convertHex, HexOf

-----------------------------------------------------------------------------
(* The characters of a line; '/' is not one of them. *)
Char == {"T", "u", "L", "g", " ", "-", ":", "\n", "t", "d", "0", "x", "f"} \cup DecChars \cup HexChars

LEMMA NoSlash == "/" \notin Char
<1>1. "/" \notin HexChars
  <2> SUFFICES ASSUME NEW d \in 0..15, digitsHex[d + 1] = "/" PROVE FALSE
    BY DEF HexChars
  <2>1. \/ d = 0 \/ d = 1 \/ d = 2 \/ d = 3 \/ d = 4 \/ d = 5 \/ d = 6 \/ d = 7
        \/ d = 8 \/ d = 9 \/ d = 10 \/ d = 11 \/ d = 12 \/ d = 13 \/ d = 14 \/ d = 15
    OBVIOUS
  <2> QED
    BY <2>1 DEF digitsHex
<1> QED
  BY <1>1, TenDigits DEF Char

(* SourceFile drops the directories. *)
LEMMA FileName == SourceFile(File) = <<"f">>
<1> DEFINE I == {0} \cup {i \in 1..Len(File) : File[i] = "/"}
<1>1. I = {0, 2}
  BY DEF File
<1> HIDE DEF I
<1>2. \E x \in I : \A y \in I : x >= y
  BY <1>1
<1>3. Max(I) = 2
  BY <1>1, <1>2 DEF Max
<1>4. File \in Seq({"d", "/", "f"}) /\ Len(File) = 3 /\ File[3] = "f"
  BY DEF File
<1> DEFINE s == SubSeq(File, 3, 3)
<1>5. s \in Seq({"d", "/", "f"}) /\ Len(s) = 1 /\ s[1] = File[3]
  BY <1>4
<1>6. SourceFile(File) = s
  <2>1. SourceFile(File) = SubSeq(File, 2 + 1, Len(File))
    BY <1>3, Zenon DEF SourceFile, I
  <2> QED
    BY <1>4, <2>1
<1> HIDE DEF s
<1>7. s = <<s[1]>>
  BY <1>5
<1> QED
  BY <1>4, <1>5, <1>6, <1>7

LEMMA Joined ==
  ASSUME NEW S, NEW a \in Seq(S), NEW b \in Seq(S)
  PROVE  /\ a \o b \in Seq(S) /\ Len(a \o b) = Len(a) + Len(b)
         /\ Len(b) >= 1 => (a \o b)[Len(a) + 1] = b[1]
<1>1. a \o b \in Seq(S) /\ Len(a \o b) = Len(a) + Len(b) /\ Len(a) \in Nat
  OBVIOUS
<1>2. ASSUME Len(b) >= 1 PROVE (a \o b)[Len(a) + 1] = b[1]
  BY <1>1, <1>2
<1> QED
  BY <1>1, <1>2

LEMMA OneChar ==
  ASSUME NEW S, NEW c \in S
  PROVE  <<c>> \in Seq(S) /\ Len(<<c>>) = 1 /\ <<c>>[1] = c
OBVIOUS

LEMMA FillerType ==
  ASSUME NEW S, NEW c \in S, NEW n \in Nat
  PROVE  Filler(c, n) \in Seq(S) /\ Len(Filler(c, n)) = n
BY DEF Filler

(* What an item writes; a number fits into kMaxNumericSize. *)
LEMMA CharsType ==
  ASSUME NEW item \in Item
  PROVE  /\ Chars(item) \in Seq(Char)
         /\ item.kind # "text" => Len(Chars(item)) < kMaxNumericSize
<1>0. kMaxNumericSize \in Nat
  BY NumericAssumption
<1>1. CASE item \in [kind : {"text"}, n : Nat]
  <2>1. Chars(item) = Filler("t", item.n) /\ item.n \in Nat /\ item.kind = "text"
    BY <1>1 DEF Chars
  <2>2. "t" \in Char
    BY DEF Char
  <2> QED
    BY <2>1, <2>2, FillerType
<1>2. CASE item \in [kind : {"double"}, n : 1..(kMaxNumericSize - 1)]
  <2>1. Chars(item) = Filler("d", item.n) /\ item.n \in Nat /\ item.n < kMaxNumericSize
    BY <1>0, <1>2 DEF Chars
  <2>2. "d" \in Char
    BY DEF Char
  <2>3. Filler("d", item.n) \in Seq(Char) /\ Len(Filler("d", item.n)) = item.n
    BY <2>1, <2>2, FillerType
  <2> QED
    BY <2>1, <2>3
<1>3. CASE item \in [kind : {"int"}, n : Ints]
  <2>1. Chars(item) = Decimal(item.n) /\ item.n \in Ints
    BY <1>3 DEF Chars
  <2>2. Decimal(item.n) \in Seq(DecChars \cup {"-"})
    BY <2>1, DecimalReads
  <2>3. DecChars \cup {"-"} \subseteq Char
    BY Zenon DEF Char
  <2>4. Decimal(item.n) \in Seq(Char)
    BY <2>2, <2>3
  <2>5. Len(Decimal(item.n)) < kMaxNumericSize
    BY <2>1, NumericAssumption
  <2> QED
    BY <2>1, <2>4, <2>5
<1>4. CASE item \in [kind : {"pointer"}, n : 0..UIntMax]
  <2> DEFINE h == convertHex(item.n)
  <2>1. Chars(item) = <<"0", "x">> \o h /\ item.n \in 0..UIntMax
    BY <1>4 DEF Chars
  <2>2. h \in Seq(HexChars)
    BY <2>1, HexReads
  <2>3. Len(h) + 2 < kMaxNumericSize
    BY <2>1, NumericAssumption
  <2>4. HexChars \subseteq Char /\ "0" \in Char /\ "x" \in Char
    BY Zenon DEF Char
  <2> HIDE DEF h
  <2>5. h \in Seq(Char)
    BY <2>2, <2>4
  <2>6. <<"0", "x">> \o h \in Seq(Char) /\ Len(<<"0", "x">> \o h) = 2 + Len(h)
    BY <2>4, <2>5
  <2>7. Len(h) \in Nat
    BY <2>5
  <2> QED
    BY <1>0, <2>1, <2>3, <2>6, <2>7
<1> QED
  BY <1>1, <1>2, <1>3, <1>4 DEF Item

(* What is appended is there as a whole or not at all, and never past the  *)
(* last byte but one of buffer_.                                           *)
LEMMA AppendTextFits ==
  ASSUME NEW b \in Seq(Char), Len(b) <= SIZE - 1, NEW s \in Seq(Char)
  PROVE  /\ AppendText(b, s) \in Seq(Char)
         /\ Len(AppendText(b, s)) <= SIZE - 1 /\ Len(b) <= Len(AppendText(b, s))
         /\ Len(b) + Len(s) < SIZE => AppendText(b, s) = b \o s
         /\ Len(b) + Len(s) >= SIZE => AppendText(b, s) = b
<1>1. SIZE \in Nat /\ Len(b) \in Nat /\ Len(s) \in Nat /\ b \o s \in Seq(Char) /\ Len(b \o s) = Len(b) + Len(s)
  BY NumericAssumption
<1> QED
  BY <1>1 DEF AppendText, HasRoom, Room

LEMMA AppendNumberFits ==
  ASSUME NEW b \in Seq(Char), Len(b) <= SIZE - 1, NEW s \in Seq(Char), Len(s) < kMaxNumericSize
  PROVE  /\ AppendNumber(b, s) \in Seq(Char)
         /\ Len(AppendNumber(b, s)) <= SIZE - 1 /\ Len(b) <= Len(AppendNumber(b, s))
<1>1. SIZE \in Nat /\ kMaxNumericSize \in Nat /\ Len(b) \in Nat /\ Len(s) \in Nat
      /\ b \o s \in Seq(Char) /\ Len(b \o s) = Len(b) + Len(s)
  BY NumericAssumption
<1> QED
  BY <1>1 DEF AppendNumber, Room

LEMMA InsertFits ==
  ASSUME NEW b \in Seq(Char), Len(b) <= SIZE - 1, NEW item \in Item
  PROVE  /\ Insert(b, item) \in Seq(Char)
         /\ Len(Insert(b, item)) <= SIZE - 1 /\ Len(b) <= Len(Insert(b, item))
<1> DEFINE s == Chars(item)
<1>1. s \in Seq(Char) /\ (item.kind # "text" => Len(s) < kMaxNumericSize)
  BY CharsType
<1>2. Insert(b, item) = IF item.kind = "text" THEN AppendText(b, s) ELSE AppendNumber(b, s)
  BY DEF Insert
<1> HIDE DEF s
<1> QED
  BY <1>1, <1>2, AppendTextFits, AppendNumberFits

LEMMA AppendOne ==
  ASSUME NEW k \in 0..4, NEW b \in Seq(Char), Len(b) = k, NEW s \in Seq(Char), Len(s) = 1
  PROVE  AppendText(b, s) \in Seq(Char) /\ Len(AppendText(b, s)) = k + 1
<1>1. SIZE \in Nat /\ SIZE > 5
  BY NumericAssumption, LineAssumption
<1>2. AppendText(b, s) = b \o s
  BY <1>1 DEF AppendText, HasRoom, Room
<1>3. b \o s \in Seq(Char) /\ Len(b \o s) = k + 1
  BY Joined, ZenonT(30)
<1> QED
  BY <1>2, <1>3

(* The header is in the line as a whole. *)
LEMMA HeaderFits ==
  ASSUME NEW lv
  PROVE  /\ WithFunc(lv) \in Seq(Char) /\ Len(WithFunc(lv)) = HeaderLen(lv)
         /\ HeaderLen(lv) \in 1..(SIZE - 1)
<1>0. SIZE \in Nat /\ SIZE > 5
  BY NumericAssumption, LineAssumption
<1>1. "T" \in Char /\ "u" \in Char /\ "L" \in Char /\ "g" \in Char /\ " " \in Char
  BY DEF Char
<1> DEFINE T == <<"T">>
           u == <<"u">>
           L == <<"L">>
           g == <<"g">>
           s == <<" ">>
           h0 == <<>>
           h1 == AppendText(h0, T)
           h2 == AppendText(h1, u)
           h3 == AppendText(h2, L)
           h4 == AppendText(h3, g)
           h5 == AppendText(h4, s)
<1>2. WithFunc(lv) = IF HasFunc(lv) THEN h5 ELSE h3
  BY DEF WithFunc, Header
<1>3. h0 \in Seq(Char) /\ Len(h0) = 0
  OBVIOUS
<1>t. /\ T \in Seq(Char) /\ u \in Seq(Char) /\ L \in Seq(Char) /\ g \in Seq(Char) /\ s \in Seq(Char)
      /\ Len(T) = 1 /\ Len(u) = 1 /\ Len(L) = 1 /\ Len(g) = 1 /\ Len(s) = 1
  BY <1>1, OneChar, Zenon
<1> HIDE DEF T, u, L, g, s, h0
<1>4. h1 \in Seq(Char) /\ Len(h1) = 1
  <2>1. 0 \in 0..4 /\ 0 + 1 = 1
    OBVIOUS
  <2> QED
    BY <1>t, <1>3, <2>1, AppendOne, ZenonT(30)
<1> HIDE DEF h1
<1>5. h2 \in Seq(Char) /\ Len(h2) = 2
  <2>1. 1 \in 0..4 /\ 1 + 1 = 2
    OBVIOUS
  <2> QED
    BY <1>t, <1>4, <2>1, AppendOne
<1> HIDE DEF h2
<1>6. h3 \in Seq(Char) /\ Len(h3) = 3
  <2>1. 2 \in 0..4 /\ 2 + 1 = 3
    OBVIOUS
  <2> QED
    BY <1>t, <1>5, <2>1, AppendOne
<1> HIDE DEF h3
<1>7. h4 \in Seq(Char) /\ Len(h4) = 4
  <2>1. 3 \in 0..4 /\ 3 + 1 = 4
    OBVIOUS
  <2> QED
    BY <1>t, <1>6, <2>1, AppendOne
<1> HIDE DEF h4
<1>8. h5 \in Seq(Char) /\ Len(h5) = 5
  <2>1. 4 \in 0..4 /\ 4 + 1 = 5
    OBVIOUS
  <2> QED
    BY <1>t, <1>7, <2>1, AppendOne
<1> HIDE DEF h5
<1>9. WithFunc(lv) \in Seq(Char) /\ Len(WithFunc(lv)) = HeaderLen(lv)
  BY <1>2, <1>6, <1>8, Zenon DEF HeaderLen
<1>10. HeaderLen(lv) \in 1..(SIZE - 1)
  BY <1>0 DEF HeaderLen
<1> QED
  BY <1>9, <1>10

(* The end of a line is its '\n', unless buffer_ is full. *)
LEMMA FinishedEnds ==
  ASSUME NEW b \in Seq(Char), Len(b) \in 1..(SIZE - 1)
  PROVE  /\ Finished(b) \in Seq(Char) /\ Len(Finished(b)) \in 1..(SIZE - 1)
         /\ Finished(b)[Len(Finished(b))] = "\n" \/ Len(Finished(b)) = SIZE - 1
         /\ Ending \in Seq(Char)
<1>0. SIZE \in Nat
  BY NumericAssumption
<1> DEFINE dash == <<" ", "-", " ">>
           colon == <<":">>
           newline == <<"\n">>
           file == SourceFile(File)
<1>1. /\ dash \in Seq(Char) /\ file \in Seq(Char)
      /\ colon \in Seq(Char) /\ newline \in Seq(Char) /\ Len(newline) = 1 /\ newline[1] = "\n"
  <2>1. " " \in Char /\ "-" \in Char /\ ":" \in Char /\ "\n" \in Char /\ "f" \in Char
    BY Zenon DEF Char
  <2>2. dash \in Seq(Char)
    <3>1. ASSUME NEW S, NEW c \in S, NEW d \in S PROVE <<c, d, c>> \in Seq(S)
      OBVIOUS
    <3> QED
      BY <2>1, <3>1, Zenon
  <2>3. colon \in Seq(Char) /\ newline \in Seq(Char) /\ Len(newline) = 1 /\ newline[1] = "\n"
    BY <2>1, OneChar, Zenon
  <2>4. file \in Seq(Char)
    BY <2>1, FileName, OneChar, Zenon
  <2> QED
    BY <2>2, <2>3, <2>4, Zenon
<1>2. Decimal(Line) \in Seq(Char) /\ Len(Decimal(Line)) < kMaxNumericSize
  <2>1. Line \in Ints
    BY LineAssumption
  <2>2. Decimal(Line) \in Seq(DecChars \cup {"-"})
    BY <2>1, DecimalReads
  <2>3. DecChars \cup {"-"} \subseteq Char
    BY Zenon DEF Char
  <2>4. Len(Decimal(Line)) < kMaxNumericSize
    BY <2>1, NumericAssumption
  <2> QED
    BY <2>2, <2>3, <2>4
<1> DEFINE b1 == AppendText(b, dash)
           b2 == AppendText(b1, file)
           b3 == AppendText(b2, colon)
           b4 == AppendNumber(b3, Decimal(Line))
           b5 == AppendText(b4, newline)
<1>3. Finished(b) = b5
  BY DEF Finished
<1>e. Ending = (((dash \o file) \o colon) \o Decimal(Line)) \o newline
  BY DEF Ending
<1> HIDE DEF dash, file, colon, newline
<1>4. b1 \in Seq(Char) /\ Len(b1) <= SIZE - 1 /\ Len(b) <= Len(b1)
  BY <1>1, AppendTextFits
<1> HIDE DEF b1
<1>5. b2 \in Seq(Char) /\ Len(b2) <= SIZE - 1 /\ Len(b1) <= Len(b2)
  BY <1>1, <1>4, AppendTextFits
<1> HIDE DEF b2
<1>6. b3 \in Seq(Char) /\ Len(b3) <= SIZE - 1 /\ Len(b2) <= Len(b3)
  BY <1>1, <1>5, AppendTextFits
<1> HIDE DEF b3
<1>7. b4 \in Seq(Char) /\ Len(b4) <= SIZE - 1 /\ Len(b3) <= Len(b4)
  BY <1>2, <1>6, AppendNumberFits
<1> HIDE DEF b4
<1>8. /\ b5 \in Seq(Char) /\ Len(b5) <= SIZE - 1 /\ Len(b4) <= Len(b5)
      /\ Len(b4) + 1 < SIZE => b5 = b4 \o newline
      /\ Len(b4) + 1 >= SIZE => b5 = b4
  BY <1>1, <1>7, AppendTextFits, Zenon
<1> HIDE DEF b5
<1>9. Len(b) \in Nat /\ Len(b1) \in Nat /\ Len(b2) \in Nat /\ Len(b3) \in Nat /\ Len(b4) \in Nat /\ Len(b5) \in Nat
  BY <1>4, <1>5, <1>6, <1>7, <1>8
<1>10. Len(b5) \in 1..(SIZE - 1)
  BY <1>0, <1>4, <1>5, <1>6, <1>7, <1>8, <1>9
<1>11. b5[Len(b5)] = "\n" \/ Len(b5) = SIZE - 1
  <2>1. CASE Len(b4) + 1 < SIZE
    <3>1. b5 = b4 \o newline
      BY <1>8, <2>1
    <3>2. Len(b4 \o newline) = Len(b4) + 1 /\ (b4 \o newline)[Len(b4) + 1] = newline[1]
      <4>1. b4 \in Seq(Char) /\ newline \in Seq(Char) /\ Len(newline) = 1
        BY <1>1, <1>7
      <4>2. /\ Len(b4 \o newline) = Len(b4) + Len(newline)
            /\ Len(newline) >= 1 => (b4 \o newline)[Len(b4) + 1] = newline[1]
        BY <4>1, Joined, Zenon
      <4> QED
        BY <4>1, <4>2
    <3> QED
      BY <1>1, <3>1, <3>2
  <2>2. CASE Len(b4) + 1 >= SIZE
    <3>1. Len(b5) = Len(b4) /\ Len(b4) <= SIZE - 1 /\ Len(b4) + 1 >= SIZE
      BY <1>7, <1>8, <2>2
    <3> QED
      BY <1>0, <1>9, <3>1
  <2> QED
    BY <1>0, <1>9, <2>1, <2>2
<1>12. Ending \in Seq(Char)
  BY <1>1, <1>2, <1>e, SMTT(30)
<1> QED
  BY <1>3, <1>8, <1>10, <1>11, <1>12

-----------------------------------------------------------------------------
(* What a line of at most one item holds before its ending. *)
Body(items) == IF items = <<>> THEN <<>> ELSE Chars(items[1])

LineTypes ==
  /\ load \in Loads
  /\ at \in [Writers -> {"idle", "stream", "output", "flush", "abort"}]
  /\ level \in [Writers -> LogLevel]
  /\ said \in [Writers -> Seq(Item)]
  /\ stream \in [Writers -> Seq(Char)]
  /\ whole \in [Writers -> BOOLEAN]

(* The line of a thread: never empty, never past the buffer; and as long   *)
(* as nothing was dropped, its header, its item, its ending.               *)
LineOf(t) ==
  /\ at[t] \in {"stream", "output"} => Len(stream[t]) \in 1..(SIZE - 1)
  /\ at[t] = "output" => stream[t][Len(stream[t])] = "\n" \/ Len(stream[t]) = SIZE - 1
  /\ at[t] = "stream" /\ whole[t] /\ Len(said[t]) <= 1 =>
       stream[t] = WithFunc(level[t]) \o Body(said[t])
  /\ at[t] = "output" /\ whole[t] /\ Len(said[t]) <= 1 =>
       stream[t] = (WithFunc(level[t]) \o Body(said[t])) \o Ending

LineInv == LineTypes /\ \A t \in Writers : LineOf(t)

(* A step of another thread leaves a thread's line alone. *)
LEMMA LineKept ==
  ASSUME NEW u \in Writers, LineOf(u),
         UNCHANGED <<at[u], level[u], said[u], stream[u], whole[u]>>
  PROVE  LineOf(u)'
BY DEF LineOf

LEMMA LineLog ==
  ASSUME LineInv, NEW t \in Writers, NEW lv \in LogLevel, Log(t, lv)
  PROVE  LineInv'
<1> DEFINE h == WithFunc(lv)
<1>0. h \in Seq(Char) /\ Len(h) \in 1..(SIZE - 1)
  BY HeaderFits
<1> HIDE DEF h
<1>1. /\ at' = [at EXCEPT ![t] = "stream"] /\ level' = [level EXCEPT ![t] = lv]
      /\ stream' = [stream EXCEPT ![t] = h] /\ said' = [said EXCEPT ![t] = <<>>]
      /\ whole' = [whole EXCEPT ![t] = TRUE] /\ load' = load
  BY DEF Log, process, h
<1>2. LineTypes'
  BY <1>0, <1>1 DEF LineInv, LineTypes
<1>3. LineOf(t)'
  <2>1. at'[t] = "stream" /\ level'[t] = lv /\ stream'[t] = h /\ said'[t] = <<>>
    BY <1>1 DEF LineInv, LineTypes
  <2>2. h \o <<>> = h
    BY <1>0
  <2> QED
    BY <1>0, <2>1, <2>2 DEF LineOf, Body, h
<1>4. ASSUME NEW u \in Writers, u # t PROVE LineOf(u)'
  <2>1. UNCHANGED <<at[u], level[u], said[u], stream[u], whole[u]>>
    BY <1>1, <1>4 DEF LineInv, LineTypes
  <2> QED
    BY <2>1, LineKept DEF LineInv
<1> QED
  BY <1>2, <1>3, <1>4 DEF LineInv

LEMMA LineStream ==
  ASSUME LineInv, NEW t \in Writers, NEW item \in load.items, Stream(t, item)
  PROVE  LineInv'
<1>i. item \in Item
  BY LoadAssumption DEF LineInv, LineTypes
<1> DEFINE b == stream[t]
           n == Insert(b, item)
<1>b. b \in Seq(Char) /\ Len(b) \in 1..(SIZE - 1) /\ at[t] = "stream" /\ said[t] \in Seq(Item)
  BY DEF LineInv, LineTypes, LineOf, Stream
<1>c. SIZE \in Nat
  BY NumericAssumption
<1>0. n \in Seq(Char) /\ Len(n) \in 1..(SIZE - 1)
  <2> HIDE DEF b
  <2>1. Len(b) <= SIZE - 1
    BY <1>b, <1>c
  <2>2. n \in Seq(Char) /\ Len(n) <= SIZE - 1 /\ Len(b) <= Len(n)
    BY <1>b, <1>i, <2>1, InsertFits
  <2> HIDE DEF n
  <2>3. Len(n) \in Nat
    BY <2>2, SMTT(30)
  <2> QED
    BY <1>b, <1>c, <2>2, <2>3
<1>1. /\ at' = at /\ level' = level /\ load' = load
      /\ stream' = [stream EXCEPT ![t] = n] /\ said' = [said EXCEPT ![t] = Append(@, item)]
      /\ whole' = [whole EXCEPT ![t] = @ /\ stream'[t] = stream[t] \o Chars(item)]
  BY SMTT(30) DEF Stream, process
<1> HIDE DEF n
<1>2. LineTypes'
  <2>1. stream' \in [Writers -> Seq(Char)] /\ said' \in [Writers -> Seq(Item)]
    <3>1. stream \in [Writers -> Seq(Char)] /\ said \in [Writers -> Seq(Item)]
      BY DEF LineInv, LineTypes
    <3>2. stream' \in [Writers -> Seq(Char)]
      BY <1>0, <1>1, <3>1
    <3>3. Append(said[t], item) \in Seq(Item)
      BY <1>b, <1>i
    <3>4. said' = [said EXCEPT ![t] = Append(said[t], item)]
      BY <1>1
    <3> QED
      BY <3>1, <3>2, <3>3, <3>4
  <2>2. whole' \in [Writers -> BOOLEAN]
    BY <1>1 DEF LineInv, LineTypes
  <2> QED
    BY <1>1, <2>1, <2>2, SMTT(30) DEF LineInv, LineTypes
<1>3. LineOf(t)'
  <2>1. at'[t] = "stream" /\ level'[t] = level[t] /\ stream'[t] = n /\ said'[t] = Append(said[t], item)
    BY <1>1, <1>b, SMTT(30) DEF LineInv, LineTypes
  <2>2. ASSUME whole'[t], Len(said'[t]) <= 1
        PROVE  stream'[t] = WithFunc(level'[t]) \o Body(said'[t])
    <3>1. whole[t] /\ stream'[t] = stream[t] \o Chars(item)
      BY <1>1, <2>2, Zenon DEF LineInv, LineTypes
    <3>2. said[t] = <<>> /\ Append(said[t], item)[1] = item /\ Append(said[t], item) # <<>>
      BY <1>b, <1>i, <2>1, <2>2
    <3> DEFINE h == WithFunc(level[t])
    <3>3. h \in Seq(Char)
      BY HeaderFits
    <3>4. stream[t] = h \o <<>>
      <4>1. Len(said[t]) <= 1 /\ Body(said[t]) = <<>>
        BY <3>2, SMTT(30) DEF Body
      <4>2. stream[t] = h \o Body(said[t])
        BY <1>b, <3>1, <4>1, ZenonT(30) DEF LineInv, LineOf
      <4> QED
        BY <4>1, <4>2
    <3> HIDE DEF h
    <3>5. stream[t] = h
      BY <3>3, <3>4
    <3> QED
      BY <2>1, <3>1, <3>2, <3>5, ZenonT(30) DEF Body, h
  <2> QED
    BY <1>0, <2>1, <2>2, SMTT(30) DEF LineOf
<1>4. ASSUME NEW u \in Writers, u # t PROVE LineOf(u)'
  <2>1. UNCHANGED <<at[u], level[u], said[u], stream[u], whole[u]>>
    BY <1>1, <1>4 DEF LineInv, LineTypes
  <2> QED
    BY <2>1, LineKept DEF LineInv
<1> QED
  BY <1>2, <1>3, <1>4 DEF LineInv

LEMMA LineFinish ==
  ASSUME LineInv, NEW t \in Writers, Finish(t)
  PROVE  LineInv'
<1> DEFINE b == stream[t]
           n == Finished(b)
<1>b. b \in Seq(Char) /\ Len(b) \in 1..(SIZE - 1) /\ at[t] = "stream"
  BY DEF LineInv, LineTypes, LineOf, Finish
<1>0. n \in Seq(Char) /\ Len(n) \in 1..(SIZE - 1) /\ (n[Len(n)] = "\n" \/ Len(n) = SIZE - 1)
  BY <1>b, FinishedEnds
<1>1. /\ at' = [at EXCEPT ![t] = "output"] /\ level' = level /\ load' = load /\ said' = said
      /\ stream' = [stream EXCEPT ![t] = n]
      /\ whole' = [whole EXCEPT ![t] = @ /\ stream'[t] = stream[t] \o Ending]
  BY DEF Finish, process
<1> HIDE DEF n
<1>2. LineTypes'
  <2>1. stream' \in [Writers -> Seq(Char)] /\ at' \in [Writers -> {"idle", "stream", "output", "flush", "abort"}]
    BY <1>0, <1>1 DEF LineInv, LineTypes
  <2>2. whole' \in [Writers -> BOOLEAN]
    BY <1>1 DEF LineInv, LineTypes
  <2> QED
    BY <1>1, <2>1, <2>2, SMTT(30) DEF LineInv, LineTypes
<1>3. LineOf(t)'
  <2>1. at'[t] = "output" /\ stream'[t] = n
    BY <1>1 DEF LineInv, LineTypes
  <2>2. ASSUME whole'[t], Len(said'[t]) <= 1
        PROVE  stream'[t] = (WithFunc(level'[t]) \o Body(said'[t])) \o Ending
    <3>1. whole[t] /\ stream'[t] = stream[t] \o Ending
      BY <1>1, <2>2, ZenonT(30) DEF LineInv, LineTypes
    <3>2. stream[t] = WithFunc(level[t]) \o Body(said[t])
      BY <1>1, <1>b, <2>2, <3>1 DEF LineInv, LineOf
    <3> QED
      BY <1>1, <3>1, <3>2
  <2> QED
    BY <1>0, <2>1, <2>2 DEF LineOf
<1>4. ASSUME NEW u \in Writers, u # t PROVE LineOf(u)'
  <2>1. UNCHANGED <<at[u], level[u], said[u], stream[u], whole[u]>>
    BY <1>1, <1>4, SMTT(30) DEF LineInv, LineTypes
  <2> QED
    BY <2>1, LineKept, Zenon DEF LineInv
<1> QED
  BY <1>2, <1>3, <1>4, SMTT(30) DEF LineInv

(* The steps that end a log statement. *)
LEMMA LineEnd ==
  ASSUME LineInv, NEW t \in Writers, Output(t) \/ Flush(t) \/ Abort(t)
  PROVE  LineInv'
<1>1. /\ at'[t] \notin {"stream", "output"} \/ (at' = at /\ stream' = stream /\ said' = said)
      /\ LineTypes'
      /\ level' = level /\ whole' = whole
      /\ \A u \in Writers \ {t} : at'[u] = at[u] /\ stream'[u] = stream[u] /\ said'[u] = said[u]
  <2>1. CASE Output(t)
    <3> DEFINE a == AfterOutput(t)
    <3>1. a \in {"flush", "idle"}
      BY DEF AfterOutput
    <3> HIDE DEF a
    <3>2. /\ at' = [at EXCEPT ![t] = a] /\ stream' = [stream EXCEPT ![t] = <<>>]
          /\ said' = [said EXCEPT ![t] = <<>>] /\ level' = level /\ whole' = whole /\ load' = load
      BY <2>1 DEF Output, process, a
    <3>3. /\ at' \in [Writers -> {"idle", "stream", "output", "flush", "abort"}]
          /\ stream' \in [Writers -> Seq(Char)] /\ said' \in [Writers -> Seq(Item)]
      BY <3>1, <3>2 DEF LineInv, LineTypes
    <3>4. LineTypes'
      BY <3>2, <3>3 DEF LineInv, LineTypes
    <3>5. /\ at'[t] \notin {"stream", "output"}
          /\ \A u \in Writers \ {t} : at'[u] = at[u] /\ stream'[u] = stream[u] /\ said'[u] = said[u]
      BY <3>1, <3>2 DEF LineInv, LineTypes
    <3> QED
      BY <3>2, <3>4, <3>5
  <2>2. CASE Flush(t)
    BY <2>2 DEF Flush, process, LineInv, LineTypes
  <2>3. CASE Abort(t)
    BY <2>3, SMTT(30) DEF Abort, logger, process, LineInv, LineTypes
  <2> QED
    BY <2>1, <2>2, <2>3, ZenonT(30)
<1>2. LineOf(t)'
  BY <1>1, ZenonT(30) DEF LineOf, LineInv
<1>3. ASSUME NEW u \in Writers, u # t PROVE LineOf(u)'
  <2>1. UNCHANGED <<at[u], level[u], said[u], stream[u], whole[u]>>
    BY <1>1, <1>3, Zenon
  <2> QED
    BY <2>1, LineKept, Zenon DEF LineInv
<1> QED
  BY <1>1, <1>2, <1>3, ZenonT(30) DEF LineInv

LEMMA LineStep == LineInv /\ [LogNext]_allVars => LineInv'
<1> SUFFICES ASSUME LineInv, [LogNext]_allVars PROVE LineInv'
  OBVIOUS
<1>1. CASE \E t \in Writers : \E lv \in LogLevel : Log(t, lv)
  BY <1>1, LineLog
<1>2. CASE \E t \in Writers : \E item \in load.items : Stream(t, item)
  BY <1>2, LineStream
<1>3. CASE \E t \in Writers : Finish(t)
  BY <1>3, LineFinish
<1>4. CASE \E t \in Writers : Output(t) \/ Flush(t) \/ Abort(t)
  BY <1>4, LineEnd, SMTT(30)
<1>5. CASE UNCHANGED logger /\ load' = load
  BY <1>5 DEF LineInv, LineTypes, LineOf, logger
<1>6. ((\E lv \in LogLevel : setLogLevel(lv)) \/ setOutput) => UNCHANGED logger /\ load' = load
  BY DEF setLogLevel, setOutput
<1>7. UNCHANGED logVars => UNCHANGED logger /\ load' = load
  BY DEF logVars, process
<1> QED
  BY <1>1, <1>2, <1>3, <1>4, <1>5, <1>6, <1>7, Zenon DEF LogNext, Async, allVars

-----------------------------------------------------------------------------
LEMMA LineInit == LogInit => LineInv
<1> SUFFICES ASSUME LogInit PROVE LineInv
  OBVIOUS
<1>1. LineTypes
  BY DEF LogInit, LineTypes, LogLevel, INFO, TRACE, FATAL
<1>2. \A t \in Writers : LineOf(t)
  BY DEF LogInit, LineOf
<1> QED
  BY <1>1, <1>2 DEF LineInv

(* ~Logger hands to g_output a line that ends with '\n' or has filled the  *)
(* LogStream, whatever was streamed and whatever the sizes are.            *)
THEOREM LinesEnd == LogSpec => []EndsOrFull
<1>1. LineInv => EndsOrFull
  BY DEF LineInv, LineOf, EndsOrFull
<1> QED
  BY LineInit, LineStep, <1>1, PTL DEF LogSpec

(* The LOG_ macros use AsyncLogging as its interface allows: every step of *)
(* Logging is a step of AsyncLogging, whose append() it calls with a line  *)
(* that is not empty and that a buffer takes, or leaves it alone.          *)
THEOREM LoggingUsesAsyncLogging == LogSpec => Spec
<1>1. LogInit => Init
  BY SMTT(30) DEF LogInit
<1>2. LineInv /\ [LogNext]_allVars => [Next]_vars
  <2> SUFFICES ASSUME LineInv, [LogNext]_allVars PROVE [Next]_vars
    OBVIOUS
  <2>1. ASSUME NEW t \in Writers, Output(t) PROVE [Next]_vars
    <3>1. Len(stream[t]) \in LineLens
      BY <2>1, LineAssumption DEF Output, LineInv, LineOf
    <3>2. append(Len(stream[t])) \/ UNCHANGED vars
      BY <2>1, SMTT(30) DEF Output, OutputStdout, OutputAsync
    <3> QED
      BY <3>1, <3>2, SMTT(30) DEF Next
  <2>2. ASSUME NEW t \in Writers, \/ \E lv \in LogLevel : Log(t, lv)
                                  \/ \E item \in load.items : Stream(t, item)
                                  \/ Finish(t) \/ Flush(t) \/ Abort(t)
        PROVE  UNCHANGED vars
    BY <2>2, Zenon DEF Log, Stream, Finish, Flush, Abort
  <2>3. ((\E lv \in LogLevel : setLogLevel(lv)) \/ setOutput) => UNCHANGED vars
    BY DEF setLogLevel, setOutput
  <2>4. UNCHANGED allVars => UNCHANGED vars
    BY DEF allVars
  <2>5. Async(BackStep) \/ Async(Start) \/ Async(Stop) \/ Async(StopNotify) \/ Async(Join) => Next
    BY DEF Async, Next
  <2> QED
    BY <2>1, <2>2, <2>3, <2>4, <2>5, Zenon DEF LogNext
<1> QED
  BY LineInit, LineStep, <1>1, <1>2, PTL DEF LogSpec, Spec

(* So what AsyncLogging promises of any sequence of append()s it promises  *)
(* of the lines of the LOG_ macros: none is lost, doubled or overtaken on  *)
(* its way to the file ...                                                 *)
THEOREM LoggedInOrder == LogSpec => []LinesInOrder
BY LoggingUsesAsyncLogging, LinesStayInOrder, PTL

(* ... and the back end never runs out of buffers to give back.            *)
THEOREM LoggedWithBuffers == LogSpec => []EnoughToRecycle
BY LoggingUsesAsyncLogging, NeverOutOfBuffers, PTL

(* A thread that is about to abort has flushed since its line went out. *)
FlushInv ==
  /\ stdout \in Nat /\ shown \in Nat /\ place \in [Writers -> Nat]
  /\ at \in [Writers -> {"idle", "stream", "output", "flush", "abort"}]
  /\ \A t \in Writers : place[t] <= stdout /\ (at[t] = "abort" => place[t] <= shown)

LEMMA FlushStep == FlushInv /\ [LogNext]_allVars => FlushInv'
<1> SUFFICES ASSUME FlushInv, [LogNext]_allVars PROVE FlushInv'
  OBVIOUS
<1>0. /\ stdout \in Nat /\ shown \in Nat /\ place \in [Writers -> Nat]
      /\ at \in [Writers -> {"idle", "stream", "output", "flush", "abort"}]
      /\ \A t \in Writers : place[t] <= stdout /\ (at[t] = "abort" => place[t] <= shown)
  BY DEF FlushInv
<1>1. ASSUME NEW t \in Writers, Output(t) PROVE FlushInv'
  <2> DEFINE a == AfterOutput(t)
  <2>1. a \in {"flush", "idle"}
    BY SMTT(30) DEF AfterOutput
  <2> HIDE DEF a
  <2>2. at' = [at EXCEPT ![t] = a] /\ shown' = shown
    BY <1>1, Zenon DEF Output, OutputStdout, OutputAsync, a
  <2>3. at' \in [Writers -> {"idle", "stream", "output", "flush", "abort"}] /\ at'[t] # "abort"
    BY <1>0, <2>1, <2>2
  <2>4. CASE OutputStdout(t)
    <3>1. stdout' = stdout + 1 /\ place' = [place EXCEPT ![t] = stdout + 1]
      BY <2>4 DEF OutputStdout
    <3> QED
      BY <1>0, <2>2, <2>3, <3>1 DEF FlushInv
  <2>5. CASE OutputAsync(t)
    <3>1. stdout' = stdout /\ place' = [place EXCEPT ![t] = 0]
      BY <2>5 DEF OutputAsync
    <3> QED
      BY <1>0, <2>2, <2>3, <3>1 DEF FlushInv
  <2> QED
    BY <1>1, <2>4, <2>5 DEF Output
<1>2. ASSUME NEW t \in Writers, Flush(t) PROVE FlushInv'
  BY <1>0, <1>2 DEF Flush, FlushInv
<1>3. ASSUME NEW t \in Writers, \/ \E lv \in LogLevel : Log(t, lv)
                                \/ \E item \in load.items : Stream(t, item)
                                \/ Finish(t) \/ Abort(t)
      PROVE  FlushInv'
  <2>1. UNCHANGED console
    BY <1>3, Zenon DEF Log, Stream, Finish, Abort
  <2>2. at' = at \/ at' = [at EXCEPT ![t] = "stream"] \/ at' = [at EXCEPT ![t] = "output"]
    BY <1>3, ZenonT(30) DEF Log, Stream, Finish, Abort, logger
  <2> QED
    BY <1>0, <2>1, <2>2, SMTT(30) DEF FlushInv, console
<1>4. CASE UNCHANGED <<logger, console>>
  BY <1>0, <1>4 DEF FlushInv, logger, console
<1>5. ((\E lv \in LogLevel : setLogLevel(lv)) \/ setOutput) => UNCHANGED <<logger, console>>
  BY DEF setLogLevel, setOutput
<1>6. UNCHANGED logVars => UNCHANGED <<logger, console>>
  BY DEF logVars
<1> QED
  BY <1>1, <1>2, <1>3, <1>4, <1>5, <1>6, Zenon DEF LogNext, Async, allVars

(* When a LOG_FATAL calls abort(), every line fwrite got before its own is *)
(* out, however the threads' output and flushes interleave.                *)
THEOREM FatalLinesShown == LogSpec => []FatalLineShown
<1>1. LogInit => FlushInv
  BY DEF LogInit, FlushInv
<1>2. FlushInv => FatalLineShown
  BY DEF FlushInv, FatalLineShown
<1> QED
  BY FlushStep, <1>1, <1>2, PTL DEF LogSpec

(* The middle of three sequences. *)
LEMMA MiddleOf ==
  ASSUME NEW S, NEW h \in Seq(S), NEW b \in Seq(S), NEW e \in Seq(S)
  PROVE  SubSeq((h \o b) \o e, Len(h) + 1, Len((h \o b) \o e) - Len(e)) = b
<1> DEFINE w == (h \o b) \o e
           m == SubSeq(w, Len(h) + 1, Len(h) + Len(b))
<1>1. /\ w \in Seq(S) /\ Len(w) = Len(h) + Len(b) + Len(e)
      /\ Len(h) \in Nat /\ Len(b) \in Nat /\ Len(e) \in Nat
      /\ \A i \in 1..Len(b) : w[Len(h) + i] = b[i]
  <2> DEFINE v == h \o b
  <2>1. v \in Seq(S) /\ Len(v) = Len(h) + Len(b) /\ \A i \in 1..Len(b) : v[Len(h) + i] = b[i]
    OBVIOUS
  <2> HIDE DEF v
  <2>2. v \o e \in Seq(S) /\ Len(v \o e) = Len(v) + Len(e) /\ \A i \in 1..Len(v) : (v \o e)[i] = v[i]
    <3>1. v \o e \in Seq(S) /\ Len(v \o e) = Len(v) + Len(e) /\ Len(v) \in Nat /\ Len(e) \in Nat
      BY <2>1, Joined, SMTT(30)
    <3>2. \A i \in 1..Len(v) : (v \o e)[i] = v[i]
      BY <2>1, <3>1
    <3> QED
      BY <3>1, <3>2
  <2>3. \A i \in 1..Len(b) : (v \o e)[Len(h) + i] = b[i]
    BY <2>1, <2>2
  <2> QED
    BY <2>1, <2>2, <2>3 DEF v
<1> HIDE DEF w
<1>2. Len(w) - Len(e) = Len(h) + Len(b)
  BY <1>1
<1>3. m \in Seq(S) /\ Len(m) = Len(b) /\ \A i \in 1..Len(b) : m[i] = w[Len(h) + i]
  BY <1>1
<1> HIDE DEF m
<1>4. m = b
  BY <1>1, <1>3
<1> QED
  BY <1>2, <1>4 DEF m, w

LEMMA SuffixOf ==
  ASSUME NEW S, NEW x \in S, NEW y \in S, NEW b \in Seq(S)
  PROVE  SubSeq(<<x, y>> \o b, 3, Len(<<x, y>> \o b)) = b
<1> DEFINE p == <<x, y>>
           w == p \o b
           m == SubSeq(w, 3, Len(w))
<1>1. p \in Seq(S) /\ Len(p) = 2
  OBVIOUS
<1> HIDE DEF p
<1>2. w \in Seq(S) /\ Len(w) = 2 + Len(b) /\ Len(b) \in Nat /\ \A i \in 1..Len(b) : w[2 + i] = b[i]
  <2>1. w \in Seq(S) /\ Len(w) = Len(p) + Len(b) /\ Len(b) \in Nat
    <3>1. Len(b) \in Nat
      OBVIOUS
    <3> QED
      BY <1>1, <3>1, Joined, Zenon
  <2>2. \A i \in 1..(Len(p) + Len(b)) : w[i] = IF i <= Len(p) THEN p[i] ELSE b[i - Len(p)]
    BY <1>1, ConcatProperties, Zenon
  <2> HIDE DEF w
  <2>3. ASSUME NEW i \in 1..Len(b) PROVE w[2 + i] = b[i]
    <3>1. 2 + i \in 1..(Len(p) + Len(b)) /\ ~(2 + i <= Len(p)) /\ (2 + i) - Len(p) = i
      BY <1>1, <2>1
    <3> QED
      BY <2>2, <3>1
  <2> QED
    BY <1>1, <2>1, <2>3
<1> HIDE DEF w
<1>3. m \in Seq(S) /\ Len(m) = Len(b) /\ \A i \in 1..Len(b) : m[i] = w[2 + i]
  BY <1>2
<1> HIDE DEF m
<1>4. m = b
  BY <1>2, <1>3, SMTT(30)
<1> QED
  BY <1>4 DEF m, w, p

LEMMA LineReads == LineInv => NumbersReadBack
<1> SUFFICES ASSUME LineInv, NEW t \in Writers, at[t] = "output", whole[t], Len(said[t]) = 1
             PROVE  LET item == said[t][1]
                        body == BodyOf(t)
                    IN /\ item.kind = "int" =>
                            /\ IntOf(body) = item.n
                            /\ Len(body) > 1 => body[1] # "0"
                       /\ item.kind = "pointer" => HexOf(SubSeq(body, 3, Len(body))) = item.n
                       /\ "/" \notin Range(SubSeq(stream[t], 1 + Len(stream[t]) - Len(Ending), Len(stream[t])))
  BY DEF NumbersReadBack
<1> DEFINE item == said[t][1]
           h == WithFunc(level[t])
           c == Chars(item)
<1>1. item \in Item /\ said[t] # <<>> /\ Len(said[t]) <= 1
  <2>1. said[t] \in Seq(Item)
    BY DEF LineInv, LineTypes
  <2>2. ASSUME NEW s \in Seq(Item), NEW n \in 1..Len(s) PROVE s[n] \in Item
    OBVIOUS
  <2>3. 1 \in 1..Len(said[t]) /\ Len(said[t]) <= 1
    OBVIOUS
  <2>4. said[t] # <<>>
    <3>1. Len(<<>>) = 0 /\ 0 # 1
      OBVIOUS
    <3> QED
      BY <3>1, Zenon
  <2> QED
    BY <2>1, <2>2, <2>3, <2>4
<1>2. c \in Seq(Char)
  BY <1>1, CharsType
<1>3. h \in Seq(Char) /\ Len(h) = HeaderLen(level[t])
  BY HeaderFits
<1>4. /\ stream[t] = (h \o c) \o Ending /\ stream[t] \in Seq(Char)
      /\ Len(stream[t]) \in 1..(SIZE - 1)
  BY <1>1, ZenonT(30) DEF LineInv, LineTypes, LineOf, Body
<1>5. Ending \in Seq(Char)
  <2>1. <<" ">> \in Seq(Char) /\ Len(<<" ">>) \in 1..(SIZE - 1)
    <3>1. " " \in Char
      BY DEF Char
    <3>2. <<" ">> \in Seq(Char) /\ Len(<<" ">>) = 1
      BY <3>1, OneChar, Zenon
    <3>3. 1 \in 1..(SIZE - 1)
      BY NumericAssumption, LineAssumption
    <3> QED
      BY <3>2, <3>3, Zenon
  <2> QED
    BY <2>1, FinishedEnds, Zenon
<1> HIDE DEF h, c
<1>6. BodyOf(t) = c
  <2>1. SubSeq((h \o c) \o Ending, Len(h) + 1, Len((h \o c) \o Ending) - Len(Ending)) = c
    BY <1>2, <1>3, <1>5, MiddleOf, SMTT(30)
  <2> QED
    BY <1>3, <1>4, <2>1 DEF BodyOf
<1>7. ASSUME item.kind = "int" PROVE IntOf(c) = item.n /\ (Len(c) > 1 => c[1] # "0")
  <2>1. item.n \in Ints
    BY <1>1, <1>7 DEF Item
  <2>2. c = Decimal(item.n)
    BY <1>7 DEF Chars, c
  <2> QED
    BY <2>1, <2>2, DecimalReads
<1>8. ASSUME item.kind = "pointer" PROVE HexOf(SubSeq(c, 3, Len(c))) = item.n
  <2>1. item.n \in 0..UIntMax
    BY <1>1, <1>8 DEF Item
  <2>2. c = <<"0", "x">> \o convertHex(item.n)
    BY <1>8 DEF Chars, c
  <2>3. convertHex(item.n) \in Seq(HexChars) /\ HexOf(convertHex(item.n)) = item.n
    BY <2>1, HexReads
  <2>4. "0" \in Char /\ "x" \in Char /\ HexChars \subseteq Char
    BY ZenonT(30) DEF Char
  <2>5. convertHex(item.n) \in Seq(Char)
    BY <2>3, <2>4
  <2>6. SubSeq(c, 3, Len(c)) = convertHex(item.n)
    BY <2>2, <2>4, <2>5, SuffixOf
  <2> QED
    BY <2>3, <2>6, Zenon
<1>9. "/" \notin Range(SubSeq(stream[t], 1 + Len(stream[t]) - Len(Ending), Len(stream[t])))
  <2> DEFINE w == stream[t]
             a == 1 + Len(w) - Len(Ending)
             s == SubSeq(w, a, Len(w))
  <2>1. a \in 1..(Len(w) + 1) /\ Len(w) \in Nat
    <3>1. h \o c \in Seq(Char) /\ Len(h \o c) \in Nat /\ Len(Ending) \in Nat
      BY <1>2, <1>3, <1>5, Joined
    <3>2. Len(w) = Len(h \o c) + Len(Ending)
      BY <1>4, <1>5, <3>1, Joined
    <3> QED
      BY <3>1, <3>2
  <2>2. w \in Seq(Char)
    BY <1>4
  <2> HIDE DEF w, a
  <2>3. s \in Seq(Char)
    BY <2>1, <2>2
  <2> HIDE DEF s
  <2>4. \A i \in 1..Len(s) : s[i] # "/"
    BY <2>3, NoSlash
  <2> QED
    BY <2>4 DEF Range, s, a, w
<1> QED
  BY <1>6, <1>7, <1>8, <1>9, SMTT(30)

(* Whatever the width of the integers and the sizes of the buffers, a      *)
(* number reads back from a line that holds it as a whole as the number    *)
(* that was logged.                                                        *)
THEOREM NumbersSurvive == LogSpec => []NumbersReadBack
BY LineInit, LineStep, LineReads, PTL DEF LogSpec
=============================================================================
