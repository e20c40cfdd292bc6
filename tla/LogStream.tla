------------------------------ MODULE LogStream ------------------------------
(***************************************************************************)
(* src/src/logger/LogStream.{h,cc} with FixedBuffer: what each operator<<  *)
(* adds to the 4 KB buffer_ of a LogStream.                                *)
(*                                                                         *)
(* buffer_ is the sequence of its characters.  An item is what one << is   *)
(* given: a text of n characters (const char*, string, char, bool,         *)
(* GeneralTemplate), an integer, a pointer, or a double that %.12g turns   *)
(* into n characters.                                                      *)
(***************************************************************************)
EXTENDS Integers, Sequences, FiniteSetsExt

CONSTANTS
  SIZE,             \* kSmallBuffer
  kMaxNumericSize,
  IntMin, UIntMax   \* the least int and the greatest unsigned int, of the width modelled

Ints == IntMin..UIntMax

Item == [kind : {"text"}, n : Nat] \cup [kind : {"double"}, n : 1..(kMaxNumericSize - 1)]
          \cup [kind : {"int"}, n : Ints] \cup [kind : {"pointer"}, n : 0..UIntMax]

(* C's % and /, which truncate towards 0. *)
CMod(a, d) == IF a >= 0 THEN a % d ELSE -((-a) % d)
CDiv(a, d) == IF a >= 0 THEN a \div d ELSE -((-a) \div d)

(* The mirrored table, so that a negative remainder finds its digit. *)
digits == <<"9", "8", "7", "6", "5", "4", "3", "2", "1", "0",
            "1", "2", "3", "4", "5", "6", "7", "8", "9">>
zero(i) == digits[10 + i]

digitsHex == <<"0", "1", "2", "3", "4", "5", "6", "7", "8", "9", "A", "B", "C", "D", "E", "F">>

Reverse(s) == [i \in 1..Len(s) |-> s[(Len(s) - i) + 1]]

(* The do-while loop of formatInteger, least significant digit first. *)
MoreDigits_Positive(rest) == rest > 0

MoreDigits(rest) == rest # 0

DecimalLoop[num \in Ints] ==
  <<zero(CMod(num, 10))>> \o
  IF MoreDigits(CDiv(num, 10)) THEN DecimalLoop[CDiv(num, 10)] ELSE <<>>

Decimal(num) == Reverse(DecimalLoop[num] \o IF num < 0 THEN <<"-">> ELSE <<>>)

HexLoop[i \in 0..UIntMax] ==
  <<digitsHex[(i % 16) + 1]>> \o IF i \div 16 # 0 THEN HexLoop[i \div 16] ELSE <<>>

convertHex(value) == Reverse(HexLoop[value])

Filler(c, n) == [i \in 1..n |-> c]

(* The characters of an item. *)
Chars(item) ==
  CASE item.kind = "text"    -> Filler("t", item.n)
    [] item.kind = "double"  -> Filler("d", item.n)
    [] item.kind = "int"     -> Decimal(item.n)
    [] item.kind = "pointer" -> <<"0", "x">> \o convertHex(item.n)

Room(b) == SIZE - Len(b)

(* FixedBuffer::append *)
HasRoom_Exact(b, len) == Room(b) >= len

HasRoom(b, len) == Room(b) > len

AppendText(b, s) == IF HasRoom(b, Len(s)) THEN b \o s ELSE b

(* The digits are written in place: there has to be room for any number. *)
AppendNumber(b, s) == IF Room(b) >= kMaxNumericSize THEN b \o s ELSE b

(* operator<< *)
Insert(b, item) ==
  IF item.kind = "text" THEN AppendText(b, Chars(item)) ELSE AppendNumber(b, Chars(item))

(* No number has more characters than formatInteger and operator<< for     *)
(* pointers make room for, with its '\0'.                                  *)
ASSUME NumericAssumption ==
  /\ SIZE \in Nat /\ kMaxNumericSize \in Nat /\ kMaxNumericSize < SIZE
  /\ IntMin \in Int /\ IntMin <= 0 /\ UIntMax \in Nat
  /\ \A n \in Ints : Len(Decimal(n)) < kMaxNumericSize
  /\ \A n \in 0..UIntMax : Len(convertHex(n)) + 2 < kMaxNumericSize
=============================================================================
