----------------------------- MODULE PrintfOps -----------------------------
(***************************************************************************)
(* The conversions of util/printf.c as functions: from a value and the     *)
(* fields of a directive to the characters handed, one after the other, to *)
(* the output function.  A character is a string of length one; flags are  *)
(* a set.  kprintf.h disables floating point and ptrdiff_t, so the code    *)
(* for %f, %e, %g and the length t is not compiled.                        *)
(*                                                                         *)
(* Widths of the integer types are constants.  long and long long have the *)
(* same width on this machine, so _ntoa_long and _ntoa_long_long are one   *)
(* operator here, as are the entry points that differ in how they are      *)
(* called (printf_ and vprintf_, snprintf_ and vsnprintf_).                *)
(***************************************************************************)
EXTENDS Integers, SequencesExt

CONSTANTS CHAR_BIT, SHORT_BIT, INT_BIT, LONG_BIT,  \* 8, 16, 32, 64 in the code
          NTOA_BUFFER_SIZE                         \* PRINTF_NTOA_BUFFER_SIZE, 32

ASSUME PrintfOpsAssumption ==
  /\ {CHAR_BIT, SHORT_BIT, INT_BIT, LONG_BIT, NTOA_BUFFER_SIZE} \subseteq Nat \ {0}
  /\ CHAR_BIT <= SHORT_BIT /\ SHORT_BIT <= INT_BIT /\ INT_BIT <= LONG_BIT

ZEROPAD == "0"          \* the flags, named by the character that sets them
LEFT    == "-"
PLUS    == "+"
SPACE   == " "
HASH    == "#"
UPPERCASE == "upper"
CHAR      == "hh"
SHORT     == "h"
LONG      == "l"
LONG_LONG == "ll"
PRECISION == "."

NUL == "NUL"            \* (char)0

Smaller(a, b) == IF a < b THEN a ELSE b

Repeat(c, n) == IF n > 0 THEN [k \in 1 .. n |-> c] ELSE << >>

LowerDigits == << "0", "1", "2", "3", "4", "5", "6", "7",
                  "8", "9", "a", "b", "c", "d", "e", "f" >>
UpperDigits == << "0", "1", "2", "3", "4", "5", "6", "7",
                  "8", "9", "A", "B", "C", "D", "E", "F" >>

DigitChar(digit, flags) ==
  IF UPPERCASE \in flags THEN UpperDigits[digit + 1] ELSE LowerDigits[digit + 1]

-----------------------------------------------------------------------------
(* Characters of the format. *)
is_digit(ch) == \E k \in 1 .. 10 : LowerDigits[k] = ch

DigitValue(ch) == (CHOOSE k \in 1 .. 10 : LowerDigits[k] = ch) - 1

(* How many digits a format begins with, and the number they make, in an   *)
(* unsigned int.                                                           *)
DigitRun(format) ==
  CHOOSE n \in 0 .. Len(format) :
    /\ \A k \in 1 .. n : is_digit(format[k])
    /\ n < Len(format) => ~ is_digit(format[n + 1])

atoi(format) ==
  FoldLeft(LAMBDA i, ch : (i * 10 + DigitValue(ch)) % 2^INT_BIT,
           0, SubSeq(format, 1, DigitRun(format)))

strnlen_s(str, maxsize) == Smaller(Len(str), maxsize)

-----------------------------------------------------------------------------
(* The reversed text buf, padded with spaces on the side the flags say. *)
out_rev(buf, width, flags) ==
  LET pad == Repeat(" ", width - Len(buf))
  IN  CASE LEFT \in flags -> Reverse(buf) \o pad
        [] LEFT \notin flags /\ ZEROPAD \notin flags -> pad \o Reverse(buf)
        [] OTHER -> Reverse(buf)

(* The conversion buffer takes a character as long as there is room. *)
PutIfRoom(buf, c) == IF Len(buf) < NTOA_BUFFER_SIZE THEN Append(buf, c) ELSE buf

ZerosTo(buf, n) == buf \o Repeat("0", Smaller(n, NTOA_BUFFER_SIZE) - Len(buf))

(* '#': digits make way for the prefix where zeros have filled the field,  *)
(* or where the digits do by themselves, which the code does not tell      *)
(* apart.                                                                  *)
HashPrefixed(buf, base, prec, width, flags) ==
  LET len == Len(buf)
      cut == IF PRECISION \notin flags /\ len > 0 /\ (len = prec \/ len = width)
             THEN (IF len > 1 /\ base = 16 THEN 2 ELSE 1) ELSE 0
      kept == SubSeq(buf, 1, len - cut)
      mark == CASE base = 16 -> PutIfRoom(kept, IF UPPERCASE \in flags THEN "X" ELSE "x")
                [] base = 2  -> PutIfRoom(kept, "b")
                [] OTHER     -> kept
  IN  PutIfRoom(mark, "0")

Signed(buf, negative, flags) ==
  CASE negative         -> PutIfRoom(buf, "-")
    [] ~ negative /\ PLUS \in flags -> PutIfRoom(buf, "+")
    [] ~ negative /\ PLUS \notin flags /\ SPACE \in flags -> PutIfRoom(buf, " ")
    [] OTHER            -> buf

ntoa_format(buf, negative, base, prec, width, flags) ==
  LET room == IF width > 0 /\ ZEROPAD \in flags /\ LEFT \notin flags
                   /\ (negative \/ flags \cap {PLUS, SPACE} # {})
              THEN width - 1 ELSE width
      zeros == CASE LEFT \in flags -> buf
                 [] LEFT \notin flags /\ ZEROPAD \in flags -> ZerosTo(ZerosTo(buf, prec), room)
                 [] OTHER -> ZerosTo(buf, prec)
      marked == IF HASH \in flags THEN HashPrefixed(zeros, base, prec, room, flags)
                ELSE zeros
  IN  out_rev(Signed(marked, negative, flags), room, flags)

(* The digits of a value, the last one first, at most a buffer full. *)
DigitsReversed(value, base, flags) ==
  LET from[v \in 0 .. (2^LONG_BIT - 1)] ==
        << DigitChar(v % base, flags) >>
          \o (IF v \div base = 0 THEN << >> ELSE from[v \div base])
      all == from[value]
  IN  SubSeq(all, 1, Smaller(Len(all), NTOA_BUFFER_SIZE))

ntoa_long(value, negative, base, prec, width, flags) ==
  ntoa_format(IF PRECISION \in flags /\ value = 0 THEN << >>
              ELSE DigitsReversed(value, base, flags),
              negative, base, prec, width,
              IF value = 0 THEN flags \ {HASH} ELSE flags)

-----------------------------------------------------------------------------
(* What the specifiers make of the argument next in line, arg: a record    *)
(* whose num is the 64-bit word an integer or pointer comes in, and whose  *)
(* str is the text a %s points to, or the single character of a %c.        *)
Base(spec) == CASE spec \in {"x", "X"} -> 16
                [] spec = "o" -> 8
                [] spec = "b" -> 2
                [] OTHER -> 10

IntegerFlags(spec, flags) ==
  (flags \cup (IF spec = "X" THEN {UPPERCASE} ELSE {}))
    \ ((IF Base(spec) = 10 THEN {HASH} ELSE {}) \cup
       (IF spec \in {"i", "d"} THEN {} ELSE {PLUS, SPACE}) \cup
       (IF PRECISION \in flags THEN {ZEROPAD} ELSE {}))

(* The width of the type the length field selects. *)
TypeBits(flags) == CASE flags \cap {LONG_LONG, LONG} # {} -> LONG_BIT
                     [] flags \cap {LONG_LONG, LONG} = {} /\ CHAR \in flags -> CHAR_BIT
                     [] flags \cap {LONG_LONG, LONG, CHAR} = {} /\ SHORT \in flags -> SHORT_BIT
                     [] OTHER -> INT_BIT

ToUnsigned(num, bits) == num % 2^bits

ToSigned(num, bits) == LET u == num % 2^bits
                       IN  IF u < 2^(bits - 1) THEN u ELSE u - 2^bits

(* Negating the least value of a type wraps around to itself, which the    *)
(* conversion to unsigned then reads as its magnitude.                     *)
Magnitude(value, bits) == IF value > 0 THEN value ELSE (0 - value) % 2^bits

integer(spec, prec, width, flags, arg) ==
  LET fl    == IntegerFlags(spec, flags)
      bits  == TypeBits(fl)
      value == ToSigned(arg.num, bits)
  IN  IF spec \in {"i", "d"}
      THEN ntoa_long(Magnitude(value, bits), value < 0, Base(spec), prec, width, fl)
      ELSE ntoa_long(ToUnsigned(arg.num, bits), FALSE, Base(spec), prec, width, fl)

PaddedWith(text, width, flags) ==
  LET pad == Repeat(" ", width - Len(text))
  IN  IF LEFT \in flags THEN text \o pad ELSE pad \o text

character(width, flags, arg) == PaddedWith(arg.str, width, flags)

(* The length that padding goes by is _strnlen_s's, limited by a non-zero  *)
(* precision, and the precision once more.                                 *)
string(prec, width, flags, arg) ==
  LET n == strnlen_s(arg.str, IF prec > 0 THEN prec ELSE Len(arg.str))
      l == IF PRECISION \in flags THEN Smaller(n, prec) ELSE n
  IN  PaddedWith(SubSeq(arg.str, 1, l), width, flags)

pointer(prec, flags, arg) ==
  ntoa_long(ToUnsigned(arg.num, LONG_BIT), FALSE, 16, prec, LONG_BIT \div 4,
            flags \cup {ZEROPAD, UPPERCASE})

IntegerSpecs == {"d", "i", "u", "x", "X", "o", "b"}

TakesArgument(spec) == spec \in IntegerSpecs \cup {"c", "s", "p"}

Converted(spec, prec, width, flags, arg) ==
  CASE spec \in IntegerSpecs -> integer(spec, prec, width, flags, arg)
    [] spec = "c" -> character(width, flags, arg)
    [] spec = "s" -> string(prec, width, flags, arg)
    [] spec = "p" -> pointer(prec, flags, arg)
    [] OTHER -> << spec >>
=============================================================================
