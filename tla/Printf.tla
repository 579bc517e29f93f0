------------------------------- MODULE Printf -------------------------------
(***************************************************************************)
(* One call of a function of the printf family: _vsnprintf reads its       *)
(* format character by character, converts, and hands each character to an *)
(* output function; serial_printf then sends what vsnprintf has stored in  *)
(* its buffer of 256 characters to the UART, polling.                      *)
(*                                                                         *)
(* What is printed is given as a message, a sequence of directives, each   *)
(* with its arguments; Written is the format text that the directives make *)
(* and Intended what C's rules say they print.  A text that is no          *)
(* directive has the specifier TEXT.                                       *)
(***************************************************************************)
EXTENDS PrintfOps

CONSTANTS
  Calls,                \* [fn, count, null, message]: the function called,
                        \* the count given to snprintf_, whether the buffer
                        \* is NULL, and a sequence of directives
  WRAP,                 \* values of a uint8_t, and the size of the buffer of
                        \* serial_printf: 256
  MEMORY                \* characters of memory from the buffer on

TEXT    == "text"
GARBAGE == "?"          \* what memory holds before the call

SIZE_MAX == 2^LONG_BIT - 1

Fns == {"printf_", "fctprintf", "sprintf_", "snprintf_", "serial_printf"}

ASSUME PrintfAssumption ==
  /\ \A c \in Calls : c.fn \in Fns /\ c.count \in 0 .. SIZE_MAX /\ c.null \in BOOLEAN
  /\ WRAP \in 1 .. MEMORY

VARIABLES
  call,                 \* the call, its message a ghost
  pc,                   \* the stage of _vsnprintf, or of serial_write_str
  format, va,           \* what is left of the format and the arguments
  flags, width, precision,
  text,                 \* the characters handed to out so far, idx of them
  buffer,               \* memory from the buffer on
  console,              \* what _putchar, or fctprintf's function, was given
  ret,                  \* what _vsnprintf returned
  i,                    \* serial_write_str's index, a uint8_t
  thr, line             \* the UART's holding register; what it has sent

directive == <<flags, width, precision>>
serial    == <<i, thr, line>>
vars == <<call, pc, format, va, directive, text, buffer, console, ret, serial>>

-----------------------------------------------------------------------------
(* The format and the arguments that a message is written as.  A width or  *)
(* precision is [given, n], given as digits, as a star or not at all.      *)
Decimal(n) == IF n < 10 THEN << LowerDigits[n + 1] >>
              ELSE << LowerDigits[(n \div 10) + 1], LowerDigits[(n % 10) + 1] >>

Field(f) == CASE f.given = "digits" -> Decimal(f.n)
              [] f.given = "star"   -> << "*" >>
              [] f.given = "no"     -> << >>

Written(d) ==
  IF d.spec = TEXT THEN d.str
  ELSE << "%" >> \o SetToSeq(d.flags) \o Field(d.width)
         \o (IF d.prec.given = "no" THEN << >> ELSE << "." >> \o Field(d.prec))
         \o d.length \o << d.spec >>

Word(n) == [num |-> n % 2^LONG_BIT, str |-> << >>]

Arguments(d) ==
  (IF d.width.given = "star" THEN << Word(d.width.n) >> ELSE << >>)
    \o (IF d.prec.given = "star" THEN << Word(d.prec.n) >> ELSE << >>)
    \o (IF TakesArgument(d.spec) THEN << [Word(d.num) EXCEPT !.str = d.str] >> ELSE << >>)

Joined(Op(_)) == FlattenSeq([k \in DOMAIN call.message |-> Op(call.message[k])])

Init ==
  /\ call \in Calls
  /\ pc = "text" /\ format = Joined(Written) /\ va = Joined(Arguments)
  /\ flags = {} /\ width = 0 /\ precision = 0
  /\ text = << >> /\ console = << >> /\ ret = 0
  /\ buffer = [k \in 0 .. (MEMORY - 1) |-> GARBAGE]
  /\ i = 0 /\ thr = << >> /\ line = << >>

-----------------------------------------------------------------------------
(* The output function and maxlen that the function called passes on. *)
out == CASE call.null -> "_out_null"
         [] ~ call.null /\ call.fn = "printf_"   -> "_out_char"
         [] ~ call.null /\ call.fn = "fctprintf" -> "_out_fct"
         [] OTHER -> "_out_buffer"

maxlen == CASE call.fn = "snprintf_"     -> call.count
            [] call.fn = "serial_printf" -> WRAP
            [] OTHER -> SIZE_MAX

idx == Len(text)

(* What _out_char and _out_fct pass on: no character 0. *)
Sent(chars) == SelectSeq(chars, LAMBDA c : c # NUL)

(* out(c, buffer, at + k - 1, maxlen) for the characters c of chars. *)
Out(chars, at) ==
  /\ buffer' = IF out = "_out_buffer"
               THEN [k \in DOMAIN buffer |->
                       IF k - at + 1 \in DOMAIN chars /\ k < maxlen
                       THEN chars[k - at + 1] ELSE buffer[k]]
               ELSE buffer
  /\ console' = IF out \in {"_out_char", "_out_fct"} THEN console \o Sent(chars) ELSE console

Emit(chars) == Out(chars, idx) /\ text' = text \o chars

(* One pass of the loop over the format: a character that is not '%'. *)
Character ==
  /\ pc = "text" /\ format # << >> /\ Head(format) # "%"
  /\ Emit(<< Head(format) >>)
  /\ format' = Tail(format)
  /\ UNCHANGED <<call, pc, va, directive, ret, serial>>

Percent_keep ==
  /\ pc = "text" /\ format # << >> /\ Head(format) = "%"
  /\ pc' = "flags" /\ format' = Tail(format)
  /\ UNCHANGED <<call, va, directive, text, buffer, console, ret, serial>>

Percent ==
  /\ pc = "text" /\ format # << >> /\ Head(format) = "%"
  /\ pc' = "flags" /\ format' = Tail(format)
  /\ flags' = {} /\ width' = 0 /\ precision' = 0
  /\ UNCHANGED <<call, va, text, buffer, console, ret, serial>>

FlagChars == {ZEROPAD, LEFT, PLUS, SPACE, HASH}

Flag ==
  /\ pc = "flags" /\ Head(format) \in FlagChars
  /\ flags' = flags \cup {Head(format)}
  /\ format' = Tail(format)
  /\ UNCHANGED <<call, pc, va, width, precision, text, buffer, console, ret, serial>>

(* va_arg(va, int) *)
IntArg == ToSigned(Head(va).num, INT_BIT)

(* A number in the format: digits, a star for an int argument, or neither; *)
(* with what is then left of the format and the arguments.                 *)
Number(fmt) ==
  CASE is_digit(Head(fmt)) ->
         [n |-> atoi(fmt), format |-> SubSeq(fmt, DigitRun(fmt) + 1, Len(fmt)), va |-> va]
    [] Head(fmt) = "*" -> [n |-> IntArg, format |-> Tail(fmt), va |-> Tail(va)]
    [] OTHER -> [n |-> 0, format |-> fmt, va |-> va]

(* A negative width is a '-' and its magnitude. *)
Magnified_not(w) == w

Magnified(w) == IF w < 0 THEN -w ELSE w

Width ==
  /\ pc = "flags" /\ Head(format) \notin FlagChars
  /\ pc' = "precision"
  /\ LET w == Number(format)
     IN  /\ format' = w.format /\ va' = w.va
         /\ width' = Magnified(w.n)
         /\ flags' = IF w.n < 0 THEN flags \cup {LEFT} ELSE flags
  /\ UNCHANGED <<call, precision, text, buffer, console, ret, serial>>

(* A negative precision is taken for 0. *)
Precision ==
  /\ pc = "precision" /\ Head(format) = "."
  /\ pc' = "length"
  /\ flags' = flags \cup {PRECISION}
  /\ LET p == Number(Tail(format))
     IN  /\ format' = p.format /\ va' = p.va
         /\ precision' = IF p.n > 0 THEN p.n ELSE 0
  /\ UNCHANGED <<call, width, text, buffer, console, ret, serial>>

NoPrecision ==
  /\ pc = "precision" /\ Head(format) # "."
  /\ pc' = "length"
  /\ UNCHANGED <<call, format, va, directive, text, buffer, console, ret, serial>>

(* l and ll, h and hh; j and z are long on this machine. *)
Length ==
  /\ pc = "length" /\ pc' = "specifier"
  /\ LET twice == Len(format) > 1 /\ format[2] = format[1]
         taken == CASE Head(format) \in {"l", "h"} -> IF twice THEN 2 ELSE 1
                    [] Head(format) \in {"j", "z"} -> 1
                    [] OTHER -> 0
     IN  /\ format' = SubSeq(format, taken + 1, Len(format))
         /\ flags' = flags \cup
              CASE Head(format) = "l" -> {LONG} \cup (IF twice THEN {LONG_LONG} ELSE {})
                [] Head(format) = "h" -> {SHORT} \cup (IF twice THEN {CHAR} ELSE {})
                [] Head(format) \in {"j", "z"} -> {LONG}
                [] OTHER -> {}
  /\ UNCHANGED <<call, va, width, precision, text, buffer, console, ret, serial>>

Specifier ==
  /\ pc = "specifier" /\ pc' = "text"
  /\ LET spec == Head(format)
     IN  IF TakesArgument(spec)
         THEN /\ \E chars \in {Converted(spec, precision, width, flags, Head(va))} : Emit(chars)
              /\ va' = Tail(va)
         ELSE /\ Emit(<< spec >>)
              /\ UNCHANGED va
  /\ format' = Tail(format)
  /\ UNCHANGED <<call, directive, ret, serial>>

(* The place of the terminating 0; maxlen - 1 in a size_t. *)
TerminatorAt_idx == idx

TerminatorAt == IF idx < maxlen THEN idx ELSE (maxlen - 1) % 2^LONG_BIT

Terminate ==
  /\ pc = "text" /\ format = << >>
  /\ Out(<< NUL >>, TerminatorAt)
  /\ ret' = idx
  /\ pc' = IF call.fn = "serial_printf" THEN "send" ELSE "returned"
  /\ UNCHANGED <<call, format, va, directive, text, serial>>

-----------------------------------------------------------------------------
(* serial_write waits for the transmitter and stores to its register; a    *)
(* character that is still there is lost.                                  *)
serial_is_tx_empty_not == thr # << >>

serial_is_tx_empty == thr = << >>

serial_write_nowait(data) == thr' = << data >>

serial_write(data) == serial_is_tx_empty /\ thr' = << data >>

serial_write_str ==
  /\ pc = "send" /\ buffer[i] # NUL
  /\ serial_write(buffer[i])
  /\ i' = (i + 1) % WRAP
  /\ UNCHANGED <<call, pc, format, va, directive, text, buffer, console, ret, line>>

serial_write_str_end ==
  /\ pc = "send" /\ buffer[i] = NUL
  /\ pc' = "returned"
  /\ UNCHANGED <<call, format, va, directive, text, buffer, console, ret, serial>>

(* The UART sends the character it holds. *)
UartSends ==
  /\ thr # << >>
  /\ line' = line \o thr /\ thr' = << >>
  /\ UNCHANGED <<call, pc, format, va, directive, text, buffer, console, ret, i>>

vsnprintf == Character \/ Percent \/ Flag \/ Width \/ Precision \/ NoPrecision
               \/ Length \/ Specifier \/ Terminate

Step == vsnprintf \/ serial_write_str \/ serial_write_str_end

Next == Step \/ UartSends

(* The CPU goes on with the call, and the UART with sending. *)
Spec == Init /\ [][Next]_vars /\ WF_vars(Step) /\ WF_vars(UartSends)

-----------------------------------------------------------------------------
(***************************************************************************)
(* What C's rules say a directive prints.                                  *)
(***************************************************************************)
ValueOf(d) ==
  LET bits == CASE d.length \in {<<"l">>, <<"l", "l">>, <<"j">>, <<"z">>} -> LONG_BIT
                [] d.length = <<"h">> -> SHORT_BIT
                [] d.length = <<"h", "h">> -> CHAR_BIT
                [] d.length = << >> -> INT_BIT
  IN  IF d.spec \in {"d", "i"} THEN ToSigned(d.num, bits) ELSE ToUnsigned(d.num, bits)

Abs(n) == IF n < 0 THEN -n ELSE n

(* The digits of n by their places, the first one first, at least min. *)
Positional(n, base, min, digits) ==
  LET len == CHOOSE k \in 0 .. LONG_BIT : base^k > n /\ (k = 0 \/ base^(k - 1) <= n)
  IN  Repeat("0", min - len) \o [k \in 1 .. len |-> digits[((n \div base^(len - k)) % base) + 1]]

FieldWidth(d) == IF d.width.given = "no" THEN 0 ELSE Abs(d.width.n)

LeftAligned(d) == LEFT \in d.flags \/ (d.width.given = "star" /\ d.width.n < 0)

Sign(d) == CASE d.spec \notin {"d", "i"} -> << >>
             [] d.spec \in {"d", "i"} /\ ValueOf(d) < 0 -> << "-" >>
             [] d.spec \in {"d", "i"} /\ ValueOf(d) >= 0 ->
                  IF PLUS \in d.flags THEN << "+" >>
                  ELSE IF SPACE \in d.flags THEN << " " >> ELSE << >>

Prefix(d) == IF HASH \notin d.flags \/ ValueOf(d) = 0 THEN << >>
             ELSE CASE d.spec \in {"x", "X", "b"} -> << "0", d.spec >>
                    [] d.spec = "o" -> << "0" >>
                    [] OTHER -> << >>

(* A negative precision counts as none. *)
HasPrecision(d) == d.prec.given # "no" /\ d.prec.n >= 0

(* Sign, prefix and digits, without the padding by spaces. *)
Numeral(d) ==
  LET ahead  == Sign(d) \o Prefix(d)
      digits == IF d.spec = "X" THEN UpperDigits ELSE LowerDigits
      min    == CASE HasPrecision(d) -> d.prec.n
                  [] ~ HasPrecision(d) /\ ZEROPAD \in d.flags /\ ~ LeftAligned(d)
                       /\ FieldWidth(d) - Len(ahead) > 1 -> FieldWidth(d) - Len(ahead)
                  [] OTHER -> 1
  IN  ahead \o Positional(Abs(ValueOf(d)), Base(d.spec), min, digits)

Body(d) ==
  CASE d.spec \in IntegerSpecs -> Numeral(d)
    [] d.spec = "p" -> Positional(ToUnsigned(d.num, LONG_BIT), 16, LONG_BIT \div 4, UpperDigits)
    [] d.spec = "s" -> IF HasPrecision(d) THEN SubSeq(d.str, 1, Smaller(d.prec.n, Len(d.str)))
                       ELSE d.str
    [] d.spec \in {"c", TEXT} -> d.str
    [] OTHER -> << d.spec >>

Intended(d) ==
  IF d.spec \in IntegerSpecs \cup {"s", "c"}
  THEN LET pad == Repeat(" ", FieldWidth(d) - Len(Body(d)))
       IN  IF LeftAligned(d) THEN Body(d) \o pad ELSE pad \o Body(d)
  ELSE Body(d)

(* The directives that this printf prints as C does.  The others: numerals *)
(* longer than the conversion buffer; a precision for a number that is     *)
(* left aligned; a negative precision; '#' with a width or a precision; %p *)
(* with anything.                                                          *)
Regular(d) ==
  /\ d.spec \in IntegerSpecs => Len(Body(d)) <= NTOA_BUFFER_SIZE
  /\ d.prec.given # "no" => HasPrecision(d) /\ ~ (LeftAligned(d) /\ d.spec \in IntegerSpecs)
  /\ HASH \in d.flags => d.width.given = "no" /\ d.prec.given = "no"
  /\ d.spec = "p" => d.flags = {} /\ d.width.given = "no" /\ d.prec.given = "no"

-----------------------------------------------------------------------------
(* Types and ranges; in particular a width is never negative, whatever int *)
(* a star takes it from.                                                   *)
TypeOK ==
  /\ pc \in {"text", "flags", "precision", "length", "specifier", "send", "returned"}
  /\ flags \subseteq FlagChars \cup {PRECISION, LONG, LONG_LONG, SHORT, CHAR}
  /\ width \in 0 .. (2^INT_BIT - 1) /\ precision \in 0 .. (2^INT_BIT - 1)
  /\ i \in 0 .. (WRAP - 1)
  /\ ret \in {0, idx}

(* A message of regular directives is printed as C's rules say: the right  *)
(* argument for each directive, no field left over from the one before it, *)
(* digits, sign and padding (_vsnprintf, _ntoa_format, _out_rev).          *)
PrintsAsIntended ==
  pc = "returned" /\ (\A k \in DOMAIN call.message : Regular(call.message[k])) =>
    /\ text = Joined(Intended)
    /\ out \in {"_out_char", "_out_fct"} => console = SelectSeq(text, LAMBDA c : c # NUL)

(* kprintf.h on snprintf: at most count characters are stored, the last a  *)
(* terminating 0, they are the beginning of the whole text, whose length   *)
(* is returned, and memory behind them is left alone.  kprintf.h on        *)
(* fctprintf: "The number of characters that are sent to the output        *)
(* function, not counting the terminating null character" is returned.  So *)
(* it is, by printf too, exactly if the text has no %c of 0 in it: that    *)
(* one is counted and not sent.                                            *)
StoresWhatFits ==
  pc \in {"send", "returned"} =>
    LET kept == Smaller(idx, maxlen - 1)
    IN  /\ out \in {"_out_buffer", "_out_null"} => ret = idx
        /\ out \in {"_out_char", "_out_fct"} =>
             (ret = Len(console) <=> \A k \in DOMAIN text : text[k] # NUL)
        /\ \A k \in DOMAIN buffer :
             buffer[k] = CASE out # "_out_buffer" \/ k > kept -> GARBAGE
                           [] out = "_out_buffer" /\ k < kept -> text[k + 1]
                           [] out = "_out_buffer" /\ k = kept -> NUL

(* What goes over the serial line is the stored string, each character     *)
(* once and in order however slow the UART is (serial_write), and all of   *)
(* it has been handed over when serial_printf returns.                     *)
SentInOrder ==
  LET given == line \o thr
  IN  /\ Len(given) < WRAP
      /\ \A k \in DOMAIN given : given[k] = buffer[k - 1] /\ given[k] # NUL
      /\ call.fn = "serial_printf" /\ pc = "returned" => buffer[Len(given)] = NUL

(* Every call returns; a text longer than the buffer of serial_printf does *)
(* not keep serial_write_str's 8-bit index going round for ever.           *)
CallReturns == <>(pc = "returned")
=============================================================================
