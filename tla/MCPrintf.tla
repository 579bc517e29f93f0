------------------------------ MODULE MCPrintf ------------------------------
(***************************************************************************)
(* Integers of 2, 3, 4 and 8 bits, a conversion buffer of 5 characters and *)
(* a serial buffer of 8.                                                   *)
(***************************************************************************)
EXTENDS Printf

No        == [given |-> "no", n |-> 0]
Digits(n) == [given |-> "digits", n |-> n]
Star(n)   == [given |-> "star", n |-> n]

Plain(spec, num, str) ==
  [flags |-> {}, width |-> No, prec |-> No, length |-> << >>,
   spec |-> spec, num |-> num, str |-> str]

Hello == << "h", "e", "l", "l", "o" >>

(* Every set of flags with widths and precisions around the lengths of the *)
(* numbers, one of them negative and one zero.                             *)
Numbers ==
  {[Plain(spec, num, << >>) EXCEPT !.flags = fl, !.width = w, !.prec = p] :
     spec \in {"d", "x"}, num \in {0, 5, 11}, fl \in SUBSET FlagChars,
     w \in {No, Digits(4), Digits(12)}, p \in {No, Digits(0), Digits(3)}}

(* Every length with the limits of each type and what lies beyond them. *)
Lengths ==
  {[Plain(spec, num, << >>) EXCEPT !.length = len] :
     spec \in IntegerSpecs, num \in {0, 1, 2, 3, 4, 7, 8, 15, 16, 127, 128, 255},
     len \in {<< >>, <<"h">>, <<"h", "h">>, <<"l">>, <<"l", "l">>, <<"j">>, <<"z">>}}

Stars ==
  {[Plain(spec, 9, Hello) EXCEPT !.width = w, !.prec = p, !.flags = fl] :
     spec \in {"d", "s"}, w \in {No, Star(7), Star(-6), Star(-8)},
     p \in {No, Star(2), Star(-1), Digits(0)}, fl \in {{}, {ZEROPAD}}}

Others ==
  {[Plain(spec, 29, << "k" >>) EXCEPT !.width = w, !.flags = fl] :
     spec \in {"c", "p", "s", "o", "b", "X", "%", "f"}, w \in {No, Digits(3)},
     fl \in {{}, {LEFT}, {HASH}}}

(* Several directives, text between them, and texts that just fit into     *)
(* serial_printf's buffer, just do not, and are longer by far.             *)
Wide     == [Plain("u", 5, << >>) EXCEPT !.width = Digits(6), !.flags = {ZEROPAD}]
Short    == Plain("x", 11, << >>)
Text     == Plain(TEXT, 0, << "a", "b" >>)
NulChar  == Plain("c", 0, << NUL >>)
Name     == [Plain("s", 0, Hello) EXCEPT !.prec = Digits(3)]
Pieces   == {Wide, Short, Text, Name}

Sentences == {<< a, b, c >> : a \in Pieces, b \in Pieces, c \in Pieces}
               \cup {<< a >> : a \in Pieces} \cup {<< >>, << Wide, Short >>, << Text, Name >>}
               \cup {<< NulChar >>, << Text, NulChar, Text >>}

Singles == {<< d >> : d \in Numbers \cup Lengths \cup Stars \cup Others}

Call(fn, count, null, m) == [fn |-> fn, count |-> count, null |-> null, message |-> m]

(* One directive is looked at in the text printed, whole; several in every *)
(* kind of call.                                                           *)
AllCalls ==
  {Call("printf_", 0, FALSE, m) : m \in Singles \cup Sentences} \cup
  {Call("snprintf_", count, FALSE, m) : count \in {0, 1, 4}, m \in Sentences} \cup
  {Call("snprintf_", 4, TRUE, m) : m \in Sentences} \cup
  {Call(fn, 0, FALSE, m) : fn \in {"fctprintf", "sprintf_", "serial_printf"}, m \in Sentences}
=============================================================================
