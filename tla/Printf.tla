-------------------------------- MODULE Printf --------------------------------
(***************************************************************************)
(* lib/libc/printf.c: generic_printf reads the format a character at a     *)
(* time, and keeps the options of the directive it is in.                  *)
(*                                                                         *)
(* A format is given as items, a text or a directive, and spelled out for  *)
(* the formatter to read.  A character is a string of length one, and an   *)
(* argument a machine word, as va_arg reads it: the two's complement of a  *)
(* number, or the address of a string.                                     *)
(***************************************************************************)
EXTENDS Integers, SequencesExt

CONSTANTS
  BufSize,    \* PRINTF_RUNNER_BUFSIZE
  SizeRange,  \* the number of values of a size_t and of a long long
  Formats,    \* the formats, sequences of items
  Words,      \* the arguments that are numbers or pointers
  StringAt    \* the strings in memory, by their address

ASSUME BufAssumption == BufSize \in Nat /\ BufSize > 1
ASSUME RangeAssumption ==
  /\ SizeRange \in Nat /\ SizeRange > 0 /\ SizeRange % 2 = 0
  /\ Words \cup DOMAIN StringAt \subseteq 0 .. SizeRange - 1
ASSUME StringsAssumption == \A address \in DOMAIN StringAt : StringAt[address] \in Seq(STRING)

VARIABLES
  format,   \* the items of the format
  at,       \* the position in the format's text
  pr,       \* the options of printf_runner
  buf,      \* the characters in pr.buf
  sent,     \* what the write function was called with
  written,  \* pr.written
  taken,    \* the arguments fetched with va_arg
  done      \* generic_printf has returned

vars == <<format, at, pr, buf, sent, written, taken, done>>

Word == 0 .. SizeRange - 1
Wrap(n) == n % SizeRange
Signed(w) == IF w < SizeRange \div 2 THEN w ELSE w - SizeRange

Numerals == <<"0", "1", "2", "3", "4", "5", "6", "7", "8", "9", "a", "b", "c", "d", "e", "f">>
DigitValue == [c \in {Numerals[k] : k \in 1 .. 10} |-> CHOOSE k \in 0 .. 9 : Numerals[k + 1] = c]
Repeat(c, n) == [i \in 1 .. n |-> c]

(* An item of a format, and how it is written. *)
Item ==
  [kind : {"text"}, text : Seq(STRING)]
    \cup [kind : {"directive"}, conv : {"d", "x", "s", "p", "%"}, flags : Seq({"#", "-", "0"}),
          width : Seq(DOMAIN DigitValue), precision : Seq(DOMAIN DigitValue \cup {"."})]
ASSUME FormatsAssumption == Formats \subseteq Seq(Item)

TextItem(text) == [kind |-> "text", text |-> text]
Directive(conv, flags, width, precision) ==
  [kind |-> "directive", conv |-> conv, flags |-> flags, width |-> width, precision |-> precision]
SpellItem(item) ==
  IF item.kind = "text" THEN item.text
  ELSE <<"%">> \o item.flags \o item.width \o item.precision \o <<item.conv>>
Spell(items) == FlattenSeq([k \in DOMAIN items |-> SpellItem(items[k])])
Text == Spell(format)

-----------------------------------------------------------------------------
(***************************************************************************)
(* The buffer                                                              *)
(***************************************************************************)
Flush(o) == [buf |-> <<>>, sent |-> o.sent \o o.buf, written |-> Wrap(o.written + Len(o.buf))]

(* Faulty variant: the buffer is filled to its last byte. *)
PushCharFull(o, c) ==
  LET p == [o EXCEPT !.buf = Append(@, c)]
  IN IF Len(p.buf) >= BufSize THEN Flush(p) ELSE p

(* printf_push_char leaves room for the terminator. *)
PushChar(o, c) ==
  LET p == [o EXCEPT !.buf = Append(@, c)]
  IN IF Len(p.buf) + 1 >= BufSize THEN Flush(p) ELSE p

Output(o) == buf' = o.buf /\ sent' = o.sent /\ written' = o.written
Buffered == [buf |-> buf, sent |-> sent, written |-> written]
PushAll(o, chars) ==
  LET pushed[k \in 0 .. Len(chars)] ==
        IF k = 0 THEN o ELSE PushChar(pushed[k - 1], chars[k])
  IN pushed[Len(chars)]
Push(chars) == Output(PushAll(Buffered, chars))

-----------------------------------------------------------------------------
(***************************************************************************)
(* The directives                                                          *)
(***************************************************************************)
(* The digits of a number, none of zero (printf_do_uint). *)
Digits(n, base) ==
  LET d[k \in 0 .. n] == IF k = 0 THEN <<>> ELSE Append(d[k \div base], Numerals[(k % base) + 1])
  IN d[n]

(* What printf_do_print pushes.  Both paddings are loops up to              *)
(* field_width - total_len, in a size_t.                                    *)
DoPrint(prefix1, prefix2, what) ==
  LET zeros == IF Len(what) < pr.precision THEN pr.precision - Len(what) ELSE 0
      total == Wrap(Len(prefix1) + Len(prefix2) + Len(what) + zeros)
      padding == Wrap(pr.field_width - total)
      left == IF total < pr.field_width /\ ~pr.right_pad
              THEN Repeat(IF pr.zero_pad THEN "0" ELSE " ", padding) ELSE <<>>
      right == IF pr.right_pad THEN Repeat(" ", padding) ELSE <<>>
  IN left \o prefix1 \o prefix2 \o Repeat("0", zeros) \o what \o right

BasePrefix(base) == IF base = 16 /\ pr.enable_base_prefix THEN <<"0", "x">> ELSE <<>>
DoUint(value, base, sign) == DoPrint(sign, BasePrefix(base), Digits(value, base))

(* Faulty variant: the sign of the number is not looked at. *)
DoIntUnsigned(w, base) == DoUint(w, base, <<>>)

DoInt(w, base) ==
  IF Signed(w) < 0 THEN DoUint(Wrap(-Signed(w)), base, <<"-">>) ELSE DoUint(w, base, <<>>)

(* Faulty variant: the precision of the directive before is kept. *)
BeginFmtKeepsPrecision ==
  [pr EXCEPT !.in_fmt = TRUE, !.enable_base_prefix = FALSE, !.field_width = 0,
             !.in_precision = FALSE, !.zero_pad = FALSE, !.right_pad = FALSE]

BeginFmt ==
  [in_fmt |-> TRUE, enable_base_prefix |-> FALSE, field_width |-> 0, precision |-> 1,
   in_precision |-> FALSE, zero_pad |-> FALSE, right_pad |-> FALSE]

Init ==
  /\ format \in Formats
  /\ at = 1
  /\ pr = [in_fmt |-> FALSE, enable_base_prefix |-> FALSE, field_width |-> 0, precision |-> 0,
           in_precision |-> FALSE, zero_pad |-> FALSE, right_pad |-> FALSE]
  /\ buf = <<>> /\ sent = <<>> /\ written = 0
  /\ taken = <<>>
  /\ done = FALSE

(* printf_step reads this character, in a directive or outside of one. *)
Reads(chars, in_fmt) ==
  /\ at <= Len(Text) /\ Text[at] \in chars
  /\ pr.in_fmt = in_fmt
  /\ at' = at + 1
  /\ UNCHANGED <<format, done>>
(* It only changes an option. *)
Option(chars) == Reads(chars, TRUE) /\ UNCHANGED <<buf, sent, written, taken>>

Chars == {Text[k] : k \in DOMAIN Text}
Special == {"#", "-", ".", "d", "p", "x", "s"} \cup DOMAIN DigitValue

PlainChar ==
  /\ Reads(Chars \ {"%"}, FALSE)
  /\ Push(<<Text[at]>>)
  /\ UNCHANGED <<pr, taken>>

Percent ==
  /\ Reads({"%"}, FALSE)
  /\ pr' = BeginFmt
  /\ UNCHANGED <<buf, sent, written, taken>>

Hash == Option({"#"}) /\ pr' = [pr EXCEPT !.enable_base_prefix = TRUE]
Minus == Option({"-"}) /\ pr' = [pr EXCEPT !.right_pad = TRUE]
Dot == Option({"."}) /\ pr' = [pr EXCEPT !.precision = 0, !.in_precision = TRUE]

(* A zero in front of the field width is a flag. *)
Digit ==
  LET d == DigitValue[Text[at]]
  IN /\ Option(DOMAIN DigitValue)
     /\ pr' = IF pr.in_precision THEN [pr EXCEPT !.precision = Wrap(Wrap(@ * 10) + d)]
              ELSE IF pr.field_width = 0 /\ d = 0 THEN [pr EXCEPT !.zero_pad = TRUE]
              ELSE [pr EXCEPT !.field_width = Wrap(Wrap(@ * 10) + d)]

(* Faulty variant: the formatter stays in the directive. *)
ConvertStaysInside(w, field) == Push(field) /\ taken' = Append(taken, w) /\ pr' = pr

(* A conversion fetches its argument, prints the field and leaves the       *)
(* directive.                                                               *)
Convert(w, field) ==
  /\ Push(field)
  /\ taken' = Append(taken, w)
  /\ pr' = [pr EXCEPT !.in_fmt = FALSE]

Decimal(w) == Reads({"d"}, TRUE) /\ Convert(w, DoInt(w, 10))
Hexadecimal(w) == Reads({"x"}, TRUE) /\ Convert(w, DoInt(w, 16))
String(address) == Reads({"s"}, TRUE) /\ Convert(address, DoPrint(<<>>, <<>>, StringAt[address]))

NullName == <<"(", "n", "u", "l", "l", ")">>
Pointer(w) ==
  /\ Reads({"p"}, TRUE)
  /\ Convert(w, IF w = 0 THEN DoPrint(<<>>, <<>>, NullName)
                ELSE DoPrint(<<>>, <<"0", "x">>, Digits(w, 16)))

(* Any other character is printed, and in_fmt stays set. *)
Other ==
  /\ Reads(Chars \ Special, TRUE)
  /\ Push(<<Text[at]>>)
  /\ UNCHANGED <<pr, taken>>

(* The end of generic_printf. *)
Return ==
  /\ at = Len(Text) + 1 /\ ~done
  /\ Output(Flush(Buffered))
  /\ done' = TRUE
  /\ UNCHANGED <<format, at, pr, taken>>

Next ==
  \/ PlainChar \/ Percent
  \/ Hash \/ Minus \/ Dot \/ Digit
  \/ \E w \in Words : Decimal(w) \/ Hexadecimal(w) \/ Pointer(w)
  \/ \E address \in DOMAIN StringAt : String(address)
  \/ Other
  \/ Return

Spec == Init /\ [][Next]_vars

-----------------------------------------------------------------------------
(***************************************************************************)
(* What a directive of ISO C prints                                        *)
(***************************************************************************)
Takes(item) == item.kind = "directive" /\ item.conv # "%"
(* The position of item k's argument. *)
Argument(k) == Cardinality({j \in 1 .. k : Takes(format[j])})

Number(digits) ==
  LET n[k \in 0 .. Len(digits)] ==
        IF k = 0 THEN 0 ELSE 10 * n[k - 1] + DigitValue[digits[k]]
  IN n[Len(digits)]
HasPrecision(item) == item.precision # <<>>
PrecisionOf(item) == Number(Tail(item.precision))
Flag(item, c) == c \in ToSet(item.flags)

(* The items that C gives a meaning to: a width does not begin with the     *)
(* flag "0", and a size_t holds the widths and precisions.                  *)
Defined(item) ==
  IF item.kind = "text" THEN item.text # <<>> /\ "%" \notin ToSet(item.text)
  ELSE
    /\ item.width # <<>> => item.width[1] # "0"
    /\ HasPrecision(item) => item.precision[1] = "." /\ "." \notin ToSet(Tail(item.precision))
    /\ Number(item.width) \in Word /\ (HasPrecision(item) => PrecisionOf(item) \in Word)
    /\ Flag(item, "#") => item.conv = "x"
    /\ Flag(item, "0") => item.conv \in {"d", "x"}
    /\ HasPrecision(item) => item.conv \in {"d", "x", "s"}
    /\ item.conv = "%" => item.flags = <<>> /\ item.width = <<>>
DefinedFormats == \A f \in Formats : \A k \in DOMAIN f : Defined(f[k])
AtLeast(digits, n) == Repeat("0", IF Len(digits) < n THEN n - Len(digits) ELSE 0) \o digits
Integer(item, n, base) ==
  AtLeast(Digits(n, base), IF HasPrecision(item) THEN PrecisionOf(item) ELSE 1)

(* The sign or prefix of a field, and what follows it. *)
Prefix(item, w) ==
  IF item.conv = "d" /\ Signed(w) < 0 THEN <<"-">>
  ELSE IF w # 0 /\ (item.conv = "p" \/ Flag(item, "#")) THEN <<"0", "x">>
  ELSE <<>>
Content(item, w) ==
  CASE item.conv = "d" -> Integer(item, IF Signed(w) < 0 THEN -Signed(w) ELSE w, 10)
    [] item.conv = "x" -> Integer(item, w, 16)
    [] item.conv = "p" -> IF w = 0 THEN NullName ELSE Digits(w, 16)
    [] item.conv = "s" -> IF HasPrecision(item) /\ PrecisionOf(item) < Len(StringAt[w])
                          THEN SubSeq(StringAt[w], 1, PrecisionOf(item)) ELSE StringAt[w]
Body(item, w) == Prefix(item, w) \o Content(item, w)
Padding(item, w) == IF Len(Body(item, w)) < Number(item.width)
                    THEN Number(item.width) - Len(Body(item, w)) ELSE 0
Field(item, w) ==
  IF Flag(item, "-") THEN Body(item, w) \o Repeat(" ", Padding(item, w))
  ELSE IF Flag(item, "0") /\ ~HasPrecision(item)
  THEN Prefix(item, w) \o Repeat("0", Padding(item, w)) \o Content(item, w)
  ELSE Repeat(" ", Padding(item, w)) \o Body(item, w)

Printed(k) ==
  IF format[k].kind = "text" THEN format[k].text
  ELSE IF format[k].conv = "%" THEN <<"%">> ELSE Field(format[k], taken[Argument(k)])
ISO == FlattenSeq([k \in DOMAIN format |-> Printed(k)])

(* Where generic_printf does the same: a field with "-" has a width that    *)
(* its contents fit in; zeros fill up a number that has no sign, no prefix  *)
(* and no precision; "x" is for numbers that are not negative, "#x" for     *)
(* positive ones; a string is as long as the precision, or not empty; and   *)
(* after "%%" there is nothing that could belong to a directive.            *)
Fits(item, w) == Len(Body(item, w)) <= Number(item.width)
NumberAgrees(item, w) ==
  /\ item.conv = "x" => Signed(w) >= 0 /\ (Flag(item, "#") => w > 0)
  /\ (Flag(item, "0") /\ ~Flag(item, "-") /\ Padding(item, w) > 0) =>
       ~HasPrecision(item) /\ Prefix(item, w) = <<>>
StringAgrees(item, w) ==
  IF HasPrecision(item) THEN Len(StringAt[w]) = PrecisionOf(item) ELSE StringAt[w] # <<>>
DirectiveAgrees(item, w) ==
  /\ Flag(item, "-") => Fits(item, w)
  /\ item.conv \in {"d", "x"} => NumberAgrees(item, w)
  /\ item.conv = "s" => StringAgrees(item, w)
Agrees(k) ==
  format[k].kind = "directive" =>
    IF format[k].conv = "%"
    THEN ToSet(Spell(SubSeq(format, k + 1, Len(format)))) \cap (Special \cup {"%"}) = {}
    ELSE DirectiveAgrees(format[k], taken[Argument(k)])

-----------------------------------------------------------------------------
(***************************************************************************)
(* Properties                                                              *)
(***************************************************************************)
(* The type invariant: the buffer always has room for one character and its *)
(* terminator (printf.c:44-63).                                             *)
TypeOK ==
  /\ format \in Formats /\ at \in Nat
  /\ pr \in [in_fmt : BOOLEAN, enable_base_prefix : BOOLEAN, field_width : Word,
             precision : Word, in_precision : BOOLEAN, zero_pad : BOOLEAN, right_pad : BOOLEAN]
  /\ Len(buf) + 1 < BufSize
  /\ written \in Word
  /\ taken \in Seq(Word)
  /\ done \in BOOLEAN

(* generic_printf prints what ISO C says of a format, and returns its       *)
(* length, if each directive of it is one that Agrees with the standard and *)
(* a size_t can count what is printed: the options of one directive do not  *)
(* reach into the next, the padding ends, and the buffer loses and repeats  *)
(* nothing (printf.c:65-118, 168-288).                                      *)
AgreesWithC ==
  (done /\ \A k \in DOMAIN format : Agrees(k)) /\ Len(ISO) \in Word =>
    sent = ISO /\ written = Len(sent)

(* Agrees names every deviation from the standard: a format with any other  *)
(* directive comes out wrong (printf.c:96-98, 110-115, 133-138, 159-165).   *)
(* Formats of other strings may come out right by chance: two blanks of     *)
(* which C cuts off one, and then adds one for the width.                   *)
DiffersOtherwise ==
  done /\ sent = ISO => \A k \in DOMAIN format : Agrees(k)

(* "treat it as essentially '%%' -- i.e. we just print it as a plain        *)
(* character" (printf.c:280): a format fetches no more arguments than it    *)
(* has directives that take one.                                            *)
FetchesWhatIsPassed == Len(taken) <= Argument(Len(format))

(* It does fetch no more, if nothing that could belong to a directive       *)
(* follows a "%%": a directive with the conversion d, x, p or s ends there, *)
(* whatever letters follow (printf.c:116-117, 258-285).                     *)
OnlyPercentFetchesMore ==
  (\A k \in DOMAIN format : format[k].kind = "directive" /\ format[k].conv = "%" => Agrees(k))
    => FetchesWhatIsPassed
=============================================================================
