----------------------------- MODULE PrintfUtil -----------------------------
(***************************************************************************)
(* Apps/utils/printf_util.c and usbLog.c: _vsnprintf formats into the      *)
(* stack buffer of USB_CDC_printf, one item of the format after the other, *)
(* and USB_CDC_printf transmits the text if it fits.                       *)
(*                                                                         *)
(* A character is itself.  Numbers are built from their last digit in an   *)
(* array of fixed size, which is reversed on output: as a text, that is    *)
(* its end of at most that size.  A double is taken for the fraction       *)
(* <<num, den>> that the code computes with (0.95 * 10 is 9.5 in a double, *)
(* so 0.95 is <<19, 20>>).  %e and %g are left out.                        *)
(***************************************************************************)
EXTENDS Integers, Sequences, SequencesExt

CONSTANTS NtoaSize,     \* PRINTF_NTOA_BUFFER_SIZE
          FtoaSize,     \* PRINTF_FTOA_BUFFER_SIZE
          FtoaTop,      \* the length of pow10 without its first entry
          FtoaDefault,  \* PRINTF_DEFAULT_FLOAT_PRECISION
          CharBits, ShortBits, IntBits, \* widths; long is an int
          BufferSize,   \* BUFFER_SIZE
          Ints, Doubles, Strings, \* arguments
          Widths, Precisions,     \* of the format; None: no precision
          MaxItems      \* bound: items of a format, one specification at most

None == -1

ASSUME FormatAssumption ==
  /\ {NtoaSize, FtoaSize, CharBits, ShortBits, IntBits, BufferSize}
       \subseteq Nat \ {0}
  /\ FtoaTop \in 1 .. 9 /\ FtoaDefault \in 0 .. FtoaTop /\ MaxItems \in Nat
  /\ Widths \subseteq Int /\ Precisions \subseteq Int
  /\ Ints \subseteq Int /\ Doubles \subseteq Int \X Nat
  /\ Strings \subseteq Seq(STRING)

NUL == "NUL"
Junk == "junk"  \* what the stack held
Places == 0 .. BufferSize - 1

VARIABLES items,   \* history: the items formatted
          buffer,  \* the stack buffer
          idx,     \* characters produced
          fpc,     \* "format", "terminated", "sent", "refused"
          sent     \* what R_USB_Write is given

formatVars == <<items, buffer, idx, fpc, sent>>

-----------------------------------------------------------------------------
Larger(a, b) == IF a >= b THEN a ELSE b
Smaller(a, b) == IF a <= b THEN a ELSE b
Rep(c, n) == [k \in 1 .. Larger(n, 0) |-> c]
End(text, n) == SubSeq(text, Len(text) - Smaller(n, Len(text)) + 1, Len(text))

(* The digits of a number, from the last one on.                           *)
DigitChars == <<"0", "1", "2", "3", "4", "5", "6", "7", "8", "9",
                "a", "b", "c", "d", "e", "f">>
UpperChars == SubSeq(DigitChars, 1, 10) \o <<"A", "B", "C", "D", "E", "F">>
Digits(v, base, chars) ==
  LET digits[u \in 0 .. v] == IF u < base THEN <<chars[u + 1]>>
                              ELSE Append(digits[u \div base],
                                          chars[(u % base) + 1])
  IN digits[v]

(* _out_rev: a number whose zeros are in its array already is not padded   *)
(* in front.                                                               *)
out_rev(text, width, flags) ==
  LET pad == Rep(" ", width - Len(text))
  IN IF "LEFT" \in flags THEN text \o pad
     ELSE IF "ZEROPAD" \in flags THEN text ELSE pad \o text

Sign(negative, flags) == IF negative THEN <<"-">>
                         ELSE IF "PLUS" \in flags THEN <<"+">>
                         ELSE IF "SPACE" \in flags THEN <<" ">> ELSE << >>

(* The width, less a column for the sign, that zeros are to fill.          *)
ZeroWidth(negative, width, flags) ==
  IF /\ width > 0 /\ "ZEROPAD" \in flags /\ "LEFT" \notin flags
     /\ Sign(negative, flags) # << >>
  THEN width - 1 ELSE width

(* "handle hash" of _ntoa_format: zeros that reach the width give way to   *)
(* the prefix (so do digits that reach it).                                *)
Hashed(text, base, width, flags) ==
  LET strip == IF "PRECISION" \in flags \/ Len(text) # width THEN 0
               ELSE Smaller(Len(text), IF base = 16 THEN 2 ELSE 1)
      letter == IF base = 2 THEN <<"b">> ELSE IF base # 16 THEN << >>
                ELSE IF "UPPERCASE" \in flags THEN <<"X">> ELSE <<"x">>
      rest == SubSeq(text, strip + 1, Len(text))
  IN End(<<"0">> \o letter \o rest, NtoaSize)

M_ntoa_format_SignLast(digits, negative, base, prec, width, flags) ==
  LET w == ZeroWidth(negative, width, flags)
      most == IF "LEFT" \in flags THEN 0
              ELSE Larger(prec, IF "ZEROPAD" \in flags THEN w + 1 ELSE 0)
      zeros == Rep("0", Smaller(most, NtoaSize) - Len(digits)) \o digits
      text == IF "HASH" \in flags THEN Hashed(zeros, base, w, flags)
              ELSE zeros
  IN out_rev(End(Sign(negative, flags) \o text, NtoaSize), w, flags)

(* _ntoa_format.                                                           *)
ntoa_format(digits, negative, base, prec, width, flags) ==
  LET w == ZeroWidth(negative, width, flags)
      most == IF "LEFT" \in flags THEN 0
              ELSE Larger(prec, IF "ZEROPAD" \in flags THEN w ELSE 0)
      zeros == Rep("0", Smaller(most, NtoaSize) - Len(digits)) \o digits
      text == IF "HASH" \in flags THEN Hashed(zeros, base, w, flags)
              ELSE zeros
  IN out_rev(End(Sign(negative, flags) \o text, NtoaSize), w, flags)

(* _ntoa_long and _ntoa_long_long.                                         *)
ntoa(v, negative, base, prec, width, flags) ==
  LET chars == IF "UPPERCASE" \in flags THEN UpperChars ELSE DigitChars
      digits == IF "PRECISION" \in flags /\ v = 0 THEN << >>
                ELSE End(Digits(v, base, chars), NtoaSize)
  IN ntoa_format(digits, negative, base, prec, width,
                 IF v = 0 THEN flags \ {"HASH"} ELSE flags)

(* The rounding of _ftoa: the whole part and the decimals of num / den.    *)
Odd(n) == n % 2 = 1

M_Rounded_NoRollover(num, den, prec) ==
  LET whole == num \div den
      tmp == (num % den) * 10 ^ prec
      frac == tmp \div den
      diff == 2 * (tmp % den)
      up == diff > den \/ (diff = den /\ (frac = 0 \/ Odd(frac)))
  IN [whole |-> IF prec = 0 /\ 2 * (num - whole * den) >= den /\ Odd(whole)
                THEN whole + 1 ELSE whole,
      frac |-> IF up THEN frac + 1 ELSE frac]

Rounded(num, den, prec) ==
  LET tmp == (num % den) * 10 ^ prec
      frac == tmp \div den
      diff == 2 * (tmp % den)
      rollover == diff > den /\ frac + 1 >= 10 ^ prec
      up == diff > den \/ (diff = den /\ (frac = 0 \/ Odd(frac)))
      whole == (num \div den) + (IF rollover THEN 1 ELSE 0)
  IN [whole |-> IF prec = 0 /\ 2 * (num - whole * den) >= den /\ Odd(whole)
                THEN whole + 1 ELSE whole,
      frac |-> IF rollover THEN 0 ELSE IF up THEN frac + 1 ELSE frac]

(* _ftoa.  The count of the decimals still to come is unsigned: one digit  *)
(* too many and it never gets to zero.                                     *)
ftoa(value, precision, width, flags) ==
  LET num == IF value[1] < 0 THEN -value[1] ELSE value[1]
      negative == value[1] < 0
      asked == IF precision = None THEN FtoaDefault ELSE precision
      prec == Smaller(asked, FtoaTop)
      r == Rounded(num, value[2], prec)
      frac == Digits(r.frac, 10, DigitChars)
      zeros == IF Len(frac) > prec THEN FtoaSize ELSE prec - Len(frac)
      decimals == IF prec = 0 THEN << >>
                  ELSE <<".">> \o Rep("0", zeros) \o frac
      number == End(Digits(r.whole, 10, DigitChars) \o decimals
                      \o Rep("0", asked - prec), FtoaSize)
      w == ZeroWidth(negative, width, flags)
      padded == IF "ZEROPAD" \in flags /\ "LEFT" \notin flags
                THEN Rep("0", Smaller(w, FtoaSize) - Len(number)) \o number
                ELSE number
  IN out_rev(End(Sign(negative, flags) \o padded, FtoaSize), w, flags)

(* Values that are no number, and the infinite ones: 0 / 0, 1 / 0, -1 / 0. *)
ftoaSpecial(value, width, flags) ==
  LET inf == <<"i", "n", "f">>
  IN out_rev(CASE value[1] = 0 -> <<"n", "a", "n">>
               [] value[1] < 0 -> <<"-">> \o inf
               [] value[1] > 0 -> (IF "PLUS" \in flags THEN <<"+">>
                                   ELSE << >>) \o inf,
             width, flags)

-----------------------------------------------------------------------------
(* The items of a format: a literal character, or a specification with its *)
(* argument.  A width below 0 stands for '*' with that argument; so does a *)
(* precision below None.                                                   *)
AllFlags == {"ZEROPAD", "LEFT", "PLUS", "SPACE", "HASH"}
Signed == {"d"}                   \* and "i"
Unsigned == {"u", "x", "X", "o", "b"}
IntegerSpecs == [kind: Signed \cup Unsigned, flags: SUBSET AllFlags,
                 width: Widths, precision: Precisions,
                 length: {"", "h", "hh", "ll"}, arg: Ints]
FloatSpecs == [kind: {"f"}, flags: SUBSET (AllFlags \ {"HASH"}),
               width: Widths, precision: Precisions, arg: Doubles]
TextSpecs == {s \in [kind: {"c", "s"}, flags: SUBSET {"LEFT", "ZEROPAD"},
                     width: Widths, precision: Precisions, arg: Strings] :
                s.kind = "c" => s.arg # << >>} \* %c takes the first character
PointerSpecs == [kind: {"p"}, flags: SUBSET AllFlags, arg: Ints]
Plain == [kind: {"char"}, arg: {"z"}]  \* "%%" is a character, too

(* "evaluate flags", "evaluate width field", "evaluate precision field".   *)
Flags(s) == s.flags \cup (IF s.width < 0 THEN {"LEFT"} ELSE {})
                    \cup (IF s.precision # None THEN {"PRECISION"} ELSE {})
Width(s) == IF s.width < 0 THEN -s.width ELSE s.width
Precision(s) == Larger(s.precision, 0)

(* The argument as the length field has it read; char has no sign here.    *)
Wrapped(v, bits) == ((v + 2 ^ (bits - 1)) % 2 ^ bits) - 2 ^ (bits - 1)
Value(s) == LET bits == CASE s.length = "hh" -> CharBits
                          [] s.length = "h" -> ShortBits
                          [] s.length = "" -> IntBits
                          [] s.length = "ll" -> 2 * IntBits
            IN IF s.kind \in Signed /\ s.length # "hh"
               THEN Wrapped(s.arg, bits) ELSE s.arg % 2 ^ bits

Base(kind) == CASE kind \in {"x", "X"} -> 16 [] kind = "o" -> 8
                [] kind = "b" -> 2 [] OTHER -> 10

(* %d, %i, %u, %x, %X, %o and %b.                                          *)
IntegerText(s) ==
  LET v == Value(s)
      none == (IF Base(s.kind) = 10 THEN {"HASH"} ELSE {})
              \cup (IF s.kind \in Unsigned THEN {"PLUS", "SPACE"} ELSE {})
              \cup (IF s.precision # None THEN {"ZEROPAD"} ELSE {})
      flags == (Flags(s) \ none)
               \cup (IF s.kind = "X" THEN {"UPPERCASE"} ELSE {})
  IN ntoa(IF v < 0 THEN -v ELSE v, v < 0, Base(s.kind), Precision(s),
          Width(s), flags)

FloatText(s) == IF s.arg[2] = 0
                THEN ftoaSpecial(s.arg, Width(s), Flags(s))
                ELSE ftoa(s.arg, IF s.precision = None THEN None
                                 ELSE Precision(s), Width(s), Flags(s))

(* %c and %s.                                                              *)
TextText(s) ==
  LET shown == IF s.kind = "c" THEN SubSeq(s.arg, 1, 1)
               ELSE IF s.precision = None THEN s.arg
               ELSE SubSeq(s.arg, 1, Smaller(Precision(s), Len(s.arg)))
      pad == Rep(" ", Width(s) - Len(shown))
  IN IF "LEFT" \in Flags(s) THEN shown \o pad ELSE pad \o shown

(* %p: two digits a byte, whatever width the format gives.                 *)
PointerText(s) == ntoa(s.arg % 2 ^ IntBits, FALSE, 16, 0,
                       IntBits \div 4, s.flags \cup {"ZEROPAD", "UPPERCASE"})

TextOf(s) == CASE s.kind \in Signed \cup Unsigned -> IntegerText(s)
               [] s.kind = "f" -> FloatText(s)
               [] s.kind \in {"c", "s"} -> TextText(s)
               [] s.kind = "p" -> PointerText(s)
               [] s.kind = "char" -> <<s.arg>>

-----------------------------------------------------------------------------
InitFormat == /\ items = << >> /\ idx = 0 /\ fpc = "format"
              /\ buffer = [n \in Places |-> Junk] /\ sent = << >>

(* _out_buffer, once for each character.                                   *)
Out(text) == /\ buffer' = [n \in Places |->
                  IF n \in idx .. idx + Len(text) - 1
                  THEN text[n - idx + 1] ELSE buffer[n]]
             /\ idx' = idx + Len(text)

(* One item: a pass of the loop of _vsnprintf.                             *)
Format(s) == /\ fpc = "format" /\ Len(items) < MaxItems
             /\ items' = Append(items, s) /\ Out(TextOf(s))
             /\ UNCHANGED <<fpc, sent>>

FormatSpec == /\ \A k \in DOMAIN items : items[k].kind = "char"
              /\ \/ \E s \in IntegerSpecs : Format(s)
                 \/ \E s \in FloatSpecs : Format(s)
                 \/ \E s \in PointerSpecs : Format(s)
                 \/ \E s \in TextSpecs : Format(s)
FormatChar == \E s \in Plain : Format(s)

(* The terminator: behind the text, or on the last place of the buffer.    *)
M_Terminate_AtIdx == /\ fpc = "format" /\ fpc' = "terminated"
                     /\ buffer' = [n \in Places |->
                          IF n = idx THEN NUL ELSE buffer[n]]
                     /\ UNCHANGED <<items, idx, sent>>

Terminate == /\ fpc = "format" /\ fpc' = "terminated"
             /\ buffer' = [buffer EXCEPT
                  ![Smaller(idx, BufferSize - 1)] = NUL]
             /\ UNCHANGED <<items, idx, sent>>

M_USB_CDC_printf_UpToSize ==
  /\ fpc = "terminated"
  /\ \/ idx > BufferSize /\ fpc' = "refused" /\ UNCHANGED sent
     \/ /\ idx <= BufferSize /\ fpc' = "sent"
        /\ sent' = [n \in 1 .. idx |-> buffer[n - 1]]
  /\ UNCHANGED <<items, buffer, idx>>

(* USB_CDC_printf: a text that does not fit is not transmitted.            *)
USB_CDC_printf ==
  /\ fpc = "terminated"
  /\ \/ idx >= BufferSize /\ fpc' = "refused" /\ UNCHANGED sent
     \/ /\ idx < BufferSize /\ fpc' = "sent"
        /\ sent' = [n \in 1 .. idx |-> buffer[n - 1]]
  /\ UNCHANGED <<items, buffer, idx>>

Return == /\ fpc \in {"sent", "refused"}
          /\ items' = << >> /\ idx' = 0 /\ fpc' = "format"
          /\ buffer' = [n \in Places |-> Junk] /\ sent' = << >>

NextFormat == \/ FormatSpec \/ FormatChar
              \/ Terminate \/ USB_CDC_printf \/ Return

-----------------------------------------------------------------------------
(* What ISO C says of a conversion of an integer: digits up to the         *)
(* precision, behind a prefix and a sign, in a field that is filled with   *)
(* zeros behind the sign or with spaces on either side.                    *)
Number(s) ==
  LET v == Value(s)
  IN Digits(IF v < 0 THEN -v ELSE v, Base(s.kind),
            IF s.kind = "X" THEN UpperChars ELSE DigitChars)
CText(s) ==
  LET v == Value(s)
      sign == IF s.kind \in Signed THEN Sign(v < 0, s.flags) ELSE << >>
      prefix == IF "HASH" \notin s.flags \/ v = 0 THEN << >>
                ELSE CASE s.kind \in {"x", "X"} -> <<"0", s.kind>>
                       [] s.kind = "o" -> <<"0">> [] OTHER -> << >>
      digits == IF v = 0 /\ s.precision = 0 THEN << >> ELSE Number(s)
      least == IF s.precision = None /\ "ZEROPAD" \in s.flags
                 /\ "LEFT" \notin Flags(s)
               THEN Width(s) - Len(sign) - Len(prefix) ELSE s.precision
      text == sign \o prefix \o Rep("0", least - Len(digits)) \o digits
      pad == Rep(" ", Width(s) - Len(text))
  IN IF "LEFT" \in Flags(s) THEN text \o pad ELSE pad \o text

(* Where this printf is meant to do as C does.  It does not: with '-' and  *)
(* a precision, which is then ignored; with %hhd, as char has no sign;     *)
(* with '#' when digits, not zeros, reach the width, which are cut off;    *)
(* with '#' and a precision of octals; with a negative precision; when     *)
(* the text without its spaces is longer than NtoaSize.                    *)
AsC(s) ==
  LET v == Value(s)
      digits == Number(s)
      prefix == CASE s.kind \in {"x", "X"} -> 2 [] s.kind = "o" -> 1
                  [] OTHER -> 0
      hash == "HASH" \in s.flags /\ prefix > 0 /\ v # 0
      zeros == "ZEROPAD" \in s.flags /\ "LEFT" \notin Flags(s)
  IN /\ s.precision >= None /\ ~(s.kind = "b" /\ "HASH" \in s.flags)
     /\ ~("LEFT" \in Flags(s) /\ s.precision # None)
     /\ ~(s.kind \in Signed /\ s.length = "hh")
     /\ Larger(Len(digits), s.precision) + 3 <= NtoaSize
     /\ zeros => Width(s) <= NtoaSize
     /\ hash => IF s.precision # None THEN s.kind # "o"
                ELSE IF zeros THEN Width(s) \notin Len(digits) ..
                                                   Len(digits) + prefix - 1
                ELSE Width(s) # Len(digits)

(* An integer is printed as ISO C has it, whatever flags, width and        *)
(* precision are combined, where AsC says so.                              *)
IntegersAsC ==
  \A k \in DOMAIN items :
    items[k].kind \in Signed \cup Unsigned /\ AsC(items[k])
      => TextOf(items[k]) = CText(items[k])

(* A number of n units of the last of prec decimals.                       *)
FloatShown(negative, n, prec, flags) ==
  LET point == IF prec = 0 THEN << >> ELSE <<".">>
      part == IF prec = 0 THEN << >>
              ELSE Digits(n % 10 ^ prec, 10, DigitChars)
  IN Sign(negative, flags)
       \o Digits(n \div 10 ^ prec, 10, DigitChars) \o point
       \o Rep("0", prec - Len(part)) \o part

Nearest(s) ==
  LET prec == IF s.precision = None THEN FtoaDefault ELSE Precision(s)
      num == IF s.arg[1] < 0 THEN -s.arg[1] ELSE s.arg[1]
      den == s.arg[2]
      scaled == num * 10 ^ prec
      near == {n \in (scaled \div den) .. (scaled \div den) + 1 :
                2 * (n * den - scaled) \in -den .. den}
      shown(n) == FloatShown(s.arg[1] < 0, n, prec, s.flags)
      fits == \A n \in near : Len(shown(n)) <= FtoaSize
      carried == /\ 2 * (scaled % den) = den
                 /\ (scaled \div den) % 10 ^ prec = 10 ^ prec - 1
  IN s.width = 0 /\ prec <= FtoaTop /\ fits /\ (carried => prec = 0)
     => \E n \in near : TextOf(s) = shown(n)

(* A number below 2^n is printed with the decimals asked for and within    *)
(* half of the last one of its value.  Not so when half a unit is carried  *)
(* out of decimals that are all nines (printf_util.c:398 does not look for *)
(* the rollover that line 391 handles), nor beyond FtoaSize characters.    *)
FloatsNearest ==
  \A k \in DOMAIN items :
    items[k].kind = "f" /\ items[k].arg[2] # 0 => Nearest(items[k])

(* "A value equal or larger than count indicates truncation"               *)
(* (printf_util.h:82): the buffer holds the text, or the head of it, with  *)
(* a terminator, no place behind it is touched, and the value returned is  *)
(* the length of the whole text; by which USB_CDC_printf transmits a text  *)
(* whole or not at all: never its head, nor what the stack held.           *)
Whole == FlattenSeq([k \in DOMAIN items |-> TextOf(items[k])])
TextOrItsHead ==
  fpc # "format" =>
    LET len == Smaller(Len(Whole), BufferSize - 1)
    IN /\ idx = Len(Whole)
       /\ \A n \in Places : buffer[n] = IF n < len THEN Whole[n + 1]
                                        ELSE IF n = len THEN NUL ELSE Junk
       /\ fpc = "sent" => sent = Whole
=============================================================================
