----------------------------- MODULE RttPrintf ------------------------------
(***************************************************************************)
(* LowLevel/SEGGER_RTT/SEGGER_RTT_printf.c: the log texts of the tasks.    *)
(* The first part says what text a conversion yields, where it can be      *)
(* compared with what USB_CDC_printf yields for it.  The second is how a   *)
(* text gets to the up-buffer: in chunks of SEGGER_RTT_PRINTF_BUFFER_SIZE, *)
(* each by a SEGGER_RTT_Write of its own, between which other tasks print. *)
(* There a character is <<call, its place in the text>>.                   *)
(***************************************************************************)
EXTENDS PrintfUtil, FiniteSets

CONSTANTS Printers,  \* the tasks that print
          ChunkSize, \* SEGGER_RTT_PRINTF_BUFFER_SIZE
          Capacity,  \* what the up-buffer holds
          Lengths,   \* bound: lengths of texts
          MaxPrints  \* bound: calls

ASSUME ChunkAssumption == /\ ChunkSize \in Nat \ {0} /\ Capacity \in Nat \ {0}
                          /\ Lengths \subseteq Nat /\ MaxPrints \in Nat

-----------------------------------------------------------------------------
(* _PrintUnsigned.  Digit, the weight of the first digit, is a word and    *)
(* wraps; the core's division by zero gives zero.                          *)
Quotient(a, b) == IF b = 0 THEN 0 ELSE a \div b
Remainder(a, b) == IF b = 0 THEN a ELSE a % b

DigitOf(v, base, numDigits) ==
  LET last == Larger(numDigits, IntBits)
      digit[k \in 0 .. last] ==
        IF k = 0 THEN 1 ELSE (digit[k - 1] * base) % 2 ^ IntBits
      enough(k) == k + 1 >= numDigits /\ Quotient(v, digit[k]) < base
  IN digit[CHOOSE k \in 0 .. last :
             enough(k) /\ \A j \in 0 .. k - 1 : ~enough(j)]

(* One digit a round, until its weight is zero: weight and left are Digit  *)
(* and v in round k.                                                       *)
DigitsFrom(v, base, digit) ==
  LET rounds == 1 .. Len(Digits(digit, base, UpperChars))
      weight[k \in rounds] == IF k = 1 THEN digit ELSE weight[k - 1] \div base
      left[k \in rounds] == IF k = 1 THEN v
                            ELSE Remainder(left[k - 1], weight[k - 1])
  IN [k \in rounds |-> UpperChars[Quotient(left[k], weight[k]) + 1]]

WidthOf(v, base, numDigits) == Larger(Len(Digits(v, base, UpperChars)),
                                      numDigits)

PrintUnsigned(v, base, numDigits, width, flags) ==
  LET missing == width - WidthOf(v, base, numDigits)
      zero == "ZEROPAD" \in flags /\ numDigits = 0
      text == DigitsFrom(v, base, DigitOf(v, base, numDigits))
  IN IF "LEFT" \in flags THEN text \o Rep(" ", missing)
     ELSE Rep(IF zero THEN "0" ELSE " ", missing) \o text

M_PrintInt_SignBeforeSpaces(v, base, numDigits, width, flags) ==
  LET sign == Sign(v < 0, flags \cap {"PLUS"})
      field == IF width > 0 THEN width - Len(sign) ELSE 0
      number == IF v < 0 THEN -v ELSE v
  IN sign \o PrintUnsigned(number, base, numDigits, field, flags)

(* _PrintInt.  The absolute value of the smallest int is negative, and     *)
(* takes one column.                                                       *)
PrintInt(v, base, numDigits, width, flags) ==
  LET sign == Sign(v < 0, flags \cap {"PLUS"})
      field == IF width > 0 THEN width - Len(sign) ELSE 0
      number == IF v < 0 THEN -v ELSE v
      taken == IF v = -(2 ^ (IntBits - 1)) THEN Larger(1, numDigits)
               ELSE WidthOf(number, base, numDigits)
      pad == IF "LEFT" \in flags THEN 0 ELSE Larger(field - taken, 0)
      zero == "ZEROPAD" \in flags /\ numDigits = 0
  IN (IF zero THEN << >> ELSE Rep(" ", pad)) \o sign
       \o (IF zero THEN Rep("0", pad) ELSE << >>)
       \o PrintUnsigned(number, base, numDigits, field - pad, flags)

(* SEGGER_RTT_vprintf's switch: the length is skipped, %s has no width and *)
(* %x is in capitals; what it does not know yields nothing.                *)
RttText(s) ==
  CASE s.kind = "d" -> PrintInt(Wrapped(s.arg, IntBits), 10, Precision(s),
                                s.width, s.flags)
    [] s.kind = "u" -> PrintUnsigned(s.arg % 2 ^ IntBits, 10, Precision(s),
                                     s.width, s.flags)
    [] s.kind \in {"x", "X"} ->
         PrintUnsigned(s.arg % 2 ^ IntBits, 16, Precision(s), s.width,
                       s.flags)
    [] s.kind = "p" -> PrintUnsigned(s.arg % 2 ^ IntBits, 16, IntBits \div 4,
                                     IntBits \div 4, {})
    [] s.kind = "c" -> SubSeq(s.arg, 1, 1)
    [] s.kind = "s" -> s.arg
    [] s.kind = "char" -> <<s.arg>>
    [] OTHER -> << >>

Power(base, n) ==
  LET power[k \in 0 .. n] == IF k = 0 THEN 1 ELSE power[k - 1] * base
  IN power[n]

(* A log text shows an integer as ISO C has it: for the flags, widths and  *)
(* lengths this printf knows, but the smallest int in a field, a precision *)
(* of 0, and a precision whose first digit weighs 2^IntBits or more.       *)
LogsAsC ==
  \A k \in DOMAIN items :
    LET s == items[k]
    IN (/\ s.kind \in {"d", "u", "X"}
        /\ s.flags \subseteq {"LEFT", "ZEROPAD", "PLUS"}
        /\ s.width >= 0 /\ s.length = ""
        /\ Value(s) = -(2 ^ (IntBits - 1)) => s.width = 0
        /\ s.precision = None \/
             (s.precision > 0 /\ Power(Base(s.kind), s.precision - 1)
                                   < 2 ^ IntBits))
       => RttText(s) = CText(s)

-----------------------------------------------------------------------------
VARIABLES mode,    \* of the up-buffer: "skip", "trim" or "block"
          room,    \* what the up-buffer can take now
          stream,  \* history: the characters stored in it
          texts,   \* history: the lengths of the texts, one per call
          call,    \* per task: the call it is in, 0 if none
          taken,   \* per task: characters passed to _StoreChar
          results  \* history: per call, its ReturnValue; None while it runs

rttVars == <<mode, room, stream, texts, call, taken, results>>

Modes == {"skip", "trim", "block"}

InitRtt == /\ mode \in Modes /\ room = Capacity /\ stream = << >>
           /\ texts = << >> /\ results = << >>
           /\ call = [t \in Printers |-> 0]
           /\ taken = [t \in Printers |-> 0]

Running == None - 1

(* SEGGER_RTT_Write of n characters, of which it stores k; in blocking     *)
(* mode it ends when the probe has read enough.                            *)
Write(t, n, k) ==
  /\ k = CASE mode = "skip" -> IF room < n THEN 0 ELSE n
           [] mode = "trim" -> Smaller(room, n)
           [] mode = "block" -> n
  /\ stream' = stream \o [j \in 1 .. k |-> <<call[t], taken[t] + j>>]
  /\ IF mode = "block" THEN room' \in Larger(room - n, 0) .. Capacity
                       ELSE room' = room - k

Call(t, n) == /\ call[t] = 0 /\ Len(texts) < MaxPrints
              /\ texts' = Append(texts, n)
              /\ results' = Append(results, Running)
              /\ call' = [call EXCEPT ![t] = Len(texts) + 1]
              /\ taken' = [taken EXCEPT ![t] = 0]
              /\ UNCHANGED <<mode, room, stream>>

Returns(t, value) == /\ results' = [results EXCEPT ![call[t]] = value]
                     /\ call' = [call EXCEPT ![t] = 0]
                     /\ taken' = [taken EXCEPT ![t] = 0]

Left(t) == texts[call[t]] - taken[t]

M_StoreChunk_GoesOn(t) ==
  /\ call[t] # 0 /\ Left(t) >= ChunkSize
  /\ \E k \in 0 .. ChunkSize : Write(t, ChunkSize, k)
  /\ taken' = [taken EXCEPT ![t] = @ + ChunkSize]
  /\ UNCHANGED <<mode, texts, call, results>>

M_StoreChunk_CharByChar(t) ==
  /\ call[t] # 0 /\ Left(t) > 0
  /\ \E k \in 0 .. 1 :
       /\ Write(t, 1, k)
       /\ \/ k # 1 /\ Returns(t, None)
          \/ /\ k = 1
             /\ taken' = [taken EXCEPT ![t] = @ + 1]
             /\ UNCHANGED <<call, results>>
  /\ UNCHANGED <<mode, texts>>

(* _StoreChar up to a full chunk: refused, or stored in part, it ends the  *)
(* call with -1.                                                           *)
StoreChunk(t) ==
  /\ call[t] # 0 /\ Left(t) >= ChunkSize
  /\ \E k \in 0 .. ChunkSize :
       /\ Write(t, ChunkSize, k)
       /\ \/ k # ChunkSize /\ Returns(t, None)
          \/ /\ k = ChunkSize
             /\ taken' = [taken EXCEPT ![t] = @ + ChunkSize]
             /\ UNCHANGED <<call, results>>
  /\ UNCHANGED <<mode, texts>>

(* The end of the text: the rest of it is written, whatever comes of it,   *)
(* and counted again.                                                      *)
StoreRest(t) ==
  /\ call[t] # 0 /\ Left(t) < ChunkSize
  /\ \E k \in 0 .. ChunkSize : Write(t, Left(t), k)
  /\ Returns(t, texts[call[t]] + Left(t))
  /\ UNCHANGED <<mode, texts>>

ProbeReads == /\ room < Capacity
              /\ room' \in room + 1 .. Capacity
              /\ UNCHANGED <<mode, stream, texts, call, taken, results>>

NextRtt == \/ \E t \in Printers, n \in Lengths : Call(t, n)
           \/ \E t \in Printers : StoreChunk(t) \/ StoreRest(t)
           \/ ProbeReads

-----------------------------------------------------------------------------
(* The places of the characters of call c that got through.                *)
Shown(c) == {k \in DOMAIN stream : stream[k][1] = c}

(* A text that does not get through whole loses its end: in no mode and    *)
(* beside no other task does it show with a hole, twice or out of order.   *)
CutOnlyAtTheEnd ==
  \A c \in DOMAIN texts : \A k \in Shown(c) :
    stream[k][2] = Cardinality(Shown(c) \cap 1 .. k)

(* A text shorter than a chunk is not mixed with the text of another task  *)
(* and, where the buffer does not trim, shows whole or not at all.         *)
ShortTextsWhole ==
  \A c \in DOMAIN texts :
    texts[c] < ChunkSize =>
      /\ \A j, k \in Shown(c) : j - k < Cardinality(Shown(c))
      /\ mode # "trim" => Cardinality(Shown(c)) \in {0, texts[c]}
=============================================================================
