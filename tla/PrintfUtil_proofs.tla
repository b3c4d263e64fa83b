-------------------------- MODULE PrintfUtil_proofs --------------------------
(***************************************************************************)
(* Proofs about USB_CDC_printf and the conversions of printf_util.c, for   *)
(* every width of the types, every size of the arrays and of the buffer,   *)
(* every set of flags, every field width, precision and argument.          *)
(***************************************************************************)
EXTENDS PrintfUtil, Lemmas

(* The characters of the texts: those of the conversions and of the        *)
(* arguments.                                                              *)
Letters == {"0", "1", "2", "3", "4", "5", "6", "7", "8", "9",
            "a", "b", "c", "d", "e", "f", "A", "B", "C", "D", "E", "F",
            "x", "X", "n", "i", "z", " ", "-", "+", "."}
Char == Letters \cup UNION {ToSet(t) : t \in Strings}
Bases == {2, 8, 10, 16}
Charts == [1 .. 16 -> Char]

-----------------------------------------------------------------------------
(* The digits of a number.  What the loop of _ntoa_long does is a function *)
(* that is defined by recursion; it exists for every number.               *)
DigitAt(d, u, base, chars) ==
  IF u < base THEN <<chars[u + 1]>>
  ELSE Append(d[u \div base], chars[(u % base) + 1])
DigitTable(v, base, chars) ==
  CHOOSE d : d = [u \in 0 .. v |-> IF u < base THEN <<chars[u + 1]>>
                                   ELSE Append(d[u \div base],
                                               chars[(u % base) + 1])]
IsDigits(d, v, base, chars) ==
  /\ d \in [0 .. v -> Seq(Char)]
  /\ \A u \in 0 .. v : /\ d[u] = DigitAt(d, u, base, chars)
                       /\ Len(d[u]) >= 1

LEMMA DigitIsPlace ==
  ASSUME NEW base \in Bases, NEW u \in Nat
  PROVE  /\ base \in Nat /\ base >= 2 /\ base <= 16
         /\ u % base \in 0 .. base - 1
         /\ u >= base => u \div base \in 0 .. u - 1
<1>1. CASE base = 2
  BY <1>1
<1>2. CASE base = 8
  BY <1>2
<1>3. CASE base = 10
  BY <1>3
<1>4. CASE base = 16
  BY <1>4
<1> QED
  BY <1>1, <1>2, <1>3, <1>4 DEF Bases

LEMMA DigitsExist ==
  ASSUME NEW base \in Bases, NEW chars \in Charts, NEW v \in Nat
  PROVE  \E d : IsDigits(d, v, base, chars)
<1> DEFINE bad == {n \in Nat : ~ \E d : IsDigits(d, n, base, chars)}
<1>1. SUFFICES ASSUME bad # {} PROVE FALSE
  OBVIOUS
<1>2. PICK x \in bad : \A y \in bad : x <= y
  <2>1. bad \subseteq Nat
    OBVIOUS
  <2> HIDE DEF bad
  <2> QED
    BY <1>1, <2>1, LeastElement
<1>3. x \in Nat
  OBVIOUS
<1> DEFINE Has(d) == d \in [0 .. x - 1 -> Seq(Char)]
                     /\ \A u \in 0 .. x - 1 :
                          d[u] = DigitAt(d, u, base, chars) /\ Len(d[u]) >= 1
<1>4. \E d : Has(d)
  <2>1. CASE x = 0
    <3>1. 0 .. x - 1 = {}
      BY <2>1
    <3>2. Has([u \in 0 .. x - 1 |-> << >>])
      BY <3>1
    <3> QED
      BY <3>2
  <2>2. CASE x # 0
    <3>1. x - 1 \in Nat /\ ~(x <= x - 1)
      BY <1>3, <2>2
    <3>2. x - 1 \notin bad
      <4> HIDE DEF bad
      <4> QED
        BY <1>2, <3>1
    <3> QED
      BY <3>1, <3>2 DEF IsDigits
  <2> QED
    BY <2>1, <2>2
<1>5. PICK f : Has(f)
  BY <1>4
<1> DEFINE last == DigitAt(f, x, base, chars)
           g == [u \in 0 .. x |-> IF u = x THEN last ELSE f[u]]
<1>6. last \in Seq(Char) /\ Len(last) >= 1
  <2>1. CASE x < base
    <3>1. x + 1 \in 1 .. 16
      BY <1>3, <2>1, DigitIsPlace
    <3>2. chars[x + 1] \in Char
      BY <3>1 DEF Charts
    <3> QED
      BY <2>1, <3>2 DEF DigitAt
  <2>2. CASE ~(x < base)
    <3>1. base \in Nat /\ base <= 16 /\ x % base \in 0 .. base - 1
          /\ x \div base \in 0 .. x - 1
      <4>1. base \in Nat /\ base <= 16 /\ x % base \in 0 .. base - 1
            /\ (x >= base => x \div base \in 0 .. x - 1)
        BY <1>3, DigitIsPlace
      <4> QED
        BY <1>3, <2>2, <4>1
    <3>2. chars[(x % base) + 1] \in Char /\ f[x \div base] \in Seq(Char)
      <4>1. (x % base) + 1 \in 1 .. 16
        BY <3>1
      <4> QED
        BY <1>5, <3>1, <4>1 DEF Charts
    <3>3. last = Append(f[x \div base], chars[(x % base) + 1])
      BY <2>2 DEF DigitAt
    <3> HIDE DEF last
    <3>4. \A t \in Seq(Char) : \A c \in Char :
            Append(t, c) \in Seq(Char) /\ Len(Append(t, c)) >= 1
      OBVIOUS
    <3> QED
      BY <3>2, <3>3, <3>4
  <2> QED
    BY <2>1, <2>2
<1>7. \A u \in 0 .. x : u = x \/ (u \in 0 .. x - 1 /\ u # x)
  BY <1>3
<1>8. g \in [0 .. x -> Seq(Char)] /\ \A u \in 0 .. x : Len(g[u]) >= 1
  <2> HIDE DEF last
  <2> QED
    BY <1>5, <1>6, <1>7
<1>9. ASSUME NEW u \in 0 .. x
      PROVE  g[u] = DigitAt(g, u, base, chars)
  <2>1. u \in Nat
    OBVIOUS
  <2>2. u >= base => g[u \div base] = f[u \div base]
    <3>1. ASSUME u >= base
          PROVE  u \div base \in 0 .. x /\ u \div base # x
      BY <1>3, <1>9, <2>1, <3>1, DigitIsPlace
    <3> QED
      BY <3>1
  <2>3. base \in Nat
    BY DigitIsPlace, <2>1
  <2>4. DigitAt(g, u, base, chars) = DigitAt(f, u, base, chars)
    <3> HIDE DEF g
    <3> QED
      BY <2>1, <2>2, <2>3 DEF DigitAt
  <2>5. CASE u = x
    BY <2>4, <2>5
  <2>6. CASE u \in 0 .. x - 1 /\ u # x
    <3>1. g[u] = f[u]
      BY <2>6
    <3> QED
      BY <1>5, <2>4, <2>6, <3>1
  <2> QED
    BY <1>7, <2>5, <2>6
<1>10. IsDigits(g, x, base, chars)
  <2> HIDE DEF g
  <2> QED
    BY <1>8, <1>9 DEF IsDigits
<1> QED
  BY <1>2, <1>10

(* Every number has at least one digit.                                    *)
LEMMA DigitsAreText ==
  ASSUME NEW base \in Bases, NEW chars \in Charts, NEW v \in Nat
  PROVE  /\ Digits(v, base, chars) \in Seq(Char)
         /\ Len(Digits(v, base, chars)) \in Nat \ {0}
<1> DEFINE D == DigitTable(v, base, chars)
<1>1. Digits(v, base, chars) = D[v]
  BY Zenon DEF Digits, DigitTable
<1>2. PICK f : IsDigits(f, v, base, chars)
  BY DigitsExist
<1>3. D = [u \in 0 .. v |-> DigitAt(D, u, base, chars)]
  <2>1. f = [u \in 0 .. v |-> DigitAt(f, u, base, chars)]
    BY <1>2 DEF IsDigits
  <2> QED
    BY <2>1, Zenon DEF DigitTable, DigitAt
<1> HIDE DEF D
<1>4. \A u \in 0 .. v : D[u] = DigitAt(D, u, base, chars)
  BY <1>3
<1> DEFINE bad == {u \in 0 .. v : D[u] # f[u]}
<1>5. bad = {}
  <2>1. SUFFICES ASSUME bad # {} PROVE FALSE
    OBVIOUS
  <2>2. PICK x \in bad : \A y \in bad : x <= y
    <3>1. bad \subseteq Nat
      OBVIOUS
    <3> HIDE DEF bad
    <3> QED
      BY <2>1, <3>1, LeastElement
  <2>3. x \in 0 .. v /\ D[x] # f[x] /\ x \in Nat
    OBVIOUS
  <2>4. base \in Nat
    BY <2>3, DigitIsPlace
  <2>5. x >= base => D[x \div base] = f[x \div base]
    <3>1. SUFFICES ASSUME x >= base PROVE D[x \div base] = f[x \div base]
      OBVIOUS
    <3>2. x \div base \in 0 .. v /\ ~(x <= x \div base)
      BY <2>3, <2>4, <3>1, DigitIsPlace
    <3>3. x \div base \notin bad
      <4> HIDE DEF bad
      <4> QED
        BY <2>2, <3>2
    <3> QED
      BY <3>2, <3>3
  <2>6. DigitAt(D, x, base, chars) = DigitAt(f, x, base, chars)
    BY <2>3, <2>4, <2>5 DEF DigitAt
  <2> QED
    BY <1>2, <1>4, <2>3, <2>6 DEF IsDigits
<1>6. D[v] = f[v] /\ v \in 0 .. v
  BY <1>5
<1>7. f[v] \in Seq(Char) /\ Len(f[v]) >= 1
  BY <1>2, <1>6 DEF IsDigits
<1> QED
  BY <1>1, <1>6, <1>7

(* Zero is one digit, the first one.                                       *)
LEMMA DigitsOfZero ==
  ASSUME NEW base \in Bases, NEW chars \in Charts
  PROVE  Digits(0, base, chars) = <<chars[1]>>
<1> DEFINE D == DigitTable(0, base, chars)
<1>1. Digits(0, base, chars) = D[0]
  BY Zenon DEF Digits, DigitTable
<1>2. PICK f : IsDigits(f, 0, base, chars)
  BY DigitsExist
<1>3. D = [u \in 0 .. 0 |-> DigitAt(D, u, base, chars)]
  <2>1. f = [u \in 0 .. 0 |-> DigitAt(f, u, base, chars)]
    BY <1>2 DEF IsDigits
  <2> QED
    BY <2>1, Zenon DEF DigitTable, DigitAt
<1> HIDE DEF D
<1> QED
  BY <1>1, <1>3, DigitIsPlace DEF DigitAt

(* Two tables of digits agree.                                             *)
AreDigits(d, n, base, chars) ==
  \A u \in 0 .. n : d[u] = DigitAt(d, u, base, chars)

LEMMA DigitTablesAgree ==
  ASSUME NEW base \in Bases, NEW chars, NEW n \in Nat, NEW d, NEW e,
         AreDigits(d, n, base, chars), AreDigits(e, n, base, chars)
  PROVE  \A u \in 0 .. n : d[u] = e[u]
<1> DEFINE bad == {u \in 0 .. n : d[u] # e[u]}
<1>1. SUFFICES ASSUME bad # {} PROVE FALSE
  OBVIOUS
<1>2. PICK x \in bad : \A y \in bad : x <= y
  <2>1. bad \subseteq Nat
    OBVIOUS
  <2> HIDE DEF bad
  <2> QED
    BY <1>1, <2>1, LeastElement
<1>3. x \in 0 .. n /\ x \in Nat /\ d[x] # e[x]
  OBVIOUS
<1>4. base \in Nat
  BY <1>3, DigitIsPlace
<1>5. ASSUME x >= base PROVE d[x \div base] = e[x \div base]
  <2>1. x \div base \in 0 .. n /\ ~(x <= x \div base)
    BY <1>3, <1>4, <1>5, DigitIsPlace
  <2>2. x \div base \notin bad
    <3> HIDE DEF bad
    <3> QED
      BY <1>2, <2>1
  <2> QED
    BY <2>1, <2>2
<1>6. DigitAt(d, x, base, chars) = DigitAt(e, x, base, chars)
  BY <1>3, <1>4, <1>5 DEF DigitAt
<1> QED
  BY <1>3, <1>6 DEF AreDigits

(* The digits of a number are those of what is left of it and one more.    *)
LEMMA DigitsGrow ==
  ASSUME NEW base \in Bases, NEW chars \in Charts, NEW v \in Nat
  PROVE  Digits(v, base, chars) =
           IF v < base THEN <<chars[v + 1]>>
           ELSE Append(Digits(v \div base, base, chars),
                       chars[(v % base) + 1])
<1>1. \A u \in Nat : /\ DigitTable(u, base, chars)[u] = Digits(u, base, chars)
                     /\ IsDigits(DigitTable(u, base, chars), u, base, chars)
  <2> TAKE u \in Nat
  <2> DEFINE D == DigitTable(u, base, chars)
  <2>1. Digits(u, base, chars) = D[u]
    BY Zenon DEF Digits, DigitTable
  <2>2. PICK f : IsDigits(f, u, base, chars)
    BY DigitsExist
  <2>3. D = [w \in 0 .. u |-> DigitAt(D, w, base, chars)]
    <3>1. f = [w \in 0 .. u |-> DigitAt(f, w, base, chars)]
      BY <2>2 DEF IsDigits
    <3> QED
      BY <3>1, Zenon DEF DigitTable, DigitAt
  <2> HIDE DEF D
  <2>4. \A w \in 0 .. u : D[w] = DigitAt(D, w, base, chars)
    BY <2>3
  <2>5. D = f
    <3>1. AreDigits(D, u, base, chars) /\ AreDigits(f, u, base, chars)
      BY <2>2, <2>4 DEF IsDigits, AreDigits
    <3>2. \A w \in 0 .. u : D[w] = f[w]
      BY <3>1, DigitTablesAgree
    <3> QED
      BY <2>2, <2>3, <3>2 DEF IsDigits
  <2> QED
    BY <2>1, <2>2, <2>5 DEF D
<1> DEFINE D == DigitTable(v, base, chars)
           w == v \div base
           E == DigitTable(w, base, chars)
<1>2. D[v] = DigitAt(D, v, base, chars) /\ D[v] = Digits(v, base, chars)
  <2>1. v \in 0 .. v
    OBVIOUS
  <2> QED
    BY <1>1, <2>1 DEF IsDigits
<1>3. ASSUME v >= base
      PROVE  D[w] = Digits(w, base, chars)
  <2>1. w \in Nat /\ w \in 0 .. v - 1
    BY <1>3, DigitIsPlace
  <2>2. E[w] = Digits(w, base, chars)
    BY <1>1, <2>1
  <2>3. IsDigits(E, w, base, chars) /\ IsDigits(D, v, base, chars)
    BY <1>1, <2>1
  <2> HIDE DEF D, E, w
  <2>4. \A u \in 0 .. w : D[u] = E[u]
    <3>1. \A u \in 0 .. w : u \in 0 .. v
      BY <2>1
    <3>2. AreDigits(D, w, base, chars) /\ AreDigits(E, w, base, chars)
      BY <2>3, <3>1 DEF IsDigits, AreDigits
    <3>3. w \in Nat
      BY <2>1
    <3> QED
      BY <3>2, <3>3, DigitTablesAgree
  <2>5. w \in 0 .. w
    BY <2>1
  <2> QED
    BY <2>2, <2>4, <2>5
<1>4. base \in Nat
  BY DigitIsPlace
<1> HIDE DEF D, E
<1>5. DigitAt(D, v, base, chars) =
        IF v < base THEN <<chars[v + 1]>>
        ELSE Append(D[w], chars[(v % base) + 1])
  BY Zenon DEF DigitAt
<1>6. v < base \/ v >= base
  BY <1>4
<1> HIDE DEF w
<1>7. CASE v < base
  BY <1>2, <1>5, <1>7
<1>8. CASE v >= base
  <2>1. ~(v < base)
    BY <1>4, <1>8
  <2> QED
    BY <1>2, <1>3, <1>5, <1>8, <2>1 DEF w
<1> QED
  BY <1>6, <1>7, <1>8

LEMMA ChartsAre ==
  /\ DigitChars \in Charts /\ DigitChars[1] = "0"
  /\ UpperChars \in Charts /\ UpperChars[1] = "0"
<1>0. Letters \subseteq Char
  BY DEF Char
<1>1. /\ DigitChars \in Seq(Letters) /\ Len(DigitChars) = 16
      /\ DigitChars[1] = "0"
  BY DEF DigitChars, Letters
<1>2. /\ SubSeq(DigitChars, 1, 10) \in Seq(Letters)
      /\ Len(SubSeq(DigitChars, 1, 10)) = 10
      /\ SubSeq(DigitChars, 1, 10)[1] = "0"
  <2>1. \A i \in 1 .. 10 : DigitChars[i] \in Letters
    <3>1. \A i \in 1 .. 10 : i \in 1 .. 16
      OBVIOUS
    <3>2. \A i \in 1 .. 16 : DigitChars[i] \in Letters
      BY <1>1, ElementOfSeq
    <3> QED
      BY <3>1, <3>2
  <2>2. /\ SubSeq(DigitChars, 1, 10) \in Seq(Letters)
        /\ Len(SubSeq(DigitChars, 1, 10)) = 10 - 1 + 1
        /\ \A i \in 1 .. 10 - 1 + 1 :
             SubSeq(DigitChars, 1, 10)[i] = DigitChars[1 + i - 1]
    BY <2>1, SubSeqProperties
  <2> QED
    BY <1>1, <2>2
<1> DEFINE letters == <<"A", "B", "C", "D", "E", "F">>
<1>3. letters \in Seq(Letters) /\ Len(letters) = 6
  BY DEF Letters
<1> HIDE DEF letters
<1>4. UpperChars = SubSeq(DigitChars, 1, 10) \o letters
  BY DEF UpperChars, letters
<1>5. /\ UpperChars \in Seq(Letters) /\ Len(UpperChars) = 16
      /\ UpperChars[1] = "0"
  <2> DEFINE ten == SubSeq(DigitChars, 1, 10)
  <2>1. ten \in Seq(Letters) /\ Len(ten) = 10 /\ ten[1] = "0"
    BY <1>2
  <2> HIDE DEF ten
  <2>2. /\ ten \o letters \in Seq(Letters)
        /\ Len(ten \o letters) = Len(ten) + Len(letters)
        /\ \A i \in 1 .. Len(ten) + Len(letters) : (ten \o letters)[i] =
             IF i <= Len(ten) THEN ten[i] ELSE letters[i - Len(ten)]
    BY <1>3, <2>1, ConcatProperties
  <2>3. 1 \in 1 .. Len(ten) + Len(letters) /\ 1 <= Len(ten)
    BY <1>3, <2>1
  <2> QED
    BY <1>3, <1>4, <2>1, <2>2, <2>3 DEF ten
<1>6. ASSUME NEW t \in Seq(Letters), Len(t) = 16
      PROVE  t \in Charts
  <2>1. t \in [1 .. 16 -> Letters]
    BY <1>6, LenProperties
  <2> QED
    BY <1>0, <2>1 DEF Charts
<1> QED
  BY <1>1, <1>5, <1>6

-----------------------------------------------------------------------------
(* The pieces of a text: characters repeated, and the end of a text.       *)
LEMMA RepIs ==
  ASSUME NEW c \in Char, NEW n \in Int
  PROVE  /\ Rep(c, n) \in Seq(Char)
         /\ Len(Rep(c, n)) = IF n >= 0 THEN n ELSE 0
         /\ n <= 0 => Rep(c, n) = << >>
         /\ \A k \in 1 .. n : Rep(c, n)[k] = c
<1> DEFINE m == IF n >= 0 THEN n ELSE 0
<1>1. m \in Nat /\ (n >= 0 => m = n) /\ (n <= 0 => m = 0)
  OBVIOUS
<1>2. Rep(c, n) = [k \in 1 .. m |-> c]
  BY DEF Rep, Larger
<1> HIDE DEF m
<1>3. Rep(c, n) \in Seq(Char) /\ Len(Rep(c, n)) = m
  BY <1>1, <1>2
<1>4. n <= 0 => Rep(c, n) = << >>
  BY <1>1, <1>3
<1>5. \A k \in 1 .. n : Rep(c, n)[k] = c
  BY <1>1, <1>2
<1> QED
  BY <1>3, <1>4, <1>5 DEF m

(* A text keeps its end.                                                   *)
LEMMA EndIs ==
  ASSUME NEW t \in Seq(Char), NEW n \in Nat
  PROVE  End(t, n) \in Seq(Char) /\ (Len(t) <= n => End(t, n) = t)
<1>1. Len(t) \in Nat
  OBVIOUS
<1> DEFINE m == Smaller(n, Len(t))
<1>2. m \in Nat /\ m <= Len(t) /\ (Len(t) <= n => m = Len(t))
  BY <1>1 DEF Smaller
<1> HIDE DEF m
<1>3. End(t, n) = SubSeq(t, Len(t) - m + 1, Len(t))
  BY DEF End, m
<1>4. End(t, n) \in Seq(Char)
  <2>1. Len(t) - m + 1 \in Int /\ Len(t) \in Int
        /\ \A i \in Len(t) - m + 1 .. Len(t) : i \in 1 .. Len(t)
    BY <1>1, <1>2
  <2>2. \A i \in 1 .. Len(t) : t[i] \in Char
    BY ElementOfSeq
  <2> QED
    BY <1>3, <2>1, <2>2, SubSeqProperties
<1>5. ASSUME Len(t) <= n PROVE End(t, n) = t
  <2>1. Len(t) - m + 1 = 1
    BY <1>1, <1>2, <1>5
  <2> QED
    BY <1>3, <2>1, SubSeqFull
<1> QED
  BY <1>4, <1>5

LEMMA Concat ==
  ASSUME NEW s \in Seq(Char), NEW t \in Seq(Char), NEW n \in Nat, Len(s) = n
  PROVE  /\ s \o t \in Seq(Char) /\ Len(s \o t) = n + Len(t)
         /\ \A i \in 1 .. n + Len(t) :
              (s \o t)[i] = IF i <= n THEN s[i] ELSE t[i - n]
BY ConcatProperties

(* Without its first k characters a text that begins with n times c        *)
(* begins with n - k times c.                                              *)
LEMMA RepDrop ==
  ASSUME NEW c \in Char, NEW t \in Seq(Char), NEW n \in Nat, NEW k \in 0 .. n
  PROVE  SubSeq(Rep(c, n) \o t, k + 1, Len(Rep(c, n) \o t)) = Rep(c, n - k) \o t
<1> DEFINE a == Rep(c, n) \o t
           b == Rep(c, n - k) \o t
           m == Len(t)
           r == SubSeq(a, k + 1, Len(a))
<1>0. m \in Nat /\ n - k \in Nat /\ n - k \in Int /\ k \in Nat /\ n \in Int
  OBVIOUS
<1>1. /\ Rep(c, n) \in Seq(Char) /\ Len(Rep(c, n)) = n
      /\ \A i \in 1 .. n : Rep(c, n)[i] = c
  BY <1>0, RepIs
<1>2. /\ Rep(c, n - k) \in Seq(Char) /\ Len(Rep(c, n - k)) = n - k
      /\ \A i \in 1 .. n - k : Rep(c, n - k)[i] = c
  BY <1>0, RepIs
<1>3. /\ a \in Seq(Char) /\ Len(a) = n + m
      /\ \A i \in 1 .. n + m : a[i] = IF i <= n THEN Rep(c, n)[i] ELSE t[i - n]
  BY <1>0, <1>1, Concat
<1>4. /\ b \in Seq(Char) /\ Len(b) = n - k + m
      /\ \A i \in 1 .. n - k + m :
           b[i] = IF i <= n - k THEN Rep(c, n - k)[i] ELSE t[i - (n - k)]
  BY <1>0, <1>2, Concat
<1> HIDE DEF a, b, m
<1>5. /\ r \in Seq(Char) /\ Len(r) = n - k + m
      /\ \A i \in 1 .. n - k + m : r[i] = a[k + 1 + i - 1]
  <2>1. k + 1 \in Int /\ n + m \in Int
        /\ \A i \in k + 1 .. n + m : i \in 1 .. n + m
        /\ (k + 1 <= n + m => (n + m) - (k + 1) + 1 = n - k + m)
        /\ (~(k + 1 <= n + m) => n - k + m = 0)
        /\ (n + m) - (k + 1) + 1 = n - k + m
    BY <1>0
  <2>2. \A i \in k + 1 .. n + m : a[i] \in Char
    BY <1>3, <2>1, ElementOfSeq
  <2> DEFINE q == SubSeq(a, k + 1, n + m)
             from == k + 1
             to == n + m
  <2>3. /\ q \in Seq(Char)
        /\ Len(q) = IF from <= to THEN to - from + 1 ELSE 0
        /\ \A i \in 1 .. to - from + 1 : q[i] = a[from + i - 1]
    BY <2>1, <2>2, SubSeqProperties
  <2>4. r = q
    BY <1>3
  <2> HIDE DEF q
  <2>5. Len(q) = n - k + m
    BY <1>0, <2>3
  <2>6. ASSUME NEW i \in 1 .. n - k + m PROVE q[i] = a[k + 1 + i - 1]
    <3>1. i \in 1 .. to - from + 1
      BY <1>0
    <3> QED
      BY <2>3, <3>1
  <2> QED
    BY <2>3, <2>4, <2>5, <2>6
<1>6. ASSUME NEW i \in 1 .. n - k + m PROVE r[i] = b[i]
  <2>1. k + 1 + i - 1 = k + i /\ k + i \in 1 .. n + m
    BY <1>0
  <2>2. CASE i <= n - k
    <3>1. k + i <= n /\ k + i \in 1 .. n /\ i \in 1 .. n - k
      BY <1>0, <2>2
    <3> QED
      BY <1>1, <1>2, <1>3, <1>4, <1>5, <2>1, <2>2, <3>1
  <2>3. CASE ~(i <= n - k)
    <3>1. ~(k + i <= n) /\ k + i - n = i - (n - k)
      BY <1>0, <2>3
    <3>2. r[i] = a[k + i] /\ a[k + i] = t[k + i - n]
      BY <1>3, <1>5, <2>1, <3>1, SMTT(30)
    <3>3. b[i] = t[i - (n - k)]
      BY <1>4, <2>3
    <3> QED
      BY <3>1, <3>2, <3>3
  <2> QED
    BY <2>2, <2>3
<1>7. r = b
  <2> HIDE DEF r
  <2> QED
    BY <1>4, <1>5, <1>6, SeqEqual
<1> QED
  BY <1>7 DEF a, b
-----------------------------------------------------------------------------
(* What each conversion yields is a text.                                  *)
Text == Seq(Char)

LEMMA LettersAre == Letters \subseteq Char
BY DEF Char

LEMMA JoinedTexts ==
  /\ \A t, u \in Text : t \o u \in Text
  /\ << >> \in Text
  /\ \A c \in Letters : <<c>> \in Text
  /\ \A c \in Letters, n \in Int : Rep(c, n) \in Text
  /\ \A t \in Text, n \in Nat : End(t, n) \in Text
<1>1. \A t, u \in Text : t \o u \in Text
  BY ConcatProperties DEF Text
<1>2. << >> \in Text /\ \A c \in Letters : <<c>> \in Text
  BY LettersAre DEF Text
<1>3. \A c \in Letters, n \in Int : Rep(c, n) \in Text
  BY RepIs, LettersAre DEF Text
<1>4. \A t \in Text, n \in Nat : End(t, n) \in Text
  BY EndIs DEF Text
<1> QED
  BY <1>1, <1>2, <1>3, <1>4

LEMMA SignIs ==
  ASSUME NEW negative, NEW flags
  PROVE  /\ Sign(negative, flags) \in Text
         /\ Sign(negative, flags) = << >> \/ Len(Sign(negative, flags)) = 1
<1>1. "-" \in Letters /\ "+" \in Letters /\ " " \in Letters
  BY DEF Letters
<1>2. /\ <<"-">> \in Text /\ <<"+">> \in Text /\ <<" ">> \in Text
      /\ << >> \in Text
  BY <1>1, JoinedTexts
<1>3. Len(<<"-">>) = 1 /\ Len(<<"+">>) = 1 /\ Len(<<" ">>) = 1
  OBVIOUS
<1> HIDE DEF Text
<1> QED
  BY <1>2, <1>3 DEF Sign

LEMMA OutRevIsText ==
  ASSUME NEW t \in Text, NEW width \in Int, NEW flags
  PROVE  out_rev(t, width, flags) \in Text
<1> DEFINE pad == Rep(" ", width - Len(t))
<1>1. width - Len(t) \in Int
  BY DEF Text
<1>2. pad \in Text
  <2>1. " " \in Letters
    BY DEF Letters
  <2> QED
    BY <1>1, <2>1, JoinedTexts
<1> HIDE DEF pad
<1>3. t \o pad \in Text /\ pad \o t \in Text
  BY <1>2, JoinedTexts
<1> QED
  BY <1>3 DEF out_rev, pad

LEMMA NtoaSizeIs == NtoaSize \in Nat \ {0} /\ FtoaSize \in Nat \ {0}
BY FormatAssumption

LEMMA HashedIsText ==
  ASSUME NEW t \in Text, NEW base, NEW width, NEW flags
  PROVE  Hashed(t, base, width, flags) \in Text
<1> DEFINE strip == IF "PRECISION" \in flags \/ Len(t) # width THEN 0
                    ELSE Smaller(Len(t), IF base = 16 THEN 2 ELSE 1)
           letter == IF base = 2 THEN <<"b">> ELSE IF base # 16 THEN << >>
                     ELSE IF "UPPERCASE" \in flags THEN <<"X">> ELSE <<"x">>
           rest == SubSeq(t, strip + 1, Len(t))
<1>1. Len(t) \in Nat
  BY DEF Text
<1>2. strip \in Nat
  BY <1>1 DEF Smaller
<1>3. rest \in Text
  <2> HIDE DEF strip
  <2>1. strip + 1 \in Int /\ Len(t) \in Int
        /\ \A i \in strip + 1 .. Len(t) : i \in 1 .. Len(t)
    BY <1>1, <1>2
  <2>2. \A i \in 1 .. Len(t) : t[i] \in Char
    BY ElementOfSeq DEF Text
  <2> QED
    BY <2>1, <2>2, SubSeqProperties DEF Text
<1>4. letter \in Text /\ <<"0">> \in Text
  <2>1. {"b", "x", "X", "0"} \subseteq Letters
    BY DEF Letters
  <2>2. /\ <<"b">> \in Text /\ <<"x">> \in Text /\ <<"X">> \in Text
        /\ <<"0">> \in Text /\ << >> \in Text
    BY <2>1, JoinedTexts
  <2> QED
    BY <2>2
<1> HIDE DEF strip, letter, rest
<1>5. <<"0">> \o letter \o rest \in Text
  <2>1. <<"0">> \o letter \in Text
    BY <1>4, JoinedTexts
  <2> QED
    BY <1>3, <2>1, JoinedTexts
<1>6. End(<<"0">> \o letter \o rest, NtoaSize) \in Text
  BY <1>5, NtoaSizeIs, JoinedTexts
<1> QED
  BY <1>6 DEF Hashed, strip, letter, rest

LEMMA ZeroWidthIs ==
  ASSUME NEW negative, NEW width \in Int, NEW flags
  PROVE  ZeroWidth(negative, width, flags) \in Int
BY DEF ZeroWidth

LEMMA NtoaFormatIsText ==
  ASSUME NEW digits \in Text, NEW negative, NEW base, NEW prec \in Int,
         NEW width \in Int, NEW flags
  PROVE  ntoa_format(digits, negative, base, prec, width, flags) \in Text
<1> DEFINE w == ZeroWidth(negative, width, flags)
           most == IF "LEFT" \in flags THEN 0
                   ELSE Larger(prec, IF "ZEROPAD" \in flags THEN w ELSE 0)
           zeros == Rep("0", Smaller(most, NtoaSize) - Len(digits)) \o digits
           text == IF "HASH" \in flags THEN Hashed(zeros, base, w, flags)
                   ELSE zeros
           g == Sign(negative, flags)
<1>1. w \in Int
  BY ZeroWidthIs
<1>2. most \in Int
  <2> HIDE DEF w
  <2> QED
    BY <1>1 DEF Larger
<1>3. zeros \in Text
  <2> HIDE DEF most
  <2>1. Smaller(most, NtoaSize) - Len(digits) \in Int
    BY <1>2, NtoaSizeIs DEF Smaller, Text
  <2>2. "0" \in Letters
    BY DEF Letters
  <2> QED
    BY <2>1, <2>2, JoinedTexts
<1>4. text \in Text
  <2> HIDE DEF zeros, w
  <2> QED
    BY <1>3, HashedIsText
<1>5. End(g \o text, NtoaSize) \in Text
  <2> HIDE DEF text
  <2> QED
    BY <1>4, SignIs, NtoaSizeIs, JoinedTexts
<1>6. out_rev(End(g \o text, NtoaSize), w, flags) \in Text
  <2> HIDE DEF text, w, g
  <2> QED
    BY <1>1, <1>5, OutRevIsText
<1> QED
  BY <1>6, Zenon DEF ntoa_format

LEMMA NtoaIsText ==
  ASSUME NEW v \in Nat, NEW negative, NEW base \in Bases, NEW prec \in Int,
         NEW width \in Int, NEW flags
  PROVE  ntoa(v, negative, base, prec, width, flags) \in Text
<1> DEFINE chars == IF "UPPERCASE" \in flags THEN UpperChars ELSE DigitChars
           digits == IF "PRECISION" \in flags /\ v = 0 THEN << >>
                     ELSE End(Digits(v, base, chars), NtoaSize)
           f == IF v = 0 THEN flags \ {"HASH"} ELSE flags
<1>1. chars \in Charts
  BY ChartsAre
<1>2. digits \in Text
  <2> HIDE DEF chars
  <2>1. Digits(v, base, chars) \in Text
    BY <1>1, DigitsAreText DEF Text
  <2> QED
    BY <2>1, NtoaSizeIs, JoinedTexts
<1> HIDE DEF digits, f
<1>3. ntoa_format(digits, negative, base, prec, width, f) \in Text
  BY <1>2, NtoaFormatIsText
<1> QED
  BY <1>3, Zenon DEF ntoa, digits, f

(* Quotients and remainders.                                               *)
LEMMA Divided ==
  ASSUME NEW x \in Nat, NEW w \in Nat \ {0}
  PROVE  /\ x \div w \in Nat /\ x % w \in 0 .. w - 1
         /\ x = (x \div w) * w + (x % w)
OBVIOUS

(* Quotient and remainder are determined.                                 *)
LEMMA DividedOnce ==
  ASSUME NEW x \in Nat, NEW q \in Nat, NEW w \in Nat \ {0}, NEW r \in Nat,
         r < w, x = q * w + r
  PROVE  x \div w = q /\ x % w = r
OBVIOUS

(* pow10, the table of the powers of ten, ends at the ninth.               *)
LEMMA PowerOfTen ==
  ASSUME NEW n \in 0 .. 9
  PROVE  10 ^ n \in Nat \ {0}
<1>1. \/ n = 0 \/ n = 1 \/ n = 2 \/ n = 3 \/ n = 4
      \/ n = 5 \/ n = 6 \/ n = 7 \/ n = 8 \/ n = 9
  OBVIOUS
<1>2. n = 0 => 10 ^ n = 1
  OBVIOUS
<1>3. n = 1 => 10 ^ n = 10
  OBVIOUS
<1>4. n = 2 => 10 ^ n = 100
  OBVIOUS
<1>5. n = 3 => 10 ^ n = 1000
  OBVIOUS
<1>6. n = 4 => 10 ^ n = 10000
  OBVIOUS
<1>7. n = 5 => 10 ^ n = 100000
  OBVIOUS
<1>8. n = 6 => 10 ^ n = 1000000
  OBVIOUS
<1>9. n = 7 => 10 ^ n = 10000000
  OBVIOUS
<1>10. n = 8 => 10 ^ n = 100000000
  OBVIOUS
<1>11. n = 9 => 10 ^ n = 1000000000
  OBVIOUS
<1> QED
  BY <1>1, <1>2, <1>3, <1>4, <1>5, <1>6,
     <1>7, <1>8, <1>9, <1>10, <1>11

LEMMA Division ==
  ASSUME NEW a \in Nat, NEW b \in Nat \ {0}
  PROVE  a \div b \in Nat /\ a % b \in 0 .. b - 1 /\ a % b \in Nat
OBVIOUS

LEMMA RoundedIs ==
  ASSUME NEW num \in Nat, NEW den \in Nat \ {0}, NEW prec \in 0 .. 9
  PROVE  /\ Rounded(num, den, prec).whole \in Nat
         /\ Rounded(num, den, prec).frac \in Nat
<1> DEFINE pow == 10 ^ prec
           rem == num % den
           tmp == rem * pow
           frac == tmp \div den
           diff == 2 * (tmp % den)
           rollover == diff > den /\ frac + 1 >= pow
           up == diff > den \/ (diff = den /\ (frac = 0 \/ Odd(frac)))
           whole == (num \div den) + (IF rollover THEN 1 ELSE 0)
           w == IF prec = 0 /\ 2 * (num - whole * den) >= den /\ Odd(whole)
                THEN whole + 1 ELSE whole
           f == IF rollover THEN 0 ELSE IF up THEN frac + 1 ELSE frac
<1>1. pow \in Nat
  BY PowerOfTen
<1>2. rem \in Nat
  BY Division
<1> HIDE DEF pow, rem
<1>3. tmp \in Nat
  BY <1>1, <1>2
<1> HIDE DEF tmp
<1>4. frac \in Nat
  BY <1>3, Division
<1> HIDE DEF frac
<1>5. num \div den \in Nat
  BY Division
<1>6. whole \in Nat
  <2> HIDE DEF rollover
  <2> QED
    BY <1>5
<1>7. w \in Nat
  <2> HIDE DEF whole
  <2> QED
    BY <1>6
<1>8. f \in Nat
  <2> HIDE DEF rollover, up
  <2> QED
    BY <1>4
<1>9. Rounded(num, den, prec) = [whole |-> w, frac |-> f]
  BY Zenon DEF Rounded, pow, rem, tmp, frac
<1> HIDE DEF w, f
<1> QED
  BY <1>7, <1>8, <1>9

LEMMA FtoaIsText ==
  ASSUME NEW num \in Int, NEW den \in Nat \ {0},
         NEW precision \in Nat \cup {None}, NEW width \in Int, NEW flags
  PROVE  ftoa(<<num, den>>, precision, width, flags) \in Text
<1> DEFINE value == <<num, den>>
           n == IF value[1] < 0 THEN -value[1] ELSE value[1]
           negative == value[1] < 0
           asked == IF precision = None THEN FtoaDefault ELSE precision
           prec == Smaller(asked, FtoaTop)
           r == Rounded(n, value[2], prec)
           frac == Digits(r.frac, 10, DigitChars)
           zeros == IF Len(frac) > prec THEN FtoaSize ELSE prec - Len(frac)
           decimals == IF prec = 0 THEN << >>
                       ELSE <<".">> \o Rep("0", zeros) \o frac
           all == Digits(r.whole, 10, DigitChars) \o decimals
                    \o Rep("0", asked - prec)
           number == End(all, FtoaSize)
           w == ZeroWidth(negative, width, flags)
           padded == IF "ZEROPAD" \in flags /\ "LEFT" \notin flags
                     THEN Rep("0", Smaller(w, FtoaSize) - Len(number)) \o number
                     ELSE number
           g == Sign(negative, flags)
<1>1. "0" \in Letters /\ "." \in Letters
  BY DEF Letters
<1>2. n \in Nat /\ value[2] = den
  OBVIOUS
<1>3. asked \in Nat /\ FtoaTop \in 1 .. 9 /\ prec \in 0 .. 9
  BY FormatAssumption DEF None, Smaller
<1>4. r.whole \in Nat /\ r.frac \in Nat
  <2> HIDE DEF prec, n, value
  <2> QED
    BY <1>2, <1>3, RoundedIs
<1> HIDE DEF r, asked, prec
<1>5. Digits(r.whole, 10, DigitChars) \in Text /\ frac \in Text
  <2>1. 10 \in Bases
    BY DEF Bases
  <2> QED
    BY <1>4, <2>1, ChartsAre, DigitsAreText DEF Text
<1> HIDE DEF frac
<1>6. zeros \in Int
  <2>1. Len(frac) \in Nat
    BY <1>5 DEF Text
  <2> QED
    BY <1>3, <2>1, NtoaSizeIs
<1>7. decimals \in Text
  <2> HIDE DEF zeros
  <2>1. <<".">> \in Text /\ Rep("0", zeros) \in Text /\ << >> \in Text
    BY <1>1, <1>6, JoinedTexts
  <2>2. <<".">> \o Rep("0", zeros) \in Text
    BY <2>1, JoinedTexts
  <2>3. <<".">> \o Rep("0", zeros) \o frac \in Text
    BY <1>5, <2>2, JoinedTexts
  <2> QED
    BY <2>1, <2>3
<1>8. number \in Text
  <2> HIDE DEF decimals
  <2>1. asked - prec \in Int
    BY <1>3
  <2>2. Rep("0", asked - prec) \in Text
    BY <1>1, <2>1, JoinedTexts
  <2>3. Digits(r.whole, 10, DigitChars) \o decimals \in Text
    BY <1>5, <1>7, JoinedTexts
  <2>4. all \in Text
    BY <2>2, <2>3, JoinedTexts
  <2> HIDE DEF all
  <2> QED
    BY <2>4, NtoaSizeIs, JoinedTexts
<1> HIDE DEF number
<1>9. w \in Int
  BY ZeroWidthIs
<1> HIDE DEF w
<1>10. padded \in Text
  <2>1. Smaller(w, FtoaSize) - Len(number) \in Int
    BY <1>8, <1>9, NtoaSizeIs DEF Smaller, Text
  <2>2. Rep("0", Smaller(w, FtoaSize) - Len(number)) \o number \in Text
    BY <1>1, <1>8, <2>1, JoinedTexts
  <2> QED
    BY <1>8, <2>2
<1> HIDE DEF padded
<1>11. End(g \o padded, FtoaSize) \in Text
  <2>1. g \in Text
    BY SignIs
  <2> HIDE DEF g
  <2> QED
    BY <1>10, <2>1, NtoaSizeIs, JoinedTexts
<1>12. out_rev(End(g \o padded, FtoaSize), w, flags) \in Text
  <2> HIDE DEF g
  <2> QED
    BY <1>9, <1>11, OutRevIsText
<1> QED
  BY <1>12, Zenon
     DEF ftoa, padded, w, number, frac, prec, asked, r

LEMMA FtoaSpecialIsText ==
  ASSUME NEW n \in Int, NEW width \in Int, NEW flags
  PROVE  ftoaSpecial(<<n, 0>>, width, flags) \in Text
<1> DEFINE value == <<n, 0>>
           inf == <<"i", "n", "f">>
           t == CASE value[1] = 0 -> <<"n", "a", "n">>
                  [] value[1] < 0 -> <<"-">> \o inf
                  [] value[1] > 0 -> (IF "PLUS" \in flags THEN <<"+">>
                                      ELSE << >>) \o inf
<1>1. inf \in Text /\ <<"n", "a", "n">> \in Text /\ <<"-">> \in Text
      /\ <<"+">> \in Text /\ << >> \in Text
  <2>1. {"i", "n", "f", "a", "-", "+"} \subseteq Char
    BY LettersAre DEF Letters
  <2> QED
    BY <2>1 DEF Text
<1>2. /\ <<"-">> \o inf \in Text /\ <<"+">> \o inf \in Text
      /\ << >> \o inf \in Text
  <2> HIDE DEF inf
  <2> QED
    BY <1>1, JoinedTexts
<1>3. t \in Text
  <2>1. n = 0 \/ n < 0 \/ n > 0
    OBVIOUS
  <2>2. value[1] = n
    OBVIOUS
  <2> HIDE DEF inf, value
  <2> QED
    BY <1>1, <1>2, <2>1, <2>2
<1> HIDE DEF t
<1>4. out_rev(t, width, flags) \in Text
  BY <1>3, OutRevIsText
<1> QED
  BY <1>4, Zenon DEF ftoaSpecial, t

LEMMA PowerOfTwo ==
  ASSUME NEW n \in Nat
  PROVE  2 ^ n \in Nat \ {0}
<1> DEFINE S == 1 .. n
<1>1. IsFiniteSet(S) /\ Cardinality(S) = n
  BY FS_Interval
<1> HIDE DEF S
<1>2. IsFiniteSet(SUBSET S) /\ Cardinality(SUBSET S) = 2 ^ n
  BY <1>1, FS_SUBSET
<1>3. Cardinality(SUBSET S) \in Nat /\ Cardinality(SUBSET S) # 0
  BY <1>2, FS_CardinalityType, FS_EmptySet
<1> QED
  BY <1>2, <1>3

(* The argument of a conversion of an integer is a number of its width.    *)
LEMMA ValueIs ==
  ASSUME NEW s \in IntegerSpecs
  PROVE  Value(s) \in Int /\ (s.kind \notin Signed => Value(s) \in Nat)
<1> DEFINE bits == CASE s.length = "hh" -> CharBits [] s.length = "h" -> ShortBits
                     [] s.length = "" -> IntBits [] s.length = "ll" -> 2 * IntBits
           half == 2 ^ (bits - 1)
           full == 2 ^ bits
<1>1. s.length \in {"", "h", "hh", "ll"} /\ s.arg \in Int
  BY FormatAssumption DEF IntegerSpecs
<1>2. bits \in Nat \ {0}
  <2>1. /\ CharBits \in Nat \ {0} /\ ShortBits \in Nat \ {0}
        /\ IntBits \in Nat \ {0}
    BY FormatAssumption
  <2>2. 2 * IntBits \in Nat \ {0}
    BY <2>1
  <2>3. s.length = "" \/ s.length = "h" \/ s.length = "hh" \/ s.length = "ll"
    BY <1>1
  <2> QED
    BY <2>1, <2>2, <2>3
<1> HIDE DEF bits
<1>3. half \in Int /\ full \in Nat \ {0}
  <2>1. bits - 1 \in Nat
    BY <1>2
  <2> QED
    BY <1>2, <2>1, PowerOfTwo
<1> HIDE DEF half, full
<1>4. ASSUME NEW m \in Int PROVE m % full \in Nat
  BY <1>3
<1>5. s.arg % full \in Nat /\ ((s.arg + half) % full) - half \in Int
  <2>1. s.arg + half \in Int
    <3>1. \A a, b \in Int : a + b \in Int
      OBVIOUS
    <3> QED
      BY <1>1, <1>3, <3>1
  <2> DEFINE r == (s.arg + half) % full
  <2>2. s.arg % full \in Nat /\ r \in Nat
    BY <1>1, <1>4, <2>1
  <2> HIDE DEF r
  <2>3. r - half \in Int
    BY <1>3, <2>2
  <2> QED
    BY <2>2, <2>3 DEF r
<1>6. Value(s) = IF s.kind \in Signed /\ s.length # "hh"
                 THEN ((s.arg + half) % full) - half ELSE s.arg % full
  BY Zenon DEF Value, Wrapped, bits, half, full
<1> QED
  BY <1>5, <1>6

LEMMA BaseIs ==
  ASSUME NEW kind
  PROVE  Base(kind) \in Bases
BY DEF Base, Bases

LEMMA IntegersAreText ==
  ASSUME NEW s \in IntegerSpecs
  PROVE  TextOf(s) \in Text
<1> DEFINE v == Value(s)
           n == IF v < 0 THEN -v ELSE v
           none == (IF Base(s.kind) = 10 THEN {"HASH"} ELSE {})
                   \cup (IF s.kind \in Unsigned THEN {"PLUS", "SPACE"} ELSE {})
                   \cup (IF s.precision # None THEN {"ZEROPAD"} ELSE {})
           flags == (Flags(s) \ none)
                    \cup (IF s.kind = "X" THEN {"UPPERCASE"} ELSE {})
           negative == v < 0
<1>1. v \in Int
  BY ValueIs
<1>2. n \in Nat
  <2> HIDE DEF v
  <2> QED
    BY <1>1
<1>3. s.width \in Int /\ s.precision \in Int
  BY FormatAssumption DEF IntegerSpecs
<1>4. Precision(s) \in Int /\ Width(s) \in Int
  BY <1>3 DEF Precision, Width, Larger
<1>5. IntegerText(s) = ntoa(n, negative, Base(s.kind), Precision(s), Width(s), flags)
  BY Zenon DEF IntegerText
<1> HIDE DEF n, negative, flags
<1>6. IntegerText(s) \in Text
  BY <1>2, <1>4, <1>5, BaseIs, NtoaIsText
<1>7. s.kind \in Signed \cup Unsigned
  BY DEF IntegerSpecs
<1>8. TextOf(s) = IntegerText(s)
  BY <1>7, Zenon DEF TextOf, Signed, Unsigned
<1> QED
  BY <1>6, <1>8

LEMMA FloatsAreText ==
  ASSUME NEW s \in FloatSpecs
  PROVE  TextOf(s) \in Text
<1> DEFINE precision == IF s.precision = None THEN None ELSE Precision(s)
<1>1. s.width \in Int /\ s.precision \in Int /\ s.arg \in Int \X Nat
      /\ s.kind = "f"
  BY FormatAssumption DEF FloatSpecs
<1>2. PICK num \in Int, den \in Nat : s.arg = <<num, den>>
  BY <1>1
<1>3. Width(s) \in Int /\ precision \in Nat \cup {None}
  BY <1>1 DEF Width, Precision, Larger, None
<1>4. TextOf(s) = FloatText(s)
  BY <1>1, Zenon DEF TextOf, Signed, Unsigned
<1>5. FloatText(s) = IF den = 0
                     THEN ftoaSpecial(<<num, den>>, Width(s), Flags(s))
                     ELSE ftoa(<<num, den>>, precision, Width(s), Flags(s))
  <2>1. s.arg[2] = den
    BY <1>2
  <2> QED
    BY <1>2, <2>1, Zenon DEF FloatText
<1> HIDE DEF precision
<1>6. CASE den = 0
  BY <1>3, <1>4, <1>5, <1>6, FtoaSpecialIsText
<1>7. CASE den # 0
  BY <1>3, <1>4, <1>5, <1>7, FtoaIsText
<1> QED
  BY <1>6, <1>7

LEMMA TextsAreText ==
  ASSUME NEW s \in TextSpecs
  PROVE  TextOf(s) \in Text
<1> DEFINE shown == IF s.kind = "c" THEN SubSeq(s.arg, 1, 1)
                    ELSE IF s.precision = None THEN s.arg
                    ELSE SubSeq(s.arg, 1, Smaller(Precision(s), Len(s.arg)))
           pad == Rep(" ", Width(s) - Len(shown))
<1>1. /\ s.width \in Int /\ s.precision \in Int /\ s.arg \in Strings
      /\ s.kind \in {"c", "s"} /\ (s.kind = "c" => s.arg # << >>)
  BY FormatAssumption DEF TextSpecs
<1>2. s.arg \in Seq(STRING) /\ Len(s.arg) \in Nat
  BY <1>1, FormatAssumption
<1>3. \A i \in 1 .. Len(s.arg) : s.arg[i] \in Char
  <2>1. ToSet(s.arg) \subseteq Char
    BY <1>1 DEF Char
  <2> QED
    BY <1>2, <2>1 DEF ToSet
<1>4. s.arg \in Text
  <2>1. s.arg = [i \in 1 .. Len(s.arg) |-> s.arg[i]]
    BY <1>2
  <2> QED
    BY <1>2, <1>3, <2>1 DEF Text
<1>5. ASSUME NEW n \in Nat, n <= Len(s.arg)
      PROVE  SubSeq(s.arg, 1, n) \in Text
  <2>1. \A i \in 1 .. n : i \in 1 .. Len(s.arg)
    BY <1>2, <1>5
  <2>2. \A i \in 1 .. n : s.arg[i] \in Char
    BY <1>3, <2>1
  <2>3. 1 \in Int /\ n \in Int
    OBVIOUS
  <2> QED
    BY <2>2, <2>3, SubSeqProperties DEF Text
<1>6. shown \in Text
  <2>1. s.kind = "c" => 1 <= Len(s.arg)
    BY <1>1, <1>2
  <2>2. Smaller(Precision(s), Len(s.arg)) \in Nat
        /\ Smaller(Precision(s), Len(s.arg)) <= Len(s.arg)
    BY <1>1, <1>2 DEF Smaller, Precision, Larger
  <2> QED
    BY <1>4, <1>5, <2>1, <2>2
<1> HIDE DEF shown
<1>7. pad \in Text
  <2>1. Width(s) - Len(shown) \in Int /\ " " \in Letters
    BY <1>1, <1>6 DEF Width, Text, Letters
  <2> QED
    BY <2>1, JoinedTexts
<1> HIDE DEF pad
<1>8. shown \o pad \in Text /\ pad \o shown \in Text
  BY <1>6, <1>7, JoinedTexts
<1>9. TextText(s) = IF "LEFT" \in Flags(s) THEN shown \o pad ELSE pad \o shown
  BY Zenon DEF TextText, shown, pad
<1>10. TextOf(s) = TextText(s)
  BY <1>1, Zenon DEF TextOf, Signed, Unsigned
<1> QED
  BY <1>8, <1>9, <1>10

LEMMA PointersAreText ==
  ASSUME NEW s \in PointerSpecs
  PROVE  TextOf(s) \in Text
<1> DEFINE v == s.arg % 2 ^ IntBits
           width == IntBits \div 4
           negative == FALSE
<1>1. s.arg \in Int /\ s.kind = "p"
  BY FormatAssumption DEF PointerSpecs
<1>2. v \in Nat /\ width \in Int
  <2>1. IntBits \in Nat
    BY FormatAssumption
  <2>2. 2 ^ IntBits \in Nat \ {0}
    BY <2>1, PowerOfTwo
  <2> DEFINE full == 2 ^ IntBits
  <2>3. full \in Nat \ {0}
    BY <2>2
  <2> HIDE DEF full
  <2>4. s.arg % full \in Nat
    BY <1>1, <2>3
  <2> QED
    BY <2>1, <2>4 DEF full
<1>3. TextOf(s) = ntoa(v, negative, 16, 0, width,
                       s.flags \cup {"ZEROPAD", "UPPERCASE"})
  BY <1>1, Zenon DEF TextOf, PointerText, Signed, Unsigned
<1>4. 16 \in Bases
  BY DEF Bases
<1> HIDE DEF v, width, negative
<1> QED
  BY <1>2, <1>3, <1>4, NtoaIsText

Conversions == IntegerSpecs \cup FloatSpecs \cup PointerSpecs
               \cup TextSpecs \cup Plain

LEMMA ConversionsYieldTexts ==
  \A s \in Conversions : TextOf(s) \in Text
<1>1. ASSUME NEW s \in Plain PROVE TextOf(s) \in Text
  <2>1. s.kind = "char" /\ s.arg = "z"
    BY DEF Plain
  <2>2. TextOf(s) = <<s.arg>>
    BY <2>1, Zenon DEF TextOf, Signed, Unsigned
  <2>3. "z" \in Letters
    BY DEF Letters
  <2> QED
    BY <2>1, <2>2, <2>3, JoinedTexts
<1> QED
  BY <1>1, IntegersAreText, FloatsAreText, TextsAreText, PointersAreText
     DEF Conversions

-----------------------------------------------------------------------------
(* How ntoa_format arranges digits: zeros, the prefix and the sign in      *)
(* front of them, in the width.                                            *)
Prefix(base, flags) ==
  IF "HASH" \notin flags THEN << >>
  ELSE IF base # 16 THEN <<"0">>
  ELSE IF "UPPERCASE" \in flags THEN <<"0", "X">> ELSE <<"0", "x">>
Fills(flags) == "ZEROPAD" \in flags /\ "LEFT" \notin flags
Least(g, p, prec, width, flags) ==
  IF "PRECISION" \in flags THEN prec
  ELSE IF Fills(flags) THEN width - Len(g) - Len(p) ELSE 0
Zeros(g, p, digits, prec, width, flags) ==
  Rep("0", Least(g, p, prec, width, flags) - Len(digits))
Top(prec, w, flags) == IF "PRECISION" \in flags THEN prec
                       ELSE IF Fills(flags) THEN w ELSE 0
Filled(n, digits) == Rep("0", n - Len(digits)) \o digits
Prefixed(zeros, base, w, flags) ==
  IF "HASH" \in flags THEN Hashed(zeros, base, w, flags) ELSE zeros
Spaced(text, width, flags) ==
  LET pad == Rep(" ", width - Len(text))
  IN IF "LEFT" \in flags THEN text \o pad ELSE pad \o text

OverZeros(digits, base, w, flags) ==
  /\ digits \in Text /\ base # 2 /\ w \in Nat /\ w <= NtoaSize
  /\ "HASH" \in flags /\ "PRECISION" \notin flags
  /\ Len(digits) + Len(Prefix(base, flags)) <= w

(* What FormatIs asks of its arguments, which AsC says of a specification. *)
Fits(digits, negative, base, prec, width, flags) ==
  /\ digits \in Text /\ prec \in Nat /\ width \in Nat
  /\ Len(digits) + 3 <= NtoaSize /\ prec + 3 <= NtoaSize
  /\ "PRECISION" \in flags => "LEFT" \notin flags /\ "ZEROPAD" \notin flags
  /\ "PRECISION" \notin flags => prec = 0
  /\ Fills(flags) => width <= NtoaSize
  /\ "HASH" \in flags =>
       /\ base \in {8, 16} /\ Sign(negative, flags) = << >>
       /\ IF "PRECISION" \in flags THEN base = 16
          ELSE IF Fills(flags)
               THEN width \notin Len(digits) ..
                                   Len(digits) + (IF base = 16 THEN 2 ELSE 1) - 1
          ELSE width # Len(digits)

LEMMA PrefixIs ==
  ASSUME NEW base, NEW flags
  PROVE  /\ Prefix(base, flags) \in Text
         /\ Len(Prefix(base, flags)) = IF "HASH" \notin flags THEN 0
                                        ELSE IF base = 16 THEN 2 ELSE 1
         /\ "HASH" \in flags /\ base # 2 =>
              Prefix(base, flags) =
                <<"0">> \o (IF base = 2 THEN <<"b">>
                             ELSE IF base # 16 THEN << >>
                             ELSE IF "UPPERCASE" \in flags THEN <<"X">>
                             ELSE <<"x">>)
<1>1. "0" \in Char /\ "X" \in Char /\ "x" \in Char
  BY LettersAre DEF Letters
<1>2. /\ <<"0">> \in Text /\ <<"0", "X">> \in Text /\ <<"0", "x">> \in Text
      /\ << >> \in Text
  BY <1>1 DEF Text
<1>3. /\ Len(<<"0">>) = 1 /\ Len(<<"0", "X">>) = 2 /\ Len(<<"0", "x">>) = 2
      /\ Len(<< >>) = 0
  OBVIOUS
<1>4. /\ <<"0">> \o << >> = <<"0">> /\ <<"0">> \o <<"X">> = <<"0", "X">>
      /\ <<"0">> \o <<"x">> = <<"0", "x">>
  <2>1. <<"0">> \o << >> = <<"0">>
    BY <1>2, ConcatEmptySeq DEF Text
  <2>2. ASSUME NEW a \in Char, NEW b \in Char
        PROVE  <<a>> \o <<b>> = <<a, b>>
    <3>1. /\ <<a>> \o <<b>> \in Seq(Char) /\ Len(<<a>> \o <<b>>) = 1 + Len(<<b>>)
          /\ \A i \in 1 .. 1 + Len(<<b>>) :
               (<<a>> \o <<b>>)[i] = IF i <= 1 THEN <<a>>[i] ELSE <<b>>[i - 1]
      BY Concat
    <3> DEFINE t == <<a>> \o <<b>>
    <3>2. t \in Seq(Char) /\ Len(t) = 2 /\ t[1] = a /\ t[2] = b
      BY <3>1
    <3> HIDE DEF t
    <3>3. t = <<a, b>>
      BY <3>2
    <3> QED
      BY <3>3 DEF t
  <2> QED
    BY <1>1, <2>1, <2>2
<1> HIDE DEF Text
<1>5. CASE "HASH" \notin flags
  BY <1>2, <1>3, <1>5 DEF Prefix
<1>6. CASE "HASH" \in flags /\ base # 16
  BY <1>2, <1>3, <1>4, <1>6 DEF Prefix
<1>7. CASE "HASH" \in flags /\ base = 16 /\ "UPPERCASE" \in flags
  BY <1>2, <1>3, <1>4, <1>7 DEF Prefix
<1>8. CASE "HASH" \in flags /\ base = 16 /\ "UPPERCASE" \notin flags
  BY <1>2, <1>3, <1>4, <1>8 DEF Prefix
<1> QED
  BY <1>5, <1>6, <1>7, <1>8

(* The sign takes a column of the width that zeros are to fill.            *)
LEMMA ZeroWidthFills ==
  ASSUME NEW negative, NEW width \in Nat, NEW flags
  PROVE  /\ ZeroWidth(negative, width, flags) \in Nat
         /\ ZeroWidth(negative, width, flags) =
              IF width > 0 /\ Fills(flags) /\ Sign(negative, flags) # << >>
              THEN width - 1 ELSE width
BY DEF ZeroWidth, Fills

(* The zeros of _ntoa_format, before the prefix goes over two of them.     *)
LEMMA ZerosAre ==
  ASSUME NEW digits \in Text, NEW prec \in Nat, NEW w \in Nat, NEW flags,
         Len(digits) + 3 <= NtoaSize, prec + 3 <= NtoaSize,
         "PRECISION" \in flags => "LEFT" \notin flags /\ "ZEROPAD" \notin flags,
         "PRECISION" \notin flags => prec = 0,
         Fills(flags) => w <= NtoaSize
  PROVE  LET most == IF "LEFT" \in flags THEN 0
                     ELSE Larger(prec, IF "ZEROPAD" \in flags THEN w ELSE 0)
         IN Smaller(most, NtoaSize) =
              IF "PRECISION" \in flags THEN prec
              ELSE IF Fills(flags) THEN w ELSE 0
<1>1. NtoaSize \in Nat
  BY NtoaSizeIs
<1>2. CASE "LEFT" \in flags
  BY <1>1, <1>2 DEF Fills, Smaller
<1>3. CASE "LEFT" \notin flags /\ "PRECISION" \in flags
  BY <1>1, <1>3 DEF Fills, Smaller, Larger
<1>4. CASE "LEFT" \notin flags /\ "PRECISION" \notin flags
  BY <1>1, <1>4 DEF Fills, Smaller, Larger
<1> QED
  BY <1>2, <1>3, <1>4

(* The prefix in front of a text that has another length than the width.   *)
LEMMA HashedInFront ==
  ASSUME NEW t \in Text, NEW base, base # 2, NEW w, NEW flags,
         "HASH" \in flags, "PRECISION" \in flags \/ Len(t) # w,
         Len(Prefix(base, flags)) + Len(t) <= NtoaSize
  PROVE  Hashed(t, base, w, flags) = Prefix(base, flags) \o t
<1> DEFINE strip == IF "PRECISION" \in flags \/ Len(t) # w THEN 0
                    ELSE Smaller(Len(t), IF base = 16 THEN 2 ELSE 1)
           letter == IF base = 2 THEN <<"b">> ELSE IF base # 16 THEN << >>
                     ELSE IF "UPPERCASE" \in flags THEN <<"X">> ELSE <<"x">>
           rest == SubSeq(t, strip + 1, Len(t))
           p == Prefix(base, flags)
<1>1. Hashed(t, base, w, flags) = End(<<"0">> \o letter \o rest, NtoaSize)
  BY Zenon DEF Hashed
<1>2. p = <<"0">> \o letter /\ p \in Text
  BY PrefixIs
<1>3. rest = t
  <2>1. strip + 1 = 1
    OBVIOUS
  <2> HIDE DEF strip
  <2> QED
    BY <2>1, SubSeqFull DEF Text
<1> HIDE DEF rest, letter, p
<1>4. p \o t \in Text /\ Len(p \o t) = Len(p) + Len(t)
  BY <1>2, ConcatProperties DEF Text
<1>5. Len(p \o t) <= NtoaSize
  BY <1>4 DEF p
<1>6. End(p \o t, NtoaSize) = p \o t
  BY <1>4, <1>5, NtoaSizeIs, EndIs DEF Text
<1> QED
  BY <1>1, <1>2, <1>3, <1>6 DEF p

(* The prefix in place of the first zeros of a text as long as the width.  *)
LEMMA HashedOverZeros ==
  ASSUME NEW digits, NEW base, NEW w, NEW flags,
         OverZeros(digits, base, w, flags)
  PROVE  Hashed(Rep("0", w - Len(digits)) \o digits, base, w, flags) =
           Prefix(base, flags) \o
             (Rep("0", w - Len(Prefix(base, flags)) - Len(digits)) \o digits)
<1> DEFINE n == Len(digits)
           z == w - n
           t == Rep("0", z) \o digits
           strip == IF "PRECISION" \in flags \/ Len(t) # w THEN 0
                    ELSE Smaller(Len(t), IF base = 16 THEN 2 ELSE 1)
           letter == IF base = 2 THEN <<"b">> ELSE IF base # 16 THEN << >>
                     ELSE IF "UPPERCASE" \in flags THEN <<"X">> ELSE <<"x">>
           rest == SubSeq(t, strip + 1, Len(t))
           p == Prefix(base, flags)
           k == IF base = 16 THEN 2 ELSE 1
           zeros == Rep("0", z - k)
<1>0. /\ digits \in Text /\ base # 2 /\ w \in Nat /\ w <= NtoaSize
      /\ "HASH" \in flags /\ "PRECISION" \notin flags
      /\ Len(digits) + Len(Prefix(base, flags)) <= w
  BY DEF OverZeros
<1>1. Hashed(t, base, w, flags) = End(<<"0">> \o letter \o rest, NtoaSize)
  BY Zenon DEF Hashed
<1>2. p = <<"0">> \o letter /\ p \in Text /\ Len(p) = k
  BY <1>0, PrefixIs
<1>3. n \in Nat /\ k \in Nat /\ z \in Nat /\ k \in 0 .. z /\ z - k \in Nat
      /\ n + k <= w
  <2>1. n \in Nat /\ k \in Nat
    BY <1>0 DEF Text
  <2>2. n + k <= w
    BY <1>0, <1>2
  <2> HIDE DEF n, k
  <2> QED
    BY <1>0, <2>1, <2>2
<1>4. "0" \in Char
  BY LettersAre DEF Letters
<1> HIDE DEF n, k, letter, p, z
<1>5. t \in Text /\ Len(t) = w
  <2>1. Rep("0", z) \in Seq(Char) /\ Len(Rep("0", z)) = z
    BY <1>0, <1>3, <1>4, RepIs
  <2>2. t \in Text /\ Len(t) = z + Len(digits)
    BY <1>0, <1>3, <2>1, Concat DEF Text
  <2> QED
    BY <1>0, <1>3, <2>2 DEF n, z
<1>6. strip = k
  <2> HIDE DEF t
  <2> QED
    BY <1>0, <1>3, <1>5 DEF Smaller, k
<1>7. rest = zeros \o digits
  <2>1. SubSeq(t, k + 1, Len(t)) = zeros \o digits
    BY <1>0, <1>3, <1>4, RepDrop DEF Text
  <2> HIDE DEF strip, t, zeros
  <2> QED
    BY <1>0, <1>6, <2>1
<1>8. zeros \o digits \in Text /\ Len(zeros \o digits) = z - k + n
  <2>1. zeros \in Seq(Char) /\ Len(zeros) = z - k
    BY <1>0, <1>3, <1>4, RepIs
  <2> HIDE DEF zeros
  <2> QED
    BY <1>0, <1>3, <2>1, Concat DEF Text, n
<1> HIDE DEF rest, t, strip, zeros
<1>9. p \o (zeros \o digits) \in Text
      /\ Len(p \o (zeros \o digits)) = k + (z - k + n)
  <2> DEFINE u == zeros \o digits
  <2>1. u \in Text /\ Len(u) = z - k + n
    BY <1>0, <1>8
  <2> HIDE DEF u
  <2>2. p \o u \in Text /\ Len(p \o u) = k + Len(u)
    <3>1. p \in Seq(Char) /\ u \in Seq(Char)
      BY <1>2, <2>1 DEF Text
    <3>2. p \o u \in Seq(Char) /\ Len(p \o u) = Len(p) + Len(u)
      BY <3>1, ConcatProperties
    <3> QED
      BY <1>2, <3>2 DEF Text
  <2> QED
    BY <2>1, <2>2 DEF u
<1>10. Len(p \o (zeros \o digits)) <= NtoaSize
  BY <1>0, <1>3, <1>9, NtoaSizeIs DEF z
<1>11. End(p \o (zeros \o digits), NtoaSize) = p \o (zeros \o digits)
  BY <1>0, <1>9, <1>10, NtoaSizeIs, EndIs DEF Text
<1>12. Hashed(t, base, w, flags) = p \o (zeros \o digits)
  BY <1>0, <1>1, <1>2, <1>7, <1>11
<1>13. z - k = w - Len(p) - Len(digits)
  <2>1. z = w - n /\ Len(digits) = n
    BY DEF z, n
  <2>2. w - Len(p) - Len(digits) = w - k - n
    BY <1>0, <1>2, <2>1
  <2>3. n \in Nat /\ k \in Nat
    BY <1>0, <1>3
  <2>4. z - k = w - k - n
    BY <1>0, <2>1, <2>3
  <2> QED
    BY <1>0, <2>2, <2>4
<1> QED
  BY <1>0, <1>12, <1>13 DEF t, zeros, p, z, n

(* Zeros in front of a text are a text; none are no character.             *)
LEMMA ZeroText ==
  ASSUME NEW digits \in Text, NEW z \in Int
  PROVE  /\ Rep("0", z) \in Text /\ Rep("0", z) \o digits \in Text
         /\ Len(Rep("0", z)) = Larger(z, 0)
         /\ Len(Rep("0", z) \o digits) = Larger(z, 0) + Len(digits)
         /\ z <= 0 => Rep("0", z) = << >> /\ Rep("0", z) \o digits = digits
<1>1. "0" \in Char
  BY LettersAre DEF Letters
<1> DEFINE r == Rep("0", z)
<1>2. r \in Seq(Char) /\ Len(r) = Larger(z, 0) /\ (z <= 0 => r = << >>)
  BY <1>1, RepIs DEF Larger
<1> HIDE DEF r
<1>3. r \o digits \in Text /\ Len(r \o digits) = Larger(z, 0) + Len(digits)
  BY <1>2, ConcatProperties DEF Text
<1>4. << >> \o digits = digits
  BY ConcatEmptySeq DEF Text
<1> QED
  BY <1>2, <1>3, <1>4 DEF Text, r

(* The text in front of which the sign is put.                             *)
LEMMA PrefixedIs ==
  ASSUME NEW digits, NEW negative, NEW base, NEW prec, NEW width, NEW flags,
         Fits(digits, negative, base, prec, width, flags)
  PROVE  LET w == ZeroWidth(negative, width, flags)
             g == Sign(negative, flags)
             p == Prefix(base, flags)
         IN Prefixed(Filled(Top(prec, w, flags), digits), base, w, flags) =
              p \o (Zeros(g, p, digits, prec, width, flags) \o digits)
<1> DEFINE w == ZeroWidth(negative, width, flags)
           g == Sign(negative, flags)
           p == Prefix(base, flags)
           top == IF "PRECISION" \in flags THEN prec
                  ELSE IF Fills(flags) THEN w ELSE 0
           zeros == Rep("0", top - Len(digits)) \o digits
           n == Len(digits)
           least == Least(g, p, prec, width, flags)
           R == Rep("0", least - n) \o digits
           k == IF base = 16 THEN 2 ELSE 1
<1>0. digits \in Text /\ prec \in Nat /\ width \in Nat
  BY DEF Fits
<1>1. /\ digits \in Text /\ prec \in Nat /\ width \in Nat
      /\ n \in Nat /\ NtoaSize \in Nat /\ k \in Nat /\ w \in Nat
      /\ w = IF width > 0 /\ Fills(flags) /\ g # << >> THEN width - 1
             ELSE width
  BY <1>0, ZeroWidthFills, NtoaSizeIs DEF Text
<1>2. Len(g) = IF g = << >> THEN 0 ELSE 1
  BY DEF Sign
<1>3. /\ p \in Text /\ Len(p) = IF "HASH" \notin flags THEN 0 ELSE k
      /\ "HASH" \notin flags => p = << >>
  BY PrefixIs DEF Prefix
<1>4. /\ least = IF "PRECISION" \in flags THEN prec
                 ELSE IF Fills(flags) THEN width - Len(g) - Len(p) ELSE 0
      /\ top = IF "PRECISION" \in flags THEN prec
               ELSE IF Fills(flags) THEN w ELSE 0
  BY DEF Least
<1>5. /\ n + 3 <= NtoaSize /\ prec + 3 <= NtoaSize
      /\ Fills(flags) => width <= NtoaSize
      /\ "HASH" \in flags => base \in {8, 16} /\ g = << >>
      /\ "HASH" \in flags /\ "PRECISION" \notin flags /\ Fills(flags)
           => width \notin n .. n + k - 1
      /\ "HASH" \in flags /\ "PRECISION" \notin flags /\ ~Fills(flags)
           => width # n
  BY DEF Fits
<1> HIDE DEF w, g, top, least, n, k
<1>6. Zeros(g, p, digits, prec, width, flags) \o digits = R
  BY DEF Zeros, least, n
<1>7. zeros = Rep("0", top - n) \o digits
  BY DEF n
<1>8. \A t \in Text : << >> \o t = t
  BY ConcatEmptySeq DEF Text
<1>9. ASSUME "HASH" \in flags, Len(p) + Len(zeros) <= NtoaSize,
             "PRECISION" \in flags \/ Len(zeros) # w, zeros \in Text
      PROVE  Hashed(zeros, base, w, flags) = p \o zeros
  <2> HIDE DEF zeros
  <2>1. base # 2
    BY <1>5, <1>9
  <2> QED
    BY <1>9, <2>1, HashedInFront
<1>10. ASSUME "HASH" \in flags, "PRECISION" \notin flags, w <= NtoaSize,
              Len(digits) + Len(p) <= w
       PROVE  Hashed(Rep("0", w - Len(digits)) \o digits, base, w, flags) =
                p \o (Rep("0", w - Len(p) - Len(digits)) \o digits)
  <2>1. base # 2 /\ w \in Nat
    BY <1>1, <1>5, <1>10
  <2>2. OverZeros(digits, base, w, flags)
    BY <1>1, <1>10, <2>1 DEF OverZeros
  <2> HIDE DEF zeros, R
  <2> QED
    BY <2>2, HashedOverZeros
<1> HIDE DEF p
<1>11. least \in Int /\ top \in Int /\ least - n \in Int /\ top - n \in Int
  BY <1>1, <1>2, <1>3, <1>4
<1>12. /\ R \in Text /\ (least - n <= 0 => R = digits)
       /\ zeros \in Text /\ Len(zeros) = Larger(top - n, 0) + n
       /\ (top - n <= 0 => zeros = digits)
  BY <1>1, <1>7, <1>11, ZeroText DEF n
<1>13. least = top => zeros = R
  BY <1>7
<1> HIDE DEF zeros, R
<1>14. CASE "HASH" \notin flags
  <2>1. p = << >> /\ Len(p) = 0
    BY <1>3, <1>14
  <2>2. least = top \/ (least - n <= 0 /\ top - n <= 0)
    <3>1. CASE "PRECISION" \in flags
      BY <1>4, <3>1
    <3>2. CASE "PRECISION" \notin flags /\ ~Fills(flags)
      BY <1>4, <3>2
    <3>3. CASE "PRECISION" \notin flags /\ Fills(flags)
      BY <1>1, <1>2, <1>4, <2>1, <3>3
    <3> QED
      BY <3>1, <3>2, <3>3
  <2>3. zeros = R
    BY <1>12, <1>13, <2>2
  <2>4. p \o R = R
    BY <1>8, <1>12, <2>1
  <2> QED
    BY <1>6, <1>14, <2>3, <2>4 DEF zeros, g, p, w, top,
                              Prefixed, Filled, Top
<1>15. CASE "HASH" \in flags
  <2>1. Len(p) = k /\ k <= 2 /\ w = width /\ Len(g) = 0
    BY <1>1, <1>2, <1>3, <1>5, <1>15 DEF k
  <2>2. Hashed(zeros, base, w, flags) = p \o R
    <3>1. CASE "PRECISION" \in flags
      <4>1. least = prec /\ top = prec
        BY <1>4, <3>1
      <4>2. Len(p) + Len(zeros) <= NtoaSize
        BY <1>1, <1>5, <1>12, <2>1, <4>1 DEF Larger
      <4> QED
        BY <1>9, <1>12, <1>13, <1>15, <3>1, <4>1, <4>2
    <3>2. CASE "PRECISION" \notin flags /\ ~Fills(flags)
      <4>1. least = 0 /\ top = 0 /\ n # width
        BY <1>4, <1>5, <1>15, <3>2
      <4>2. Len(zeros) = n
        BY <1>1, <1>12, <4>1 DEF Larger
      <4>3. Len(p) + Len(zeros) <= NtoaSize /\ Len(zeros) # w
        BY <1>1, <1>5, <2>1, <4>1, <4>2
      <4> QED
        BY <1>9, <1>12, <1>13, <1>15, <4>1, <4>3
    <3>3. CASE "PRECISION" \notin flags /\ Fills(flags)
      <4>1. least = width - k /\ top = width /\ width <= NtoaSize
        BY <1>1, <1>4, <1>5, <2>1, <3>3
      <4>2. width < n \/ n + k <= width
        <5>1. width \notin n .. n + k - 1
          BY <1>5, <1>15, <3>3
        <5> QED
          BY <1>1, <5>1
      <4>3. CASE width < n
        <5>1. zeros = digits /\ R = digits /\ Len(zeros) = n
          BY <1>1, <1>12, <4>1, <4>3 DEF n
        <5>2. Len(p) + Len(zeros) <= NtoaSize /\ Len(zeros) # w
          BY <1>1, <1>5, <2>1, <4>3, <5>1
        <5> QED
          BY <1>9, <1>12, <1>15, <5>1, <5>2
      <4>4. CASE n + k <= width
        <5>1. w <= NtoaSize /\ Len(digits) + Len(p) <= w
          BY <1>1, <2>1, <4>1, <4>4 DEF n
        <5>2. Hashed(Rep("0", w - Len(digits)) \o digits, base, w, flags) =
                p \o (Rep("0", w - Len(p) - Len(digits)) \o digits)
          BY <1>10, <1>15, <3>3, <5>1
        <5>3. zeros = Rep("0", w - Len(digits)) \o digits
          BY <1>7, <2>1, <4>1 DEF n
        <5>4. w - Len(p) - Len(digits) = least - n
          BY <2>1, <4>1 DEF n
        <5> QED
          BY <5>2, <5>3, <5>4 DEF R
      <4> QED
        BY <4>2, <4>3, <4>4
    <3> QED
      BY <3>1, <3>2, <3>3
  <2> QED
    BY <1>6, <1>15, <2>2 DEF zeros, g, p, w, top,
                              Prefixed, Filled, Top
<1> QED
  BY <1>14, <1>15

(* In all: the sign, the prefix, the zeros and the digits, in the width.   *)
LEMMA FormatIs ==
  ASSUME NEW digits, NEW negative, NEW base, NEW prec, NEW width, NEW flags,
         Fits(digits, negative, base, prec, width, flags)
  PROVE  LET g == Sign(negative, flags)
             p == Prefix(base, flags)
         IN ntoa_format(digits, negative, base, prec, width, flags) =
              Spaced(g \o (p \o (Zeros(g, p, digits, prec, width, flags)
                                   \o digits)), width, flags)
<1> DEFINE w == ZeroWidth(negative, width, flags)
           g == Sign(negative, flags)
           p == Prefix(base, flags)
           n == Len(digits)
           least == Least(g, p, prec, width, flags)
           R == Zeros(g, p, digits, prec, width, flags) \o digits
           T == g \o (p \o R)
           most == IF "LEFT" \in flags THEN 0
                   ELSE Larger(prec, IF "ZEROPAD" \in flags THEN w ELSE 0)
           top == IF "PRECISION" \in flags THEN prec
                  ELSE IF Fills(flags) THEN w ELSE 0
           zeros == Rep("0", Smaller(most, NtoaSize) - Len(digits)) \o digits
           text == IF "HASH" \in flags THEN Hashed(zeros, base, w, flags)
                   ELSE zeros
<1>0. digits \in Text /\ prec \in Nat /\ width \in Nat
  BY DEF Fits
<1>1. /\ digits \in Text /\ prec \in Nat /\ width \in Nat
      /\ n \in Nat /\ NtoaSize \in Nat /\ w \in Nat
      /\ w = IF width > 0 /\ Fills(flags) /\ g # << >> THEN width - 1
             ELSE width
  BY <1>0, ZeroWidthFills, NtoaSizeIs DEF Text
<1>2. /\ n + 3 <= NtoaSize /\ prec + 3 <= NtoaSize
      /\ "PRECISION" \in flags => "LEFT" \notin flags /\ "ZEROPAD" \notin flags
      /\ "PRECISION" \notin flags => prec = 0
      /\ Fills(flags) => width <= NtoaSize
      /\ "HASH" \in flags => g = << >>
  BY DEF Fits
<1>3. ntoa_format(digits, negative, base, prec, width, flags) =
        out_rev(End(g \o text, NtoaSize), w, flags)
  BY Zenon DEF ntoa_format
<1>4. Smaller(most, NtoaSize) = top
  <2>1. Fills(flags) => w <= NtoaSize
    <3> HIDE DEF w, g
    <3> QED
      BY <1>1, <1>2
  <2>2. n + 3 <= NtoaSize /\ prec + 3 <= NtoaSize
    BY <1>2
  <2> HIDE DEF w
  <2> QED
    BY <1>1, <1>2, <2>1, <2>2, ZerosAre
<1>5. text = p \o R
  <2>1. zeros = Rep("0", top - Len(digits)) \o digits
    BY <1>4
  <2> DEFINE others == Rep("0", top - Len(digits)) \o digits
  <2>2. Prefixed(Filled(Top(prec, w, flags), digits), base, w, flags) = p \o R
    <3> HIDE DEF n, least, T, most, top, zeros, text, others
    <3> QED
      BY PrefixedIs
  <2> HIDE DEF zeros, others, w, p, R
  <2>3. zeros = others
    BY <2>1 DEF others
  <2> QED
    BY <2>2, <2>3, Zenon DEF Prefixed, Filled, Top, others, text
<1>6. g \in Text /\ Len(g) = IF g = << >> THEN 0 ELSE 1
  BY SignIs
<1>7. /\ p \in Text /\ Len(p) \in 0 .. 2
      /\ "HASH" \notin flags => Len(p) = 0
  BY PrefixIs
<1>8. least = IF "PRECISION" \in flags THEN prec
              ELSE IF Fills(flags) THEN width - Len(g) - Len(p) ELSE 0
  BY DEF Least
<1>9. R = Rep("0", least - n) \o digits
  BY DEF Zeros
<1> HIDE DEF w, g, p, n, least, R, most, top, zeros, text
<1>10. R \in Text /\ Len(R) = Larger(least - n, 0) + n
  <2>1. least - n \in Int
    BY <1>1, <1>6, <1>7, <1>8
  <2> QED
    BY <1>1, <1>9, <2>1, ZeroText DEF n
<1>11. T \in Text /\ Len(T) = Len(g) + (Len(p) + Len(R))
  <2> DEFINE u == p \o R
  <2>1. u \in Text /\ Len(u) = Len(p) + Len(R)
    BY <1>7, <1>10, Concat DEF Text
  <2> HIDE DEF u
  <2>2. g \o u \in Text /\ Len(g \o u) = Len(g) + Len(u)
    BY <1>6, <2>1, ConcatProperties DEF Text
  <2> QED
    BY <2>1, <2>2 DEF u
<1> HIDE DEF T
<1>12. /\ Len(T) \in Nat /\ Len(T) <= NtoaSize
       /\ Fills(flags) => Len(T) >= width
  <2>1. Len(g) \in 0 .. 1 /\ Len(g) + Len(p) <= 3
    <3>1. Len(g) = 0 \/ Len(g) = 1
      BY <1>6
    <3>2. Len(p) = 0 \/ Len(p) = 1 \/ Len(p) = 2
      BY <1>7
    <3> DEFINE a == Len(g)
               b == Len(p)
    <3>3. (a = 0 \/ a = 1) /\ (b = 0 \/ b = 1 \/ b = 2)
      BY <3>1, <3>2
    <3> HIDE DEF a, b
    <3>4. a \in 0 .. 1 /\ a + b <= 3
      BY <3>3
    <3> QED
      BY <3>4 DEF a, b
  <2>2. CASE "PRECISION" \in flags
    <3>1. least = prec /\ ~Fills(flags)
      BY <1>2, <1>8, <2>2 DEF Fills
    <3> QED
      BY <1>1, <1>2, <1>7, <1>10, <1>11, <2>1, <3>1 DEF Larger
  <2>3. CASE "PRECISION" \notin flags /\ ~Fills(flags)
    <3>1. least = 0
      BY <1>8, <2>3
    <3> QED
      BY <1>1, <1>2, <1>7, <1>10, <1>11, <2>1, <2>3, <3>1 DEF Larger
  <2>4. CASE "PRECISION" \notin flags /\ Fills(flags)
    <3>1. least = width - Len(g) - Len(p) /\ width <= NtoaSize
      BY <1>2, <1>8, <2>4
    <3> QED
      BY <1>1, <1>2, <1>7, <1>10, <1>11, <2>1, <3>1 DEF Larger
  <2> QED
    BY <2>2, <2>3, <2>4
<1>13. End(g \o text, NtoaSize) = T
  <2>1. End(T, NtoaSize) = T
    BY <1>11, <1>12, NtoaSizeIs, EndIs DEF Text
  <2> QED
    BY <1>5, <2>1 DEF T
<1>14. out_rev(T, w, flags) = Spaced(T, width, flags)
  <2>1. CASE Fills(flags)
    <3>1. out_rev(T, w, flags) = T
      BY <2>1 DEF out_rev, Fills
    <3>2. Rep(" ", width - Len(T)) = << >>
      <4>1. width - Len(T) \in Int /\ width - Len(T) <= 0
        BY <1>1, <1>12, <2>1
      <4>2. " " \in Char
        BY LettersAre DEF Letters
      <4> QED
        BY <4>1, <4>2, RepIs
    <3>3. << >> \o T = T
      BY <1>11, ConcatEmptySeq DEF Text
    <3>4. Spaced(T, width, flags) = Rep(" ", width - Len(T)) \o T
      BY <2>1 DEF Spaced, Fills
    <3> QED
      BY <3>1, <3>2, <3>3, <3>4
  <2>2. CASE ~Fills(flags)
    <3>1. w = width
      BY <1>1, <2>2
    <3>2. "LEFT" \in flags \/ "ZEROPAD" \notin flags
      BY <2>2 DEF Fills
    <3> QED
      BY <3>1, <3>2, Zenon DEF out_rev, Spaced
  <2> QED
    BY <2>1, <2>2
<1> QED
  BY <1>3, <1>13, <1>14 DEF T, R, g, p

-----------------------------------------------------------------------------
(* What an integer's conversion gives to ntoa_format.                      *)
Magnitude(s) == IF Value(s) < 0 THEN -Value(s) ELSE Value(s)
NtoaFlags(s) ==
  LET none == (IF Base(s.kind) = 10 THEN {"HASH"} ELSE {})
              \cup (IF s.kind \in Unsigned THEN {"PLUS", "SPACE"} ELSE {})
              \cup (IF s.precision # None THEN {"ZEROPAD"} ELSE {})
  IN (Flags(s) \ none) \cup (IF s.kind = "X" THEN {"UPPERCASE"} ELSE {})
FormatFlags(s) == IF Magnitude(s) = 0 THEN NtoaFlags(s) \ {"HASH"}
                  ELSE NtoaFlags(s)
NtoaDigits(s) == IF s.precision # None /\ Magnitude(s) = 0 THEN << >>
                 ELSE Number(s)

LEMMA KindsAre ==
  ASSUME NEW s \in IntegerSpecs
  PROVE  /\ s.kind \in {"d", "u", "x", "X", "o", "b"}
         /\ s.width \in Int /\ s.precision \in Int
         /\ s.flags \subseteq {"ZEROPAD", "LEFT", "PLUS", "SPACE", "HASH"}
         /\ s.kind \in Signed <=> s.kind = "d"
         /\ s.kind \in Unsigned <=> s.kind # "d"
         /\ Base(s.kind) = IF s.kind \in {"x", "X"} THEN 16
                           ELSE IF s.kind = "o" THEN 8
                           ELSE IF s.kind = "b" THEN 2 ELSE 10
BY FormatAssumption DEF IntegerSpecs, Signed, Unsigned, AllFlags, Base

(* The flags that are left.                                                *)
LEMMA FlagsAre ==
  ASSUME NEW s \in IntegerSpecs
  PROVE  /\ "LEFT" \in FormatFlags(s) <=> "LEFT" \in Flags(s)
         /\ "PRECISION" \in FormatFlags(s) <=> s.precision # None
         /\ "ZEROPAD" \in FormatFlags(s) <=>
              "ZEROPAD" \in s.flags /\ s.precision = None
         /\ "HASH" \in FormatFlags(s) <=>
              /\ "HASH" \in s.flags /\ Magnitude(s) # 0
              /\ s.kind \in {"x", "X", "o", "b"}
         /\ "UPPERCASE" \in FormatFlags(s) <=> s.kind = "X"
         /\ "UPPERCASE" \in NtoaFlags(s) <=> s.kind = "X"
         /\ "PRECISION" \in NtoaFlags(s) <=> s.precision # None
         /\ "PLUS" \in FormatFlags(s) <=> "PLUS" \in s.flags /\ s.kind = "d"
         /\ "SPACE" \in FormatFlags(s) <=> "SPACE" \in s.flags /\ s.kind = "d"
<1>1. Base(s.kind) = 10 <=> s.kind \in {"d", "u"}
  BY KindsAre
<1> HIDE DEF None
<1>2. \A x \in {"ZEROPAD", "PLUS", "SPACE", "HASH", "UPPERCASE"} :
        x \in Flags(s) <=> x \in s.flags
  BY DEF Flags
<1>3. "UPPERCASE" \notin s.flags
  BY KindsAre
<1>4. "PRECISION" \in Flags(s) <=> s.precision # None
  BY KindsAre DEF Flags
<1>5. \A x : x \in NtoaFlags(s) <=>
        \/ /\ x \in Flags(s)
           /\ ~(Base(s.kind) = 10 /\ x = "HASH")
           /\ ~(s.kind \in Unsigned /\ x \in {"PLUS", "SPACE"})
           /\ ~(s.precision # None /\ x = "ZEROPAD")
        \/ s.kind = "X" /\ x = "UPPERCASE"
  BY DEF NtoaFlags
<1>6. \A x : x \in FormatFlags(s) <=>
        x \in NtoaFlags(s) /\ ~(Magnitude(s) = 0 /\ x = "HASH")
  BY DEF FormatFlags
<1> QED
  BY <1>1, <1>2, <1>3, <1>4, <1>5, <1>6, KindsAre

LEMMA NumberIs ==
  ASSUME NEW s \in IntegerSpecs
  PROVE  /\ Value(s) \in Int /\ (s.kind # "d" => Value(s) >= 0)
         /\ Magnitude(s) \in Nat /\ (Magnitude(s) = 0 <=> Value(s) = 0)
         /\ Number(s) \in Text /\ Len(Number(s)) \in Nat \ {0}
         /\ Magnitude(s) = 0 => Number(s) = <<"0">>
         /\ Number(s) = Digits(Magnitude(s), Base(s.kind),
                               IF s.kind = "X" THEN UpperChars ELSE DigitChars)
<1> DEFINE v == Value(s)
           n == Magnitude(s)
           chars == IF s.kind = "X" THEN UpperChars ELSE DigitChars
<1>1. v \in Int /\ (s.kind # "d" => v >= 0)
  BY ValueIs, KindsAre
<1>2. n \in Nat /\ (n = 0 <=> v = 0)
  <2>1. n = IF v < 0 THEN -v ELSE v
    BY DEF Magnitude
  <2> HIDE DEF n, v
  <2> QED
    BY <1>1, <2>1
<1>3. Number(s) = Digits(n, Base(s.kind), chars)
  BY Zenon DEF Number, Magnitude
<1>4. chars \in Charts /\ chars[1] = "0" /\ Base(s.kind) \in Bases
  BY ChartsAre, BaseIs
<1> HIDE DEF n, chars, v
<1>5. Number(s) \in Text /\ Len(Number(s)) \in Nat \ {0}
  BY <1>2, <1>3, <1>4, DigitsAreText DEF Text
<1>6. n = 0 => Number(s) = <<"0">>
  BY <1>3, <1>4, DigitsOfZero
<1> QED
  BY <1>1, <1>2, <1>3, <1>5, <1>6 DEF n, chars, v

(* What AsC says of a specification.                                       *)
LEMMA AsCIs ==
  ASSUME NEW s \in IntegerSpecs, AsC(s)
  PROVE  /\ s.precision >= None /\ ~(s.kind = "b" /\ "HASH" \in s.flags)
         /\ ~("LEFT" \in Flags(s) /\ s.precision # None)
         /\ Len(Number(s)) + 3 <= NtoaSize /\ s.precision + 3 <= NtoaSize
         /\ "ZEROPAD" \in s.flags /\ "LEFT" \notin Flags(s)
              => Width(s) <= NtoaSize
         /\ "HASH" \in s.flags /\ s.kind \in {"x", "X", "o"} /\ Value(s) # 0 =>
              IF s.precision # None THEN s.kind # "o"
              ELSE IF "ZEROPAD" \in s.flags /\ "LEFT" \notin Flags(s)
                   THEN Width(s) \notin Len(Number(s)) ..
                          Len(Number(s)) + (IF s.kind = "o" THEN 1 ELSE 2) - 1
              ELSE Width(s) # Len(Number(s))
<1> DEFINE digits == Number(s)
           prefix == CASE s.kind \in {"x", "X"} -> 2 [] s.kind = "o" -> 1
                       [] OTHER -> 0
           hash == "HASH" \in s.flags /\ prefix > 0 /\ Value(s) # 0
           zeros == "ZEROPAD" \in s.flags /\ "LEFT" \notin Flags(s)
<1>1. /\ s.precision >= None /\ ~(s.kind = "b" /\ "HASH" \in s.flags)
      /\ ~("LEFT" \in Flags(s) /\ s.precision # None)
      /\ Larger(Len(digits), s.precision) + 3 <= NtoaSize
      /\ zeros => Width(s) <= NtoaSize
      /\ hash => IF s.precision # None THEN s.kind # "o"
                 ELSE IF zeros THEN Width(s) \notin Len(digits) ..
                                                    Len(digits) + prefix - 1
                 ELSE Width(s) # Len(digits)
  BY Zenon DEF AsC
<1>2. Len(digits) \in Nat /\ s.precision \in Int /\ NtoaSize \in Nat
  BY NumberIs, KindsAre, NtoaSizeIs
<1>3. Len(digits) + 3 <= NtoaSize /\ s.precision + 3 <= NtoaSize
  <2> DEFINE n == Len(digits)
  <2> HIDE DEF n
  <2>1. Larger(n, s.precision) + 3 <= NtoaSize
    BY <1>1 DEF n
  <2>2. n + 3 <= NtoaSize /\ s.precision + 3 <= NtoaSize
    BY <1>2, <2>1 DEF Larger, n
  <2> QED
    BY <2>2 DEF n
<1>4. ASSUME s.kind \in {"x", "X", "o"}
      PROVE  prefix = (IF s.kind = "o" THEN 1 ELSE 2) /\ prefix > 0
  BY <1>4
<1> QED
  BY <1>1, <1>3, <1>4

LEMMA IntegerFits ==
  ASSUME NEW s \in IntegerSpecs, AsC(s)
  PROVE  Fits(NtoaDigits(s), Value(s) < 0, Base(s.kind), Precision(s),
              Width(s), FormatFlags(s))
<1> DEFINE d == NtoaDigits(s)
           f == FormatFlags(s)
           W == Width(s)
           P == Precision(s)
           b == Base(s.kind)
           N == Number(s)
<1>1. /\ s.width \in Int /\ s.precision \in Int /\ s.precision >= -1
      /\ NtoaSize \in Nat
  BY KindsAre, AsCIs, NtoaSizeIs DEF None
<1>2. W \in Nat
  BY <1>1 DEF Width
<1>3. /\ P \in Nat /\ (s.precision = None => P = 0)
      /\ P = IF s.precision = None THEN 0 ELSE s.precision
  BY <1>1 DEF Precision, Larger, None
<1>4. N \in Text /\ Len(N) \in Nat \ {0}
  BY NumberIs
<1>5. Len(N) + 3 <= NtoaSize /\ s.precision + 3 <= NtoaSize
  BY AsCIs
<1>6. d = IF s.precision # None /\ Magnitude(s) = 0 THEN << >> ELSE N
  BY DEF NtoaDigits
<1>7. << >> \in Text /\ Len(<< >>) = 0
  BY DEF Text
<1> HIDE DEF d, W, P, N, b
<1>8. d \in Text /\ Len(d) + 3 <= NtoaSize
  BY <1>1, <1>4, <1>5, <1>6, <1>7
<1>9. P + 3 <= NtoaSize
  BY <1>1, <1>3, <1>4, <1>5
<1>10. "PRECISION" \in f => "LEFT" \notin f /\ "ZEROPAD" \notin f
  BY FlagsAre, AsCIs
<1>11. "PRECISION" \notin f => P = 0
  BY <1>3, FlagsAre
<1>12. Fills(f) => W <= NtoaSize
  BY FlagsAre, AsCIs DEF Fills, W
<1>13. ASSUME "HASH" \in f
       PROVE  /\ b \in {8, 16} /\ Sign(Value(s) < 0, f) = << >>
              /\ IF "PRECISION" \in f THEN b = 16
                 ELSE IF Fills(f)
                      THEN W \notin Len(d) ..
                                     Len(d) + (IF b = 16 THEN 2 ELSE 1) - 1
                 ELSE W # Len(d)
  <2>1. /\ s.kind \in {"x", "X", "o"} /\ "HASH" \in s.flags
        /\ Magnitude(s) # 0 /\ Value(s) # 0
    BY <1>13, FlagsAre, AsCIs, NumberIs
  <2>2. /\ d = N /\ b = IF s.kind = "o" THEN 8 ELSE 16
    BY <1>6, <2>1, KindsAre DEF b
  <2>3. ~(Value(s) < 0)
    BY <2>1, NumberIs
  <2>4. Sign(Value(s) < 0, f) = << >>
    BY <2>1, <2>3, FlagsAre DEF Sign
  <2>5. IF s.precision # None THEN s.kind # "o"
        ELSE IF "ZEROPAD" \in s.flags /\ "LEFT" \notin Flags(s)
             THEN W \notin Len(N) .. Len(N) + (IF s.kind = "o" THEN 1 ELSE 2) - 1
        ELSE W # Len(N)
    BY <2>1, AsCIs DEF W, N
  <2>6. /\ "PRECISION" \in f <=> s.precision # None
        /\ s.precision = None =>
             (Fills(f) <=> "ZEROPAD" \in s.flags /\ "LEFT" \notin Flags(s))
    BY FlagsAre DEF Fills
  <2>7. CASE s.kind = "o"
    BY <2>2, <2>4, <2>5, <2>6, <2>7
  <2>8. CASE s.kind # "o"
    BY <2>2, <2>4, <2>5, <2>6, <2>8
  <2> QED
    BY <2>7, <2>8
<1> HIDE DEF f
<1> QED
  BY <1>2, <1>3, <1>8, <1>9, <1>10, <1>11, <1>12, <1>13 DEF Fits, d, W, P, b, f

(* The text of an integer, as ntoa_format arranges it.                     *)
LEMMA IntegerTextIs ==
  ASSUME NEW s \in IntegerSpecs, AsC(s)
  PROVE  LET f == FormatFlags(s)
             d == NtoaDigits(s)
             g == Sign(Value(s) < 0, f)
             p == Prefix(Base(s.kind), f)
         IN TextOf(s) =
              Spaced(g \o (p \o (Zeros(g, p, d, Precision(s), Width(s), f)
                                   \o d)), Width(s), f)
<1> DEFINE M == Magnitude(s)
           N == Number(s)
           d == NtoaDigits(s)
           chars == IF "UPPERCASE" \in NtoaFlags(s) THEN UpperChars
                    ELSE DigitChars
           digits == IF "PRECISION" \in NtoaFlags(s) /\ M = 0 THEN << >>
                     ELSE End(Digits(M, Base(s.kind), chars), NtoaSize)
<1>1. TextOf(s) = IntegerText(s)
  <2>1. s.kind \in Signed \cup Unsigned
    BY DEF IntegerSpecs
  <2> QED
    BY <2>1, Zenon DEF TextOf, Signed, Unsigned
<1>2. IntegerText(s) = ntoa(M, Value(s) < 0, Base(s.kind), Precision(s),
                            Width(s), NtoaFlags(s))
  BY Zenon DEF IntegerText, NtoaFlags, Magnitude
<1>3. ntoa(M, Value(s) < 0, Base(s.kind), Precision(s), Width(s), NtoaFlags(s))
        = ntoa_format(digits, Value(s) < 0, Base(s.kind), Precision(s),
                      Width(s), FormatFlags(s))
  BY Zenon DEF ntoa, FormatFlags
<1>4. digits = d
  <2>1. chars = IF s.kind = "X" THEN UpperChars ELSE DigitChars
    BY FlagsAre
  <2>2. Digits(M, Base(s.kind), chars) = N
    <3> HIDE DEF M, N, chars
    <3> QED
      BY <2>1, NumberIs DEF M, N
  <2>3. N \in Seq(Char) /\ Len(N) <= NtoaSize
    <3>1. Len(N) + 3 <= NtoaSize /\ Len(N) \in Nat /\ NtoaSize \in Nat
      BY AsCIs, NumberIs, NtoaSizeIs
    <3>2. N \in Seq(Char)
      BY NumberIs DEF Text
    <3> HIDE DEF N
    <3> QED
      BY <3>1, <3>2
  <2> HIDE DEF N
  <2>4. End(N, NtoaSize) = N
    BY <2>3, NtoaSizeIs, EndIs
  <2>5. d = IF s.precision # None /\ M = 0 THEN << >> ELSE N
    BY DEF NtoaDigits, N
  <2> HIDE DEF M, chars, d
  <2> QED
    BY <2>2, <2>4, <2>5, FlagsAre
<1> HIDE DEF M, N, d, chars, digits
<1>5. TextOf(s) = ntoa_format(d, Value(s) < 0, Base(s.kind), Precision(s),
                              Width(s), FormatFlags(s))
  BY <1>1, <1>2, <1>3, <1>4
<1>6. Fits(d, Value(s) < 0, Base(s.kind), Precision(s), Width(s),
           FormatFlags(s))
  BY IntegerFits DEF d
<1> QED
  BY <1>5, <1>6, FormatIs DEF d

AreTexts(g, p, z, d) == g \in Text /\ p \in Text /\ z \in Text /\ d \in Text

LEMMA JoinedInTurn ==
  ASSUME NEW s \in Seq(Char), NEW t \in Seq(Char), NEW u \in Seq(Char)
  PROVE  (s \o t) \o u = s \o (t \o u)
BY ConcatAssociative

LEMMA FourTexts ==
  ASSUME NEW g, NEW p, NEW z, NEW d, AreTexts(g, p, z, d)
  PROVE  g \o p \o z \o d = g \o (p \o (z \o d))
<1>1. /\ g \in Seq(Char) /\ p \in Seq(Char) /\ z \in Seq(Char)
      /\ d \in Seq(Char)
  BY DEF AreTexts, Text
<1> DEFINE q == g \o p
           t == z \o d
<1>2. q \in Seq(Char) /\ t \in Seq(Char)
  BY <1>1, ConcatProperties
<1>3. (g \o p) \o t = g \o (p \o t)
  <2> HIDE DEF t
  <2> QED
    BY <1>1, <1>2, JoinedInTurn, SMTT(60)
<1>4. (q \o z) \o d = q \o (z \o d)
  <2> HIDE DEF q
  <2> QED
    BY <1>1, <1>2, JoinedInTurn, SMTT(60)
<1> QED
  BY <1>3, <1>4

LEMMA PrintedAsC ==
  ASSUME NEW s \in IntegerSpecs, AsC(s)
  PROVE  TextOf(s) = CText(s)
<1> DEFINE f == FormatFlags(s)
           d == NtoaDigits(s)
           g == Sign(Value(s) < 0, f)
           p == Prefix(Base(s.kind), f)
           N == Number(s)
           W == Width(s)
           Z == Zeros(g, p, d, Precision(s), W, f)
           sign == IF s.kind \in Signed THEN Sign(Value(s) < 0, s.flags)
                   ELSE << >>
           prefix == IF "HASH" \notin s.flags \/ Value(s) = 0 THEN << >>
                     ELSE CASE s.kind \in {"x", "X"} -> <<"0", s.kind>>
                            [] s.kind = "o" -> <<"0">> [] OTHER -> << >>
           digits == IF Value(s) = 0 /\ s.precision = 0 THEN << >> ELSE N
           least == IF s.precision = None /\ "ZEROPAD" \in s.flags
                      /\ "LEFT" \notin Flags(s)
                    THEN W - Len(sign) - Len(prefix) ELSE s.precision
           zeros == Rep("0", least - Len(digits))
<1>1. CText(s) = Spaced(sign \o prefix \o zeros \o digits, W, Flags(s))
  BY Zenon DEF CText, Spaced
<1>2. TextOf(s) = Spaced(g \o (p \o (Z \o d)), W, f)
  BY IntegerTextIs
<1>3. /\ s.kind \in {"d", "u", "x", "X", "o", "b"}
      /\ s.precision \in Int /\ s.precision >= -1 /\ W \in Int
  BY KindsAre, AsCIs DEF None, Width
<1>4. sign = g
  <2>1. CASE s.kind = "d"
    <3>1. sign = Sign(Value(s) < 0, s.flags)
      BY <2>1, KindsAre
    <3>2. /\ "PLUS" \in f <=> "PLUS" \in s.flags
          /\ "SPACE" \in f <=> "SPACE" \in s.flags
      BY <2>1, FlagsAre
    <3> HIDE DEF sign, f
    <3> QED
      BY <3>1, <3>2, Zenon DEF Sign
  <2>2. CASE s.kind # "d"
    <3>1. sign = << >>
      BY <2>2, KindsAre
    <3>2. "PLUS" \notin f /\ "SPACE" \notin f /\ ~(Value(s) < 0)
      BY <2>2, FlagsAre, NumberIs
    <3> HIDE DEF sign, f
    <3> QED
      BY <3>1, <3>2 DEF Sign
  <2> QED
    BY <2>1, <2>2
<1>5. prefix = p
  <2>1. "HASH" \in f <=> /\ "HASH" \in s.flags /\ Value(s) # 0
                         /\ s.kind \in {"x", "X", "o"}
    BY FlagsAre, AsCIs, NumberIs
  <2>2. "UPPERCASE" \in f <=> s.kind = "X"
    BY FlagsAre
  <2>3. Base(s.kind) = 16 <=> s.kind \in {"x", "X"}
    BY KindsAre
  <2> HIDE DEF f
  <2>4. CASE "HASH" \notin f
    BY <1>3, <2>1, <2>4 DEF Prefix
  <2>5. CASE "HASH" \in f /\ s.kind = "o"
    BY <2>1, <2>2, <2>3, <2>5 DEF Prefix
  <2>6. CASE "HASH" \in f /\ s.kind = "x"
    BY <2>1, <2>2, <2>3, <2>6 DEF Prefix
  <2>7. CASE "HASH" \in f /\ s.kind = "X"
    BY <2>1, <2>2, <2>3, <2>7 DEF Prefix
  <2> QED
    BY <2>1, <2>4, <2>5, <2>6, <2>7
<1>6. /\ N \in Text /\ Len(N) \in Nat \ {0}
      /\ Value(s) = 0 => N = <<"0">>
      /\ d = IF s.precision # None /\ Value(s) = 0 THEN << >> ELSE N
      /\ << >> \in Text
  BY NumberIs DEF NtoaDigits, Text
<1>7. g \in Text /\ p \in Text /\ Len(g) \in Int /\ Len(p) \in Int
  BY SignIs, PrefixIs DEF Text
<1>8. Z = Rep("0", Least(g, p, Precision(s), W, f) - Len(d))
  BY DEF Zeros
<1>9. Least(g, p, Precision(s), W, f) =
        IF s.precision # None THEN s.precision
        ELSE IF "ZEROPAD" \in s.flags /\ "LEFT" \notin Flags(s)
             THEN W - Len(g) - Len(p) ELSE 0
  <2>1. s.precision # None => Precision(s) = s.precision
    BY <1>3 DEF Precision, Larger, None
  <2>2. /\ "PRECISION" \in f <=> s.precision # None
        /\ s.precision = None =>
             (Fills(f) <=> "ZEROPAD" \in s.flags /\ "LEFT" \notin Flags(s))
    BY FlagsAre DEF Fills
  <2> HIDE DEF f, g, p, W
  <2> QED
    BY <2>1, <2>2 DEF Least
<1>10. Z \o d = zeros \o digits /\ zeros \in Text /\ digits \in Text
  <2> DEFINE m == Least(g, p, Precision(s), W, f)
  <2>1. m \in Int /\ least \in Int /\ (s.precision # None => m = least)
        /\ (m # least => m = 0 /\ least = -1)
    <3> HIDE DEF g, p, W, f
    <3>1. sign = g /\ prefix = p
      BY <1>4, <1>5
    <3> HIDE DEF sign, prefix
    <3> QED
      BY <1>3, <1>7, <1>9, <3>1 DEF None
  <2>2. zeros \in Text /\ digits \in Text
    <3>1. digits \in Text
      BY <1>6
    <3> HIDE DEF digits, least
    <3>2. least - Len(digits) \in Int
      BY <2>1, <3>1 DEF Text
    <3> QED
      BY <3>1, <3>2, ZeroText
  <2>3. CASE d = digits /\ m = least
    BY <1>8, <2>2, <2>3
  <2>4. CASE d = digits /\ m # least
    <3>1. m = 0 /\ least = -1
      BY <2>1, <2>4
    <3>2. Len(d) \in Nat /\ d \in Text
      BY <1>6 DEF Text
    <3>0. Z = Rep("0", m - Len(d)) /\ zeros = Rep("0", least - Len(digits))
      BY <1>8
    <3> HIDE DEF m, least, digits, d, Z, zeros
    <3>3. m - Len(d) \in Int /\ m - Len(d) <= 0
          /\ least - Len(d) \in Int /\ least - Len(d) <= 0
      BY <3>1, <3>2
    <3>4. Rep("0", m - Len(d)) = << >> /\ Rep("0", least - Len(d)) = << >>
      BY <3>2, <3>3, ZeroText
    <3>5. Z = << >> /\ zeros = << >>
      BY <2>4, <3>0, <3>4
    <3> QED
      BY <2>2, <2>4, <3>5
  <2>5. CASE d # digits
    <3>1. /\ s.precision # None /\ s.precision # 0 /\ Value(s) = 0
          /\ d = << >> /\ digits = <<"0">> /\ m = least /\ least = s.precision
      <4>1. digits = IF Value(s) = 0 /\ s.precision = 0 THEN << >> ELSE N
        OBVIOUS
      <4>2. s.precision # None => least = s.precision
        OBVIOUS
      <4> HIDE DEF digits, d, N, m, least
      <4>3. s.precision # None /\ Value(s) = 0
        BY <1>6, <2>5, <4>1 DEF None
      <4>4. s.precision # 0
        BY <1>6, <2>5, <4>1, <4>3
      <4> QED
        BY <1>6, <2>1, <4>1, <4>2, <4>3, <4>4
    <3>0. Z = Rep("0", m - Len(d)) /\ zeros = Rep("0", least - Len(digits))
      BY <1>8
    <3> DEFINE k == s.precision
    <3>2. k \in Nat \ {0}
      BY <1>3, <3>1 DEF None
    <3> HIDE DEF k
    <3>3. Z = Rep("0", k) /\ zeros = Rep("0", k - 1)
      <4> HIDE DEF m, least, digits, d, Z, zeros
      <4>1. m - Len(d) = k /\ least - Len(digits) = k - 1
        BY <3>1, <3>2 DEF k
      <4> QED
        BY <3>0, <4>1
    <3>4. "0" \in Char
      BY LettersAre DEF Letters
    <3>5. /\ Rep("0", k) \in Seq(Char) /\ Len(Rep("0", k)) = k
          /\ \A i \in 1 .. k : Rep("0", k)[i] = "0"
      BY <3>2, <3>4, RepIs
    <3>6. /\ Rep("0", k - 1) \in Seq(Char) /\ Len(Rep("0", k - 1)) = k - 1
          /\ \A i \in 1 .. k - 1 : Rep("0", k - 1)[i] = "0"
      BY <3>2, <3>4, RepIs
    <3> DEFINE a == Rep("0", k)
               b == Rep("0", k - 1)
               c == b \o <<"0">>
    <3>7. /\ c \in Seq(Char) /\ Len(c) = k
          /\ \A i \in 1 .. k : c[i] = IF i <= k - 1 THEN b[i] ELSE <<"0">>[i - (k - 1)]
      <4>1. <<"0">> \in Seq(Char) /\ Len(<<"0">>) = 1 /\ k - 1 \in Nat
        BY <3>2, <3>4
      <4>2. k - 1 + 1 = k
        BY <3>2
      <4> HIDE DEF b
      <4> QED
        BY <3>6, <4>1, <4>2, Concat DEF b
    <3>8. \A i \in 1 .. k : c[i] = a[i]
      <4>1. ASSUME NEW i \in 1 .. k PROVE c[i] = "0"
        <5>1. CASE i <= k - 1
          <6>1. i \in 1 .. k - 1
            BY <3>2, <5>1
          <6> QED
            BY <3>6, <3>7, <5>1, <6>1
        <5>2. CASE ~(i <= k - 1)
          <6>1. i - (k - 1) = 1
            BY <3>2, <5>2
          <6> QED
            BY <3>7, <5>2, <6>1
        <5> QED
          BY <5>1, <5>2
      <4> QED
        BY <3>5, <4>1
    <3> HIDE DEF a, c
    <3>9. a = c
      BY <3>5, <3>7, <3>8, SeqEqual DEF a
    <3>10. a \o << >> = a
      BY <3>5, ConcatEmptySeq DEF a
    <3> QED
      BY <2>2, <3>1, <3>3, <3>9, <3>10 DEF a, c
  <2> QED
    BY <2>2, <2>3, <2>4, <2>5
<1>11. sign \o prefix \o zeros \o digits = g \o (p \o (Z \o d))
  <2> HIDE DEF g, p, Z, d, zeros, digits, sign, prefix
  <2>1. g \o p \o zeros \o digits = g \o (p \o (zeros \o digits))
    <3>1. AreTexts(g, p, zeros, digits)
      BY <1>7, <1>10 DEF AreTexts
    <3> QED
      BY <3>1, FourTexts, SMTT(30)
  <2>2. g \o (p \o (zeros \o digits)) = g \o (p \o (Z \o d))
    BY <1>10
  <2> QED
    BY <1>4, <1>5, <2>1, <2>2
<1>12. \A t : Spaced(t, W, f) = Spaced(t, W, Flags(s))
  <2>1. "LEFT" \in f <=> "LEFT" \in Flags(s)
    BY FlagsAre
  <2> HIDE DEF f, W
  <2> QED
    BY <2>1, Zenon DEF Spaced
<1> HIDE DEF sign, prefix, zeros, digits, g, p, Z, d, f, W
<1> QED
  BY <1>1, <1>2, <1>11, <1>12

-----------------------------------------------------------------------------
(* _ftoa: the rounding, the digits and the text of a number.               *)

(* num / den is w and, in units of 1 / pow, frac; rest is left.            *)
IsCut(num, den, pow, w, rem, frac, rest) ==
  /\ num \in Nat /\ den \in Nat \ {0} /\ pow \in Nat \ {0}
  /\ w \in Nat /\ rem \in Nat /\ rem < den /\ num = w * den + rem
  /\ frac \in Nat /\ rest \in Nat /\ rest < den
  /\ rem * pow = frac * den + rest

LEMMA Scaled ==
  ASSUME NEW num, NEW den, NEW pow, NEW w, NEW rem, NEW frac, NEW rest,
         IsCut(num, den, pow, w, rem, frac, rest)
  PROVE  /\ frac < pow
         /\ (num * pow) \div den = w * pow + frac
         /\ (num * pow) % den = rest
<1>0. /\ num \in Nat /\ den \in Nat \ {0} /\ pow \in Nat \ {0}
      /\ w \in Nat /\ rem \in Nat /\ rem < den /\ num = w * den + rem
      /\ frac \in Nat /\ rest \in Nat /\ rest < den
      /\ rem * pow = frac * den + rest
  BY Zenon DEF IsCut
<1> USE <1>0
<1>1. frac < pow
  <2>1. SUFFICES ASSUME frac >= pow PROVE FALSE
    OBVIOUS
  <2>2. frac * den >= pow * den
    BY <2>1
  <2>3. rem * pow < den * pow
    OBVIOUS
  <2>4. pow * den = den * pow
    OBVIOUS
  <2> DEFINE a == frac * den
             b == pow * den
             c == rem * pow
             d == den * pow
  <2>5. a \in Nat /\ b \in Nat /\ c \in Nat /\ d \in Nat
    OBVIOUS
  <2>6. a >= b /\ c < d /\ b = d /\ c = a + rest
    BY <2>2, <2>3, <2>4
  <2> HIDE DEF a, b, c, d
  <2> QED
    BY <2>5, <2>6
<1>2. num * pow = (w * pow + frac) * den + rest
  <2>1. num * pow = (w * den) * pow + rem * pow
    OBVIOUS
  <2>2. (w * den) * pow = (w * pow) * den
    OBVIOUS
  <2> DEFINE u == w * pow
  <2>3. u \in Nat
    OBVIOUS
  <2>4. (u + frac) * den = u * den + frac * den
    <3> HIDE DEF u
    <3> QED
      BY <2>3
  <2> DEFINE a == num * pow
             b == (w * den) * pow
             c == frac * den
             d == u * den
             e == rem * pow
             f == (u + frac) * den
  <2>5. a \in Nat /\ b \in Nat /\ c \in Nat /\ d \in Nat /\ e \in Nat /\ f \in Nat
    OBVIOUS
  <2>6. a = b + e /\ b = d /\ f = d + c /\ e = c + rest
    BY <2>1, <2>2, <2>4
  <2>7. a = f + rest
    <3> HIDE DEF a, b, c, d, e, f
    <3> QED
      BY <2>5, <2>6
  <2> QED
    BY <2>7
<1> DEFINE q == w * pow + frac
           x == num * pow
<1>3. q \in Nat /\ x \in Nat /\ x = q * den + rest
  BY <1>2
<1> HIDE DEF q, x
<1>4. x \div den = q /\ x % den = rest
  BY <1>3, DividedOnce
<1> QED
  BY <1>1, <1>4 DEF q, x

(* A unit more or less.                                                    *)
IsNear(n, q, rest, den) ==
  \/ (n = q /\ 2 * rest <= den)
  \/ (n = q + 1 /\ 2 * rest >= den)

LEMMA NearIs ==
  ASSUME NEW scaled \in Nat, NEW den \in Nat \ {0}, NEW n \in Nat,
         IsNear(n, scaled \div den, scaled % den, den)
  PROVE  /\ n \in (scaled \div den) .. (scaled \div den) + 1
         /\ 2 * (n * den - scaled) \in -den .. den
<1> DEFINE q == scaled \div den
           rest == scaled % den
<1>1. q \in Nat /\ rest \in Nat /\ rest < den /\ scaled = q * den + rest
  <2>1. /\ q \in Nat /\ rest \in 0 .. den - 1 /\ scaled = q * den + rest
    BY Divided, Zenon
  <2> HIDE DEF q, rest
  <2> QED
    BY <2>1
<1>2. (n = q /\ 2 * rest <= den) \/ (n = q + 1 /\ 2 * rest >= den)
  BY DEF IsNear
<1> HIDE DEF q, rest
<1>3. (q + 1) * den = q * den + den
  BY <1>1
<1>4. CASE n = q /\ 2 * rest <= den
  <2> DEFINE a == q * den
  <2>1. a \in Nat /\ n * den = a /\ scaled = a + rest
    BY <1>1, <1>4
  <2> HIDE DEF a
  <2>2. n * den - scaled = -rest
    BY <1>1, <2>1
  <2> QED
    BY <1>1, <1>4, <2>2 DEF q
<1>5. CASE n = q + 1 /\ 2 * rest >= den
  <2> DEFINE a == q * den
  <2>1. a \in Nat /\ n * den = a + den /\ scaled = a + rest
    BY <1>1, <1>3, <1>5
  <2> HIDE DEF a
  <2>2. n * den - scaled = den - rest
    BY <1>1, <2>1
  <2> QED
    BY <1>1, <1>5, <2>2 DEF q
<1> QED
  BY <1>2, <1>4, <1>5

(* A number whose half unit is not carried, and what _ftoa rounds it to.   *)
IsRoundable(num, den, prec, scaled) ==
  /\ num \in Nat /\ den \in Nat \ {0} /\ prec \in 0 .. 9
  /\ scaled = num * 10 ^ prec
  /\ ~(/\ prec # 0 /\ 2 * (scaled % den) = den
       /\ (scaled \div den) % 10 ^ prec = 10 ^ prec - 1)
RoundsTo(n, num, den, prec) ==
  /\ n \div 10 ^ prec = Rounded(num, den, prec).whole
  /\ prec # 0 => n % 10 ^ prec = Rounded(num, den, prec).frac

LEMMA RoundedNear ==
  ASSUME NEW num, NEW den, NEW prec, NEW scaled,
         IsRoundable(num, den, prec, scaled)
  PROVE  \E n \in Nat : /\ IsNear(n, scaled \div den, scaled % den, den)
                        /\ RoundsTo(n, num, den, prec)
<1>0. /\ num \in Nat /\ den \in Nat \ {0} /\ prec \in 0 .. 9
      /\ scaled = num * 10 ^ prec
      /\ ~(/\ prec # 0 /\ 2 * (scaled % den) = den
           /\ (scaled \div den) % 10 ^ prec = 10 ^ prec - 1)
  BY Zenon DEF IsRoundable
<1> USE <1>0
<1> DEFINE pow == 10 ^ prec
           rem == num % den
           tmp == rem * pow
           frac == tmp \div den
           rest == tmp % den
           diff == 2 * rest
           rollover == diff > den /\ frac + 1 >= pow
           up == diff > den \/ (diff = den /\ (frac = 0 \/ Odd(frac)))
           first == num \div den
           whole == first + (IF rollover THEN 1 ELSE 0)
           w == IF prec = 0 /\ 2 * (num - whole * den) >= den /\ Odd(whole)
                THEN whole + 1 ELSE whole
           f == IF rollover THEN 0 ELSE IF up THEN frac + 1 ELSE frac
<1>1. pow \in Nat \ {0} /\ (prec = 0 => pow = 1)
  <2>1. pow \in Nat \ {0}
    BY PowerOfTen, Zenon
  <2>2. ASSUME prec = 0 PROVE pow = 1
    <3>1. 10 ^ 0 = 1
      OBVIOUS
    <3> QED
      BY <2>2, <3>1, Zenon
  <2> QED
    BY <2>1, <2>2, Zenon
<1>2. /\ first \in Nat /\ rem \in Nat /\ rem < den
      /\ num = first * den + rem
  <2>1. /\ first \in Nat /\ rem \in 0 .. den - 1
        /\ num = first * den + rem
    BY Divided, Zenon
  <2> HIDE DEF first, rem
  <2> QED
    BY <2>1
<1>3. Rounded(num, den, prec) = [whole |-> w, frac |-> f]
  BY Zenon DEF Rounded, pow, rem, tmp, frac
<1>4. scaled = num * pow
  OBVIOUS
<1>5. ~(/\ prec # 0 /\ 2 * (scaled % den) = den
        /\ (scaled \div den) % pow = pow - 1)
  OBVIOUS
<1> HIDE DEF pow, rem, first
<1>7. tmp \in Nat
  BY <1>1, <1>2
<1>8. frac \in Nat /\ rest \in Nat /\ rest < den /\ tmp = frac * den + rest
  <2> HIDE DEF tmp
  <2>1. frac \in Nat /\ rest \in 0 .. den - 1 /\ tmp = frac * den + rest
    BY <1>7, Divided, Zenon
  <2> HIDE DEF frac, rest
  <2> QED
    BY <2>1
<1>9. tmp = rem * pow
  OBVIOUS
<1> HIDE DEF tmp, frac, rest
<1>10. /\ frac < pow /\ scaled \div den = first * pow + frac
       /\ scaled % den = rest
  <2>1. rem * pow = frac * den + rest
    BY <1>8, <1>9, Zenon
  <2>2. IsCut(num, den, pow, first, rem, frac, rest)
    BY <1>1, <1>2, <1>8, <2>1, Zenon DEF IsCut
  <2>3. /\ frac < pow /\ (num * pow) \div den = first * pow + frac
        /\ (num * pow) % den = rest
    BY <2>2, Scaled
  <2> QED
    BY <1>4, <2>3, Zenon
<1>11. w \in Nat /\ f \in Nat
  <2>1. whole \in Nat
    BY <1>2
  <2> HIDE DEF whole, rollover, up
  <2> QED
    BY <1>8, <2>1
(* A number is taken apart at the point.                                   *)
<1>12. ASSUME NEW a \in Nat, NEW b \in Nat, b < pow
       PROVE  /\ a * pow + b \in Nat /\ (a * pow + b) \div pow = a
              /\ (a * pow + b) % pow = b
  <2> DEFINE x == a * pow + b
  <2>1. x \in Nat /\ x = a * pow + b
    BY <1>1, <1>12
  <2> HIDE DEF x
  <2>2. x \div pow = a /\ x % pow = b
    BY <1>1, <1>12, <2>1, DividedOnce
  <2> QED
    BY <2>1, <2>2 DEF x
<1> DEFINE q == first * pow + frac
<1>13. q \in Nat
  BY <1>1, <1>2, <1>8
<1>14. CASE prec # 0
  <2>1. w = whole
    BY <1>14
  <2>2. CASE rollover
    <3>1. whole = first + 1 /\ f = 0 /\ diff > den /\ frac + 1 = pow
      BY <1>1, <1>2, <1>8, <1>10, <2>2
    <3>2. (first + 1) * pow + 0 = q + 1
      <4>1. (first + 1) * pow = first * pow + pow
        BY <1>1, <1>2
      <4> DEFINE z == first * pow
      <4>2. z \in Nat
        BY <1>1, <1>2
      <4> HIDE DEF z
      <4>3. z + pow = z + frac + 1
        BY <1>1, <1>8, <3>1, <4>2
      <4> QED
        BY <4>1, <4>2, <4>3, <1>1, <1>8 DEF z
    <3>3. /\ (first + 1) * pow + 0 \in Nat
          /\ ((first + 1) * pow + 0) \div pow = first + 1
          /\ ((first + 1) * pow + 0) % pow = 0
      BY <1>1, <1>2, <1>12
    <3> HIDE DEF q, w, f, whole
    <3>4. q + 1 \in Nat /\ (q + 1) \div pow = first + 1 /\ (q + 1) % pow = 0
      BY <3>2, <3>3
    <3>5. IsNear(q + 1, q, rest, den)
      BY <3>1, <1>8 DEF IsNear
    <3> QED
      BY <1>3, <1>10, <2>1, <3>1, <3>4, <3>5 DEF q, pow, RoundsTo
  <2>3. CASE ~rollover
    <3>1. whole = first /\ f = (IF up THEN frac + 1 ELSE frac)
      BY <1>2, <2>3
    <3>2. f < pow
      <4>1. CASE diff > den
        BY <1>1, <1>8, <2>3, <3>1, <4>1
      <4>2. CASE diff < den
        <5>1. ~up
          BY <1>8, <4>2
        <5> HIDE DEF up
        <5> QED
          BY <1>1, <1>8, <1>10, <3>1, <5>1
      <4>3. CASE diff = den
        <5>1. (scaled \div den) % pow = frac
          BY <1>2, <1>8, <1>10, <1>12
        <5>2. frac # pow - 1
          BY <1>5, <1>10, <1>14, <4>3, <5>1
        <5> HIDE DEF up, f
        <5> QED
          BY <1>1, <1>8, <1>10, <3>1, <5>2
      <4> QED
        BY <1>8, <4>1, <4>2, <4>3
    <3>3. IsNear(first * pow + f, q, rest, den)
      <4>1. CASE up
        <5>1. f = frac + 1 /\ diff >= den
          BY <1>8, <3>1, <4>1
        <5> DEFINE z == first * pow
        <5>2. z \in Nat
          BY <1>1, <1>2
        <5> HIDE DEF z, f
        <5>3. z + f = z + frac + 1
          BY <1>8, <5>1, <5>2
        <5> QED
          BY <5>1, <5>3 DEF IsNear, z
      <4>2. CASE ~up
        <5>1. f = frac /\ diff <= den
          BY <1>8, <3>1, <4>2
        <5> HIDE DEF f
        <5> QED
          BY <5>1 DEF IsNear
      <4> QED
        BY <4>1, <4>2
    <3> DEFINE n == first * pow + f
    <3>4. n \in Nat /\ n \div pow = first /\ n % pow = f
      <4> HIDE DEF f
      <4> QED
        BY <1>2, <1>11, <1>12, <3>2
    <3> HIDE DEF f, w, whole, n
    <3> QED
      BY <1>3, <1>10, <2>1, <3>1, <3>3, <3>4 DEF q, n, pow, RoundsTo
  <2> QED
    BY <2>2, <2>3
<1>15. CASE prec = 0
  <2>1. pow = 1 /\ frac = 0 /\ q = first
    BY <1>1, <1>2, <1>8, <1>10, <1>15
  <2>2. rest = rem
    BY <1>2, <1>8, <1>9, <2>1
  <2>3. rollover <=> diff > den
    BY <2>1
  <2>4. num - first * den = rem /\ num - (first + 1) * den = rem - den
    <3>1. (first + 1) * den = first * den + den
      BY <1>2
    <3> DEFINE z == first * den
    <3>2. z \in Nat
      BY <1>2
    <3>3. num = z + rem /\ (first + 1) * den = z + den
      BY <1>2, <3>1
    <3> HIDE DEF z
    <3> QED
      BY <1>2, <3>2, <3>3 DEF z
  <2>5. IsNear(w, q, rest, den)
    <3>1. CASE diff > den
      <4>1. whole = first + 1
        BY <2>3, <3>1
      <4>2. w = first + 1
        <5>1. ~(2 * (num - whole * den) >= den)
          <6> HIDE DEF whole
          <6> QED
            BY <1>2, <2>4, <4>1
        <5> HIDE DEF whole
        <5> QED
          BY <4>1, <5>1
      <4> HIDE DEF w, q
      <4> QED
        BY <1>8, <2>1, <3>1, <4>2 DEF IsNear
    <3>2. CASE diff <= den
      <4>1. whole = first
        BY <1>2, <1>8, <2>3, <3>2
      <4>2. 2 * (num - whole * den) = diff
        <5> HIDE DEF whole
        <5> QED
          BY <2>2, <2>4, <4>1
      <4>3. w = first \/ (w = first + 1 /\ diff >= den)
        <5> HIDE DEF whole
        <5> QED
          BY <4>1, <4>2
      <4> HIDE DEF w, q
      <4> QED
        BY <1>8, <2>1, <3>2, <4>3 DEF IsNear
    <3> QED
      BY <1>8, <3>1, <3>2
  <2>6. w \div 1 = w
    <3> HIDE DEF w
    <3> QED
      BY <1>11
  <2> HIDE DEF w, q, f
  <2> QED
    BY <1>3, <1>10, <1>11, <1>15, <2>1, <2>5, <2>6 DEF q, pow, RoundsTo
<1> QED
  BY <1>14, <1>15

(* A power of ten is ten times the one before.                             *)
LEMMA TenTimes ==
  ASSUME NEW n \in 1 .. 9
  PROVE  10 ^ n = 10 * 10 ^ (n - 1)
<1>1. \/ n = 1 \/ n = 2 \/ n = 3 \/ n = 4
      \/ n = 5 \/ n = 6 \/ n = 7 \/ n = 8 \/ n = 9
  OBVIOUS
<1>2. n = 1 => 10 ^ n = 10 /\ 10 ^ (n - 1) = 1
  OBVIOUS
<1>3. n = 2 => 10 ^ n = 100 /\ 10 ^ (n - 1) = 10
  OBVIOUS
<1>4. n = 3 => 10 ^ n = 1000 /\ 10 ^ (n - 1) = 100
  OBVIOUS
<1>5. n = 4 => 10 ^ n = 10000 /\ 10 ^ (n - 1) = 1000
  OBVIOUS
<1>6. n = 5 => 10 ^ n = 100000 /\ 10 ^ (n - 1) = 10000
  OBVIOUS
<1>7. n = 6 => 10 ^ n = 1000000 /\ 10 ^ (n - 1) = 100000
  OBVIOUS
<1>8. n = 7 => 10 ^ n = 10000000 /\ 10 ^ (n - 1) = 1000000
  OBVIOUS
<1>9. n = 8 => 10 ^ n = 100000000 /\ 10 ^ (n - 1) = 10000000
  OBVIOUS
<1>10. n = 9 => 10 ^ n = 1000000000 /\ 10 ^ (n - 1) = 100000000
  OBVIOUS
<1> QED
  BY <1>1, <1>2, <1>3, <1>4, <1>5, <1>6, <1>7, <1>8, <1>9, <1>10

Decimal(v) == Digits(v, 10, DigitChars)

LEMMA DecimalIs ==
  ASSUME NEW v \in Nat
  PROVE  /\ Decimal(v) \in Text /\ Len(Decimal(v)) \in Nat
         /\ v < 10 => Len(Decimal(v)) = 1
         /\ v >= 10 => Len(Decimal(v)) = Len(Decimal(v \div 10)) + 1
<1>1. 10 \in Bases
  BY DEF Bases
<1>2. \A u \in Nat : /\ Decimal(u) \in Text
                     /\ Len(Decimal(u)) \in Nat
  BY <1>1, ChartsAre, DigitsAreText DEF Decimal, Text
<1>3. Decimal(v) = IF v < 10 THEN <<DigitChars[v + 1]>>
                   ELSE Append(Decimal(v \div 10), DigitChars[(v % 10) + 1])
  BY <1>1, ChartsAre, DigitsGrow, Zenon DEF Decimal
<1>4. v \div 10 \in Nat
  OBVIOUS
<1>5. CASE v < 10
  <2> DEFINE c == DigitChars[v + 1]
  <2>1. Decimal(v) = <<c>> /\ ~(v >= 10)
    BY <1>3, <1>5
  <2> HIDE DEF c
  <2>2. Len(<<c>>) = 1
    OBVIOUS
  <2>3. Len(Decimal(v)) = 1
    BY <2>1, <2>2, Zenon
  <2> QED
    BY <1>2, <2>1, <2>3
<1>6. CASE v >= 10
  <2> DEFINE c == DigitChars[(v % 10) + 1]
             w == v \div 10
  <2>1. Decimal(v) = Append(Decimal(w), c)
    BY <1>3, <1>6
  <2>2. Decimal(w) \in Seq(Char)
    BY <1>2, <1>4 DEF Text
  <2>3. c \in Char
    <3>1. (v % 10) + 1 \in 1 .. 16
      OBVIOUS
    <3> QED
      BY <3>1, ChartsAre DEF Charts
  <2> HIDE DEF c, w
  <2>4. Len(Append(Decimal(w), c)) = Len(Decimal(w)) + 1
    BY <2>2, <2>3, AppendProperties
  <2>5. Len(Decimal(v)) = Len(Decimal(w)) + 1
    BY <2>1, <2>4, Zenon
  <2> QED
    BY <1>2, <1>6, <2>5 DEF w
<1> QED
  BY <1>5, <1>6

(* A number below 10^n has at most n digits.                               *)
LEMMA DecimalsFit ==
  ASSUME NEW n \in 1 .. 9, NEW v \in Nat, v < 10 ^ n
  PROVE  Len(Decimal(v)) <= n
<1> DEFINE P(k) == \A u \in Nat : u < 10 ^ k => Len(Decimal(u)) <= k
           bad == {k \in 1 .. 9 : ~P(k)}
<1>1. bad = {}
  <2>1. SUFFICES ASSUME bad # {} PROVE FALSE
    OBVIOUS
  <2>2. PICK k \in bad : \A j \in bad : k <= j
    <3>1. bad \subseteq Nat
      OBVIOUS
    <3> HIDE DEF bad
    <3> QED
      BY <2>1, <3>1, LeastElement
  <2>3. k \in 1 .. 9 /\ ~P(k)
    BY <2>2, Zenon
  <2>4. ASSUME k # 1 PROVE P(k - 1)
    <3>1. k - 1 \in 1 .. 9 /\ ~(k <= k - 1)
      BY <2>3, <2>4
    <3> HIDE DEF P
    <3> QED
      BY <2>2, <3>1
  <2>5. PICK u \in Nat : u < 10 ^ k /\ ~(Len(Decimal(u)) <= k)
    BY <2>3, Zenon
  <2> DEFINE pow == 10 ^ (k - 1)
  <2>6. 10 ^ k = 10 * pow /\ pow \in Nat \ {0} /\ (k = 1 => pow = 1)
    <3>1. 10 ^ k = 10 * pow
      BY <2>3, TenTimes
    <3>2. k - 1 \in 0 .. 9
      BY <2>3
    <3>3. pow \in Nat \ {0}
      BY <3>2, PowerOfTen, Zenon
    <3>4. ASSUME k = 1 PROVE pow = 1
      <4>1. k - 1 = 0 /\ 10 ^ 0 = 1
        BY <3>4
      <4> QED
        BY <4>1
    <3> QED
      BY <3>1, <3>3, <3>4, Zenon
  <2>7. /\ Len(Decimal(u)) \in Nat /\ (u < 10 => Len(Decimal(u)) = 1)
        /\ (u >= 10 => Len(Decimal(u)) = Len(Decimal(u \div 10)) + 1)
    BY DecimalIs
  <2>8. u >= 10
    <3> HIDE DEF pow, bad, P
    <3>1. SUFFICES ASSUME u < 10 PROVE FALSE
      OBVIOUS
    <3>2. Len(Decimal(u)) = 1 /\ k \in Nat /\ 1 <= k
      BY <2>3, <2>7, <3>1
    <3> QED
      BY <2>5, <3>2
  <2>9. k # 1 => \A x \in Nat : x < pow => Len(Decimal(x)) <= k - 1
    BY <2>4
  <2>10. u < 10 * pow
    BY <2>5, <2>6
  <2> HIDE DEF pow, bad
  <2>11. u \div 10 \in Nat /\ u \div 10 < pow
    BY <2>6, <2>10
  <2>12. k # 1
    BY <2>6, <2>8, <2>10
  <2>13. Len(Decimal(u \div 10)) <= k - 1
    BY <2>9, <2>11, <2>12
  <2>14. Len(Decimal(u \div 10)) \in Nat
    BY <2>11, DecimalIs
  <2> QED
    BY <2>3, <2>5, <2>7, <2>8, <2>13, <2>14
<1>2. n \notin bad
  BY <1>1
<1> QED
  BY <1>2, Zenon

Fraction(n, prec) == IF prec = 0 THEN << >>
                    ELSE Digits(n % 10 ^ prec, 10, DigitChars)
Pointed(part, prec) ==
  IF prec = 0 THEN << >>
  ELSE <<".">> \o Rep("0", prec - Len(part)) \o part

(* The sign, the digits and the decimals, one behind the other.            *)
IsShown(negative, n, prec, flags) ==
  /\ Decimal(n \div 10 ^ prec) \in Text
  /\ Fraction(n, prec) \in Text /\ Len(Fraction(n, prec)) <= prec
  /\ Pointed(Fraction(n, prec), prec) \in Text
  /\ FloatShown(negative, n, prec, flags) =
       Sign(negative, flags) \o (Decimal(n \div 10 ^ prec)
         \o Pointed(Fraction(n, prec), prec))

LEMMA ShownIs ==
  ASSUME NEW negative, NEW flags, NEW n \in Nat, NEW prec \in 0 .. 9
  PROVE  IsShown(negative, n, prec, flags)
<1> DEFINE pow == 10 ^ prec
           g == Sign(negative, flags)
           whole == Decimal(n \div pow)
           part == Fraction(n, prec)
           point == IF prec = 0 THEN << >> ELSE <<".">>
           z == Rep("0", prec - Len(part))
           dec == Pointed(part, prec)
<1>1. pow \in Nat \ {0}
  BY PowerOfTen, Zenon
<1>2. n \div pow \in Nat /\ n % pow \in Nat /\ n % pow < pow
  <2> HIDE DEF pow
  <2> QED
    BY <1>1
<1>3. whole \in Text
  BY <1>2, DecimalIs
<1>4. part \in Text /\ Len(part) <= prec /\ Len(part) \in Nat
  <2>1. CASE prec = 0
    <3>1. part = << >> /\ << >> \in Text
      BY <2>1, JoinedTexts, Zenon DEF Fraction
    <3>2. Len(<< >>) = 0
      OBVIOUS
    <3> QED
      BY <2>1, <3>1, <3>2
  <2>2. CASE prec # 0
    <3> DEFINE v == n % pow
    <3>1. part = Decimal(v)
      BY <2>2, Zenon DEF Fraction, Decimal
    <3>2. v \in Nat /\ v < 10 ^ prec /\ prec \in 1 .. 9
      BY <1>2, <2>2
    <3> HIDE DEF v
    <3> QED
      BY <3>1, <3>2, DecimalIs, DecimalsFit
  <2> QED
    BY <2>1, <2>2
<1>5. FloatShown(negative, n, prec, flags) = g \o whole \o point \o z \o part
  BY Zenon DEF FloatShown, Decimal, Fraction
<1>6. g \in Text
  BY SignIs
<1>7. point \in Text
  BY JoinedTexts DEF Letters
<1> HIDE DEF part, whole, g, pow, point
<1>8. z \in Text
  BY <1>4, ZeroText
<1> DEFINE seq == Seq(Char)
<1>9. /\ g \in Seq(Char) /\ whole \in Seq(Char) /\ point \in Seq(Char)
      /\ z \in Seq(Char) /\ part \in Seq(Char)
  BY <1>3, <1>4, <1>6, <1>7, <1>8 DEF Text
<1> HIDE DEF z
<1> DEFINE d == point \o (z \o part)
<1>10. z \o part \in Seq(Char) /\ d \in Seq(Char)
  BY <1>9, ConcatProperties
<1>11. g \o whole \o point \o z \o part = g \o (whole \o d)
  <2> DEFINE gw == g \o whole
             zp == z \o part
  <2>1. gw \in Seq(Char) /\ zp \in Seq(Char) /\ gw \o point \in Seq(Char)
    BY <1>9, ConcatProperties
  <2>2. ((gw \o point) \o z) \o part = (gw \o point) \o (z \o part)
    <3> DEFINE gwp == gw \o point
    <3>1. gwp \in Seq(Char)
      BY <2>1
    <3> HIDE DEF gwp
    <3> QED
      BY <1>9, <3>1, JoinedInTurn, SMTT(60)
  <2>3. (gw \o point) \o zp = gw \o (point \o zp)
    <3> HIDE DEF gw, zp
    <3> QED
      BY <1>9, <2>1, JoinedInTurn, SMTT(60)
  <2>4. (g \o whole) \o d = g \o (whole \o d)
    <3> HIDE DEF d
    <3> QED
      BY <1>9, <1>10, JoinedInTurn, SMTT(60)
  <2> QED
    BY <2>2, <2>3, <2>4, Zenon
<1>12. d = dec
  <2>1. CASE prec = 0
    <3>1. part = << >> /\ point = << >> /\ dec = << >>
      BY <2>1, Zenon DEF part, Fraction, point, Pointed
    <3>2. z = << >>
      <4>1. Len(<< >>) = 0
        OBVIOUS
      <4>2. prec - Len(part) = 0
        <5>1. Len(part) = 0
          BY <3>1, <4>1, Zenon
        <5> QED
          BY <2>1, <5>1
      <4> QED
        BY <4>2, ZeroText, <1>4 DEF z
    <3>3. << >> \o (<< >> \o << >>) = << >>
      OBVIOUS
    <3> QED
      BY <3>1, <3>2, <3>3, Zenon
  <2>2. CASE prec # 0
    <3>1. point = <<".">> /\ dec = (<<".">> \o z) \o part
      BY <2>2, Zenon DEF point, Pointed, z
    <3>2. (point \o z) \o part = point \o (z \o part)
      BY <1>9, JoinedInTurn, SMTT(60)
    <3> QED
      BY <3>1, <3>2, Zenon
  <2> QED
    BY <2>1, <2>2
<1> HIDE DEF d, dec
<1>13. dec \in Text
  BY <1>10, <1>12 DEF Text
<1>14. FloatShown(negative, n, prec, flags) = g \o (whole \o dec)
  BY <1>5, <1>11, <1>12, Zenon
<1> QED
  BY <1>3, <1>4, <1>13, <1>14, Zenon DEF whole, part, dec, g, pow, IsShown

(* A text without a field is left as it is.                                *)
LEMMA NoField ==
  ASSUME NEW t \in Text, NEW flags
  PROVE  out_rev(t, 0, flags) = t
<1> DEFINE pad == Rep(" ", 0 - Len(t))
<1>1. t \in Seq(Char) /\ 0 - Len(t) \in Int /\ 0 - Len(t) <= 0
  BY DEF Text
<1>2. pad = << >>
  <2>1. " " \in Char
    BY LettersAre DEF Letters
  <2> QED
    BY <1>1, <2>1, RepIs
<1> HIDE DEF pad
<1>3. t \o << >> = t /\ << >> \o t = t
  BY <1>1, ConcatEmptySeq
<1> QED
  BY <1>2, <1>3, Zenon DEF out_rev, pad

(* What _ftoa writes of a number that it rounds to n units.                *)
IsPrinted(num, den, precision, flags, asked, size, n) ==
  /\ num \in Int /\ den \in Nat \ {0} /\ precision \in Nat \cup {None}
  /\ asked \in 0 .. 9 /\ asked <= FtoaTop
  /\ asked = IF precision = None THEN FtoaDefault ELSE precision
  /\ size \in Nat /\ size = IF num < 0 THEN -num ELSE num
  /\ n \in Nat /\ RoundsTo(n, size, den, asked)
  /\ Len(FloatShown(num < 0, n, asked, flags)) <= FtoaSize

LEMMA FtoaShows ==
  ASSUME NEW num, NEW den, NEW precision, NEW flags, NEW asked, NEW size,
         NEW n, IsPrinted(num, den, precision, flags, asked, size, n)
  PROVE  ftoa(<<num, den>>, precision, 0, flags)
           = FloatShown(num < 0, n, asked, flags)
<1>0. /\ num \in Int /\ den \in Nat \ {0} /\ precision \in Nat \cup {None}
      /\ asked \in 0 .. 9 /\ asked <= FtoaTop
      /\ asked = (IF precision = None THEN FtoaDefault ELSE precision)
      /\ size \in Nat /\ size = (IF num < 0 THEN -num ELSE num)
      /\ n \in Nat
      /\ n \div 10 ^ asked = Rounded(size, den, asked).whole
      /\ asked # 0 => n % 10 ^ asked = Rounded(size, den, asked).frac
      /\ Len(FloatShown(num < 0, n, asked, flags)) <= FtoaSize
  BY Zenon DEF IsPrinted, RoundsTo
<1> USE <1>0
<1> DEFINE value == <<num, den>>
           negative == value[1] < 0
           ask == IF precision = None THEN FtoaDefault ELSE precision
           prec == Smaller(ask, FtoaTop)
           m == IF value[1] < 0 THEN -value[1] ELSE value[1]
           r == Rounded(m, value[2], prec)
           frac == Digits(r.frac, 10, DigitChars)
           zeros == IF Len(frac) > prec THEN FtoaSize ELSE prec - Len(frac)
           decimals == IF prec = 0 THEN << >>
                       ELSE <<".">> \o Rep("0", zeros) \o frac
           all == Digits(r.whole, 10, DigitChars) \o decimals
                    \o Rep("0", ask - prec)
           number == End(all, FtoaSize)
           w == ZeroWidth(negative, 0, flags)
           padded == IF "ZEROPAD" \in flags /\ "LEFT" \notin flags
                     THEN Rep("0", Smaller(w, FtoaSize) - Len(number)) \o number
                     ELSE number
           g == Sign(negative, flags)
           text == End(g \o padded, FtoaSize)
           wholeT == Decimal(n \div 10 ^ asked)
           part == Fraction(n, asked)
           dec == Pointed(part, asked)
           shown == FloatShown(negative, n, asked, flags)
<1>1. value[1] = num /\ value[2] = den /\ ask = asked /\ m = size
  OBVIOUS
<1>2. ftoa(value, precision, 0, flags) = out_rev(text, w, flags)
  BY Zenon DEF ftoa
<1> HIDE DEF ask, m
<1>3. prec = asked
  BY <1>1, FormatAssumption DEF Smaller
<1>4. /\ wholeT \in Text /\ part \in Text /\ Len(part) <= asked
      /\ dec \in Text /\ shown = g \o (wholeT \o dec)
  <2> HIDE DEF negative
  <2>1. IsShown(negative, n, asked, flags)
    BY ShownIs, Zenon
  <2> QED
    BY <2>1, Zenon DEF IsShown
<1>5. Digits(r.whole, 10, DigitChars) = wholeT
  BY <1>1, <1>3, Zenon DEF Decimal
<1>6. decimals = dec
  <2>1. CASE asked = 0
    BY <1>3, <2>1, Zenon DEF Pointed
  <2>2. CASE asked # 0
    <3>1. frac = part
      BY <1>1, <1>3, <2>2, Zenon DEF Fraction
    <3> HIDE DEF frac, part
    <3>2. Len(part) \in Nat
      BY <1>4 DEF Text
    <3>3. zeros = asked - Len(part)
      BY <1>3, <1>4, <3>1, <3>2
    <3> QED
      BY <1>3, <2>2, <3>1, <3>3, Zenon DEF Pointed
  <2> QED
    BY <2>1, <2>2
<1>7. Len(shown) <= FtoaSize /\ FtoaSize \in Nat
  BY <1>1, NtoaSizeIs, Zenon
<1>8. g \in Text /\ Len(g) \in Nat
  BY SignIs DEF Text
<1> DEFINE body == wholeT \o dec
<1> HIDE DEF g, wholeT, part, dec, shown, decimals, r
<1>9. /\ body \in Text /\ g \o body \in Text
      /\ Len(g \o body) = Len(g) + Len(body) /\ Len(body) \in Nat
  <2>1. body \in Text
    BY <1>4, JoinedTexts
  <2> HIDE DEF body
  <2> QED
    BY <1>8, <2>1, ConcatProperties DEF Text
<1> HIDE DEF body
<1>10. Len(body) <= FtoaSize /\ Len(g \o body) <= FtoaSize
  BY <1>4, <1>7, <1>8, <1>9 DEF body
<1>11. all = body
  <2>1. ask - prec = 0
    BY <1>1, <1>3
  <2>2. Rep("0", ask - prec) = << >>
    BY <1>8, <2>1, ZeroText
  <2>3. body \o << >> = body
    BY <1>9, ConcatEmptySeq DEF Text
  <2> QED
    BY <1>5, <1>6, <2>2, <2>3, Zenon DEF body
<1> HIDE DEF all
<1>12. number = body
  BY <1>7, <1>9, <1>10, <1>11, EndIs DEF Text
<1>13. w = 0
  BY DEF ZeroWidth
<1> HIDE DEF number, w
<1>14. padded = body
  <2> DEFINE k == Smaller(w, FtoaSize) - Len(number)
  <2>1. k \in Int /\ k <= 0
    BY <1>7, <1>9, <1>12, <1>13 DEF Smaller
  <2> HIDE DEF k
  <2>2. Rep("0", k) \o body = body
    BY <1>9, <2>1, ZeroText
  <2> QED
    BY <1>12, <2>2, Zenon DEF k
<1> HIDE DEF padded
<1>15. text = g \o body
  <2> DEFINE t == g \o body
  <2>1. t \in Seq(Char) /\ Len(t) <= FtoaSize
    BY <1>9, <1>10 DEF Text
  <2> HIDE DEF t
  <2>2. End(t, FtoaSize) = t
    BY <1>7, <2>1, EndIs
  <2> QED
    BY <1>14, <2>2, Zenon DEF t
<1>16. out_rev(g \o body, 0, flags) = g \o body
  <2> DEFINE t == g \o body
  <2>1. t \in Text
    BY <1>9
  <2> HIDE DEF t
  <2>2. out_rev(t, 0, flags) = t
    BY <2>1, NoField
  <2> QED
    BY <2>2, Zenon DEF t
<1>17. ftoa(value, precision, 0, flags) = shown
  BY <1>2, <1>4, <1>13, <1>15, <1>16, Zenon DEF body
<1> QED
  BY <1>1, <1>17, Zenon DEF shown, value

(* %f of a number and without a field.                                     *)
LEMMA FloatNearest ==
  ASSUME NEW s \in FloatSpecs, s.arg[2] # 0
  PROVE  Nearest(s)
<1> DEFINE prec == IF s.precision = None THEN FtoaDefault ELSE Precision(s)
           negative == s.arg[1] < 0
           size == IF s.arg[1] < 0 THEN -s.arg[1] ELSE s.arg[1]
           den == s.arg[2]
           scaled == size * 10 ^ prec
           pow == 10 ^ prec
           near == {n \in (scaled \div den) .. (scaled \div den) + 1 :
                     2 * (n * den - scaled) \in -den .. den}
           shown(n) == FloatShown(negative, n, prec, s.flags)
           fits == \A n \in near : Len(shown(n)) <= FtoaSize
           carried == /\ 2 * (scaled % den) = den
                      /\ (scaled \div den) % 10 ^ prec = 10 ^ prec - 1
           precision == IF s.precision = None THEN None ELSE Precision(s)
<1>1. SUFFICES ASSUME s.width = 0, prec <= FtoaTop, fits,
                      carried => prec = 0
               PROVE  \E n \in near : TextOf(s) = shown(n)
  BY Zenon DEF Nearest
<1>2. /\ s.precision \in Int /\ s.arg \in Int \X Nat /\ s.kind = "f"
      /\ s.flags \subseteq AllFlags
  BY FormatAssumption DEF FloatSpecs
<1>3. PICK num \in Int, d \in Nat : s.arg = <<num, d>>
  BY <1>2
<1>4. /\ s.arg[1] = num /\ den = d /\ den \in Nat \ {0} /\ size \in Nat
      /\ size = IF num < 0 THEN -num ELSE num
  BY <1>3
<1>5. /\ FtoaTop \in 1 .. 9 /\ FtoaDefault \in 0 .. FtoaTop
      /\ FtoaDefault \in Nat
  BY FormatAssumption
<1>6. /\ precision \in Nat \cup {None}
      /\ prec = (IF precision = None THEN FtoaDefault ELSE precision)
      /\ prec \in Nat
  BY <1>2, <1>5 DEF Precision, Larger, None
<1>7. prec \in 0 .. 9
  <2> HIDE DEF prec
  <2> QED
    BY <1>1, <1>5, <1>6
<1>8. pow \in Nat \ {0} /\ scaled = size * pow
  BY <1>7, PowerOfTen, Zenon
<1>9. scaled \in Nat
  <2> HIDE DEF scaled, size, pow
  <2> QED
    BY <1>4, <1>8
<1>10. \E n \in Nat : /\ IsNear(n, scaled \div den, scaled % den, den)
                      /\ RoundsTo(n, size, den, prec)
  <2>1. ~(/\ prec # 0 /\ 2 * (scaled % den) = den
          /\ (scaled \div den) % 10 ^ prec = 10 ^ prec - 1)
    BY <1>1, Zenon
  <2>2. scaled = size * 10 ^ prec
    OBVIOUS
  <2> HIDE DEF scaled, size, den, prec
  <2>3. IsRoundable(size, den, prec, scaled)
    BY <1>4, <1>7, <2>1, <2>2, Zenon DEF IsRoundable
  <2> QED
    BY <2>3, RoundedNear, Zenon
<1>11. PICK n \in Nat : /\ IsNear(n, scaled \div den, scaled % den, den)
                        /\ RoundsTo(n, size, den, prec)
  BY <1>10, Zenon
<1>12. n \in near
  <2> HIDE DEF scaled, size, den, prec
  <2>1. /\ n \in (scaled \div den) .. (scaled \div den) + 1
        /\ 2 * (n * den - scaled) \in -den .. den
    BY <1>4, <1>9, <1>11, NearIs, Zenon
  <2> QED
    BY <2>1
<1>13. Len(shown(n)) <= FtoaSize
  <2> HIDE DEF near, shown
  <2> QED
    BY <1>1, <1>12, Zenon
<1>15. Sign(negative, Flags(s)) = Sign(negative, s.flags)
  <2>1. /\ "PLUS" \in Flags(s) <=> "PLUS" \in s.flags
        /\ "SPACE" \in Flags(s) <=> "SPACE" \in s.flags
    BY DEF Flags
  <2> HIDE DEF negative
  <2> QED
    BY <2>1, Zenon DEF Sign
<1>16. FloatShown(negative, n, prec, Flags(s)) = shown(n)
  <2> HIDE DEF prec
  <2> QED
    BY <1>15, Zenon DEF FloatShown
<1>17. TextOf(s) = ftoa(<<num, den>>, precision, 0, Flags(s))
  <2>1. TextOf(s) = FloatText(s)
    BY <1>2, Zenon DEF TextOf, Signed, Unsigned
  <2>2. Width(s) = 0
    BY <1>1 DEF Width
  <2>3. FloatText(s) = ftoa(s.arg, precision, Width(s), Flags(s))
    BY Zenon DEF FloatText
  <2>4. s.arg = <<num, den>>
    BY <1>3, <1>4, Zenon
  <2> QED
    BY <2>1, <2>2, <2>3, <2>4, Zenon
<1>18. ftoa(<<num, den>>, precision, 0, Flags(s)) = shown(n)
  <2> DEFINE below == num < 0
  <2>1. negative = below
    BY <1>4, Zenon
  <2>2. Len(FloatShown(below, n, prec, Flags(s))) <= FtoaSize
    BY <1>13, <1>16, <2>1, Zenon
  <2>3. size = IF num < 0 THEN -num ELSE num
    BY <1>4, Zenon
  <2> HIDE DEF size, den, prec, precision, shown
  <2>4. IsPrinted(num, den, precision, Flags(s), prec, size, n)
    BY <1>1, <1>4, <1>6, <1>7, <1>11, <2>2, <2>3, Zenon DEF IsPrinted
  <2>5. ftoa(<<num, den>>, precision, 0, Flags(s))
          = FloatShown(below, n, prec, Flags(s))
    BY <2>4, FtoaShows
  <2> QED
    BY <1>16, <2>1, <2>5, Zenon
<1> HIDE DEF near, shown
<1> QED
  BY <1>12, <1>17, <1>18, Zenon

-----------------------------------------------------------------------------
(* USB_CDC_printf, for every buffer size and every length of a format.     *)
(* Module MCPrintf runs NextFormat beside NextRtt, which leaves the        *)
(* variables of this module alone.                                         *)
UsbSpec == InitFormat /\ [][NextFormat]_formatVars

(* The texts of the items, which Whole puts together.                      *)
Texts == [k \in DOMAIN items |-> TextOf(items[k])]

FormatInv ==
  /\ items \in Seq(Conversions)
  /\ buffer = [n \in Places |-> buffer[n]]
  /\ idx = Len(Whole)
  /\ fpc = "format" => \A n \in Places :
                         buffer[n] = IF n < idx THEN Whole[n + 1] ELSE Junk
  /\ TextOrItsHead

(* Whole is a text, and one item more makes it longer by its text.         *)
LEMMA WholeIsText ==
  ASSUME items \in Seq(Conversions)
  PROVE  Texts \in Seq(Seq(Char)) /\ Whole \in Seq(Char) /\ Whole = FlattenSeq(Texts)
<1>1. Texts \in Seq(Seq(Char))
  <2> DEFINE T == Seq(Char)
             n == Len(items)
  <2>1. n \in Nat /\ DOMAIN items = 1 .. n
        /\ \A k \in 1 .. n : items[k] \in Conversions
    BY LenProperties, ElementOfSeq
  <2>2. \A s \in Conversions : TextOf(s) \in T
    BY ConversionsYieldTexts DEF Text
  <2> HIDE DEF T, n
  <2>3. [k \in 1 .. n |-> TextOf(items[k])] \in Seq(T)
    BY <2>1, <2>2
  <2>4. Texts = [k \in 1 .. n |-> TextOf(items[k])]
    BY <2>1, Zenon DEF Texts
  <2> QED
    BY <2>3, <2>4 DEF T
<1>2. Whole = FlattenSeq(Texts)
  BY Zenon DEF Whole, Texts
<1>3. CASE Texts = << >>
  <2>1. Whole = << >>
    BY <1>2, <1>3, FlattenEmpty, Zenon
  <2>2. << >> \in Seq(Char)
    OBVIOUS
  <2> QED
    BY <1>1, <1>2, <2>1, <2>2, Zenon
<1>4. CASE Texts # << >>
  BY <1>1, <1>2, <1>4, FlattenHead
<1> QED
  BY <1>1, <1>2, <1>3, <1>4

LEMMA WholeGrows ==
  ASSUME items \in Seq(Conversions),
         NEW s \in Conversions, items' = Append(items, s)
  PROVE  Joins(Whole', Whole, TextOf(s)) /\ TextOf(s) \in Seq(Char)
<1>1. Texts \in Seq(Seq(Char)) /\ Whole = FlattenSeq(Texts)
  BY WholeIsText
<1>2. TextOf(s) \in Seq(Char)
  BY ConversionsYieldTexts DEF Text
<1>3. Texts' = Append(Texts, TextOf(s))
  <2> DEFINE n == Len(items)
  <2>1. n \in Nat /\ DOMAIN items = 1 .. n /\ DOMAIN items' = 1 .. n + 1
        /\ items'[n + 1] = s /\ \A k \in 1 .. n : items'[k] = items[k]
    OBVIOUS
  <2> HIDE DEF n
  <2>2. /\ Texts = [k \in 1 .. n |-> TextOf(items[k])]
        /\ Texts' = [k \in 1 .. n + 1 |-> TextOf(items'[k])]
    BY <2>1 DEF Texts
  <2>3. Len(Texts) = n
    BY <2>1, <2>2
  <2> DEFINE T == Seq(Char)
             e == TextOf(s)
  <2>4. Texts \in Seq(T) /\ e \in T
    BY <1>1, <1>2
  <2>5. ASSUME NEW k \in 1 .. n + 1
        PROVE  TextOf(items'[k]) = IF k = n + 1 THEN e ELSE Texts[k]
    <3>1. CASE k = n + 1
      BY <2>1, <3>1
    <3>2. CASE k # n + 1
      <4>1. k \in 1 .. n
        BY <2>1, <3>2
      <4> QED
        BY <2>1, <2>2, <3>2, <4>1
    <3> QED
      BY <3>1, <3>2
  <2> HIDE DEF T, e
  <2>6. /\ Append(Texts, e) \in Seq(T) /\ Len(Append(Texts, e)) = n + 1
        /\ \A k \in 1 .. n + 1 :
             Append(Texts, e)[k] = IF k = n + 1 THEN e ELSE Texts[k]
    <3>1. /\ Append(Texts, e) \in Seq(T)
          /\ Len(Append(Texts, e)) = Len(Texts) + 1
          /\ \A k \in 1 .. Len(Texts) : Append(Texts, e)[k] = Texts[k]
          /\ Append(Texts, e)[Len(Texts) + 1] = e
      BY <2>4, AppendProperties
    <3>2. \A k \in 1 .. n + 1 : k # n + 1 => k \in 1 .. n
      BY <2>1
    <3> QED
      BY <2>3, <3>1, <3>2
  <2>7. /\ Texts' \in Seq(T) /\ Len(Texts') = n + 1
        /\ \A k \in 1 .. n + 1 : Texts'[k] = Append(Texts, e)[k]
    <3>1. \A k \in 1 .. n + 1 : TextOf(items'[k]) = Append(Texts, e)[k]
      BY <2>5, <2>6
    <3>2. \A k \in 1 .. n + 1 : TextOf(items'[k]) \in T
      <4>1. \A k \in 1 .. n + 1 : Append(Texts, e)[k] \in T
        BY <2>6, ElementOfSeq
      <4> QED
        BY <3>1, <4>1
    <3>3. Texts' \in [1 .. n + 1 -> T] /\ n + 1 \in Nat
      BY <2>1, <2>2, <3>2
    <3>4. Texts' \in Seq(T) /\ Len(Texts') = n + 1
      BY <3>3
    <3>5. \A k \in 1 .. n + 1 : Texts'[k] = TextOf(items'[k])
      BY <2>2
    <3> QED
      BY <3>1, <3>4, <3>5
  <2>8. Texts' = Append(Texts, e)
    BY <2>6, <2>7, SeqEqual
  <2> QED
    BY <2>8 DEF e
<1>4. FlattenSeq(Texts') = FlattenSeq(Texts) \o TextOf(s)
  BY <1>1, <1>2, <1>3, FlattenAppend
<1>5. Whole' = FlattenSeq(Texts')
  BY Zenon DEF Whole, Texts
<1> QED
  BY <1>1, <1>2, <1>4, <1>5 DEF Joins

LEMMA FormatStep ==
  ASSUME FormatInv, NextFormat \/ UNCHANGED formatVars
  PROVE  FormatInv'
<1> USE FormatAssumption DEF None
<1> DEFINE len == Smaller(Len(Whole), BufferSize - 1)
           B == BufferSize
<1>1. /\ Whole \in Seq(Char) /\ idx = Len(Whole) /\ idx \in Nat
      /\ items \in Seq(Conversions)
      /\ B \in Nat /\ B >= 1 /\ Places = 0 .. B - 1
      /\ buffer = [n \in Places |-> buffer[n]]
  <2>1. Whole \in Seq(Char)
    BY WholeIsText DEF FormatInv
  <2>2. Len(Whole) \in Nat
    BY <2>1
  <2> QED
    BY <2>1, <2>2 DEF FormatInv, Places
<1>2. \A n \in Places : n \in Nat /\ n <= B - 1
  BY <1>1
<1>3. /\ len \in Nat /\ len <= B - 1 /\ len <= idx
      /\ len = idx \/ len = B - 1
  BY <1>1 DEF Smaller
<1>4. fpc = "format" => \A n \in Places :
                         buffer[n] = IF n < idx THEN Whole[n + 1] ELSE Junk
  BY Zenon DEF FormatInv
<1>5. fpc # "format" =>
        /\ \A n \in Places : buffer[n] = IF n < len THEN Whole[n + 1]
                                         ELSE IF n = len THEN NUL ELSE Junk
        /\ fpc = "sent" => sent = Whole
  BY Zenon DEF FormatInv, TextOrItsHead
<1>6. items' = items => Whole' = Whole
  BY Zenon DEF Whole
<1> HIDE DEF len, B
<1>7. ASSUME items' = items, idx' = idx, fpc' # "format",
             buffer' = [n \in Places |-> buffer'[n]],
             \A n \in Places : buffer'[n] = IF n < len THEN Whole[n + 1]
                                           ELSE IF n = len THEN NUL ELSE Junk,
             fpc' = "sent" => sent' = Whole
      PROVE  FormatInv'
  <2>1. Whole' = Whole
    BY <1>6, <1>7
  <2>2. TextOrItsHead'
    BY <1>1, <1>7, <2>1 DEF TextOrItsHead, len
  <2> QED
    BY <1>1, <1>7, <2>1, <2>2 DEF FormatInv
<1>8. ASSUME NEW s \in Conversions, Format(s)
      PROVE  FormatInv'
  <2> DEFINE t == TextOf(s)
  <2>1. /\ fpc = "format" /\ fpc' = "format" /\ items' = Append(items, s)
        /\ buffer' = [n \in Places |-> IF n \in idx .. idx + Len(t) - 1
                                       THEN t[n - idx + 1] ELSE buffer[n]]
        /\ idx' = idx + Len(t)
    BY <1>8 DEF Format, Out
  <2>2. Joins(Whole', Whole, t) /\ t \in Seq(Char)
    BY <1>1, <1>8, <2>1, WholeGrows
  <2> HIDE DEF t
  <2>3. /\ Len(Whole') = idx + Len(t) /\ Len(t) \in Nat
        /\ \A k \in 1 .. idx : Whole'[k] = Whole[k]
        /\ \A k \in 1 .. Len(t) : Whole'[idx + k] = t[k]
    BY <1>1, <2>2, JoinFacts, SMTT(30)
  <2>4. ASSUME NEW n \in Places
        PROVE  buffer'[n] = IF n < idx' THEN Whole'[n + 1] ELSE Junk
    <3>1. CASE n < idx
      <4>1. n \notin idx .. idx + Len(t) - 1 /\ n + 1 \in 1 .. idx
            /\ n < idx + Len(t)
        <5>1. n \in Nat /\ idx \in Nat /\ Len(t) \in Nat
          BY <1>1, <1>2, <2>3
        <5> QED
          BY <3>1, <5>1
      <4> QED
        BY <1>4, <2>1, <2>3, <3>1, <4>1
    <3>2. CASE idx <= n /\ n < idx + Len(t)
      <4>1. PICK k \in 1 .. Len(t) : k = n - idx + 1 /\ n + 1 = idx + k
        <5>1. n \in Nat /\ idx \in Nat /\ Len(t) \in Nat
          BY <1>1, <1>2, <2>3
        <5>2. n - idx + 1 \in 1 .. Len(t)
          BY <3>2, <5>1
        <5>3. n + 1 = idx + (n - idx + 1)
          BY <5>1
        <5> QED
          BY <5>2, <5>3
      <4>2. n \in idx .. idx + Len(t) - 1
        <5>1. n \in Nat /\ idx \in Nat /\ Len(t) \in Nat
          BY <1>1, <1>2, <2>3
        <5> QED
          BY <3>2, <5>1
      <4> QED
        BY <2>1, <2>3, <3>2, <4>1, <4>2
    <3>3. CASE idx + Len(t) <= n
      <4>1. n \notin idx .. idx + Len(t) - 1 /\ ~(n < idx)
            /\ ~(n < idx + Len(t))
        BY <1>1, <1>2, <2>3, <3>3, SMTT(30)
      <4> QED
        BY <1>4, <2>1, <4>1
    <3> QED
      BY <1>1, <1>2, <2>3, <3>1, <3>2, <3>3, SMTT(30)
  <2>5. items' \in Seq(Conversions)
    BY <1>1, <2>1
  <2>6. buffer' = [n \in Places |-> buffer'[n]]
    BY <2>1
  <2>7. TextOrItsHead'
    BY <2>1 DEF TextOrItsHead
  <2> QED
    BY <2>1, <2>3, <2>4, <2>5, <2>6, <2>7 DEF FormatInv
<1>9. CASE FormatSpec
  BY <1>8, <1>9 DEF FormatSpec, Conversions
<1>10. CASE FormatChar
  BY <1>8, <1>10 DEF FormatChar, Conversions
<1>11. CASE Terminate
  <2>1. /\ fpc = "format" /\ fpc' = "terminated" /\ items' = items
        /\ idx' = idx /\ buffer' = [buffer EXCEPT ![len] = NUL]
    BY <1>1, <1>11 DEF Terminate, len
  <2>2. len \in Places
    BY <1>1, <1>3
  <2>3. /\ buffer' = [n \in Places |-> buffer'[n]]
        /\ \A n \in Places : buffer'[n] = IF n = len THEN NUL ELSE buffer[n]
    BY <1>1, <2>1
  <2>4. ASSUME NEW n \in Places
        PROVE  buffer'[n] = IF n < len THEN Whole[n + 1]
                            ELSE IF n = len THEN NUL ELSE Junk
    <3>1. CASE n < len
      <4>1. n < idx /\ n # len
        BY <1>1, <1>2, <1>3, <3>1
      <4>2. buffer[n] = Whole[n + 1]
        BY ONLY <1>4, <2>1, <4>1, n \in Places
      <4>3. buffer'[n] = buffer[n]
        BY ONLY <2>3, <4>1, n \in Places
      <4> QED
        BY <3>1, <4>2, <4>3, Zenon
    <3>2. CASE n = len
      <4>1. ~(n < len)
        BY <1>3, <3>2
      <4> QED
        BY <2>3, <3>2, <4>1
    <3>3. CASE n > len
      <4>1. ~(n < idx) /\ n # len /\ ~(n < len)
        BY <1>1, <1>2, <1>3, <3>3
      <4> QED
        BY <1>4, <2>1, <2>3, <4>1
    <3> QED
      BY <1>2, <1>3, <3>1, <3>2, <3>3
  <2> QED
    BY <1>7, <2>1, <2>3, <2>4
<1>12. CASE USB_CDC_printf
  <2>1. /\ fpc = "terminated" /\ fpc' \in {"refused", "sent"}
        /\ items' = items /\ idx' = idx /\ buffer' = buffer
        /\ fpc' = "sent" =>
             idx < B /\ sent' = [n \in 1 .. idx |-> buffer[n - 1]]
    BY <1>12 DEF USB_CDC_printf, B
  <2>2. ASSUME fpc' = "sent" PROVE sent' = Whole
    <3>1. idx < B /\ sent' = [n \in 1 .. idx |-> buffer[n - 1]]
      BY <2>1, <2>2
    <3>2. len = idx
      BY <1>1, <1>3, <3>1
    <3>3. ASSUME NEW n \in 1 .. idx PROVE buffer[n - 1] = Whole[n]
      <4>1. n - 1 \in Places /\ n - 1 < len /\ (n - 1) + 1 = n
        BY <1>1, <3>1, <3>2, SMTT(30)
      <4> QED
        BY <1>5, <2>1, <4>1
    <3>4. Whole = [n \in 1 .. idx |-> Whole[n]]
      BY <1>1, LenProperties
    <3> QED
      BY <3>1, <3>3, <3>4
  <2> QED
    BY <1>1, <1>5, <1>7, <2>1, <2>2
<1>13. CASE Return
  <2>1. /\ items' = << >> /\ idx' = 0 /\ fpc' = "format"
        /\ buffer' = [n \in Places |-> Junk]
    BY <1>13 DEF Return
  <2>2. Whole' = << >>
    <3>1. [k \in DOMAIN items' |-> TextOf(items'[k])] = << >>
      BY <2>1
    <3> QED
      BY <3>1, FlattenEmpty DEF Whole
  <2>3. TextOrItsHead'
    BY <2>1 DEF TextOrItsHead
  <2> QED
    BY <1>2, <2>1, <2>2, <2>3 DEF FormatInv
<1>14. CASE UNCHANGED formatVars
  <2>1. UNCHANGED <<items, buffer, idx, fpc, sent>> /\ Whole' = Whole
    BY <1>6, <1>14 DEF formatVars
  <2> QED
    BY <2>1 DEF FormatInv, TextOrItsHead
<1> QED
  BY <1>9, <1>10, <1>11, <1>12, <1>13, <1>14 DEF NextFormat

LEMMA FormatInit == InitFormat => FormatInv
<1> SUFFICES ASSUME InitFormat PROVE FormatInv
  OBVIOUS
<1>1. /\ items = << >> /\ idx = 0 /\ fpc = "format"
      /\ buffer = [n \in Places |-> Junk]
  BY DEF InitFormat
<1>2. Whole = << >>
  <2>1. [k \in DOMAIN items |-> TextOf(items[k])] = << >>
    BY <1>1
  <2> QED
    BY <2>1, FlattenEmpty DEF Whole
<1>3. TextOrItsHead
  BY <1>1 DEF TextOrItsHead
<1>4. \A n \in Places : ~(n < 0)
  BY DEF Places
<1> QED
  BY <1>1, <1>2, <1>3, <1>4 DEF FormatInv

(* The buffer holds the text, or the head of it, with a terminator and     *)
(* nothing behind; what is transmitted is the whole text, and the value    *)
(* returned its length.                                                    *)
THEOREM NeverAHead == UsbSpec => []TextOrItsHead
<1>1. InitFormat => FormatInv
  BY FormatInit
<1>2. FormatInv /\ [NextFormat]_formatVars => FormatInv'
  BY FormatStep
<1>3. FormatInv => TextOrItsHead
  BY DEF FormatInv
<1> QED
  BY <1>1, <1>2, <1>3, PTL DEF UsbSpec

(* An integer is printed as ISO C has it, whatever flags, width, precision *)
(* and argument are combined, where AsC says so.                           *)
THEOREM IntegersAreAsC == UsbSpec => []IntegersAsC
<1>1. InitFormat => FormatInv
  BY FormatInit
<1>2. FormatInv /\ [NextFormat]_formatVars => FormatInv'
  BY FormatStep
<1>3. FormatInv => IntegersAsC
  <2> SUFFICES ASSUME FormatInv, NEW k \in DOMAIN items,
                      items[k].kind \in Signed \cup Unsigned, AsC(items[k])
               PROVE  TextOf(items[k]) = CText(items[k])
    BY Zenon DEF IntegersAsC
  <2>1. items[k] \in Conversions
    BY LenProperties, ElementOfSeq DEF FormatInv
  <2>2. items[k] \notin FloatSpecs /\ items[k] \notin PointerSpecs
        /\ items[k] \notin TextSpecs /\ items[k] \notin Plain
    BY DEF FloatSpecs, PointerSpecs, TextSpecs, Plain, Signed, Unsigned
  <2>3. items[k] \in IntegerSpecs
    BY <2>1, <2>2 DEF Conversions
  <2> QED
    BY <2>3, PrintedAsC
<1> QED
  BY <1>1, <1>2, <1>3, PTL DEF UsbSpec

(* A number is printed within half of its last decimal, for every value,   *)
(* precision and set of flags.                                             *)
THEOREM FloatsAreNearest == UsbSpec => []FloatsNearest
<1>1. InitFormat => FormatInv
  BY FormatInit
<1>2. FormatInv /\ [NextFormat]_formatVars => FormatInv'
  BY FormatStep
<1>3. FormatInv => FloatsNearest
  <2> SUFFICES ASSUME FormatInv, NEW k \in DOMAIN items,
                      items[k].kind = "f", items[k].arg[2] # 0
               PROVE  Nearest(items[k])
    BY Zenon DEF FloatsNearest
  <2>1. items[k] \in Conversions
    BY LenProperties, ElementOfSeq DEF FormatInv
  <2>2. items[k] \notin IntegerSpecs /\ items[k] \notin PointerSpecs
        /\ items[k] \notin TextSpecs /\ items[k] \notin Plain
    BY DEF IntegerSpecs, PointerSpecs, TextSpecs, Plain, Signed, Unsigned
  <2>3. items[k] \in FloatSpecs
    BY <2>1, <2>2 DEF Conversions
  <2> QED
    BY <2>3, FloatNearest
<1> QED
  BY <1>1, <1>2, <1>3, PTL DEF UsbSpec
=============================================================================
