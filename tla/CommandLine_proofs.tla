------------------------- MODULE CommandLine_proofs -------------------------
(***************************************************************************)
(* Proofs about parseData: for every length and number of rows, every set  *)
(* of characters, any number of calls and texts of any length.  Behind     *)
(* them those about checkUserInput, the splitter that parseData replaced.  *)
(*                                                                         *)
(* "The line" of a text is what is behind its last carriage return.        *)
(***************************************************************************)
EXTENDS CommandLine, Lemmas

-----------------------------------------------------------------------------
(* The "AT"s of a line, without its start: those behind every carriage     *)
(* return before place n.                                                  *)
BehindReturns(s, n, p) == \A m \in 1 .. n - 1 : s[m] = "CR" => m < p
ATsIn(s, n) == {p \in 1 .. n - 2 : /\ s[p] = "A" /\ s[p + 1] = "T"
                                   /\ BehindReturns(s, n, p)}

LEMMA LineStartIs ==
  ASSUME NEW s, NEW n \in Nat, n >= 1
  PROVE  /\ LineStart(s, n) \in 1 .. n
         /\ \A p \in Nat : p >= 1 => (LineStart(s, n) <= p
                                        <=> BehindReturns(s, n, p))
<1> DEFINE returns == {m \in 1 .. n - 1 : s[m] = "CR"}
           all == {0} \cup returns
<1>1. all \subseteq 0 .. n /\ all # {}
  OBVIOUS
<1>2. PICK x \in all : \A y \in all : y <= x
  <2> HIDE DEF all
  <2> QED
    BY <1>1, GreatestElement
<1>3. \A y \in all : y \in Int /\ y >= 0 /\ y <= n - 1
  OBVIOUS
<1>4. Max(all) \in all /\ \A y \in all : Max(all) >= y
  <2> HIDE DEF all
  <2>1. \A y \in all : x >= y
    BY <1>2, <1>3
  <2> QED
    BY <1>2, <2>1, Zenon DEF Max
<1>5. LineStart(s, n) = 1 + Max(all)
  BY Zenon DEF LineStart
<1>6. LineStart(s, n) \in 1 .. n
  <2> HIDE DEF all
  <2> QED
    BY <1>3, <1>4, <1>5
<1>7. ASSUME NEW p \in Nat, p >= 1
      PROVE  LineStart(s, n) <= p <=> BehindReturns(s, n, p)
  <2>1. ASSUME LineStart(s, n) <= p, NEW m \in 1 .. n - 1, s[m] = "CR"
        PROVE  m < p
    <3>1. m \in all
      BY <2>1
    <3> HIDE DEF all
    <3>2. Max(all) \in Int /\ m <= Max(all)
      BY <1>3, <1>4, <3>1
    <3> QED
      BY <1>5, <2>1, <3>2
  <2>2. ASSUME BehindReturns(s, n, p)
        PROVE  LineStart(s, n) <= p
    <3>1. \A y \in all : y < p
      BY <2>2, <1>7 DEF BehindReturns
    <3> HIDE DEF all
    <3> QED
      BY <1>3, <1>4, <1>5, <3>1
  <2> QED
    BY <2>1, <2>2 DEF BehindReturns
<1> QED
  BY <1>6, <1>7

LEMMA ATsAre ==
  ASSUME NEW s, NEW n \in Nat, n >= 1
  PROVE  ATs(s, n) = ATsIn(s, n)
<1>1. LineStart(s, n) \in 1 .. n
      /\ \A p \in Nat : p >= 1 => (LineStart(s, n) <= p
                                     <=> BehindReturns(s, n, p))
  BY LineStartIs
<1>2. \A p \in Int : p \in LineStart(s, n) .. n - 2
                       <=> p \in 1 .. n - 2 /\ BehindReturns(s, n, p)
  BY <1>1
<1>3. \A p \in 1 .. n - 2 : p \in Int
  OBVIOUS
<1>4. \A p \in LineStart(s, n) .. n - 2 : p \in Int
  OBVIOUS
<1> QED
  BY <1>2, <1>3, <1>4 DEF ATs, ATsIn

(* Only what is before place n counts.                                     *)
LEMMA ATsAlike ==
  ASSUME NEW s, NEW t, NEW n \in Nat, n >= 1, Alike(s, t, n - 1)
  PROVE  ATs(s, n) = ATs(t, n)
<1>1. \A m \in 1 .. n - 1 : s[m] = t[m]
  BY Zenon DEF Alike
<1>2. \A p \in 1 .. n - 2 : p \in 1 .. n - 1 /\ p + 1 \in 1 .. n - 1
  OBVIOUS
<1>3. ATsIn(s, n) = ATsIn(t, n)
  BY <1>1, <1>2 DEF ATsIn, BehindReturns
<1> QED
  BY <1>3, ATsAre

(* The first "AT" of a line that has one.                                  *)
LEMMA FirstAT ==
  ASSUME NEW s, NEW n \in Nat, n >= 1, ATs(s, n) # {}
  PROVE  /\ Min(ATs(s, n)) \in ATs(s, n) /\ Min(ATs(s, n)) \in 1 .. n - 2
         /\ \A p \in ATs(s, n) : Min(ATs(s, n)) <= p
<1> DEFINE T == ATs(s, n)
<1>1. T \subseteq 1 .. n - 2
  BY ATsAre DEF ATsIn
<1>2. T \subseteq Nat
  BY <1>1
<1> HIDE DEF T
<1>3. T # {}
  BY DEF T
<1>4. \E x \in T : \A y \in T : x <= y
  BY <1>2, <1>3, LeastElement
<1>5. Min(T) \in T /\ \A y \in T : Min(T) <= y
  BY <1>4, Zenon DEF Min
<1> QED
  BY <1>1, <1>5 DEF T

-----------------------------------------------------------------------------
(* The line in progress, and the line that the last character closed: what *)
(* one character more makes of them.                                       *)
Latest(s) == IF s = << >> THEN NUL ELSE s[Len(s)]
Open(s) == ATs(s, Len(s) + 1)
Closed(s) == IF Latest(s) = "CR" THEN ATs(s, Len(s)) ELSE {}

LEMMA AppendFacts ==
  ASSUME NEW s \in Seq(Chars), NEW c \in Chars
  PROVE  LET t == Append(s, c)
         IN /\ t \in Seq(Chars) /\ t # << >> /\ Len(t) = Len(s) + 1
            /\ Len(s) \in Nat /\ Latest(t) = c
            /\ \A i \in 1 .. Len(s) : t[i] = s[i]
            /\ t[Len(s) + 1] = c
<1>1. LET t == Append(s, c)
      IN /\ t \in Seq(Chars) /\ t # << >> /\ Len(t) = Len(s) + 1
         /\ \A i \in 1 .. Len(s) : t[i] = s[i]
         /\ t[Len(s) + 1] = c
  BY AppendProperties
<1>2. Len(s) \in Nat
  BY LenProperties
<1> QED
  BY <1>1, <1>2 DEF Latest

LEMMA OpenGrows ==
  ASSUME NEW s \in Seq(Chars), NEW c \in Chars
  PROVE  Open(Append(s, c)) =
           IF c = "CR" THEN {}
           ELSE Open(s) \cup (IF Latest(s) = "A" /\ c = "T" THEN {Len(s)}
                              ELSE {})
<1> DEFINE t == Append(s, c)
           n == Len(s)
<1>1. /\ t \in Seq(Chars) /\ t # << >> /\ Len(t) = n + 1
      /\ n \in Nat /\ Latest(t) = c
      /\ \A i \in 1 .. n : t[i] = s[i]
      /\ t[n + 1] = c
  BY AppendFacts
<1>2. Latest(s) = "A" <=> n >= 1 /\ s[n] = "A"
  <2>1. CASE s = << >>
    BY <2>1, ParserAssumption DEF Latest, NUL
  <2>2. CASE s # << >>
    <3>1. Len(s) # 0
      BY <2>2, EmptySeq
    <3> QED
      BY <2>2, <3>1, <1>1 DEF Latest
  <2> QED
    BY <2>1, <2>2
<1> HIDE DEF t, n
<1>3. Open(t) = ATsIn(t, n + 2) /\ Open(s) = ATsIn(s, n + 1)
  <2>1. Len(t) + 1 = n + 2 /\ n + 2 \in Nat /\ n + 2 >= 1
        /\ n + 1 \in Nat /\ n + 1 >= 1
    BY <1>1
  <2>2. Open(t) = ATs(t, n + 2) /\ Open(s) = ATs(s, n + 1)
    BY <2>1 DEF Open, n
  <2> QED
    BY <2>1, <2>2, ATsAre
<1>4. /\ \A p : p \in ATsIn(t, n + 2) <=>
             p \in 1 .. n /\ t[p] = "A" /\ t[p + 1] = "T"
             /\ \A m \in 1 .. n + 1 : t[m] = "CR" => m < p
      /\ \A p : p \in ATsIn(s, n + 1) <=>
             p \in 1 .. n - 1 /\ s[p] = "A" /\ s[p + 1] = "T"
             /\ \A m \in 1 .. n : s[m] = "CR" => m < p
  <2>1. (n + 2) - 2 = n /\ (n + 2) - 1 = n + 1
        /\ (n + 1) - 2 = n - 1 /\ (n + 1) - 1 = n
    BY <1>1
  <2> QED
    BY <2>1 DEF ATsIn, BehindReturns
<1>5. CASE c = "CR"
  <2>1. ASSUME NEW p \in 1 .. n, \A m \in 1 .. n + 1 : t[m] = "CR" => m < p
        PROVE  FALSE
    <3>1. n + 1 \in 1 .. n + 1 /\ ~(n + 1 < p)
      BY <1>1
    <3> QED
      BY <1>1, <1>5, <2>1, <3>1
  <2>2. ATsIn(t, n + 2) = {}
    BY <1>4, <2>1
  <2> QED
    BY <1>3, <1>5, <2>2 DEF t
<1>6. CASE c # "CR"
  <2>1. ASSUME NEW p \in 1 .. n - 1
        PROVE  p \in ATsIn(t, n + 2) <=> p \in ATsIn(s, n + 1)
    <3>1. p \in 1 .. n /\ p + 1 \in 1 .. n
      BY <1>1
    <3>2. \A m \in 1 .. n : m \in 1 .. n + 1
      BY <1>1
    <3>3. \A m \in 1 .. n + 1 : m \in 1 .. n \/ m = n + 1
      BY <1>1
    <3>4. (\A m \in 1 .. n + 1 : t[m] = "CR" => m < p)
            <=> (\A m \in 1 .. n : s[m] = "CR" => m < p)
      BY <1>1, <1>6, <3>2, <3>3
    <3> QED
      BY <1>1, <1>4, <3>1, <3>4
  <2>2. ASSUME n >= 1
        PROVE  n \in ATsIn(t, n + 2) <=> s[n] = "A" /\ c = "T"
    <3>1. n \in 1 .. n /\ t[n] = s[n] /\ t[n + 1] = c
      BY <1>1, <2>2
    <3>2. ASSUME s[n] = "A", NEW m \in 1 .. n + 1, t[m] = "CR"
          PROVE  m < n \/ ~(\A k \in 1 .. n - 1 : k < n)
      <4>1. m # n + 1 /\ m # n
        BY <1>1, <1>6, <3>1, <3>2
      <4> QED
        BY <1>1, <4>1
    <3> QED
      BY <1>1, <1>4, <3>1, <3>2
  <2>3. \A p : p \in 1 .. n <=> p \in 1 .. n - 1 \/ (p = n /\ n >= 1)
    BY <1>1
  <2>4. n \notin 1 .. n - 1
    BY <1>1
  <2>5. \A p : p \in ATsIn(t, n + 2) <=>
                 p \in ATsIn(s, n + 1)
                 \/ p \in (IF Latest(s) = "A" /\ c = "T" THEN {n} ELSE {})
    BY <1>2, <1>4, <2>1, <2>2, <2>3, <2>4
  <2>6. ATsIn(t, n + 2) = ATsIn(s, n + 1) \cup
                   (IF Latest(s) = "A" /\ c = "T" THEN {n} ELSE {})
    BY <2>5, Zenon
  <2> QED
    BY <1>3, <1>6, <2>6 DEF t, n
<1> QED
  BY <1>5, <1>6

LEMMA ClosedGrows ==
  ASSUME NEW s \in Seq(Chars), NEW c \in Chars
  PROVE  Closed(Append(s, c)) = IF c = "CR" THEN Open(s) ELSE {}
<1> DEFINE t == Append(s, c)
           n == Len(s)
<1>1. /\ Len(t) = n + 1 /\ n \in Nat /\ Latest(t) = c
      /\ \A i \in 1 .. n : t[i] = s[i]
  BY AppendFacts
<1> HIDE DEF t, n
<1>2. n + 1 \in Nat /\ n + 1 >= 1 /\ (n + 1) - 1 = n
  BY <1>1
<1>3. ATs(t, n + 1) = ATs(s, n + 1)
  <2>1. Alike(t, s, (n + 1) - 1)
    BY <1>1, <1>2 DEF Alike
  <2> QED
    BY <1>2, <2>1, ATsAlike
<1> QED
  BY <1>1, <1>3 DEF Closed, Open, t, n

LEMMA EndsGrow ==
  ASSUME NEW s \in Seq(Chars), NEW c \in Chars
  PROVE  /\ Ends(s) \subseteq 1 .. Len(s) - 1
         /\ Ends(Append(s, c)) = Ends(s) \cup
              (IF c = "LF" /\ Closed(s) # {} THEN {Len(s)} ELSE {})
<1> DEFINE t == Append(s, c)
           n == Len(s)
<1>1. /\ Len(t) = n + 1 /\ n \in Nat
      /\ \A i \in 1 .. n : t[i] = s[i]
      /\ t[n + 1] = c
  BY AppendFacts
<1>2. \A m : m \in Ends(s) <=> m \in 1 .. n - 1 /\ s[m] = "CR"
                               /\ s[m + 1] = "LF" /\ ATs(s, m) # {}
  BY DEF Ends
<1>3. Ends(t) = {m \in 1 .. Len(t) - 1 : /\ t[m] = "CR" /\ t[m + 1] = "LF"
                                         /\ ATs(t, m) # {}}
  BY DEF Ends
<1>4. n >= 1 => (Closed(s) = IF s[n] = "CR" THEN ATs(s, n) ELSE {})
  <2>1. n >= 1 => s # << >>
    OBVIOUS
  <2> QED
    BY <2>1 DEF Closed, Latest
<1>5. n < 1 => Closed(s) = {}
  <2>1. n < 1 => s = << >>
    <3>1. s # << >> => Len(s) \in Nat \ {0}
      BY EmptySeq
    <3> QED
      BY <3>1
  <2>2. NUL # "CR"
    BY DEF NUL
  <2> QED
    BY <2>1, <2>2 DEF Closed, Latest
<1> HIDE DEF t, n
<1>6. \A m : m \in Ends(t) <=> m \in 1 .. n /\ t[m] = "CR"
                               /\ t[m + 1] = "LF" /\ ATs(t, m) # {}
  <2>1. Len(t) - 1 = n
    BY <1>1
  <2> QED
    BY <1>3, <2>1
<1>7. ASSUME NEW m \in 1 .. n PROVE ATs(t, m) = ATs(s, m)
  <2>1. m \in Nat /\ m >= 1
    BY <1>1
  <2>2. Alike(t, s, m - 1)
    <3>1. \A i \in 1 .. m - 1 : i \in 1 .. n
      BY <1>1
    <3> QED
      BY <1>1, <3>1 DEF Alike
  <2> QED
    BY <2>1, <2>2, ATsAlike
<1>8. \A m \in 1 .. n - 1 : m \in 1 .. n /\ m + 1 \in 1 .. n
  BY <1>1
<1>9. \A m \in 1 .. n - 1 : m \in Ends(t) <=> m \in Ends(s)
  BY <1>1, <1>2, <1>6, <1>7, <1>8
<1>10. n >= 1 => (n \in Ends(t) <=> c = "LF" /\ Closed(s) # {})
  <2>1. n >= 1 => n \in 1 .. n
    BY <1>1
  <2> QED
    BY <1>1, <1>4, <1>6, <1>7, <2>1
<1>11. \A m : m \in 1 .. n <=> m \in 1 .. n - 1 \/ (m = n /\ n >= 1)
  BY <1>1
<1>12. n \notin 1 .. n - 1
  BY <1>1
<1>13. n >= 1 \/ n < 1
  BY <1>1
<1>14. \A m : m \in Ends(t) <=>
               m \in Ends(s) \/ m \in (IF c = "LF" /\ Closed(s) # {} THEN {n}
                                       ELSE {})
  BY <1>2, <1>5, <1>6, <1>9, <1>10, <1>11, <1>12, <1>13
<1>15. Ends(t) = Ends(s) \cup (IF c = "LF" /\ Closed(s) # {} THEN {n} ELSE {})
  BY <1>14, Zenon
<1> QED
  BY <1>2, <1>15 DEF t, n

-----------------------------------------------------------------------------
(* Counting the ends of commands from the left.                            *)
LEMMA NthFacts ==
  ASSUME NEW top \in Nat, NEW S, S \subseteq 1 .. top
  PROVE  /\ IsFiniteSet(S) /\ Cardinality(S) \in Nat
         /\ \A k \in 1 .. Cardinality(S) :
              Nth(S, k) \in S /\ Cardinality(UpTo(S, Nth(S, k))) = k
         /\ \A m \in S : /\ Cardinality(UpTo(S, m)) \in 1 .. Cardinality(S)
                        /\ Nth(S, Cardinality(UpTo(S, m))) = m
<1>1. \A k : Nth(S, k) = CHOOSE n \in S : Cardinality(UpTo(S, n)) = k
  BY Zenon DEF Nth, UpTo
<1>2. \A k \in 1 .. Cardinality(S) :
        Nth(S, k) \in S /\ Cardinality(UpTo(S, Nth(S, k))) = k
  BY <1>1, CountThrough, ZenonT(60)
<1>3. IsFiniteSet(S) /\ Cardinality(S) \in Nat
  <2>1. 0 \in Nat
    OBVIOUS
  <2> QED
    BY <2>1, UpToFinite
<1>4. ASSUME NEW m \in S
      PROVE  /\ Cardinality(UpTo(S, m)) \in 1 .. Cardinality(S)
             /\ Nth(S, Cardinality(UpTo(S, m))) = m
  <2> DEFINE c == Cardinality(UpTo(S, m))
             n == Nth(S, c)
  <2>1. \A k \in S : k \in Nat
    OBVIOUS
  <2>2. /\ IsFiniteSet(UpTo(S, m)) /\ c \in Nat /\ c <= Cardinality(S)
    BY <2>1, UpToFinite
  <2>3. m \in UpTo(S, m)
    BY <2>1 DEF UpTo
  <2>4. c # 0
    BY <2>2, <2>3, FS_EmptySet
  <2>5. c \in 1 .. Cardinality(S)
    BY <1>3, <2>2, <2>4
  <2>6. n \in S /\ Cardinality(UpTo(S, n)) = c
    BY <1>2, <2>5
  <2>7. n \in Nat /\ m \in Nat
    BY <2>1, <2>6
  <2>8. IsFiniteSet(UpTo(S, n)) /\ n \in UpTo(S, n)
    <3>1. n <= n
      BY <2>7
    <3>2. IsFiniteSet(UpTo(S, n))
      BY <2>7, UpToFinite
    <3> HIDE DEF n
    <3> QED
      BY <2>6, <3>1, <3>2 DEF UpTo
  <2> HIDE DEF c, n
  <2>9. CASE n <= m
    <3>1. UpTo(S, n) \in SUBSET UpTo(S, m)
      <4>1. \A k \in S : k <= n => k <= m
        BY <2>1, <2>7, <2>9
      <4> QED
        BY <4>1 DEF UpTo
    <3>2. UpTo(S, m) = UpTo(S, n)
      BY <2>2, <2>6, <3>1, FS_Subset DEF c
    <3>3. m <= n
      BY <2>3, <3>2 DEF UpTo
    <3> QED
      BY <2>5, <2>7, <2>9, <3>3 DEF c, n
  <2>10. CASE m <= n
    <3>1. UpTo(S, m) \in SUBSET UpTo(S, n)
      <4>1. \A k \in S : k <= m => k <= n
        BY <2>1, <2>7, <2>10
      <4> QED
        BY <4>1 DEF UpTo
    <3>2. UpTo(S, n) = UpTo(S, m)
      BY <2>6, <2>8, <3>1, FS_Subset DEF c
    <3>3. n <= m
      BY <2>8, <3>2 DEF UpTo
    <3> QED
      BY <2>5, <2>7, <2>10, <3>3 DEF c, n
  <2> QED
    BY <2>7, <2>9, <2>10
<1> QED
  BY <1>2, <1>3, <1>4

LEMMA NthGrows ==
  ASSUME NEW top \in Nat, NEW S, S \subseteq 1 .. top, NEW m \in Nat, m > top
  PROVE  /\ Cardinality(S \cup {m}) = Cardinality(S) + 1
         /\ \A k \in 1 .. Cardinality(S) : Nth(S \cup {m}, k) = Nth(S, k)
         /\ Nth(S \cup {m}, Cardinality(S) + 1) = m
<1> DEFINE T == S \cup {m}
<1>0. \A n \in S : n \in Nat /\ n <= top /\ n < m /\ 1 <= n
  OBVIOUS
<1>1. m \notin S
  BY <1>0
<1>2. /\ IsFiniteSet(S) /\ Cardinality(S) \in Nat
      /\ \A k \in 1 .. Cardinality(S) :
           Nth(S, k) \in S /\ Cardinality(UpTo(S, Nth(S, k))) = k
  BY NthFacts
<1>3. Cardinality(T) = Cardinality(S) + 1
  BY <1>1, <1>2, FS_AddElement
<1>4. T \subseteq 1 .. m
  BY <1>0
<1>5. \A n \in T : /\ Cardinality(UpTo(T, n)) \in 1 .. Cardinality(T)
                  /\ Nth(T, Cardinality(UpTo(T, n))) = n
  <2> HIDE DEF T
  <2> QED
    BY <1>4, NthFacts
<1>6. \A n \in S : UpTo(T, n) = UpTo(S, n)
  <2>1. \A n \in S : ~(m <= n)
    BY <1>0
  <2> QED
    BY <2>1 DEF UpTo
<1>7. UpTo(T, m) = T
  <2>1. \A n \in T : n <= m
    BY <1>0
  <2> QED
    BY <2>1 DEF UpTo
<1>8. m \in T /\ \A n \in S : n \in T
  OBVIOUS
<1> HIDE DEF T
<1>9. \A k \in 1 .. Cardinality(S) : Nth(T, k) = Nth(S, k)
  BY <1>2, <1>5, <1>6, <1>8
<1>10. Nth(T, Cardinality(S) + 1) = m
  BY <1>3, <1>5, <1>7, <1>8
<1> QED
  BY <1>3, <1>9, <1>10 DEF T

-----------------------------------------------------------------------------
(* A command is a text that runs from the first "AT" of its line to the    *)
(* line feed.                                                              *)
LEMMA CommandIs ==
  ASSUME NEW s \in Seq(Chars), NEW n \in Ends(s)
  PROVE  LET p == Min(ATs(s, n))
         IN /\ p \in 1 .. n - 2 /\ n \in 1 .. Len(s) - 1
            /\ CommandAt(s, n) \in Seq(Chars)
            /\ Len(CommandAt(s, n)) = (n + 2) - p
            /\ \A k \in 1 .. (n + 2) - p :
                 CommandAt(s, n)[k] = s[(p + k) - 1]
<1> DEFINE p == Min(ATs(s, n))
<1>1. n \in 1 .. Len(s) - 1 /\ ATs(s, n) # {} /\ Len(s) \in Nat
  BY LenProperties DEF Ends
<1>2. n \in Nat /\ n >= 1 /\ n + 1 <= Len(s)
  BY <1>1
<1>3. p \in 1 .. n - 2
  BY <1>1, <1>2, FirstAT
<1>4. CommandAt(s, n) = SubSeq(s, p, n + 1)
  BY Zenon DEF CommandAt
<1> HIDE DEF p
<1>5. \A i \in p .. n + 1 : s[i] \in Chars
  <2>1. \A i \in p .. n + 1 : i \in 1 .. Len(s)
    BY <1>1, <1>2, <1>3
  <2> QED
    BY <2>1, ElementOfSeq
<1>6. /\ SubSeq(s, p, n + 1) \in Seq(Chars)
      /\ Len(SubSeq(s, p, n + 1)) =
           IF p <= n + 1 THEN (n + 1) - p + 1 ELSE 0
      /\ \A i \in 1 .. (n + 1) - p + 1 :
           SubSeq(s, p, n + 1)[i] = s[p + i - 1]
  <2>1. p \in Int /\ n + 1 \in Int
    BY <1>2, <1>3
  <2> QED
    BY <1>5, <2>1, SubSeqProperties
<1>7. p <= n + 1 /\ (n + 1) - p + 1 = (n + 2) - p
  BY <1>2, <1>3
<1> QED
  BY <1>1, <1>3, <1>4, <1>6, <1>7 DEF p

(* A text that goes on keeps its commands.                                 *)
LEMMA EndsStay ==
  ASSUME NEW s \in Seq(Chars), NEW t \in Seq(Chars), Len(s) <= Len(t),
         Alike(s, t, Len(s)), NEW n \in Ends(s)
  PROVE  n \in Ends(t) /\ CommandAt(t, n) = CommandAt(s, n)
<1>1. /\ n \in 1 .. Len(s) - 1 /\ s[n] = "CR" /\ s[n + 1] = "LF"
      /\ ATs(s, n) # {} /\ Len(s) \in Nat /\ Len(t) \in Nat
  BY LenProperties DEF Ends
<1>2. \A i \in 1 .. Len(s) : s[i] = t[i]
  BY Zenon DEF Alike
<1>3. n \in Nat /\ n >= 1 /\ n \in 1 .. Len(t) - 1 /\ n \in 1 .. Len(s)
      /\ n + 1 \in 1 .. Len(s)
  BY <1>1
<1>4. ATs(t, n) = ATs(s, n)
  <2>1. Alike(t, s, n - 1)
    <3>1. \A i \in 1 .. n - 1 : i \in 1 .. Len(s)
      BY <1>1
    <3> QED
      BY <1>2, <3>1 DEF Alike
  <2> QED
    BY <1>3, <2>1, ATsAlike
<1>5. n \in Ends(t)
  BY <1>1, <1>2, <1>3, <1>4 DEF Ends
<1> DEFINE p == Min(ATs(s, n))
           d == CommandAt(t, n)
           e == CommandAt(s, n)
<1>6. /\ p \in 1 .. n - 2 /\ e \in Seq(Chars) /\ Len(e) = (n + 2) - p
      /\ \A k \in 1 .. (n + 2) - p : e[k] = s[(p + k) - 1]
  BY CommandIs
<1>7. /\ d \in Seq(Chars) /\ Len(d) = (n + 2) - p
      /\ \A k \in 1 .. (n + 2) - p : d[k] = t[(p + k) - 1]
  BY <1>4, <1>5, CommandIs
<1> HIDE DEF p, d, e
<1>8. \A k \in 1 .. (n + 2) - p : (p + k) - 1 \in 1 .. Len(s)
  BY <1>1, <1>3, <1>6
<1>9. \A k \in 1 .. (n + 2) - p : d[k] = e[k]
  BY <1>2, <1>6, <1>7, <1>8
<1>10. d = e
  BY <1>6, <1>7, <1>9, SeqEqual
<1> QED
  BY <1>5, <1>10 DEF d, e

LEMMA CommandsAre ==
  ASSUME NEW s \in Seq(Chars)
  PROVE  /\ CommandsOf(s) \in Seq(Seq(Chars))
         /\ Len(CommandsOf(s)) = Cardinality(Ends(s))
         /\ Cardinality(Ends(s)) \in Nat /\ IsFiniteSet(Ends(s))
         /\ ToSet(CommandsOf(s)) = {CommandAt(s, n) : n \in Ends(s)}
<1> DEFINE S == Ends(s)
           N == Cardinality(S)
           T == Seq(Chars)
<1>1. S \subseteq 1 .. Len(s) /\ Len(s) \in Nat
  <2>1. Len(s) \in Nat
    BY LenProperties
  <2>2. \A n \in 1 .. Len(s) - 1 : n \in 1 .. Len(s)
    BY <2>1
  <2> QED
    BY <2>1, <2>2 DEF Ends
<1>2. \A n \in S : CommandAt(s, n) \in T
  BY CommandIs
<1>3. CommandsOf(s) = [k \in 1 .. N |-> CommandAt(s, Nth(S, k))]
  BY Zenon DEF CommandsOf
<1>4. DOMAIN CommandsOf(s) = 1 .. N
  BY <1>3
<1> HIDE DEF S, T
<1>5. /\ IsFiniteSet(S) /\ N \in Nat /\ \A k \in 1 .. N : Nth(S, k) \in S
      /\ \A m \in S : \E k \in 1 .. N : Nth(S, k) = m
  BY <1>1, NthFacts, ZenonT(60)
<1> HIDE DEF N
<1>6. CommandsOf(s) \in Seq(T) /\ Len(CommandsOf(s)) = N
  <2>1. [k \in 1 .. N |-> CommandAt(s, Nth(S, k))] \in [1 .. N -> T]
    BY <1>2, <1>5
  <2> QED
    BY <1>3, <1>5, <2>1
<1>7. ToSet(CommandsOf(s)) = {CommandAt(s, n) : n \in S}
  <2>1. \A k \in 1 .. N : CommandsOf(s)[k] = CommandAt(s, Nth(S, k))
    BY <1>3
  <2>2. ToSet(CommandsOf(s)) = {CommandsOf(s)[k] : k \in 1 .. N}
    BY <1>4 DEF ToSet
  <2> QED
    BY <1>5, <2>1, <2>2
<1> QED
  BY <1>5, <1>6, <1>7 DEF S, N, T

(* One character more: a command more, when a line feed ends it.           *)
LEMMA CommandsGrow ==
  ASSUME NEW s \in Seq(Chars), NEW c \in Chars
  PROVE  LET t == Append(s, c)
         IN CommandsOf(t) =
              IF c = "LF" /\ Closed(s) # {}
              THEN Append(CommandsOf(s), CommandAt(t, Len(s)))
              ELSE CommandsOf(s)
<1> DEFINE t == Append(s, c)
           n == Len(s)
           S == Ends(s)
           N == Cardinality(S)
           T == Seq(Chars)
<1>1. /\ t \in Seq(Chars) /\ Len(t) = n + 1 /\ n \in Nat
      /\ Alike(s, t, n) /\ n <= Len(t)
  <2>1. /\ t \in Seq(Chars) /\ Len(t) = n + 1 /\ n \in Nat
        /\ \A i \in 1 .. n : t[i] = s[i]
    BY AppendFacts
  <2> QED
    BY <2>1 DEF Alike
<1>2. /\ S \subseteq 1 .. n - 1
      /\ Ends(t) = S \cup (IF c = "LF" /\ Closed(s) # {} THEN {n} ELSE {})
  BY EndsGrow
<1>3. \A m \in S : CommandAt(t, m) = CommandAt(s, m)
  BY <1>1, EndsStay
<1>4. /\ CommandsOf(s) \in Seq(T) /\ Len(CommandsOf(s)) = N /\ N \in Nat
      /\ CommandsOf(t) \in Seq(T)
      /\ Len(CommandsOf(t)) = Cardinality(Ends(t))
  BY <1>1, CommandsAre
<1>5. /\ \A k \in 1 .. N : CommandsOf(s)[k] = CommandAt(s, Nth(S, k))
      /\ \A k \in 1 .. Cardinality(Ends(t)) :
           CommandsOf(t)[k] = CommandAt(t, Nth(Ends(t), k))
  BY DEF CommandsOf
<1>6. \A k \in 1 .. N : Nth(S, k) \in S
  <2>1. S \subseteq 1 .. n
    <3>1. \A m \in 1 .. n - 1 : m \in 1 .. n
      BY <1>1
    <3> QED
      BY <1>2, <3>1
  <2> HIDE DEF S
  <2> QED
    BY <1>1, <2>1, NthFacts
<1>7. c = "LF" /\ Closed(s) # {} => n \in Ends(t)
  BY <1>2
<1>8. n \in Ends(t) => CommandAt(t, n) \in T
  BY <1>1, CommandIs
<1> HIDE DEF t, n, S, N, T
<1>9. CASE c = "LF" /\ Closed(s) # {}
  <2>1. Ends(t) = S \cup {n}
    BY <1>2, <1>9
  <2>2. n >= 1 /\ n - 1 \in Nat
    <3>1. n \in 1 .. Len(t) - 1
      BY <1>7, <1>9 DEF Ends
    <3> QED
      BY <1>1, <3>1
  <2>3. /\ Cardinality(Ends(t)) = N + 1
        /\ \A k \in 1 .. N : Nth(Ends(t), k) = Nth(S, k)
        /\ Nth(Ends(t), N + 1) = n
    <3> DEFINE top == n - 1
    <3>1. n > top /\ n \in Nat /\ top \in Nat /\ S \subseteq 1 .. top
      BY <1>1, <1>2, <2>2
    <3> HIDE DEF top
    <3>2. /\ Cardinality(S \cup {n}) = Cardinality(S) + 1
          /\ \A k \in 1 .. Cardinality(S) : Nth(S \cup {n}, k) = Nth(S, k)
          /\ Nth(S \cup {n}, Cardinality(S) + 1) = n
      BY <3>1, NthGrows, ZenonT(60)
    <3> QED
      BY <2>1, <3>2 DEF N
  <2> DEFINE a == CommandAt(t, n)
             u == Append(CommandsOf(s), a)
  <2>4. a \in T
    BY <1>7, <1>8, <1>9
  <2> HIDE DEF a
  <2>5. /\ u \in Seq(T) /\ Len(u) = N + 1 /\ u[N + 1] = a
        /\ \A k \in 1 .. N : u[k] = CommandsOf(s)[k]
    BY <1>4, <2>4, AppendProperties
  <2> HIDE DEF u
  <2>6. ASSUME NEW k \in 1 .. N + 1 PROVE CommandsOf(t)[k] = u[k]
    <3>1. CASE k = N + 1
      BY <1>4, <1>5, <2>3, <2>5, <3>1 DEF a
    <3>2. CASE k # N + 1
      <4>1. k \in 1 .. N
        BY <1>4, <3>2
      <4>2. CommandsOf(t)[k] = CommandAt(t, Nth(S, k))
        BY <1>5, <2>3, <4>1
      <4> QED
        BY <1>3, <1>5, <1>6, <2>5, <4>1, <4>2
    <3> QED
      BY <3>1, <3>2
  <2>7. CommandsOf(t) = u
    BY <1>4, <2>3, <2>5, <2>6, SeqEqual
  <2> QED
    BY <1>9, <2>7 DEF u, a, t, n
<1>10. CASE ~(c = "LF" /\ Closed(s) # {})
  <2>1. Ends(t) = S
    BY <1>2, <1>10
  <2>2. \A k \in 1 .. N : CommandsOf(t)[k] = CommandsOf(s)[k]
    BY <1>3, <1>5, <1>6, <2>1 DEF N
  <2>3. CommandsOf(t) = CommandsOf(s)
    BY <1>4, <2>1, <2>2, SeqEqual DEF N
  <2> QED
    BY <1>10, <2>3 DEF t
<1> QED
  BY <1>9, <1>10

-----------------------------------------------------------------------------
(* What the state of parseData says of the text it has read.               *)
(*                                                                         *)
(* The row holds the text from place p on.                                 *)
Holds(p) == /\ commandIndex = (Len(input) - p) + 1
            /\ \A k \in 0 .. commandIndex - 1 : row[k] = input[p + k]

IdleInv == state = "IDLE" =>
             /\ Open(input) = {} /\ Closed(input) = {} /\ Latest(input) # "A"
             /\ commandIndex = 0
ATInv == state = "AT" =>
           /\ Open(input) = {} /\ Latest(input) = "A"
           /\ commandIndex = 1 /\ row[0] = "A"
CmdInv == state = "CMD" =>
            /\ Open(input) # {} /\ Latest(input) # "CR"
            /\ commandIndex >= 2 /\ Holds(Min(Open(input)))
CRInv == state = "CR" =>
           /\ Closed(input) # {}
           /\ commandIndex >= 3 /\ Holds(Min(Closed(input)))

(* The types, without the bounds of the two indexes.                       *)
ParseTypes == /\ input \in Seq(Chars) /\ Len(input) <= MaxInput
              /\ state \in {"IDLE", "AT", "CMD", "CR"}
              /\ commandIndex \in Nat
              /\ row \in [Columns -> Chars \cup {NUL}]

ParseInv == /\ ParseTypes /\ commands = CommandsOf(input)
            /\ 4 * Len(commands) + commandIndex <= Len(input)
            /\ IdleInv /\ ATInv /\ CmdInv /\ CRInv

LEMMA LatestIs ==
  ASSUME NEW s \in Seq(Chars), Latest(s) # NUL
  PROVE  Len(s) \in Nat /\ Len(s) >= 1 /\ Latest(s) = s[Len(s)]
<1>1. s # << >> /\ Latest(s) = s[Len(s)]
  BY DEF Latest
<1>2. Len(s) \in Nat \ {0}
  BY <1>1, EmptySeq
<1> QED
  BY <1>1, <1>2

LEMMA ReturnCloses ==
  ASSUME NEW s \in Seq(Chars), Latest(s) = "CR"
  PROVE  Open(s) = {}
<1> DEFINE n == Len(s)
<1>1. n \in Nat /\ n >= 1 /\ s[n] = "CR"
  BY LatestIs DEF NUL
<1>2. Open(s) = ATsIn(s, n + 1)
  BY <1>1, ATsAre DEF Open
<1>3. \A p \in 1 .. (n + 1) - 2 : ~(n < p) /\ n \in 1 .. (n + 1) - 1
  BY <1>1
<1> HIDE DEF n
<1>4. \A p \in 1 .. (n + 1) - 2 : ~BehindReturns(s, n + 1, p)
  BY <1>1, <1>3 DEF BehindReturns
<1> QED
  BY <1>2, <1>4 DEF ATsIn

LEMMA MinIs ==
  ASSUME NEW T, NEW p \in T, T \subseteq Int, \A y \in T : p <= y
  PROVE  Min(T) = p
<1>1. Min(T) \in T /\ \A y \in T : Min(T) <= y
  BY Zenon DEF Min
<1>2. Min(T) \in Int /\ p \in Int /\ Min(T) <= p /\ p <= Min(T)
  BY <1>1
<1> QED
  BY <1>2

LEMMA EmptyText ==
  /\ Open(<< >>) = {} /\ Closed(<< >>) = {} /\ Latest(<< >>) = NUL
  /\ CommandsOf(<< >>) = << >> /\ Ends(<< >>) = {}
<1>1. Open(<< >>) = {}
  <2>1. Open(<< >>) = ATsIn(<< >>, 1)
    <3>1. Open(<< >>) = ATs(<< >>, 1)
      BY DEF Open
    <3> QED
      BY <3>1, ATsAre
  <2> QED
    BY <2>1 DEF ATsIn
<1>2. Closed(<< >>) = {} /\ Latest(<< >>) = NUL
  BY DEF Closed, Latest, NUL
<1>3. Ends(<< >>) = {}
  BY DEF Ends
<1>4. Cardinality(Ends(<< >>)) = 0
  BY <1>3, FS_EmptySet
<1>5. CommandsOf(<< >>) = << >>
  BY <1>4 DEF CommandsOf
<1> QED
  BY <1>1, <1>2, <1>3, <1>5

(* strlen finds the first NUL.                                             *)
LEMMA RowTextIs ==
  ASSUME NEW r, NEW l \in Nat, l < RowSize, r[l] = NUL,
         \A k \in 0 .. l - 1 : r[k] # NUL
  PROVE  RowText(r) = [n \in 1 .. l |-> r[n - 1]]
<1> USE ParserAssumption
<1> DEFINE Good(n) == /\ \A m \in 0 .. n - 1 : r[m] # NUL
                      /\ n < RowSize => r[n] = NUL
           len == CHOOSE n \in 0 .. RowSize : Good(n)
<1>1. l \in 0 .. RowSize /\ Good(l)
  OBVIOUS
<1>2. len \in 0 .. RowSize /\ Good(len)
  <2> HIDE DEF Good
  <2> QED
    BY <1>1
<1>3. len = l
  <2>1. CASE len < l
    <3>1. len < RowSize /\ len \in 0 .. l - 1
      BY <1>2, <2>1
    <3> QED
      BY <1>2, <3>1
  <2>2. CASE l < len
    <3>1. l \in 0 .. len - 1
      BY <1>2, <2>2
    <3> QED
      BY <1>2, <3>1
  <2> QED
    BY <1>2, <2>1, <2>2
<1>4. RowText(r) = [n \in 1 .. len |-> r[n - 1]]
  BY Zenon DEF RowText
<1> QED
  BY <1>3, <1>4, Zenon

(* What one character more makes of the text.                              *)
ReadFacts(s, t, c) ==
  /\ t \in Seq(Chars) /\ Len(t) = Len(s) + 1 /\ Len(s) \in Nat
  /\ Latest(t) = c /\ t[Len(s) + 1] = c
  /\ \A i \in 1 .. Len(s) : t[i] = s[i]
  /\ Open(t) = IF c = "CR" THEN {}
               ELSE Open(s) \cup (IF Latest(s) = "A" /\ c = "T"
                                  THEN {Len(s)} ELSE {})
  /\ Closed(t) = IF c = "CR" THEN Open(s) ELSE {}
  /\ CommandsOf(t) = IF c = "LF" /\ Closed(s) # {}
                     THEN Append(CommandsOf(s), CommandAt(t, Len(s)))
                     ELSE CommandsOf(s)
  /\ Len(s) < MaxInput

LEMMA Reading ==
  ASSUME ParseTypes, NEW c \in Chars, Read(c)
  PROVE  ReadFacts(input, input', c)
<1>1. input' = Append(input, c) /\ input \in Seq(Chars)
      /\ Len(input) < MaxInput
  BY DEF Read, ParseTypes
<1>2. LET t == Append(input, c)
      IN /\ t \in Seq(Chars) /\ Len(t) = Len(input) + 1 /\ Len(input) \in Nat
         /\ Latest(t) = c /\ t[Len(input) + 1] = c
         /\ \A i \in 1 .. Len(input) : t[i] = input[i]
  BY <1>1, AppendFacts
<1>3. LET t == Append(input, c)
      IN /\ Open(t) = IF c = "CR" THEN {}
               ELSE Open(input) \cup (IF Latest(input) = "A" /\ c = "T"
                                      THEN {Len(input)} ELSE {})
         /\ Closed(t) = IF c = "CR" THEN Open(input) ELSE {}
         /\ CommandsOf(t) = IF c = "LF" /\ Closed(input) # {}
                     THEN Append(CommandsOf(input), CommandAt(t, Len(input)))
                     ELSE CommandsOf(input)
  BY <1>1, OpenGrows, ClosedGrows, CommandsGrow
<1> QED
  BY <1>1, <1>2, <1>3, Zenon DEF ReadFacts

-----------------------------------------------------------------------------
(* The steps.                                                              *)
(*                                                                         *)
(* A character stored behind what the row holds.                           *)
LEMMA Storing ==
  ASSUME ParseInv, NEW c \in Chars, ReadFacts(input, input', c),
         Store(c, commandIndex), NEW p \in 1 .. Len(input), Holds(p)
  PROVE  Holds(p)' /\ row' \in [Columns -> Chars \cup {NUL}]
         /\ commandIndex' = commandIndex + 1
<1> USE ParserAssumption
<1> DEFINE n == Len(input)
           ci == commandIndex
<1>1. /\ n \in Nat /\ n < RowSize - 1 /\ Len(input') = n + 1
      /\ input'[n + 1] = c /\ \A i \in 1 .. n : input'[i] = input[i]
  BY Zenon DEF ReadFacts, MaxInput
<1>2. /\ row \in [Columns -> Chars \cup {NUL}] /\ ci \in Nat
      /\ Columns = 0 .. RowSize - 1
  BY DEF ParseInv, ParseTypes, Columns
<1>3. row' = [row EXCEPT ![ci] = c] /\ commandIndex' = ci + 1
  BY DEF Store
<1>4. ci = (n - p) + 1 /\ \A k \in 0 .. ci - 1 : row[k] = input[p + k]
  BY DEF Holds
<1> HIDE DEF n, ci
<1>5. p \in 1 .. n
  BY DEF n
<1>6. ci + 1 = ((n + 1) - p) + 1 /\ ci \in Columns /\ p + ci = n + 1
  BY <1>1, <1>2, <1>4, <1>5
<1>7. ASSUME NEW k \in 0 .. ci PROVE row'[k] = input'[p + k]
  <2>1. k \in Columns
    BY <1>2, <1>6
  <2>2. row'[k] = IF k = ci THEN c ELSE row[k]
    BY <1>2, <1>3, <2>1
  <2>3. CASE k = ci
    BY <1>1, <1>6, <2>2, <2>3
  <2>4. CASE k # ci
    <3>1. k \in 0 .. ci - 1 /\ p + k \in 1 .. n
      BY <1>1, <1>2, <1>5, <1>6, <2>4
    <3> QED
      BY <1>1, <1>4, <2>2, <2>4, <3>1
  <2> QED
    BY <2>3, <2>4
<1>8. row' \in [Columns -> Chars \cup {NUL}]
  BY <1>2, <1>3
<1>9. commandIndex' - 1 = ci
  BY <1>2, <1>3
<1> QED
  BY <1>1, <1>3, <1>6, <1>7, <1>8, <1>9 DEF Holds, ci

(* A text that is no command, nor the beginning of one, as STATE_IDLE      *)
(* leaves it.                                                              *)
LEMMA Idling ==
  ASSUME ParseInv, NEW c \in Chars, ReadFacts(input, input', c),
         Idle(c, 0), UNCHANGED commands, Open(input) = {},
         c = "LF" => Closed(input) = {}, Latest(input) # "A"
  PROVE  ParseInv'
<1> USE ParserAssumption
<1>1. /\ input' \in Seq(Chars) /\ Len(input') = Len(input) + 1
      /\ Len(input) \in Nat /\ Latest(input') = c
      /\ Open(input') = {} /\ Closed(input') = {}
      /\ CommandsOf(input') = CommandsOf(input) /\ Len(input') <= MaxInput
  <2>1. Len(input) < MaxInput /\ MaxInput \in Int
    BY DEF ReadFacts, MaxInput
  <2> QED
    BY <2>1 DEF ReadFacts
<1>2. /\ row \in [Columns -> Chars \cup {NUL}] /\ 0 \in Columns
      /\ commands = CommandsOf(input) /\ input \in Seq(Chars)
      /\ commandIndex \in Nat
      /\ 4 * Len(commands) + commandIndex <= Len(input)
  BY DEF ParseInv, ParseTypes, Columns
<1>3. Len(commands) \in Nat
  BY <1>2, CommandsAre
<1>4. commands' = commands /\ commands' = CommandsOf(input')
  BY <1>1, <1>2
<1>5. CASE c = "A" /\ Store(c, 0) /\ state' = "AT"
  <2>1. /\ row' = [row EXCEPT ![0] = c] /\ commandIndex' = 1 /\ c = "A"
        /\ state' = "AT"
    BY <1>5 DEF Store
  <2>2. /\ row' \in [Columns -> Chars \cup {NUL}] /\ row'[0] = c
    BY <1>2, <2>1
  <2>3. 4 * Len(commands') + commandIndex' <= Len(input')
    BY <1>1, <1>2, <1>3, <1>4, <2>1
  <2>4. ParseTypes'
    BY <1>1, <2>1, <2>2 DEF ParseTypes
  <2>5. IdleInv' /\ ATInv' /\ CmdInv' /\ CRInv'
    BY <1>1, <2>1, <2>2 DEF IdleInv, ATInv, CmdInv, CRInv
  <2> QED
    BY <1>4, <2>3, <2>4, <2>5 DEF ParseInv
<1>6. CASE c # "A" /\ row' = row /\ commandIndex' = 0 /\ state' = "IDLE"
  <2>3. 4 * Len(commands') + commandIndex' <= Len(input')
    BY <1>1, <1>2, <1>3, <1>4, <1>6
  <2>4. ParseTypes'
    BY <1>1, <1>2, <1>6 DEF ParseTypes
  <2>5. IdleInv' /\ ATInv' /\ CmdInv' /\ CRInv'
    BY <1>1, <1>6 DEF IdleInv, ATInv, CmdInv, CRInv
  <2> QED
    BY <1>4, <2>3, <2>4, <2>5 DEF ParseInv
<1> QED
  BY <1>5, <1>6 DEF Idle

LEMMA ParseIdleStep == ParseInv /\ ParseIdle => ParseInv'
<1> SUFFICES ASSUME ParseInv, ParseIdle PROVE ParseInv'
  OBVIOUS
<1>1. PICK c \in Chars : Read(c) /\ Idle(c, commandIndex)
  BY DEF ParseIdle
<1>2. /\ Open(input) = {} /\ Closed(input) = {} /\ Latest(input) # "A"
      /\ commandIndex = 0 /\ commands' = commands
  BY DEF ParseIdle, ParseInv, IdleInv
<1>3. ReadFacts(input, input', c)
  BY <1>1, Reading DEF ParseInv
<1>4. Idle(c, 0)
  BY <1>1, <1>2
<1> QED
  BY <1>2, <1>3, <1>4, Idling

LEMMA ParseATStep == ParseInv /\ ParseAT => ParseInv'
<1> SUFFICES ASSUME ParseInv, ParseAT PROVE ParseInv'
  OBVIOUS
<1> USE ParserAssumption
<1>1. PICK c \in Chars :
        /\ Read(c)
        /\ \/ c = "T" /\ Store(c, commandIndex) /\ state' = "CMD"
           \/ c = "A" /\ Skip /\ UNCHANGED state
           \/ /\ c \notin {"A", "T"}
              /\ commandIndex' = 0 /\ UNCHANGED row
              /\ state' = "IDLE"
  BY DEF ParseAT
<1>2. /\ state = "AT" /\ Open(input) = {} /\ Latest(input) = "A"
      /\ commandIndex = 1 /\ row[0] = "A" /\ commands' = commands
  BY DEF ParseAT, ParseInv, ATInv
<1>3. ReadFacts(input, input', c)
  BY <1>1, Reading DEF ParseInv
<1>4. Closed(input) = {}
  BY <1>2 DEF Closed
<1>5. /\ input' \in Seq(Chars) /\ Len(input') = Len(input) + 1
      /\ Len(input) \in Nat /\ Latest(input') = c
      /\ Open(input') = IF c = "T" THEN {Len(input)} ELSE {}
      /\ Closed(input') = {}
      /\ CommandsOf(input') = CommandsOf(input) /\ Len(input') <= MaxInput
  <2>1. Len(input) < MaxInput /\ MaxInput \in Int
    BY <1>3 DEF ReadFacts, MaxInput
  <2> QED
    BY <1>2, <1>3, <1>4, <2>1 DEF ReadFacts
<1>6. /\ row \in [Columns -> Chars \cup {NUL}]
      /\ commands = CommandsOf(input) /\ input \in Seq(Chars)
      /\ 4 * Len(commands) + commandIndex <= Len(input)
  BY DEF ParseInv, ParseTypes
<1>7. Len(commands) \in Nat
  BY <1>6, CommandsAre
<1>8. commands' = commands /\ commands' = CommandsOf(input')
  BY <1>2, <1>5, <1>6
<1>9. CASE c = "T" /\ Store(c, commandIndex) /\ state' = "CMD"
  <2>1. Len(input) \in 1 .. Len(input) /\ input[Len(input)] = "A"
    <3>1. Len(input) >= 1 /\ Latest(input) = input[Len(input)]
      BY <1>2, <1>6, LatestIs DEF NUL
    <3> QED
      BY <1>2, <1>5, <3>1
  <2>2. PICK p \in 1 .. Len(input) : p = Len(input)
    BY <2>1
  <2>3. Holds(p)
    <3>1. \A k \in 0 .. commandIndex - 1 : k = 0 /\ p + k = p
      BY <1>2, <1>5, <2>2
    <3>2. commandIndex = (Len(input) - p) + 1
      BY <1>2, <1>5, <2>2
    <3> QED
      BY <1>2, <2>1, <2>2, <3>1, <3>2 DEF Holds
  <2>4. /\ Holds(p)' /\ row' \in [Columns -> Chars \cup {NUL}]
        /\ commandIndex' = 2
    <3>1. /\ Holds(p)' /\ row' \in [Columns -> Chars \cup {NUL}]
          /\ commandIndex' = commandIndex + 1
      BY <1>3, <1>9, <2>3, Storing
    <3> QED
      BY <1>2, <3>1
  <2>5. Open(input') # {} /\ Min(Open(input')) = p
    <3>1. Open(input') = {p} /\ p \in {p} /\ {p} \subseteq Int
          /\ \A y \in {p} : p <= y
      BY <1>5, <1>9, <2>2
    <3> QED
      BY <3>1, MinIs
  <2>6. ParseTypes'
    BY <1>5, <1>9, <2>4 DEF ParseTypes
  <2>7. 4 * Len(commands') + commandIndex' <= Len(input')
    BY <1>2, <1>5, <1>6, <1>7, <1>8, <2>4
  <2>8. IdleInv' /\ ATInv' /\ CmdInv' /\ CRInv'
    BY <1>5, <1>9, <2>4, <2>5 DEF IdleInv, ATInv, CmdInv, CRInv
  <2> QED
    BY <1>8, <2>6, <2>7, <2>8 DEF ParseInv
<1>10. CASE c = "A" /\ Skip /\ UNCHANGED state
  <2>1. /\ state' = "AT" /\ row' = row /\ commandIndex' = 1
    BY <1>2, <1>10 DEF Skip
  <2>2. ParseTypes'
    BY <1>5, <1>6, <2>1 DEF ParseTypes
  <2>3. 4 * Len(commands') + commandIndex' <= Len(input')
    BY <1>2, <1>5, <1>6, <1>7, <1>8, <2>1
  <2>4. IdleInv' /\ ATInv' /\ CmdInv' /\ CRInv'
    BY <1>2, <1>5, <1>10, <2>1 DEF IdleInv, ATInv, CmdInv, CRInv
  <2> QED
    BY <1>8, <2>2, <2>3, <2>4 DEF ParseInv
<1>11. CASE /\ c \notin {"A", "T"} /\ commandIndex' = 0 /\ UNCHANGED row
            /\ state' = "IDLE"
  <2>1. ParseTypes'
    BY <1>5, <1>6, <1>11 DEF ParseTypes
  <2>2. 4 * Len(commands') + commandIndex' <= Len(input')
    BY <1>2, <1>5, <1>6, <1>7, <1>8, <1>11
  <2>3. IdleInv' /\ ATInv' /\ CmdInv' /\ CRInv'
    BY <1>5, <1>11 DEF IdleInv, ATInv, CmdInv, CRInv
  <2> QED
    BY <1>8, <2>1, <2>2, <2>3 DEF ParseInv
<1> QED
  BY <1>1, <1>9, <1>10, <1>11

LEMMA ParseCmdStep == ParseInv /\ ParseCmd => ParseInv'
<1> SUFFICES ASSUME ParseInv, ParseCmd PROVE ParseInv'
  OBVIOUS
<1> USE ParserAssumption
<1>1. PICK c \in Chars : /\ Read(c) /\ Store(c, commandIndex)
                         /\ state' = IF c = "CR" THEN "CR" ELSE "CMD"
  BY DEF ParseCmd
<1>2. /\ state = "CMD" /\ Open(input) # {} /\ Latest(input) # "CR"
      /\ commandIndex >= 2 /\ Holds(Min(Open(input)))
      /\ commands' = commands
  BY DEF ParseCmd, ParseInv, CmdInv
<1>3. ReadFacts(input, input', c)
  BY <1>1, Reading DEF ParseInv
<1>4. Closed(input) = {}
  BY <1>2 DEF Closed
<1>5. /\ input' \in Seq(Chars) /\ Len(input') = Len(input) + 1
      /\ Len(input) \in Nat /\ Latest(input') = c
      /\ c # "CR" => Open(input') = Open(input)
                       \cup (IF Latest(input) = "A" /\ c = "T"
                             THEN {Len(input)} ELSE {})
      /\ c = "CR" => Open(input') = {} /\ Closed(input') = Open(input)
      /\ CommandsOf(input') = CommandsOf(input) /\ Len(input') <= MaxInput
  <2>1. Len(input) < MaxInput /\ MaxInput \in Int
    BY <1>3 DEF ReadFacts, MaxInput
  <2> QED
    BY <1>3, <1>4, <2>1 DEF ReadFacts
<1>6. /\ commands = CommandsOf(input) /\ input \in Seq(Chars)
      /\ 4 * Len(commands) + commandIndex <= Len(input)
      /\ commandIndex \in Nat
  BY DEF ParseInv, ParseTypes
<1>7. Len(commands) \in Nat
  BY <1>6, CommandsAre
<1>8. commands' = commands /\ commands' = CommandsOf(input')
  BY <1>2, <1>5, <1>6
<1>9. PICK p \in 1 .. Len(input) - 1 :
        /\ p = Min(Open(input)) /\ p \in Open(input)
        /\ Open(input) \subseteq 1 .. Len(input) - 1
        /\ \A q \in Open(input) : p <= q
  <2> DEFINE n == Len(input) + 1
             T == ATs(input, n)
  <2>1. n \in Nat /\ n >= 1 /\ T # {}
    BY <1>2, <1>5 DEF Open
  <2>2. Min(T) \in T /\ Min(T) \in 1 .. n - 2 /\ \A q \in T : Min(T) <= q
    <3> HIDE DEF n
    <3> QED
      BY <2>1, FirstAT
  <2>3. T \subseteq 1 .. n - 2
    <3> HIDE DEF n
    <3> QED
      BY <2>1, ATsAre DEF ATsIn
  <2>4. Open(input) = T /\ n - 2 = Len(input) - 1
    BY <1>5 DEF Open
  <2> HIDE DEF n, T
  <2> QED
    BY <2>2, <2>3, <2>4
<1>10. p \in 1 .. Len(input)
  BY <1>5, <1>9
<1>11. /\ Holds(p)' /\ row' \in [Columns -> Chars \cup {NUL}]
       /\ commandIndex' = commandIndex + 1
  <2>1. Holds(p)
    BY <1>2, <1>9
  <2> QED
    BY <1>1, <1>3, <1>10, <2>1, Storing
<1>12. commandIndex' \in Nat /\ commandIndex' >= 3
  BY <1>2, <1>6, <1>11
<1>13. ParseTypes'
  BY <1>1, <1>5, <1>11, <1>12 DEF ParseTypes
<1>14. 4 * Len(commands') + commandIndex' <= Len(input')
  BY <1>5, <1>6, <1>7, <1>8, <1>11
<1>15. CASE c = "CR"
  <2>1. state' = "CR" /\ Closed(input') # {} /\ Min(Closed(input')) = p
    BY <1>1, <1>2, <1>5, <1>9, <1>15
  <2>2. IdleInv' /\ ATInv' /\ CmdInv' /\ CRInv'
    BY <1>11, <1>12, <2>1 DEF IdleInv, ATInv, CmdInv, CRInv
  <2> QED
    BY <1>8, <1>13, <1>14, <2>2 DEF ParseInv
<1>16. CASE c # "CR"
  <2>1. Open(input') # {} /\ Min(Open(input')) = p
    <3>1. /\ p \in Open(input') /\ Open(input') \subseteq Int
          /\ \A y \in Open(input') : p <= y
      <4>1. \A y \in Open(input') : y \in Open(input) \/ y = Len(input)
        BY <1>5, <1>16
      <4>2. p <= Len(input) /\ Len(input) \in Int
        BY <1>5, <1>10
      <4>3. \A y \in Open(input) : y \in Int
        BY <1>9
      <4> QED
        BY <1>5, <1>9, <1>16, <4>1, <4>2, <4>3
    <3> QED
      BY <3>1, MinIs
  <2>2. state' = "CMD" /\ Latest(input') # "CR"
    BY <1>1, <1>5, <1>16
  <2>3. commandIndex' >= 2
    BY <1>12
  <2>4. IdleInv' /\ ATInv' /\ CmdInv' /\ CRInv'
    BY <1>11, <2>1, <2>2, <2>3 DEF IdleInv, ATInv, CmdInv, CRInv
  <2> QED
    BY <1>8, <1>13, <1>14, <2>4 DEF ParseInv
<1> QED
  BY <1>15, <1>16

(* The line feed: what strlen finds in the row is the command.             *)
LEMMA LineFeed ==
  ASSUME ParseInv, NEW c \in Chars, ReadFacts(input, input', c),
         state = "CR", Closed(input) # {}
  PROVE  /\ RowText([row EXCEPT ![commandIndex] = c,
                               ![commandIndex + 1] = NUL])
                = CommandAt(input', Len(input))
         /\ Len(input) \in Nat /\ commandIndex >= 3
<1> USE ParserAssumption
<1> DEFINE n == Len(input)
           ci == commandIndex
           t == input'
           p == Min(ATs(input, n))
           r == [row EXCEPT ![ci] = c, ![ci + 1] = NUL]
<1>1. /\ t \in Seq(Chars) /\ Len(t) = n + 1 /\ n \in Nat /\ t[n + 1] = c
      /\ \A i \in 1 .. n : t[i] = input[i]
      /\ n < RowSize - 1 /\ RowSize \in Nat
  BY Zenon DEF ReadFacts, MaxInput
<1>2. /\ row \in [Columns -> Chars \cup {NUL}] /\ ci \in Nat
      /\ Columns = 0 .. RowSize - 1 /\ input \in Seq(Chars)
  BY DEF ParseInv, ParseTypes, Columns
<1>3. ATs(input, n) # {} /\ Latest(input) = "CR"
  BY DEF Closed
<1>4. n >= 1
  BY <1>2, <1>3, LatestIs DEF NUL
<1>5. /\ ci >= 3 /\ ci = (n - p) + 1
      /\ \A k \in 0 .. ci - 1 : row[k] = input[p + k]
  <2>1. Closed(input) = ATs(input, n)
    BY <1>3 DEF Closed
  <2>2. ci >= 3 /\ Holds(Min(Closed(input)))
    BY DEF ParseInv, CRInv
  <2> QED
    BY <2>1, <2>2 DEF Holds
<1>6. p \in 1 .. n - 2
  BY <1>1, <1>3, <1>4, FirstAT
<1>7. ATs(t, n) = ATs(input, n)
  <2>1. Alike(t, input, n - 1)
    <3>1. \A i \in 1 .. n - 1 : i \in 1 .. n
      BY <1>1
    <3> QED
      BY <1>1, <3>1 DEF Alike
  <2> HIDE DEF t, n
  <2> QED
    BY <1>1, <1>4, <2>1, ATsAlike
<1> DEFINE d == CommandAt(t, n)
<1>8. d = SubSeq(t, p, n + 1)
  BY <1>7, Zenon DEF CommandAt
<1> HIDE DEF n, ci, t, p
<1>9. /\ d \in Seq(Chars) /\ Len(d) = ci + 1
      /\ \A k \in 1 .. ci + 1 : d[k] = t[(p + k) - 1]
  <2>1. \A i \in p .. n + 1 : t[i] \in Chars
    <3>1. \A i \in p .. n + 1 : i \in 1 .. Len(t)
      BY <1>1, <1>6
    <3> QED
      BY <1>1, <3>1, ElementOfSeq
  <2>2. p \in Int /\ n + 1 \in Int
    BY <1>1, <1>6
  <2>3. /\ SubSeq(t, p, n + 1) \in Seq(Chars)
        /\ Len(SubSeq(t, p, n + 1)) =
             IF p <= n + 1 THEN (n + 1) - p + 1 ELSE 0
        /\ \A i \in 1 .. (n + 1) - p + 1 :
             SubSeq(t, p, n + 1)[i] = t[p + i - 1]
    BY <2>1, <2>2, SubSeqProperties
  <2>4. p <= n + 1 /\ (n + 1) - p + 1 = ci + 1
    BY <1>1, <1>5, <1>6
  <2> HIDE DEF d
  <2> QED
    BY <1>8, <2>3, <2>4
<1> HIDE DEF d
<1>10. ci + 1 < RowSize /\ ci \in Columns /\ ci + 1 \in Columns
       /\ ci + 1 \in Nat /\ ci # ci + 1
  BY <1>1, <1>2, <1>5, <1>6
<1>11. /\ r[ci + 1] = NUL /\ r[ci] = c
       /\ \A k \in 0 .. ci - 1 : r[k] = row[k]
  <2>1. \A k \in 0 .. ci - 1 : k \in Columns /\ k # ci /\ k # ci + 1
    BY <1>2, <1>10
  <2> QED
    BY <1>2, <1>10, <2>1
<1> HIDE DEF r
<1>12. ASSUME NEW k \in 0 .. ci
       PROVE  r[k] = t[p + k] /\ r[k] # NUL
  <2>1. p + k \in 1 .. Len(t)
    BY <1>1, <1>2, <1>5, <1>6
  <2>2. t[p + k] \in Chars
    BY <1>1, <2>1, ElementOfSeq
  <2>3. r[k] = t[p + k]
    <3>1. CASE k = ci
      <4>1. p + k = n + 1
        BY <1>1, <1>5, <1>6, <3>1
      <4> QED
        BY <1>1, <1>11, <3>1, <4>1
    <3>2. CASE k # ci
      <4>1. k \in 0 .. ci - 1 /\ p + k \in 1 .. n
        BY <1>1, <1>2, <1>5, <1>6, <3>2
      <4> QED
        BY <1>1, <1>5, <1>11, <4>1
    <3> QED
      BY <3>1, <3>2
  <2> QED
    BY <2>2, <2>3
<1>13. RowText(r) = [k \in 1 .. ci + 1 |-> r[k - 1]]
  <2>1. \A k \in 0 .. (ci + 1) - 1 : k \in 0 .. ci
    BY <1>2
  <2>2. \A k \in 0 .. (ci + 1) - 1 : r[k] # NUL
    BY <1>12, <2>1
  <2> DEFINE l == ci + 1
  <2>3. l \in Nat /\ l < RowSize /\ r[l] = NUL
        /\ \A k \in 0 .. l - 1 : r[k] # NUL
    BY <1>10, <1>11, <2>2
  <2> HIDE DEF l
  <2>4. RowText(r) = [k \in 1 .. l |-> r[k - 1]]
    BY <2>3, RowTextIs
  <2> QED
    BY <2>4 DEF l
<1>14. ASSUME NEW k \in 1 .. ci + 1 PROVE r[k - 1] = d[k]
  <2>1. k - 1 \in 0 .. ci /\ p + (k - 1) = (p + k) - 1
    BY <1>2, <1>6
  <2> QED
    BY <1>9, <1>12, <2>1
<1>15. d = [k \in 1 .. ci + 1 |-> d[k]]
  BY <1>9, LenProperties
<1>16. RowText(r) = d
  BY <1>13, <1>14, <1>15
<1> QED
  BY <1>1, <1>5, <1>16 DEF r, d, ci, t, n

LEMMA ParseCRStep == ParseInv /\ ParseCR => ParseInv'
<1> SUFFICES ASSUME ParseInv, ParseCR PROVE ParseInv'
  OBVIOUS
<1> USE ParserAssumption
<1>1. PICK c \in Chars :
        /\ Read(c)
        /\ \/ /\ c = "LF"
              /\ commands' = Append(commands,
                     RowText([row EXCEPT ![commandIndex] = c,
                                         ![commandIndex + 1] = NUL]))
              /\ row' = EmptyRow /\ commandIndex' = 0
              /\ state' = "IDLE"
           \/ c # "LF" /\ Idle(c, 0) /\ UNCHANGED commands
  BY DEF ParseCR
<1>2. state = "CR" /\ Closed(input) # {} /\ input \in Seq(Chars)
  BY DEF ParseCR, ParseInv, CRInv, ParseTypes
<1>3. ReadFacts(input, input', c)
  BY <1>1, Reading DEF ParseInv
<1>4. Latest(input) = "CR" /\ Open(input) = {}
  BY <1>2, ReturnCloses DEF Closed
<1>5. CASE c # "LF" /\ Idle(c, 0) /\ UNCHANGED commands
  BY <1>3, <1>4, <1>5, Idling
<1>6. CASE /\ c = "LF"
           /\ commands' = Append(commands,
                  RowText([row EXCEPT ![commandIndex] = c,
                                      ![commandIndex + 1] = NUL]))
           /\ row' = EmptyRow /\ commandIndex' = 0
           /\ state' = "IDLE"
  <2>1. /\ input' \in Seq(Chars) /\ Len(input') = Len(input) + 1
        /\ Latest(input') = c /\ Open(input') = {} /\ Closed(input') = {}
        /\ CommandsOf(input') = Append(CommandsOf(input),
                                      CommandAt(input', Len(input)))
        /\ Len(input') <= MaxInput
    <3>1. Len(input) < MaxInput /\ MaxInput \in Int /\ Len(input) \in Nat
      BY <1>3 DEF ReadFacts, MaxInput
    <3> QED
      BY <1>2, <1>3, <1>4, <1>6, <3>1 DEF ReadFacts
  <2>2. /\ RowText([row EXCEPT ![commandIndex] = c,
                              ![commandIndex + 1] = NUL])
               = CommandAt(input', Len(input))
        /\ Len(input) \in Nat /\ commandIndex >= 3
    BY <1>2, <1>3, LineFeed
  <2>3. commands = CommandsOf(input) /\ commandIndex \in Nat
        /\ 4 * Len(commands) + commandIndex <= Len(input)
    BY DEF ParseInv, ParseTypes
  <2>4. commands' = CommandsOf(input')
    BY <1>6, <2>1, <2>2, <2>3
  <2>5. Len(commands) \in Nat /\ Len(commands') = Len(commands) + 1
    <3>1. commands \in Seq(Seq(Chars)) /\ commands' \in Seq(Seq(Chars))
      BY <1>2, <2>1, <2>3, <2>4, CommandsAre
    <3> DEFINE T == Seq(Chars)
               e == CommandAt(input', Len(input))
    <3>2. commands \in Seq(T)
      BY <3>1
    <3> HIDE DEF T, e
    <3>3. commands' = Append(commands, e)
      BY <1>6, <2>2 DEF e
    <3>4. Len(Append(commands, e)) = Len(commands) + 1
      BY <3>2
    <3>5. Len(commands) \in Nat
      BY <3>2, LenProperties
    <3> QED
      BY <3>3, <3>4, <3>5
  <2>6. 4 * Len(commands') + commandIndex' <= Len(input')
    BY <1>6, <2>1, <2>2, <2>3, <2>5
  <2>7. ParseTypes'
    BY <1>6, <2>1 DEF ParseTypes, EmptyRow
  <2>8. IdleInv' /\ ATInv' /\ CmdInv' /\ CRInv'
    BY <1>6, <2>1 DEF IdleInv, ATInv, CmdInv, CRInv
  <2> QED
    BY <2>4, <2>6, <2>7, <2>8 DEF ParseInv
<1> QED
  BY <1>1, <1>5, <1>6

(* A call begins with nothing read.                                        *)
LEMMA Beginning ==
  ASSUME input = << >>, state = "IDLE", commandIndex = 0, row = EmptyRow,
         commands = << >>
  PROVE  ParseInv
<1> USE ParserAssumption
<1>1. /\ Open(input) = {} /\ Closed(input) = {} /\ Latest(input) # "A"
      /\ commands = CommandsOf(input)
  BY EmptyText DEF NUL
<1>2. ParseTypes
  BY DEF ParseTypes, EmptyRow, MaxInput
<1>3. 4 * Len(commands) + commandIndex <= Len(input)
  OBVIOUS
<1>4. IdleInv /\ ATInv /\ CmdInv /\ CRInv
  BY <1>1 DEF IdleInv, ATInv, CmdInv, CRInv
<1> QED
  BY <1>1, <1>2, <1>3, <1>4 DEF ParseInv

LEMMA NextCallStep == ParseInv /\ NextCall => ParseInv'
<1> SUFFICES ASSUME ParseInv, NextCall PROVE ParseInv'
  OBVIOUS
<1>1. /\ input' = << >> /\ state' = "IDLE" /\ commandIndex' = 0
      /\ row' = EmptyRow /\ commands' = << >>
  BY DEF NextCall
<1> USE ParserAssumption
<1>2. /\ Open(input') = {} /\ Closed(input') = {} /\ Latest(input') # "A"
      /\ commands' = CommandsOf(input')
  BY <1>1, EmptyText DEF NUL
<1>3. ParseTypes'
  BY <1>1 DEF ParseTypes, EmptyRow, MaxInput
<1>4. 4 * Len(commands') + commandIndex' <= Len(input')
  BY <1>1
<1>5. IdleInv' /\ ATInv' /\ CmdInv' /\ CRInv'
  BY <1>1, <1>2 DEF IdleInv, ATInv, CmdInv, CRInv
<1> QED
  BY <1>2, <1>3, <1>4, <1>5 DEF ParseInv

LEMMA ParseInvariant == Spec => []ParseInv
<1>1. Init => ParseInv
  BY Beginning DEF Init
<1>2. ParseInv /\ [Next]_vars => ParseInv'
  <2> SUFFICES ASSUME ParseInv, [Next]_vars PROVE ParseInv'
    OBVIOUS
  <2>1. CASE UNCHANGED vars
    BY <2>1 DEF vars, ParseInv, ParseTypes, IdleInv, ATInv, CmdInv, CRInv, Holds
  <2>2. CASE Overrun
    BY <2>2 DEF Overrun, ParseInv, ParseTypes, IdleInv, ATInv, CmdInv, CRInv,
       Holds
  <2> QED
    BY <2>1, <2>2, ParseIdleStep, ParseATStep, ParseCmdStep, ParseCRStep,
       NextCallStep DEF Next
<1> QED
  BY <1>1, <1>2, PTL DEF Spec

(* How many commands one step finds.                                       *)
LEMMA CommandsStep ==
  ParseInv /\ [Next]_vars /\ ParseInv'
    => \/ UNCHANGED commands
       \/ state = "CR" /\ state' = "IDLE" /\ Len(commands') = Len(commands) + 1
       \/ commands' = << >> /\ state' = "IDLE"
<1> SUFFICES ASSUME ParseInv, [Next]_vars, ParseInv', ~UNCHANGED commands
             PROVE  \/ /\ state = "CR" /\ state' = "IDLE"
                       /\ Len(commands') = Len(commands) + 1
                    \/ commands' = << >> /\ state' = "IDLE"
  OBVIOUS
<1>1. CASE ParseCR
  <2>1. PICK e : commands' = Append(commands, e)
    BY <1>1 DEF ParseCR
  <2> DEFINE T == Seq(Chars)
  <2>2. commands \in Seq(T) /\ commands' \in Seq(T)
    BY CommandsAre DEF ParseInv, ParseTypes
  <2> HIDE DEF T
  <2>3. Len(Append(commands, e)) = Len(commands) + 1
    BY <2>2
  <2> QED
    BY <1>1, <2>1, <2>3 DEF ParseCR
<1>2. CASE NextCall
  BY <1>2 DEF NextCall
<1> QED
  BY <1>1, <1>2
     DEF Next, vars, ParseIdle, ParseAT, ParseCmd, Overrun

(* The commands found leave a row for the one begun, and where there is    *)
(* none left their texts have used up the text.                            *)
RowsInv == /\ Len(commands) <= MaxRows
           /\ state # "IDLE" => Len(commands) < MaxRows
           /\ overrun \in BOOLEAN
           /\ overrun => Len(input) \in 4 * MaxRows .. MaxInput - 1

LEMMA RowsInvariant == Spec => []RowsInv
<1> USE ParserAssumption
<1>1. Init => RowsInv
  <2> SUFFICES ASSUME Init PROVE RowsInv
    OBVIOUS
  <2>1. Len(commands) <= MaxRows /\ state = "IDLE"
    BY DEF Init
  <2>2. overrun \in BOOLEAN /\ ~overrun
    BY DEF Init
  <2> QED
    BY <2>1, <2>2, Zenon DEF RowsInv
<1>2. ParseInv /\ ParseInv' /\ RowsInv /\ [Next]_vars => RowsInv'
  <2> SUFFICES ASSUME ParseInv, ParseInv', RowsInv, [Next]_vars PROVE RowsInv'
    OBVIOUS
  <2>1. /\ Len(commands) \in Nat /\ Len(input) \in Nat /\ commandIndex \in Nat
        /\ 4 * Len(commands) + commandIndex <= Len(input)
    <3>1. input \in Seq(Chars) /\ commands = CommandsOf(input)
          /\ commandIndex \in Nat
          /\ 4 * Len(commands) + commandIndex <= Len(input)
      BY DEF ParseInv, ParseTypes
    <3> QED
      BY <3>1, CommandsAre, LenProperties
  <2>2. Len(commands') <= MaxRows
        /\ (state' # "IDLE" => Len(commands') < MaxRows)
    <3>1. CASE state = "CR" /\ state' = "IDLE" /\ Len(commands') = Len(commands) + 1
      BY <3>1, <2>1 DEF RowsInv
    <3>2. CASE commands' = << >> /\ state' = "IDLE"
      BY <3>2
    <3>3. CASE UNCHANGED commands
      <4>1. state = "IDLE" /\ state' # "IDLE" => Len(commands) < MaxRows
        BY <3>3 DEF Next, vars, ParseIdle, ParseAT, ParseCmd, ParseCR, Idle,
           Overrun, NextCall
      <4> QED
        BY <3>3, <4>1 DEF RowsInv
    <3> QED
      BY <3>1, <3>2, <3>3, CommandsStep
  <2>3. overrun' \in BOOLEAN
        /\ (overrun' => Len(input') \in 4 * MaxRows .. MaxInput - 1)
    <3>1. CASE Overrun
      <4>1. /\ Len(input) < MaxInput /\ Len(commands) = MaxRows
            /\ overrun' = TRUE /\ input' = input
        BY <3>1 DEF Overrun
      <4>2. MaxInput \in Int
        BY DEF MaxInput
      <4> QED
        BY <2>1, <4>1, <4>2
    <3>2. CASE ~overrun /\ UNCHANGED overrun
      <4>1. overrun' = overrun /\ overrun \in BOOLEAN /\ ~overrun
        BY <3>2 DEF RowsInv
      <4> QED
        BY <4>1, Zenon
    <3>3. CASE UNCHANGED vars
      BY <3>3 DEF RowsInv, vars
    <3>4. \/ Overrun \/ (~overrun /\ UNCHANGED overrun) \/ UNCHANGED vars
      BY DEF Next, ParseIdle, ParseAT, ParseCmd, ParseCR, Read, NextCall
    <3> QED
      BY <3>1, <3>2, <3>3, <3>4, Zenon
  <2> QED
    BY <2>2, <2>3 DEF RowsInv
<1> QED
  BY <1>1, <1>2, ParseInvariant, PTL DEF Spec

(* The parser's locals, its row and its two indexes have their types: the  *)
(* indexes are inside the arrays.                                          *)
THEOREM TypeCorrect == Spec => []TypeOK
<1>1. ParseInv /\ RowsInv => TypeOK
  <2> SUFFICES ASSUME ParseInv, RowsInv PROVE TypeOK
    OBVIOUS
  <2>1. ParseTypes /\ commandIndex <= Len(input)
    <3>1. ParseTypes /\ 4 * Len(commands) + commandIndex <= Len(input)
          /\ commands = CommandsOf(input)
      BY DEF ParseInv
    <3>2. Len(commands) \in Nat /\ Len(input) \in Nat /\ commandIndex \in Nat
      BY <3>1, CommandsAre, LenProperties DEF ParseTypes
    <3> QED
      BY <3>1, <3>2
  <2>2. commandIndex \in Columns
    <3>1. commandIndex \in Nat /\ Len(input) <= MaxInput /\ Len(input) \in Nat
      BY <2>1, LenProperties DEF ParseTypes
    <3> QED
      BY <2>1, <3>1, ParserAssumption DEF Columns, MaxInput
  <2> QED
    BY <2>1, <2>2 DEF TypeOK, ParseTypes, RowsInv
<1> QED
  BY <1>1, ParseInvariant, RowsInvariant, PTL

(* parseData returns the commands of the text it is given, from the first  *)
(* "AT" of a line to its line feed, and nothing else.                      *)
THEOREM FindsTheCommands == Spec => []ParsesCommands
<1>1. ParseInv => ParsesCommands
  BY DEF ParseInv, ParsesCommands
<1> QED
  BY <1>1, ParseInvariant, PTL

(* Every store of parseData is inside commands, but where a row begins     *)
(* behind the last one, which takes a text of more than four characters    *)
(* for each row.                                                           *)
THEOREM StoresAreInside == Spec => []StoresInRow
<1>1. ASSUME ParseInv, RowsInv PROVE StoresInRow
  <2>1. /\ commandIndex \in Nat /\ input \in Seq(Chars)
        /\ commands = CommandsOf(input)
        /\ 4 * Len(commands) + commandIndex <= Len(input)
    BY <1>1 DEF ParseInv, ParseTypes
  <2>2. Len(commands) \in Nat /\ Len(input) \in Nat
    BY <2>1, CommandsAre, LenProperties
  <2>3. commandIndex <= Len(input)
    BY <2>1, <2>2
  <2>4. Len(input) < MaxInput => commandIndex + 1 < RowSize
    BY <2>1, <2>2, <2>3, ParserAssumption DEF MaxInput
  <2>5. Len(input) < MaxInput => commandIndex < RowSize
    BY <2>1, <2>4, ParserAssumption
  <2> QED
    BY <1>1, <2>4, <2>5 DEF StoresInRow, RowsInv
<1> QED
  BY <1>1, ParseInvariant, RowsInvariant, PTL

-----------------------------------------------------------------------------
(* A text cut in two, x and y: what the cut costs.                         *)
(*                                                                         *)
(* A command of y is the end of a command of the whole.                    *)
LEMMA SuffixIs ==
  ASSUME NEW c \in Seq(Chars), NEW d \in Seq(Chars), Len(c) <= Len(d),
         \A k \in 1 .. Len(c) : c[k] = d[(Len(d) - Len(c)) + k]
  PROVE  IsSuffix(c, d)
<1> DEFINE m == Len(c)
           n == Len(d)
           rc == Reverse(c)
           rd == Reverse(d)
<1>1. m \in Nat /\ n \in Nat /\ m <= n
  BY LenProperties
<1>2. /\ rc = [i \in 1 .. m |-> c[(m - i) + 1]]
      /\ rd = [i \in 1 .. n |-> d[(n - i) + 1]]
  BY DEF Reverse
<1>3. \A k \in 1 .. m : c[k] = d[(n - m) + k]
  OBVIOUS
<1>4. /\ \A k \in 1 .. m : c[k] \in Chars
      /\ \A k \in 1 .. n : d[k] \in Chars
  BY ElementOfSeq
<1> HIDE DEF m, n
<1>5. /\ \A i \in 1 .. m : (m - i) + 1 \in 1 .. m
      /\ \A i \in 1 .. n : (n - i) + 1 \in 1 .. n
      /\ \A i \in 1 .. m : i \in 1 .. n
      /\ \A i \in 1 .. m : (n - m) + ((m - i) + 1) = (n - i) + 1
  BY <1>1
<1>6. \A i \in 1 .. m : rc[i] = rd[i] /\ rc[i] \in Chars /\ rd[i] \in Chars
  BY <1>2, <1>3, <1>4, <1>5, SMTT(30)
<1>7. Len(rc) = m /\ Len(rd) = n
  BY <1>1, <1>2
<1> HIDE DEF rc, rd
<1>8. SubSeq(rc, 1, m) = SubSeq(rd, 1, m)
  <2>1. /\ SubSeq(rc, 1, m) \in Seq(Chars)
        /\ Len(SubSeq(rc, 1, m)) = IF 1 <= m THEN m - 1 + 1 ELSE 0
        /\ \A i \in 1 .. m - 1 + 1 : SubSeq(rc, 1, m)[i] = rc[1 + i - 1]
    <3>1. 1 \in Int /\ m \in Int
      BY <1>1
    <3> QED
      BY <1>6, <3>1, SubSeqProperties
  <2>2. /\ SubSeq(rd, 1, m) \in Seq(Chars)
        /\ Len(SubSeq(rd, 1, m)) = IF 1 <= m THEN m - 1 + 1 ELSE 0
        /\ \A i \in 1 .. m - 1 + 1 : SubSeq(rd, 1, m)[i] = rd[1 + i - 1]
    <3>1. 1 \in Int /\ m \in Int
      BY <1>1
    <3> QED
      BY <1>6, <3>1, SubSeqProperties
  <2>3. \A i \in 1 .. m - 1 + 1 : 1 + i - 1 \in 1 .. m
    BY <1>1
  <2>4. \A i \in 1 .. m - 1 + 1 : SubSeq(rc, 1, m)[i] = SubSeq(rd, 1, m)[i]
    BY <1>6, <2>1, <2>2, <2>3
  <2>5. \A i \in 1 .. Len(SubSeq(rc, 1, m)) : i \in 1 .. m - 1 + 1
    BY <1>1, <2>1
  <2> QED
    BY <2>1, <2>2, <2>4, <2>5, SeqEqual
<1>9. IsPrefix(rc, rd)
  BY <1>1, <1>7, <1>8 DEF IsPrefix
<1> QED
  BY <1>9 DEF IsSuffix, rc, rd

(* t is x and then y.                                                      *)
Cut(x, y, t) ==
  /\ x \in Seq(Chars) /\ y \in Seq(Chars) /\ t \in Seq(Chars)
  /\ Len(x) \in Nat /\ Len(y) \in Nat /\ Len(t) = Len(x) + Len(y)
  /\ \A k \in 1 .. Len(x) : t[k] = x[k]
  /\ \A k \in 1 .. Len(y) : t[Len(x) + k] = y[k]

LEMMA CutIs ==
  ASSUME NEW x \in Seq(Chars), NEW y \in Seq(Chars)
  PROVE  Cut(x, y, x \o y)
<1>1. PICK t : Joins(t, x, y)
  BY DEF Joins
<1>2. Cut(x, y, t)
  BY <1>1, JoinFacts DEF Cut
<1> QED
  BY <1>1, <1>2 DEF Joins

LEMMA ShiftedEnds ==
  ASSUME NEW x, NEW y, NEW t, Cut(x, y, t), NEW m \in Ends(y)
  PROVE  /\ Len(x) + m \in Ends(t)
         /\ IsSuffix(CommandAt(y, m), CommandAt(t, Len(x) + m))
<1> DEFINE e == Len(x)
           P == Min(ATs(y, m))
           n == e + m
           Q == Min(ATs(t, n))
<1>1. /\ x \in Seq(Chars) /\ y \in Seq(Chars) /\ t \in Seq(Chars)
      /\ e \in Nat /\ Len(y) \in Nat /\ Len(t) = e + Len(y)
      /\ \A k \in 1 .. e : t[k] = x[k]
      /\ \A k \in 1 .. Len(y) : t[e + k] = y[k]
  BY DEF Cut
<1>2. /\ m \in 1 .. Len(y) - 1 /\ y[m] = "CR" /\ y[m + 1] = "LF"
      /\ ATs(y, m) # {}
  BY DEF Ends
<1>3. m \in Nat /\ m >= 1 /\ m \in 1 .. Len(y) /\ m + 1 \in 1 .. Len(y)
  BY <1>1, <1>2
<1>4. /\ P \in 1 .. m - 2 /\ P \in ATs(y, m)
  BY <1>2, <1>3, FirstAT
<1> HIDE DEF e, P
<1>5. n \in Nat /\ n >= 1 /\ n \in 1 .. Len(t) - 1
      /\ t[n] = "CR" /\ t[n + 1] = "LF"
  <2>1. n + 1 = e + (m + 1)
    BY <1>1, <1>3
  <2> QED
    BY <1>1, <1>2, <1>3, <2>1
<1>6. e + P \in ATs(t, n)
  <2>1. /\ y[P] = "A" /\ y[P + 1] = "T" /\ BehindReturns(y, m, P)
    BY <1>3, <1>4, ATsAre DEF ATsIn
  <2>2. P \in 1 .. Len(y) /\ P + 1 \in 1 .. Len(y)
        /\ (e + P) + 1 = e + (P + 1) /\ e + P \in 1 .. n - 2
    BY <1>1, <1>3, <1>4
  <2>3. t[e + P] = "A" /\ t[(e + P) + 1] = "T"
    BY <1>1, <2>1, <2>2
  <2>4. ASSUME NEW j \in 1 .. n - 1, t[j] = "CR" PROVE j < e + P
    <3>1. CASE j <= e
      BY <1>1, <1>4, <3>1
    <3>2. CASE j > e
      <4>1. PICK i \in 1 .. m - 1 : j = e + i
        <5>1. j - e \in 1 .. m - 1 /\ j = e + (j - e)
          BY <1>1, <1>3, <3>2
        <5> QED
          BY <5>1
      <4>2. i \in 1 .. Len(y)
        BY <1>1, <1>3
      <4>3. y[i] = "CR"
        BY <1>1, <2>4, <4>1, <4>2
      <4>4. i < P
        BY <2>1, <4>3 DEF BehindReturns
      <4> QED
        BY <1>1, <1>4, <4>1, <4>4
    <3> QED
      BY <1>1, <3>1, <3>2
  <2>5. BehindReturns(t, n, e + P)
    BY <2>4 DEF BehindReturns
  <2>6. e + P \in ATsIn(t, n)
    BY <2>2, <2>3, <2>5 DEF ATsIn
  <2> HIDE DEF n
  <2> QED
    BY <1>5, <2>6, ATsAre
<1>7. n \in Ends(t)
  BY <1>5, <1>6 DEF Ends
<1>8. Q \in 1 .. n - 2 /\ Q <= e + P
  <2> HIDE DEF n
  <2> QED
    BY <1>5, <1>6, FirstAT
<1> DEFINE c == CommandAt(y, m)
           d == CommandAt(t, n)
<1>9. /\ c \in Seq(Chars) /\ Len(c) = (m + 2) - P
      /\ \A k \in 1 .. (m + 2) - P : c[k] = y[(P + k) - 1]
  BY <1>1, CommandIs DEF P
<1>10. /\ d \in Seq(Chars) /\ Len(d) = (n + 2) - Q
       /\ \A k \in 1 .. (n + 2) - Q : d[k] = t[(Q + k) - 1]
  <2> HIDE DEF n
  <2> QED
    BY <1>1, <1>7, CommandIs DEF Q
<1> HIDE DEF c, d, Q
<1>11. Len(c) <= Len(d) /\ Len(c) \in Nat /\ Len(d) \in Nat
  BY <1>1, <1>3, <1>4, <1>8, <1>9, <1>10
<1>12. ASSUME NEW k \in 1 .. Len(c)
       PROVE  c[k] = d[(Len(d) - Len(c)) + k]
  <2>1. /\ k \in 1 .. (m + 2) - P
        /\ (Len(d) - Len(c)) + k \in 1 .. (n + 2) - Q
    BY <1>9, <1>10, <1>11
  <2>2. (Q + ((Len(d) - Len(c)) + k)) - 1 = e + ((P + k) - 1)
    BY <1>1, <1>3, <1>4, <1>8, <1>9, <1>10
  <2>3. (P + k) - 1 \in 1 .. Len(y)
    BY <1>1, <1>3, <1>4, <2>1
  <2>4. d[(Len(d) - Len(c)) + k] = t[e + ((P + k) - 1)]
    BY <1>10, <2>1, <2>2
  <2> QED
    BY <1>1, <1>9, <2>1, <2>3, <2>4
<1>13. IsSuffix(c, d)
  BY <1>9, <1>10, <1>11, <1>12, SuffixIs
<1> QED
  BY <1>7, <1>13 DEF c, d, e

(* But for one, a command of the whole is a command of x or of y.          *)
LEMMA OneIsCut ==
  ASSUME NEW x, NEW y, NEW t, Cut(x, y, t), NEW a \in Ends(t),
         NEW b \in Ends(t), a < b, a \notin Ends(x)
  PROVE  b - Len(x) \in Ends(y)
<1> DEFINE e == Len(x)
           m == b - e
<1>1. /\ x \in Seq(Chars) /\ y \in Seq(Chars) /\ t \in Seq(Chars)
      /\ e \in Nat /\ Len(y) \in Nat /\ Len(t) = e + Len(y)
      /\ \A k \in 1 .. e : t[k] = x[k]
      /\ \A k \in 1 .. Len(y) : t[e + k] = y[k]
  BY DEF Cut
<1>2. /\ a \in 1 .. Len(t) - 1 /\ t[a] = "CR" /\ t[a + 1] = "LF"
      /\ ATs(t, a) # {}
      /\ b \in 1 .. Len(t) - 1 /\ t[b] = "CR" /\ t[b + 1] = "LF"
      /\ ATs(t, b) # {}
  BY DEF Ends
<1>3. /\ \A k \in 1 .. e - 1 : k \in 1 .. Len(x) - 1
      /\ \A k \in 1 .. e : t[k] = x[k]
  BY <1>1
<1> HIDE DEF e
<1>4. a \in Nat /\ a >= 1 /\ b \in Nat /\ b >= 1
  BY <1>1, <1>2
<1>5. a >= e
  <2>1. SUFFICES ASSUME a < e PROVE FALSE
    BY <1>1, <1>4
  <2>2. a \in 1 .. e /\ a + 1 \in 1 .. e /\ a \in 1 .. e - 1
    BY <1>1, <1>4, <2>1
  <2>3. ATs(x, a) = ATs(t, a)
    <3>1. Alike(x, t, a - 1)
      <4>1. \A i \in 1 .. a - 1 : i \in 1 .. e
        BY <1>1, <1>4, <2>1
      <4> QED
        BY <1>1, <4>1 DEF Alike
    <3> QED
      BY <1>4, <3>1, ATsAlike
  <2>4. x[a] = "CR" /\ x[a + 1] = "LF" /\ ATs(x, a) # {}
        /\ a \in 1 .. Len(x) - 1
    BY <1>2, <1>3, <2>2, <2>3
  <2> QED
    BY <2>4 DEF Ends
<1>6. m \in Nat /\ m >= 1 /\ m \in 1 .. Len(y) - 1 /\ b = e + m
      /\ b + 1 = e + (m + 1) /\ m \in 1 .. Len(y) /\ m + 1 \in 1 .. Len(y)
  BY <1>1, <1>2, <1>4, <1>5
<1> HIDE DEF m
<1>7. y[m] = "CR" /\ y[m + 1] = "LF"
  BY <1>1, <1>2, <1>6
<1>8. PICK p \in 1 .. b - 2 : t[p] = "A" /\ t[p + 1] = "T"
                             /\ BehindReturns(t, b, p)
  BY <1>2, <1>4, ATsAre DEF ATsIn
<1>9. a < p
  <2>1. a \in 1 .. b - 1
    BY <1>4
  <2> QED
    BY <1>2, <1>8, <2>1 DEF BehindReturns
<1>10. PICK i \in 1 .. m - 2 : p = e + i /\ p + 1 = e + (i + 1)
  <2>1. p - e \in 1 .. m - 2 /\ p = e + (p - e) /\ p + 1 = e + ((p - e) + 1)
    BY <1>1, <1>4, <1>5, <1>6, <1>9
  <2> QED
    BY <2>1
<1>11. y[i] = "A" /\ y[i + 1] = "T"
  <2>1. i \in 1 .. Len(y) /\ i + 1 \in 1 .. Len(y)
    BY <1>1, <1>6
  <2> QED
    BY <1>1, <1>8, <1>10, <2>1
<1>12. ASSUME NEW j \in 1 .. m - 1, y[j] = "CR" PROVE j < i
  <2>1. j \in 1 .. Len(y) /\ e + j \in 1 .. b - 1
    BY <1>1, <1>6
  <2>2. t[e + j] = "CR"
    BY <1>1, <1>12, <2>1
  <2>3. e + j < p
    BY <1>8, <2>1, <2>2 DEF BehindReturns
  <2> QED
    BY <1>1, <1>6, <1>10, <2>3
<1>13. i \in ATsIn(y, m)
  BY <1>11, <1>12 DEF ATsIn, BehindReturns
<1>14. ATs(y, m) # {}
  BY <1>6, <1>13, ATsAre
<1> QED
  BY <1>6, <1>7, <1>14 DEF Ends, m, e

LEMMA UnionAtMost ==
  ASSUME NEW S, NEW T, IsFiniteSet(S), IsFiniteSet(T)
  PROVE  /\ IsFiniteSet(S \cup T)
         /\ Cardinality(S \cup T) <= Cardinality(S) + Cardinality(T)
<1>1. /\ IsFiniteSet(S \cup T)
      /\ Cardinality(S \cup T) =
           Cardinality(S) + Cardinality(T) - Cardinality(S \cap T)
  BY FS_Union
<1>2. IsFiniteSet(S \cap T)
  BY FS_Intersection
<1>3. /\ Cardinality(S) \in Nat /\ Cardinality(T) \in Nat
      /\ Cardinality(S \cap T) \in Nat
  BY <1>2, FS_CardinalityType
<1> QED
  BY <1>1, <1>3

LEMMA CutCounts ==
  ASSUME NEW x, NEW y, NEW t, Cut(x, y, t)
  PROVE  Cardinality(Ends(t)) <= Cardinality(Ends(x)) + Cardinality(Ends(y)) + 1
<1> DEFINE e == Len(x)
           X == Ends(x)
           Y == Ends(y)
           T == Ends(t)
           moved == {e + m : m \in Y}
           bad == {n \in T : n \notin X /\ n \notin moved}
<1>1. /\ x \in Seq(Chars) /\ y \in Seq(Chars) /\ t \in Seq(Chars)
      /\ e \in Nat
  BY DEF Cut
<1>2. /\ IsFiniteSet(X) /\ IsFiniteSet(Y) /\ IsFiniteSet(T)
      /\ Cardinality(X) \in Nat /\ Cardinality(Y) \in Nat
      /\ Cardinality(T) \in Nat
  BY <1>1, CommandsAre
<1>3. \A n \in T : n \in Nat
  BY DEF Ends
<1>4. \A a, b \in T : a < b /\ a \notin X => b - e \in Y
  BY OneIsCut
<1> HIDE DEF e, X, Y, T
<1>5. ASSUME NEW a \in bad, NEW b \in bad PROVE a = b
  <2>1. a \in T /\ b \in T /\ a \notin X /\ b \notin X
    OBVIOUS
  <2>2. a \notin moved /\ b \notin moved /\ a \in Nat /\ b \in Nat
    BY <1>3
  <2>3. ~(a < b)
    <3>1. a < b => b - e \in Y /\ b = e + (b - e)
      BY <1>1, <1>4, <2>1, <2>2
    <3>2. b - e \in Y /\ b = e + (b - e) => b \in moved
      OBVIOUS
    <3> QED
      BY <2>2, <3>1, <3>2
  <2>4. ~(b < a)
    <3>1. b < a => a - e \in Y /\ a = e + (a - e)
      BY <1>1, <1>4, <2>1, <2>2
    <3>2. a - e \in Y /\ a = e + (a - e) => a \in moved
      OBVIOUS
    <3> QED
      BY <2>2, <3>1, <3>2
  <2> QED
    BY <2>2, <2>3, <2>4
<1>6. IsFiniteSet(bad) /\ Cardinality(bad) \in Nat /\ Cardinality(bad) <= 1
  <2> HIDE DEF bad
  <2>1. CASE bad = {}
    BY <2>1, FS_EmptySet
  <2>2. CASE bad # {}
    <3>1. PICK b : bad = {b}
      BY <1>5, <2>2
    <3> QED
      BY <3>1, FS_Singleton
  <2> QED
    BY <2>1, <2>2
<1>7. /\ IsFiniteSet(moved) /\ Cardinality(moved) \in Nat
      /\ Cardinality(moved) <= Cardinality(Y)
  <2> DEFINE f == [m \in Y |-> e + m]
  <2>1. f \in Surjection(Y, moved)
    BY DEF Surjection
  <2> HIDE DEF f, moved
  <2>2. IsFiniteSet(moved) /\ Cardinality(moved) <= Cardinality(Y)
    BY <1>2, <2>1, FS_Surjection
  <2> QED
    BY <2>2, FS_CardinalityType
<1>8. T \subseteq (X \cup moved) \cup bad
  OBVIOUS
<1> HIDE DEF moved, bad
<1>9. /\ IsFiniteSet(X \cup moved)
      /\ Cardinality(X \cup moved) <= Cardinality(X) + Cardinality(moved)
  BY <1>2, <1>7, UnionAtMost
<1>10. /\ IsFiniteSet((X \cup moved) \cup bad)
       /\ Cardinality((X \cup moved) \cup bad)
            <= Cardinality(X \cup moved) + Cardinality(bad)
  BY <1>6, <1>9, UnionAtMost
<1>11. Cardinality(T) <= Cardinality((X \cup moved) \cup bad)
  BY <1>8, <1>10, FS_Subset
<1>12. /\ Cardinality(X \cup moved) \in Nat
       /\ Cardinality((X \cup moved) \cup bad) \in Nat
  BY <1>9, <1>10, FS_CardinalityType
<1>13. Cardinality(T) <= Cardinality(X) + Cardinality(Y) + 1
  BY <1>2, <1>6, <1>7, <1>9, <1>10, <1>11, <1>12
<1> QED
  BY <1>13 DEF X, Y, T

-----------------------------------------------------------------------------
(* What the calls before this one found, of what they were given.          *)
EndOfOne(c, s) == \E d \in ToSet(CommandsOf(s)) : IsSuffix(c, d)
EarlierInv ==
  /\ calls \in Nat /\ calls >= 1
  /\ earlier.input \in Seq(Chars) /\ earlier.commands \in Seq(Seq(Chars))
  /\ calls = 1 => earlier.input = << >> /\ earlier.commands = << >>
  /\ calls > 1 => Cardinality(Ends(earlier.input))
                     <= Len(earlier.commands) + (calls - 2)
  /\ \A c \in ToSet(earlier.commands) : EndOfOne(c, earlier.input)

LEMMA CutsCost ==
  ASSUME ParseInv, EarlierInv
  PROVE  LET found == earlier.commands \o commands
         IN /\ Stream \in Seq(Chars) /\ found \in Seq(Seq(Chars))
            /\ Cardinality(Ends(Stream)) <= Len(found) + (calls - 1)
            /\ \A c \in ToSet(found) : EndOfOne(c, Stream)
<1> DEFINE x == earlier.input
           xs == earlier.commands
           found == xs \o commands
           T == Seq(Chars)
<1>1. /\ input \in Seq(Chars) /\ x \in Seq(Chars) /\ xs \in Seq(T)
      /\ calls \in Nat /\ calls >= 1 /\ commands = CommandsOf(input)
  BY DEF ParseInv, ParseTypes, EarlierInv
<1>2. Cut(x, input, Stream)
  BY <1>1, CutIs DEF Stream
<1>3. /\ Stream \in Seq(Chars) /\ Len(x) <= Len(Stream)
      /\ Alike(x, Stream, Len(x))
  BY <1>2 DEF Cut, Alike
<1>4. /\ commands \in Seq(T) /\ Len(commands) = Cardinality(Ends(input))
      /\ ToSet(commands) = {CommandAt(input, n) : n \in Ends(input)}
      /\ Cardinality(Ends(input)) \in Nat
  BY <1>1, CommandsAre
<1>5. /\ Cardinality(Ends(x)) \in Nat
      /\ ToSet(CommandsOf(x)) = {CommandAt(x, n) : n \in Ends(x)}
  BY <1>1, CommandsAre
<1>6. /\ Cardinality(Ends(Stream)) \in Nat
      /\ ToSet(CommandsOf(Stream)) =
            {CommandAt(Stream, n) : n \in Ends(Stream)}
  BY <1>3, CommandsAre
<1> HIDE DEF T
<1>7. /\ found \in Seq(T) /\ Len(found) = Len(xs) + Len(commands)
      /\ Len(xs) \in Nat /\ Len(commands) \in Nat
      /\ \A k \in 1 .. Len(xs) + Len(commands) :
           found[k] = IF k <= Len(xs) THEN xs[k] ELSE commands[k - Len(xs)]
  BY <1>1, <1>4, ConcatProperties, LenProperties
<1>8. Cardinality(Ends(Stream)) <= Len(found) + (calls - 1)
  <2>1. CASE calls = 1
    <3>1. x = << >> /\ xs = << >>
      BY <2>1 DEF EarlierInv
    <3>2. Stream = input
      BY <1>1, <3>1, ConcatEmptySeq DEF Stream
    <3>3. Len(xs) = 0
      BY <3>1
    <3> HIDE DEF found, x, xs
    <3> QED
      BY <1>4, <1>7, <2>1, <3>2, <3>3
  <2>2. CASE calls > 1
    <3>1. Cardinality(Ends(x)) <= Len(xs) + (calls - 2)
      BY <2>2 DEF EarlierInv
    <3>2. Cardinality(Ends(Stream))
            <= Cardinality(Ends(x)) + Cardinality(Ends(input)) + 1
      BY <1>2, CutCounts
    <3> HIDE DEF found, x, xs
    <3> QED
      BY <1>1, <1>4, <1>5, <1>6, <1>7, <3>1, <3>2
  <2> QED
    BY <1>1, <2>1, <2>2
<1>9. ASSUME NEW c \in ToSet(found)
      PROVE  EndOfOne(c, Stream)
  <2>1. c \in ToSet(xs) \/ c \in ToSet(commands)
    <3>1. PICK k \in 1 .. Len(xs) + Len(commands) : c = found[k]
      BY <1>7, <1>9 DEF ToSet
    <3>2. DOMAIN xs = 1 .. Len(xs) /\ DOMAIN commands = 1 .. Len(commands)
      BY <1>1, <1>4, LenProperties
    <3>3. CASE k <= Len(xs)
      <4>1. k \in 1 .. Len(xs) /\ c = xs[k]
        BY <1>7, <3>1, <3>3
      <4> QED
        BY <3>2, <4>1 DEF ToSet
    <3>4. CASE k > Len(xs)
      <4>1. k - Len(xs) \in 1 .. Len(commands) /\ c = commands[k - Len(xs)]
        BY <1>7, <3>1, <3>4
      <4> QED
        BY <3>2, <4>1 DEF ToSet
    <3> QED
      BY <1>7, <3>3, <3>4
  <2>2. CASE c \in ToSet(xs)
    <3>1. PICK d \in ToSet(CommandsOf(x)) : IsSuffix(c, d)
      BY <2>2 DEF EarlierInv, EndOfOne
    <3>2. PICK n \in Ends(x) : d = CommandAt(x, n)
      BY <1>5, <3>1
    <3>3. n \in Ends(Stream) /\ CommandAt(Stream, n) = d
      BY <1>1, <1>3, <3>2, EndsStay
    <3>4. d \in ToSet(CommandsOf(Stream))
      BY <1>6, <3>3
    <3> QED
      BY <3>1, <3>4 DEF EndOfOne
  <2>3. CASE c \in ToSet(commands)
    <3>1. PICK n \in Ends(input) : c = CommandAt(input, n)
      BY <1>4, <2>3
    <3>2. /\ Len(x) + n \in Ends(Stream)
          /\ IsSuffix(c, CommandAt(Stream, Len(x) + n))
      BY <1>2, <3>1, ShiftedEnds
    <3>3. CommandAt(Stream, Len(x) + n) \in ToSet(CommandsOf(Stream))
      BY <1>6, <3>2
    <3> QED
      BY <3>2, <3>3 DEF EndOfOne
  <2> QED
    BY <2>1, <2>2, <2>3
<1> QED
  BY <1>3, <1>7, <1>8, <1>9 DEF T

LEMMA EarlierInvariant == Spec => []EarlierInv
<1>1. Init => EarlierInv
  <2> SUFFICES ASSUME Init PROVE EarlierInv
    OBVIOUS
  <2>1. /\ calls = 1 /\ earlier.input = << >> /\ earlier.commands = << >>
        /\ ToSet(earlier.commands) = {}
    BY DEF Init, ToSet
  <2> QED
    BY <2>1 DEF EarlierInv
<1>2. ParseInv /\ EarlierInv /\ [Next]_vars => EarlierInv'
  <2> SUFFICES ASSUME ParseInv, EarlierInv, [Next]_vars PROVE EarlierInv'
    OBVIOUS
  <2>1. CASE NextCall
    <3> DEFINE found == earlier.commands \o commands
    <3>1. /\ calls' = calls + 1 /\ earlier'.input = Stream
          /\ earlier'.commands = found
      BY <2>1 DEF NextCall
    <3>2. /\ Stream \in Seq(Chars) /\ found \in Seq(Seq(Chars))
          /\ Cardinality(Ends(Stream)) <= Len(found) + (calls - 1)
          /\ \A c \in ToSet(found) : EndOfOne(c, Stream)
      BY CutsCost
    <3> HIDE DEF found
    <3>3. calls \in Nat /\ calls >= 1 /\ calls' \in Nat /\ calls' > 1
          /\ calls' - 2 = calls - 1
      BY <3>1 DEF EarlierInv
    <3> QED
      BY <3>1, <3>2, <3>3 DEF EarlierInv
  <2>2. CASE UNCHANGED <<calls, earlier>>
    BY <2>2 DEF EarlierInv
  <2>3. ParseIdle \/ ParseAT \/ ParseCmd \/ ParseCR \/ Overrun \/ UNCHANGED vars
          => UNCHANGED <<calls, earlier>>
    BY DEF ParseIdle, ParseAT, ParseCmd, ParseCR, Read, Overrun, vars
  <2> QED
    BY <2>1, <2>2, <2>3 DEF Next
<1> QED
  BY <1>1, <1>2, ParseInvariant, PTL DEF Spec

(* Whatever calls a stream of characters is cut into, each cut costs one   *)
(* command at most, and each command found is one of the stream or the end *)
(* of one.                                                                 *)
THEOREM EachCutCostsOne == Spec => []CutCostsOneCommand
<1>1. ASSUME ParseInv, EarlierInv PROVE CutCostsOneCommand
  <2> DEFINE found == earlier.commands \o commands
  <2>1. /\ Stream \in Seq(Chars) /\ found \in Seq(Seq(Chars))
        /\ Cardinality(Ends(Stream)) <= Len(found) + (calls - 1)
        /\ \A c \in ToSet(found) : EndOfOne(c, Stream)
    BY <1>1, CutsCost
  <2>2. /\ Len(CommandsOf(Stream)) = Cardinality(Ends(Stream))
        /\ Cardinality(Ends(Stream)) \in Nat
    BY <2>1, CommandsAre
  <2>3. Len(found) \in Nat /\ calls \in Nat
    BY <1>1, <2>1, LenProperties DEF EarlierInv
  <2> HIDE DEF found
  <2>4. Len(found) >= Len(CommandsOf(Stream)) - (calls - 1)
    BY <2>1, <2>2, <2>3
  <2> QED
    BY <2>1, <2>4 DEF CutCostsOneCommand, EndOfOne, found
<1> QED
  BY <1>1, ParseInvariant, EarlierInvariant, PTL

-----------------------------------------------------------------------------
(* What it is to begin with a text.                                        *)
Begins(s, t) == Len(s) <= Len(t) /\ \A i \in 1 .. Len(s) : s[i] = t[i]

LEMMA PrefixIs ==
  ASSUME NEW s \in Seq(Chars), NEW t \in Seq(Chars)
  PROVE  IsPrefix(s, t) <=> Begins(s, t)
<1> DEFINE n == Len(s)
           a == SubSeq(s, 1, n)
           b == SubSeq(t, 1, n)
<1>1. n \in Nat /\ Len(t) \in Nat
  BY LenProperties
<1>2. a = s
  BY SubSeqFull
<1>3. ASSUME n <= Len(t)
      PROVE  /\ b \in Seq(Chars) /\ Len(b) = n
             /\ \A i \in 1 .. n : b[i] = t[i]
  <2>1. \A i \in 1 .. n : i \in 1 .. Len(t)
    BY <1>1, <1>3
  <2>2. \A i \in 1 .. n : t[i] \in Chars
    BY <2>1, ElementOfSeq
  <2>3. 1 \in Int /\ n \in Int
    BY <1>1
  <2> HIDE DEF n
  <2>4. /\ b \in Seq(Chars) /\ Len(b) = IF 1 <= n THEN n - 1 + 1 ELSE 0
        /\ \A i \in 1 .. n - 1 + 1 : b[i] = t[1 + i - 1]
    BY <2>2, <2>3, SubSeqProperties
  <2> QED
    BY <1>1, <2>4
<1>4. IsPrefix(s, t) <=> n <= Len(t) /\ s = b
  BY <1>2, Zenon DEF IsPrefix
<1> HIDE DEF a, b
<1>5. ASSUME n <= Len(t) PROVE s = b <=> \A i \in 1 .. n : s[i] = t[i]
  <2>1. ASSUME \A i \in 1 .. n : s[i] = t[i] PROVE s = b
    BY <1>3, <1>5, <2>1, SeqEqual
  <2> QED
    BY <1>3, <1>5, <2>1
<1> QED
  BY <1>4, <1>5 DEF Begins

(* Two characters at a place of a text.                                    *)
PairAt(t, p, a, b) == t[p] = a /\ t[p + 1] = b
HasPair(t, p, a, b) == SubSeq(t, p, p + 1) = <<a, b>>

LEMMA PairIs ==
  ASSUME NEW t \in Seq(Chars), NEW p \in 1 .. Len(t) - 1, NEW a, NEW b
  PROVE  HasPair(t, p, a, b) <=> PairAt(t, p, a, b)
<1> DEFINE u == SubSeq(t, p, p + 1)
<1>1. p \in Int /\ p + 1 \in Int /\ Len(t) \in Nat
  BY LenProperties
<1>2. \A i \in p .. p + 1 : i \in 1 .. Len(t)
  BY <1>1
<1>3. \A i \in p .. p + 1 : t[i] \in Chars
  BY <1>2, ElementOfSeq
<1>4. /\ u \in Seq(Chars)
      /\ Len(u) = IF p <= p + 1 THEN p + 1 - p + 1 ELSE 0
      /\ \A i \in 1 .. p + 1 - p + 1 : u[i] = t[p + i - 1]
  BY <1>1, <1>3, SubSeqProperties
<1> HIDE DEF u
<1>5. Len(u) = 2 /\ u[1] = t[p] /\ u[2] = t[p + 1]
  <2>1. p + 1 - p + 1 = 2 /\ p <= p + 1
    BY <1>1
  <2>2. 1 \in 1 .. p + 1 - p + 1 /\ 2 \in 1 .. p + 1 - p + 1
    BY <1>1
  <2>3. p + 1 - 1 = p /\ p + 2 - 1 = p + 1
    BY <1>1
  <2> QED
    BY <1>4, <2>1, <2>2, <2>3
<1>6. u = <<u[1], u[2]>>
  <2>1. u = [i \in 1 .. 2 |-> u[i]]
    BY <1>4, <1>5
  <2> QED
    BY <2>1
<1> QED
  BY <1>5, <1>6 DEF u, HasPair, PairAt

LEMMA PairsAre ==
  /\ AT \in Seq(Chars) /\ Len(AT) = 2 /\ AT[1] = "A" /\ AT[2] = "T"
  /\ CRLF \in Seq(Chars) /\ Len(CRLF) = 2
  /\ CRLF[1] = "CR" /\ CRLF[2] = "LF"
  /\ AT \o AT \in Seq(Chars) /\ Len(AT \o AT) = 4
  /\ (AT \o AT)[3] = "A" /\ (AT \o AT)[4] = "T"
<1>1. /\ "A" \in Chars /\ "T" \in Chars /\ "CR" \in Chars /\ "LF" \in Chars
  BY ParserAssumption
<1>2. /\ AT \in Seq(Chars) /\ Len(AT) = 2 /\ AT[1] = "A" /\ AT[2] = "T"
      /\ CRLF \in Seq(Chars) /\ Len(CRLF) = 2
      /\ CRLF[1] = "CR" /\ CRLF[2] = "LF"
  BY <1>1 DEF AT, CRLF
<1> DEFINE two == AT \o AT
<1>3. Cut(AT, AT, two)
  BY <1>2, CutIs
<1> HIDE DEF two
<1>4. /\ two \in Seq(Chars) /\ Len(two) = 4
      /\ two[3] = "A" /\ two[4] = "T"
  <2>1. two[2 + 1] = AT[1] /\ two[2 + 2] = AT[2] /\ Len(two) = 2 + 2
        /\ two \in Seq(Chars)
    BY <1>2, <1>3 DEF Cut
  <2> QED
    BY <1>2, <2>1
<1> QED
  BY <1>2, <1>4 DEF two

LEMMA BeginsWithAT ==
  ASSUME NEW t \in Seq(Chars)
  PROVE  /\ IsPrefix(AT, t) <=> Len(t) >= 2 /\ t[1] = "A" /\ t[2] = "T"
         /\ IsPrefix(AT \o AT, t)
              => Len(t) >= 4 /\ t[3] = "A" /\ t[4] = "T"
<1> DEFINE two == AT \o AT
<1>1. Len(t) \in Nat
  BY LenProperties
<1>2. IsPrefix(AT, t) <=> Begins(AT, t)
  BY PairsAre, PrefixIs
<1>3. IsPrefix(two, t) <=> Begins(two, t)
  BY PairsAre, PrefixIs
<1>4. Len(two) = 4 /\ two[3] = "A" /\ two[4] = "T"
  BY PairsAre
<1> HIDE DEF two
<1> QED
  BY <1>1, <1>2, <1>3, <1>4, PairsAre DEF two, Begins

LEMMA EndsWithCRLF ==
  ASSUME NEW t \in Seq(Chars), IsSuffix(CRLF, t)
  PROVE  Len(t) >= 2 /\ t[Len(t) - 1] = "CR" /\ t[Len(t)] = "LF"
<1> DEFINE n == Len(t)
           r == Reverse(t)
           c == Reverse(CRLF)
<1>1. n \in Nat
  BY LenProperties
<1>2. r = [i \in 1 .. n |-> t[(n - i) + 1]]
  BY DEF Reverse
<1>3. c = [i \in 1 .. 2 |-> CRLF[(2 - i) + 1]]
  BY PairsAre DEF Reverse
<1>4. r \in Seq(Chars) /\ Len(r) = n
  <2>1. \A i \in 1 .. n : (n - i) + 1 \in 1 .. n
    BY <1>1
  <2>2. \A i \in 1 .. n : t[i] \in Chars
    BY ElementOfSeq
  <2> HIDE DEF n
  <2> QED
    BY <1>1, <1>2, <2>1, <2>2
<1>5. c \in Seq(Chars) /\ Len(c) = 2 /\ c[1] = "LF" /\ c[2] = "CR"
  BY <1>3, PairsAre, ParserAssumption
<1>6. IsPrefix(c, r)
  BY DEF IsSuffix
<1> HIDE DEF r, c, n
<1>7. Begins(c, r)
  BY <1>4, <1>5, <1>6, PrefixIs
<1>8. 2 <= n /\ r[1] = "LF" /\ r[2] = "CR"
  BY <1>4, <1>5, <1>7 DEF Begins
<1>9. r[1] = t[n] /\ r[2] = t[n - 1]
  <2>1. 1 \in 1 .. n /\ 2 \in 1 .. n /\ (n - 1) + 1 = n /\ (n - 2) + 1 = n - 1
    BY <1>1, <1>8
  <2> QED
    BY <1>2, <2>1
<1> QED
  BY <1>1, <1>8, <1>9 DEF n

-----------------------------------------------------------------------------
(* strstr of two characters.                                               *)
Found(t, from, a, b) == {p \in from .. Len(t) - 1 : PairAt(t, p, a, b)}

LEMMA StrstrIs ==
  ASSUME NEW t \in Seq(Chars), NEW from \in Nat, from >= 1, NEW a, NEW b,
         NEW pattern, pattern = <<a, b>>
  PROVE  LET p == strstr(t, from, pattern)
         IN IF Found(t, from, a, b) = {} THEN p = 0
            ELSE /\ p \in Found(t, from, a, b)
                 /\ \A m \in Found(t, from, a, b) : p <= m
<1> DEFINE places == {p \in from .. Len(t) - Len(pattern) + 1 :
                       SubSeq(t, p, p + Len(pattern) - 1) = pattern}
           found == Found(t, from, a, b)
<1>1. Len(pattern) = 2
  OBVIOUS
<1>2. Len(t) \in Nat
  BY LenProperties
<1>3. places = found
  <2>1. Len(t) - Len(pattern) + 1 = Len(t) - 1
    BY <1>1, <1>2
  <2>2. \A p \in from .. Len(t) - 1 : /\ p \in 1 .. Len(t) - 1
                                      /\ p + Len(pattern) - 1 = p + 1
    BY <1>1, <1>2
  <2>3. \A p \in from .. Len(t) - 1 :
          SubSeq(t, p, p + 1) = pattern <=> PairAt(t, p, a, b)
    <3> TAKE p \in from .. Len(t) - 1
    <3>1. p \in 1 .. Len(t) - 1
      BY <2>2
    <3>2. HasPair(t, p, a, b) <=> PairAt(t, p, a, b)
      BY <3>1, PairIs
    <3> QED
      BY <3>2, Zenon DEF HasPair
  <2>4. places = {p \in from .. Len(t) - 1 : SubSeq(t, p, p + 1) = pattern}
    BY <2>1, <2>2
  <2> QED
    BY <2>3, <2>4 DEF Found
<1>4. strstr(t, from, pattern) = IF places = {} THEN 0 ELSE Min(places)
  BY Zenon DEF strstr
<1>5. found \subseteq Nat
  BY <1>2 DEF Found
<1> HIDE DEF places, found
<1>6. ASSUME found # {}
      PROVE  Min(found) \in found /\ \A m \in found : Min(found) <= m
  <2>1. \E x \in found : \A y \in found : x <= y
    BY <1>5, <1>6, LeastElement
  <2> QED
    BY <2>1, Zenon DEF Min
<1> QED
  BY <1>3, <1>4, <1>6 DEF found
-----------------------------------------------------------------------------
(* Split.  What its loop does from each place on is a function that is     *)
(* defined by recursion, each place by one behind it.                      *)
NextAT(t, i) == strstr(t, i + 1, AT)
LastPiece(t, i) == SubSeq(t, i, strstr(t, i + 1, CRLF) - 1)
SplitAt(f, t, i) ==
  IF NextAT(t, i) # 0
  THEN <<SubSeq(t, i, NextAT(t, i) - 1)>> \o f[NextAT(t, i)]
  ELSE <<LastPiece(t, i)>>
SplitTable(t) ==
  CHOOSE split : split = [start \in 1 .. Len(t) |->
    LET next == strstr(t, start + 1, AT)
    IN IF next # 0
       THEN <<SubSeq(t, start, next - 1)>> \o split[next]
       ELSE <<SubSeq(t, start, strstr(t, start + 1, CRLF) - 1)>>]
Splits(f, lo, t) == f = [i \in lo .. Len(t) |-> SplitAt(f, t, i)]

LEMMA NextIs ==
  ASSUME NEW t \in Seq(Chars), NEW i \in 1 .. Len(t)
  PROVE  /\ NextAT(t, i) = 0 => Found(t, i + 1, "A", "T") = {}
         /\ NextAT(t, i) # 0 =>
              /\ NextAT(t, i) \in Found(t, i + 1, "A", "T")
              /\ NextAT(t, i) \in i + 1 .. Len(t) - 1
              /\ \A m \in Found(t, i + 1, "A", "T") : NextAT(t, i) <= m
<1> DEFINE n == i + 1
           found == Found(t, n, "A", "T")
           p == strstr(t, n, AT)
<1>1. n \in Nat /\ n >= 1 /\ Len(t) \in Nat
  BY LenProperties
<1>2. IF found = {} THEN p = 0
      ELSE p \in found /\ \A m \in found : p <= m
  <2>1. AT = <<"A", "T">>
    BY DEF AT
  <2> HIDE DEF n
  <2> QED
    BY <1>1, <2>1, StrstrIs, Zenon
<1>3. \A m \in found : m \in i + 1 .. Len(t) - 1 /\ m # 0
  BY <1>1 DEF Found
<1>4. NextAT(t, i) = p
  BY DEF NextAT
<1> HIDE DEF found, p
<1> QED
  BY <1>2, <1>3, <1>4 DEF found

(* There is such a function: from the end of the text on, place by place.  *)
LEMMA SplitsExist ==
  ASSUME NEW t \in Seq(Chars)
  PROVE  \E f : Splits(f, 1, t)
<1> DEFINE n == Len(t)
           Has(k) == \E f : Splits(f, (n - k) + 1, t)
           bad == {k \in 0 .. n : ~Has(k)}
<1>1. n \in Nat
  BY LenProperties
<1>2. bad = {}
  <2>1. SUFFICES ASSUME bad # {} PROVE FALSE
    OBVIOUS
  <2>2. PICK x \in bad : \A y \in bad : x <= y
    <3>1. bad \subseteq Nat
      OBVIOUS
    <3> HIDE DEF bad
    <3> QED
      BY <2>1, <3>1, LeastElement
  <2>3. x \in 0 .. n /\ ~Has(x)
    BY <2>2, Zenon
  <2>4. x # 0
    <3>1. (n - 0) + 1 .. Len(t) = {}
      BY <1>1
    <3> DEFINE f == [i \in (n - 0) + 1 .. Len(t) |-> 0]
    <3>2. f = [i \in (n - 0) + 1 .. Len(t) |-> SplitAt(f, t, i)]
      <4> HIDE DEF n
      <4> QED
        BY <3>1
    <3>3. Splits(f, (n - 0) + 1, t)
      BY <3>2, Zenon DEF Splits
    <3>4. Has(0)
      <4> HIDE DEF f
      <4> QED
        BY <3>3, Zenon
    <3> QED
      BY <2>3, <3>4, Zenon
  <2>5. Has(x - 1)
    <3>1. x - 1 \in 0 .. n /\ ~(x <= x - 1)
      BY <1>1, <2>3, <2>4
    <3> HIDE DEF Has
    <3> QED
      BY <2>2, <3>1
  <2> DEFINE j == (n - x) + 1
  <2>6. (n - (x - 1)) + 1 = j + 1 /\ j \in 1 .. n
    BY <1>1, <2>3, <2>4
  <2>7. PICK f : Splits(f, j + 1, t)
    BY <2>5, <2>6
  <2> DEFINE g == [i \in j .. n |-> IF i = j THEN SplitAt(f, t, j) ELSE f[i]]
  <2> HIDE DEF j
  <2>8. \A i \in j + 1 .. n : f[i] = SplitAt(f, t, i)
    BY <2>7 DEF Splits
  <2>9. \A i \in j .. n : SplitAt(g, t, i) = SplitAt(f, t, i)
    <3> TAKE i \in j .. n
    <3>1. ASSUME NextAT(t, i) # 0
          PROVE  g[NextAT(t, i)] = f[NextAT(t, i)]
      <4>1. NextAT(t, i) \in i + 1 .. n - 1
        <5>1. i \in 1 .. Len(t)
          BY <1>1, <2>6
        <5> QED
          BY <3>1, <5>1, NextIs
      <4> DEFINE m == NextAT(t, i)
      <4> HIDE DEF m
      <4>2. m \in j .. n /\ m # j
        BY <1>1, <2>6, <4>1 DEF m
      <4>3. g[m] = f[m]
        BY <4>2
      <4> QED
        BY <4>3 DEF m
    <3> HIDE DEF g
    <3> QED
      BY <3>1, Zenon DEF SplitAt
  <2>10. \A i \in j .. n : g[i] = SplitAt(f, t, i)
    <3> TAKE i \in j .. n
    <3>1. i = j \/ i \in j + 1 .. n
      BY <1>1, <2>6
    <3>2. j \in j .. n
      BY <1>1, <2>6
    <3> QED
      BY <2>8, <3>1, <3>2
  <2>11. g = [i \in j .. n |-> SplitAt(g, t, i)]
    <3>1. g = [i \in j .. n |-> g[i]]
      OBVIOUS
    <3> HIDE DEF g, n
    <3> QED
      BY <2>9, <2>10, <3>1
  <2>12. Splits(g, j, t)
    BY <2>11, Zenon DEF Splits
  <2>13. Has(x)
    <3> HIDE DEF g
    <3> QED
      BY <2>12, Zenon DEF j
  <2> QED
    BY <2>3, <2>13, Zenon
<1>3. n \notin bad /\ n \in 0 .. n
  BY <1>1, <1>2
<1>4. Has(n)
  <2> HIDE DEF Has
  <2> QED
    BY <1>3
<1>5. (n - n) + 1 = 1
  BY <1>1
<1> QED
  BY <1>4, <1>5, Zenon

(* So Split is its value at the start of the text.                         *)
LEMMA TableIs ==
  ASSUME NEW t \in Seq(Chars), Len(t) >= 1
  PROVE  /\ Split(t) = SplitTable(t)[1]
         /\ \A i \in 1 .. Len(t) :
              SplitTable(t)[i] = SplitAt(SplitTable(t), t, i)
<1> DEFINE D == SplitTable(t)
<1>1. Split(t) = D[1]
  BY Zenon DEF Split, SplitTable
<1>2. PICK f : Splits(f, 1, t)
  BY SplitsExist
<1>3. f = [i \in 1 .. Len(t) |-> SplitAt(f, t, i)]
  BY <1>2, Zenon DEF Splits
<1>4. D = [i \in 1 .. Len(t) |-> SplitAt(D, t, i)]
  BY <1>3, Zenon DEF SplitTable, SplitAt, NextAT, LastPiece
<1> HIDE DEF D
<1>5. \A i \in 1 .. Len(t) : D[i] = SplitAt(D, t, i)
  BY <1>4
<1> QED
  BY <1>1, <1>5 DEF D

(* A piece of a text.                                                      *)
IsPiece(u, t, i, j) == /\ u \in Seq(Chars) /\ Len(u) = (j + 1) - i
                       /\ \A k \in 1 .. (j + 1) - i : u[k] = t[(i + k) - 1]

LEMMA PieceIs ==
  ASSUME NEW t \in Seq(Chars), NEW i \in 1 .. Len(t), NEW j \in i - 1 .. Len(t)
  PROVE  IsPiece(SubSeq(t, i, j), t, i, j)
<1> DEFINE u == SubSeq(t, i, j)
<1>1. i \in Int /\ j \in Int /\ Len(t) \in Nat
  BY LenProperties
<1>2. \A k \in i .. j : k \in 1 .. Len(t)
  BY <1>1
<1>3. \A k \in i .. j : t[k] \in Chars
  BY <1>2, ElementOfSeq
<1>4. /\ u \in Seq(Chars) /\ Len(u) = (IF i <= j THEN j - i + 1 ELSE 0)
      /\ \A k \in 1 .. j - i + 1 : u[k] = t[i + k - 1]
  BY <1>1, <1>3, SubSeqProperties
<1> HIDE DEF u
<1>5. Len(u) = (j + 1) - i /\ j - i + 1 = (j + 1) - i
  BY <1>1, <1>4
<1>6. \A k \in 1 .. (j + 1) - i : u[k] = t[(i + k) - 1]
  BY <1>1, <1>4, <1>5
<1> QED
  BY <1>4, <1>5, <1>6 DEF IsPiece, u

Starts(t, i) == Found(t, i, "A", "T")

LEMMA PieceBegins ==
  ASSUME NEW t \in Seq(Chars), NEW i \in Starts(t, 1),
         NEW j \in i + 1 .. Len(t)
  PROVE  IsPrefix(AT, SubSeq(t, i, j))
<1> DEFINE u == SubSeq(t, i, j)
<1>1. /\ i \in 1 .. Len(t) - 1 /\ t[i] = "A" /\ t[i + 1] = "T"
      /\ Len(t) \in Nat
  BY LenProperties DEF Starts, Found, PairAt
<1>2. i \in 1 .. Len(t) /\ j \in i - 1 .. Len(t)
  BY <1>1
<1>3. IsPiece(u, t, i, j)
  BY <1>2, PieceIs
<1>4. /\ u \in Seq(Chars) /\ Len(u) = (j + 1) - i
      /\ \A k \in 1 .. (j + 1) - i : u[k] = t[(i + k) - 1]
  BY <1>3, Zenon DEF IsPiece
<1> HIDE DEF u
<1>5. Len(u) >= 2 /\ u[1] = t[i] /\ u[2] = t[i + 1]
  <2>1. 1 \in 1 .. (j + 1) - i /\ 2 \in 1 .. (j + 1) - i
        /\ (i + 1) - 1 = i /\ (i + 2) - 1 = i + 1
    BY <1>1
  <2> QED
    BY <1>1, <1>4, <2>1
<1> QED
  BY <1>1, <1>4, <1>5, BeginsWithAT DEF u

(* The "AT"s from a place on.                                              *)
LEMMA StartsAre ==
  ASSUME NEW t \in Seq(Chars), NEW i \in Starts(t, 1)
  PROVE  /\ IsFiniteSet(Starts(t, i)) /\ Cardinality(Starts(t, i)) \in Nat
         /\ i \in 1 .. Len(t) - 1 /\ Len(t) \in Nat
         /\ Starts(t, i + 1) = {} =>
              Cardinality(Starts(t, i)) = 1
         /\ \A n \in Starts(t, i + 1) :
              (\A m \in Starts(t, i + 1) : n <= m) =>
              Cardinality(Starts(t, i)) = Cardinality(Starts(t, n)) + 1
<1>1. /\ i \in 1 .. Len(t) - 1 /\ PairAt(t, i, "A", "T") /\ Len(t) \in Nat
  BY LenProperties DEF Starts, Found
<1>2. \A n \in Nat : IsFiniteSet(Starts(t, n))
                     /\ Cardinality(Starts(t, n)) \in Nat
  <2> TAKE n \in Nat
  <2>1. IsFiniteSet(n .. Len(t) - 1)
    BY <1>1, FS_Interval
  <2>2. Starts(t, n) \in SUBSET (n .. Len(t) - 1)
    BY DEF Starts, Found
  <2> QED
    BY <2>1, <2>2, FS_Subset, FS_CardinalityType
<1>3. i \in Nat
  BY <1>1
<1>4. ASSUME NEW n \in Nat, n >= i + 1,
             \A m \in Starts(t, i + 1) : n <= m
      PROVE  Starts(t, i) = Starts(t, n) \cup {i} /\ i \notin Starts(t, n)
  <2>1. \A m \in Starts(t, i) : m = i \/ m \in Starts(t, n)
    <3> TAKE m \in Starts(t, i)
    <3>1. m \in i .. Len(t) - 1 /\ PairAt(t, m, "A", "T")
      BY DEF Starts, Found
    <3>2. ASSUME m # i PROVE m \in Starts(t, n)
      <4>1. m \in i + 1 .. Len(t) - 1
        BY <1>1, <3>1, <3>2
      <4>2. m \in Starts(t, i + 1)
        BY <3>1, <4>1 DEF Starts, Found
      <4>3. m \in n .. Len(t) - 1
        BY <1>4, <4>1, <4>2
      <4> QED
        BY <3>1, <4>3 DEF Starts, Found
    <3> QED
      BY <3>2
  <2>2. \A m \in Starts(t, n) : m \in Starts(t, i)
    <3> TAKE m \in Starts(t, n)
    <3>1. m \in n .. Len(t) - 1 /\ PairAt(t, m, "A", "T")
      BY DEF Starts, Found
    <3>2. m \in i .. Len(t) - 1
      BY <1>1, <1>4, <3>1
    <3> QED
      BY <3>1, <3>2 DEF Starts, Found
  <2>3. i \in Starts(t, i)
    <3>1. i \in i .. Len(t) - 1
      BY <1>1
    <3> QED
      BY <1>1, <3>1 DEF Starts, Found
  <2>4. i \notin Starts(t, n)
    <3>1. i \notin n .. Len(t) - 1
      BY <1>1, <1>4
    <3> QED
      BY <3>1 DEF Starts, Found
  <2> QED
    BY <2>1, <2>2, <2>3, <2>4
<1>5. ASSUME Starts(t, i + 1) = {} PROVE Cardinality(Starts(t, i)) = 1
  <2>1. /\ Starts(t, i) = Starts(t, i + 1) \cup {i}
        /\ i \notin Starts(t, i + 1)
    BY <1>3, <1>4, <1>5
  <2>2. Starts(t, i) = {i}
    BY <1>5, <2>1
  <2> QED
    BY <2>2, FS_Singleton
<1>6. ASSUME NEW n \in Starts(t, i + 1), \A m \in Starts(t, i + 1) : n <= m
      PROVE  Cardinality(Starts(t, i)) = Cardinality(Starts(t, n)) + 1
  <2>1. n \in Nat /\ n >= i + 1
    BY <1>1 DEF Starts, Found
  <2>2. Starts(t, i) = Starts(t, n) \cup {i} /\ i \notin Starts(t, n)
    BY <1>4, <1>6, <2>1
  <2>3. IsFiniteSet(Starts(t, n))
    BY <1>2, <2>1
  <2> QED
    BY <2>2, <2>3, FS_AddElement
<1> QED
  BY <1>1, <1>2, <1>3, <1>5, <1>6

(* The last "AT" and the first "\r\n" behind it.                           *)
IsLast(t, l, q) ==
  /\ l \in Starts(t, 1) /\ \A m \in Starts(t, 1) : m <= l
  /\ q \in Found(t, l + 1, "CR", "LF")
  /\ \A m \in Found(t, l + 1, "CR", "LF") : q <= m

LEMMA LastIs ==
  ASSUME NEW t \in Seq(Chars), NEW l, NEW q, IsLast(t, l, q)
  PROVE  /\ Len(t) \in Nat /\ l \in 1 .. Len(t) - 1
         /\ q \in l + 2 .. Len(t) - 1
         /\ t[l] = "A" /\ t[l + 1] = "T" /\ t[q] = "CR" /\ t[q + 1] = "LF"
         /\ strstr(t, l + 1, CRLF) = q
<1>1. /\ l \in 1 .. Len(t) - 1 /\ t[l] = "A" /\ t[l + 1] = "T"
      /\ Len(t) \in Nat
  BY LenProperties DEF IsLast, Starts, Found, PairAt
<1>2. q \in l + 1 .. Len(t) - 1 /\ t[q] = "CR" /\ t[q + 1] = "LF"
  BY DEF IsLast, Found, PairAt
<1>3. q # l + 1
  BY <1>1, <1>2
<1> DEFINE n == l + 1
           found == Found(t, n, "CR", "LF")
           p == strstr(t, n, CRLF)
<1>4. IF found = {} THEN p = 0
      ELSE p \in found /\ \A m \in found : p <= m
  <2>1. n \in Nat /\ n >= 1 /\ CRLF = <<"CR", "LF">>
    BY <1>1 DEF CRLF
  <2> HIDE DEF n
  <2> QED
    BY <2>1, StrstrIs, Zenon
<1>5. q \in found /\ \A m \in found : q <= m
  BY DEF IsLast
<1>6. found \subseteq Int
  BY <1>1 DEF Found
<1> HIDE DEF found, p
<1>7. p = q
  <2>1. p \in found /\ p <= q /\ q <= p /\ q \in found
    BY <1>4, <1>5
  <2> QED
    BY <1>6, <2>1
<1> QED
  BY <1>1, <1>2, <1>3, <1>7 DEF p

(* One piece in front of others.                                           *)
IsLonger(S, a, s) == /\ <<a>> \o s \in Seq(Seq(S)) /\ <<a>> \o s # << >>
                     /\ FlattenSeq(<<a>> \o s) = a \o FlattenSeq(s)

LEMMA FlattenLonger ==
  ASSUME NEW S, NEW a \in Seq(S), NEW s \in Seq(Seq(S))
  PROVE  IsLonger(S, a, s)
<1>1. /\ <<a>> \o s \in Seq(Seq(S)) /\ FlattenSeq(s) \in Seq(S)
      /\ FlattenSeq(<<a>> \o s) = a \o FlattenSeq(s)
      /\ Head(<<a>> \o s) = a /\ <<a>> \o s # << >>
  BY FlattenMore, ZenonT(60)
<1> QED
  BY <1>1, Zenon DEF IsLonger

(* The pieces from an "AT" on.                                             *)
IsChain(d, t, i, l, q) ==
  /\ d \in Seq(Seq(Chars)) /\ d # << >>
  /\ Len(d) = Cardinality(Starts(t, i))
  /\ FlattenSeq(d) = SubSeq(t, i, q - 1)
  /\ d[Len(d)] = SubSeq(t, l, q - 1)
  /\ \A k \in 1 .. Len(d) : IsPrefix(AT, d[k])

(* At the last "AT" there is one piece, up to the "\r\n" behind it.        *)
LEMMA ChainEnds ==
  ASSUME NEW t \in Seq(Chars), NEW l, NEW q, IsLast(t, l, q),
         NEW i \in Starts(t, 1), NextAT(t, i) = 0
  PROVE  IsChain(SplitAt(SplitTable(t), t, i), t, i, l, q)
<1>1. /\ Len(t) \in Nat /\ l \in 1 .. Len(t) - 1 /\ q \in l + 2 .. Len(t) - 1
      /\ strstr(t, l + 1, CRLF) = q
  BY LastIs
<1>2. i \in 1 .. Len(t) - 1 /\ (Starts(t, i + 1) = {} =>
                                  Cardinality(Starts(t, i)) = 1)
  BY StartsAre
<1>3. Starts(t, i + 1) = {}
  <2>1. i \in 1 .. Len(t)
    BY <1>1, <1>2
  <2> QED
    BY <2>1, NextIs DEF Starts
<1>4. l = i
  <2>1. i <= l /\ PairAt(t, l, "A", "T")
    BY DEF IsLast, Starts, Found
  <2>2. l > i => l \in Starts(t, i + 1)
    BY <1>1, <1>2, <2>1 DEF Starts, Found
  <2> QED
    BY <1>1, <1>2, <1>3, <2>1, <2>2
<1> DEFINE u == SubSeq(t, i, q - 1)
<1>5. SplitAt(SplitTable(t), t, i) = <<u>>
  BY <1>1, <1>4, Zenon DEF SplitAt, LastPiece
<1>6. u \in Seq(Chars) /\ IsPrefix(AT, u)
  <2>1. /\ i \in 1 .. Len(t) /\ q - 1 \in i - 1 .. Len(t)
        /\ q - 1 \in i + 1 .. Len(t)
    BY <1>1, <1>4
  <2>2. IsPiece(u, t, i, q - 1)
    BY <2>1, PieceIs
  <2>3. IsPrefix(AT, u)
    BY <2>1, PieceBegins
  <2> QED
    BY <2>2, <2>3, Zenon DEF IsPiece
<1> HIDE DEF u
<1>7. <<u>> \in Seq(Seq(Chars)) /\ FlattenSeq(<<u>>) = u
  BY <1>6, FlattenOne
<1>8. Len(<<u>>) = 1 /\ <<u>>[1] = u /\ <<u>> # << >>
  OBVIOUS
<1> DEFINE d == <<u>>
<1>9. /\ d \in Seq(Seq(Chars)) /\ FlattenSeq(d) = u
      /\ Len(d) = 1 /\ d[1] = u /\ d # << >>
  BY <1>7, <1>8
<1> HIDE DEF d
<1>10. IsChain(d, t, i, l, q)
  <2>1. u = SubSeq(t, i, q - 1) /\ d[Len(d)] = SubSeq(t, l, q - 1)
    BY <1>4, <1>9, Zenon DEF u
  <2>2. \A k \in 1 .. Len(d) : k = 1
    BY <1>9
  <2>3. \A k \in 1 .. Len(d) : IsPrefix(AT, d[k])
    BY <1>6, <1>9, <2>2, Zenon
  <2>4. Len(d) = Cardinality(Starts(t, i))
    BY <1>2, <1>3, <1>9, Zenon
  <2> QED
    BY <1>9, <2>1, <2>3, <2>4, Zenon DEF IsChain
<1> QED
  BY <1>5, <1>10, Zenon DEF d

(* At an earlier one there is a piece up to the next, and its pieces.      *)
LEMMA ChainGrows ==
  ASSUME NEW t \in Seq(Chars), NEW l, NEW q, IsLast(t, l, q),
         NEW i \in Starts(t, 1), NextAT(t, i) # 0,
         IsChain(SplitTable(t)[NextAT(t, i)], t, NextAT(t, i), l, q)
  PROVE  IsChain(SplitAt(SplitTable(t), t, i), t, i, l, q)
<1> DEFINE n == NextAT(t, i)
           e == SplitTable(t)[n]
           u == SubSeq(t, i, n - 1)
           d == <<u>> \o e
<1>1. /\ Len(t) \in Nat /\ l \in 1 .. Len(t) - 1
      /\ q \in l + 2 .. Len(t) - 1
  BY LastIs
<1>2. i \in 1 .. Len(t) - 1 /\ t[i + 1] = "T"
  BY StartsAre DEF Starts, Found, PairAt
<1>3. /\ n \in Starts(t, i + 1) /\ n \in i + 1 .. Len(t) - 1
      /\ \A m \in Starts(t, i + 1) : n <= m
  <2>1. i \in 1 .. Len(t)
    BY <1>1, <1>2
  <2> QED
    BY <2>1, NextIs DEF Starts
<1>4. SplitAt(SplitTable(t), t, i) = d
  BY Zenon DEF SplitAt
<1>5. Cardinality(Starts(t, i)) = Cardinality(Starts(t, n)) + 1
  <2> HIDE DEF n
  <2> QED
    BY <1>3, StartsAre
<1>6. IsChain(e, t, n, l, q)
  OBVIOUS
<1> HIDE DEF n, e
<1>7. n \in i + 2 .. Len(t) - 1 /\ n \in Starts(t, 1) /\ n <= l
  <2>1. PairAt(t, n, "A", "T")
    BY <1>3 DEF Starts, Found
  <2>2. n # i + 1
    BY <1>2, <2>1 DEF PairAt
  <2>3. n \in 1 .. Len(t) - 1
    BY <1>2, <1>3
  <2>4. n \in Starts(t, 1)
    BY <2>1, <2>3 DEF Starts, Found
  <2> QED
    BY <1>1, <1>2, <1>3, <2>2, <2>4 DEF IsLast
<1>8. u \in Seq(Chars) /\ IsPrefix(AT, u)
  <2>1. /\ i \in 1 .. Len(t) /\ n - 1 \in i - 1 .. Len(t)
        /\ n - 1 \in i + 1 .. Len(t)
    BY <1>1, <1>2, <1>7
  <2>2. IsPiece(u, t, i, n - 1)
    BY <2>1, PieceIs
  <2>3. IsPrefix(AT, u)
    BY <2>1, PieceBegins
  <2> QED
    BY <2>2, <2>3, Zenon DEF IsPiece
<1>9. /\ e \in Seq(Seq(Chars)) /\ e # << >>
      /\ Len(e) = Cardinality(Starts(t, n))
      /\ FlattenSeq(e) = SubSeq(t, n, q - 1)
      /\ e[Len(e)] = SubSeq(t, l, q - 1)
      /\ \A k \in 1 .. Len(e) : IsPrefix(AT, e[k])
  BY <1>6, Zenon DEF IsChain
<1>10. u \o SubSeq(t, n, q - 1) = SubSeq(t, i, q - 1)
  <2>1. /\ i \in 1 .. Len(t) + 1 /\ n - 1 \in i - 1 .. Len(t)
        /\ q - 1 \in n - 1 .. Len(t) /\ (n - 1) + 1 = n
    BY <1>1, <1>2, <1>7
  <2>2. SubSeq(t, i, n - 1) \o SubSeq(t, (n - 1) + 1, q - 1)
          = SubSeq(t, i, q - 1)
    BY <2>1, ConcatAdjacentSubSeq
  <2> QED
    BY <2>1, <2>2
<1> HIDE DEF u
<1>11. d \in Seq(Seq(Chars)) /\ FlattenSeq(d) = u \o FlattenSeq(e) /\ d # << >>
  <2>1. u \in Seq(Chars) /\ e \in Seq(Seq(Chars))
    BY <1>8, <1>9
  <2>2. /\ <<u>> \o e \in Seq(Seq(Chars))
        /\ FlattenSeq(<<u>> \o e) = u \o FlattenSeq(e)
        /\ <<u>> \o e # << >>
    <3>1. IsLonger(Chars, u, e)
      BY <2>1, FlattenLonger, Zenon
    <3> QED
      BY <3>1, Zenon DEF IsLonger
  <2> QED
    BY <2>2, Zenon
<1>12. /\ Len(d) = 1 + Len(e) /\ Len(e) \in Nat /\ Len(e) >= 1
       /\ \A k \in 1 .. 1 + Len(e) : d[k] = IF k <= 1 THEN u ELSE e[k - 1]
  <2> DEFINE T == Seq(Chars)
             one == <<u>>
  <2>1. e \in Seq(T) /\ e # << >>
    BY <1>9
  <2>2. one \in Seq(T) /\ Len(one) = 1 /\ one[1] = u
    BY <1>8
  <2> HIDE DEF T, one
  <2>3. /\ Len(one \o e) = Len(one) + Len(e)
        /\ \A k \in 1 .. Len(one) + Len(e) : (one \o e)[k] =
             IF k <= Len(one) THEN one[k] ELSE e[k - Len(one)]
    BY <2>1, <2>2, ConcatProperties
  <2>4. Len(e) \in Nat /\ Len(e) >= 1
    <3>1. Len(e) \in Nat \ {0}
      BY <2>1, EmptySeq
    <3> QED
      BY <3>1
  <2>5. \A k \in 1 .. 1 + Len(e) : k <= 1 => k = 1
    BY <2>4
  <2>6. d = one \o e
    BY DEF one
  <2> HIDE DEF d
  <2> QED
    BY <2>2, <2>3, <2>4, <2>5, <2>6
<1> HIDE DEF d
<1>13. d[Len(d)] = e[Len(e)]
  <2>1. Len(d) \in 1 .. 1 + Len(e) /\ ~(Len(d) <= 1) /\ Len(d) - 1 = Len(e)
    BY <1>12
  <2> QED
    BY <1>12, <2>1
<1>14. \A k \in 1 .. Len(d) : IsPrefix(AT, d[k])
  <2> TAKE k \in 1 .. Len(d)
  <2>1. k \in 1 .. 1 + Len(e)
    BY <1>12
  <2>2. CASE k <= 1
    BY <1>8, <1>12, <2>1, <2>2
  <2>3. CASE ~(k <= 1)
    <3>1. k - 1 \in 1 .. Len(e)
      BY <1>12, <2>1, <2>3
    <3>2. d[k] = e[k - 1]
      BY <1>12, <2>1, <2>3
    <3> QED
      BY <1>9, <3>1, <3>2
  <2> QED
    BY <2>2, <2>3
<1>15. Len(d) = Cardinality(Starts(t, i))
  BY <1>5, <1>9, <1>12
<1>16. IsChain(d, t, i, l, q)
  <2>1. FlattenSeq(d) = SubSeq(t, i, q - 1)
    BY <1>9, <1>10, <1>11, Zenon
  <2>2. d[Len(d)] = SubSeq(t, l, q - 1)
    BY <1>9, <1>13, Zenon
  <2> QED
    BY <1>11, <1>14, <1>15, <2>1, <2>2, Zenon DEF IsChain
<1> QED
  BY <1>4, <1>16, Zenon

(* From the last "AT" back to the first.                                   *)
LEMMA SplitIs ==
  ASSUME NEW t \in Seq(Chars), NEW l, NEW q, IsLast(t, l, q),
         1 \in Starts(t, 1)
  PROVE  IsChain(Split(t), t, 1, l, q)
<1> DEFINE D == SplitTable(t)
           bad == {i \in Starts(t, 1) : ~IsChain(D[i], t, i, l, q)}
<1>1. Len(t) \in Nat /\ Len(t) >= 1
  <2>1. Len(t) \in Nat /\ l \in 1 .. Len(t) - 1
    BY LastIs
  <2> QED
    BY <2>1
<1>2. Split(t) = D[1] /\ \A i \in 1 .. Len(t) : D[i] = SplitAt(D, t, i)
  BY <1>1, TableIs
<1>3. bad = {}
  <2>1. SUFFICES ASSUME bad # {} PROVE FALSE
    OBVIOUS
  <2>2. bad \subseteq 0 .. Len(t)
    <3>1. Starts(t, 1) \subseteq 0 .. Len(t)
      BY <1>1 DEF Starts, Found
    <3> QED
      BY <3>1
  <2>3. PICK i \in bad : \A j \in bad : j <= i
    <3> HIDE DEF bad
    <3> QED
      BY <1>1, <2>1, <2>2, GreatestElement
  <2>4. i \in Starts(t, 1) /\ ~IsChain(D[i], t, i, l, q)
    BY <2>3, Zenon
  <2>5. i \in 1 .. Len(t)
    BY <1>1, <2>4 DEF Starts, Found
  <2>6. D[i] = SplitAt(D, t, i)
    BY <1>2, <2>5
  <2>7. CASE NextAT(t, i) = 0
    BY <2>4, <2>6, <2>7, ChainEnds
  <2>8. CASE NextAT(t, i) # 0
    <3> DEFINE n == NextAT(t, i)
    <3>1. n \in Starts(t, i + 1) /\ n \in i + 1 .. Len(t) - 1
      BY <2>5, <2>8, NextIs DEF Starts
    <3>2. n \in Starts(t, 1)
      <4>1. n \in 1 .. Len(t) - 1
        BY <2>5, <3>1
      <4> HIDE DEF n
      <4> QED
        BY <3>1, <4>1 DEF Starts, Found
    <3>3. ~(n <= i)
      BY <2>5, <3>1
    <3>4. n \notin bad
      <4> HIDE DEF bad, n
      <4> QED
        BY <2>3, <3>3
    <3>5. IsChain(D[n], t, n, l, q)
      BY <3>2, <3>4, Zenon
    <3> QED
      BY <2>4, <2>6, <2>8, <3>5, ChainGrows
  <2> QED
    BY <2>7, <2>8
<1> QED
  BY <1>2, <1>3

-----------------------------------------------------------------------------
(* A text from "AT" to "\r\n" has a last "AT" and a "\r\n" behind it.      *)
LEMMA LastBehind ==
  ASSUME NEW t \in Seq(Chars), IsPrefix(AT, t), Len(t) >= 2,
         t[Len(t) - 1] = "CR", t[Len(t)] = "LF"
  PROVE  /\ Len(t) \in Nat /\ Len(t) >= 4 /\ 1 \in Starts(t, 1)
         /\ \E l, q : IsLast(t, l, q)
<1> DEFINE n == Len(t)
           starts == Starts(t, 1)
<1>1. /\ n \in Nat /\ n >= 2 /\ t[1] = "A" /\ t[2] = "T"
      /\ t[n - 1] = "CR" /\ t[n] = "LF"
  BY LenProperties, BeginsWithAT
<1>2. n >= 4
  <2>1. n # 2 /\ n # 3
    BY <1>1
  <2> HIDE DEF n
  <2> QED
    BY <1>1, <2>1
<1>3. 1 \in starts /\ starts \subseteq 0 .. n
  <2>1. 1 \in 1 .. n - 1 /\ 1 + 1 = 2
    BY <1>1, <1>2
  <2>2. PairAt(t, 1, "A", "T")
    BY <1>1, <2>1 DEF PairAt
  <2> QED
    BY <1>1, <2>1, <2>2 DEF Starts, Found
<1>4. PICK l \in starts : \A m \in starts : m <= l
  <2> HIDE DEF starts, n
  <2> QED
    BY <1>1, <1>3, GreatestElement
<1>5. l \in 1 .. n - 1 /\ t[l] = "A" /\ t[l + 1] = "T"
  BY DEF Starts, Found, PairAt
<1>6. l + 1 <= n - 1
  <2>1. l # n - 1
    BY <1>1, <1>5
  <2> HIDE DEF n
  <2> QED
    BY <1>1, <1>5, <2>1
<1> DEFINE ends == Found(t, l + 1, "CR", "LF")
<1>7. n - 1 \in ends /\ ends \subseteq Nat
  <2>1. n - 1 \in l + 1 .. n - 1 /\ (n - 1) + 1 = n
    BY <1>1, <1>5, <1>6
  <2>2. PairAt(t, n - 1, "CR", "LF")
    BY <1>1, <2>1 DEF PairAt
  <2> QED
    BY <1>1, <1>5, <2>1, <2>2 DEF Found
<1>8. PICK q \in ends : \A m \in ends : q <= m
  <2> HIDE DEF ends
  <2> QED
    BY <1>7, LeastElement
<1>9. IsLast(t, l, q)
  BY <1>4, <1>8, Zenon DEF IsLast
<1> QED
  BY <1>1, <1>2, <1>3, <1>9, Zenon

(* So has a text that begins and ends with them, as the code asks.         *)
LEMMA LastExists ==
  ASSUME NEW t \in Seq(Chars), IsPrefix(AT, t), IsSuffix(CRLF, t)
  PROVE  1 \in Starts(t, 1) /\ \E l, q : IsLast(t, l, q)
BY EndsWithCRLF, LastBehind

-----------------------------------------------------------------------------
(* checkUserInput takes the spaces around a line away.                     *)
LEMMA MaxIs ==
  ASSUME NEW T, NEW p \in T, T \subseteq Int, \A y \in T : p >= y
  PROVE  Max(T) = p
<1>1. Max(T) \in T /\ \A y \in T : Max(T) >= y
  BY Zenon DEF Max
<1>2. Max(T) \in Int /\ p \in Int /\ Max(T) >= p /\ p >= Max(T)
  BY <1>1
<1> QED
  BY <1>2

(* What is no character of a line.                                         *)
Space == " "
LEMMA NoSpace == Space \notin Chars
<1>1. \A c \in Chars : c \in {"A", "T", "CR", "LF", "+NAME"}
  BY LineAssumption, Zenon
<1>2. " " \notin {"A", "T", "CR", "LF", "+NAME"}
  BY Zenon
<1> QED
  BY <1>1, <1>2, Zenon DEF Space

(* What may stand around a line, as SplitsTheLine has it, and what is      *)
(* left when it is taken away.                                             *)
Blanks == {<< >>, <<Space>>}
Marks(typed) == {p \in DOMAIN typed : typed[p] # Space}
Trim(typed) == IF Marks(typed) = {} THEN << >>
               ELSE SubSeq(typed, Min(Marks(typed)), Max(Marks(typed)))

(* A text with blanks around it.                                           *)
IsPadded(typed, s, lead, tail) ==
  /\ Len(typed) = (lead + Len(s)) + tail
  /\ \A k \in 1 .. lead : typed[k] = Space
  /\ \A k \in 1 .. Len(s) : typed[lead + k] = s[k]
  /\ \A k \in 1 .. tail : typed[(lead + Len(s)) + k] = Space

LEMMA TrimIs ==
  ASSUME NEW S, NEW typed \in Seq(S), NEW s \in Seq(Chars),
         NEW lead \in Nat, NEW tail \in Nat, IsPadded(typed, s, lead, tail)
  PROVE  Trim(typed) = s
<1> DEFINE size == Len(s)
           marks == Marks(typed)
           v == SubSeq(typed, lead + 1, lead + size)
<1>1. size \in Nat /\ \A k \in 1 .. size : s[k] \in Chars /\ s[k] # Space
  BY LenProperties, ElementOfSeq, NoSpace
<1>2. /\ Len(typed) = (lead + size) + tail
      /\ \A k \in 1 .. lead : typed[k] = Space
      /\ \A k \in 1 .. size : typed[lead + k] = s[k]
      /\ \A k \in 1 .. tail : typed[(lead + size) + k] = Space
  BY DEF IsPadded
<1>3. DOMAIN typed = 1 .. (lead + size) + tail
  BY <1>2, LenProperties
<1>4. Trim(typed) = IF marks = {} THEN << >>
                    ELSE SubSeq(typed, Min(marks), Max(marks))
  BY Zenon DEF Trim
<1>5. marks = {p \in 1 .. (lead + size) + tail : typed[p] # Space}
  BY <1>3, Zenon DEF Marks
<1>6. size = 0 => s = << >>
  BY EmptySeq
<1>7. \A w \in Seq(Chars) :
        Len(w) = size /\ (\A k \in 1 .. size : w[k] = s[k]) => w = s
  BY SeqEqual
<1> HIDE DEF size
<1>8. marks = lead + 1 .. lead + size
  <2>1. ASSUME NEW p \in 1 .. (lead + size) + tail
        PROVE  typed[p] # Space <=> p \in lead + 1 .. lead + size
    <3>1. CASE p <= lead
      BY <1>2, <3>1
    <3>2. CASE p \in lead + 1 .. lead + size
      <4> DEFINE k == p - lead
      <4>1. k \in 1 .. size /\ p = lead + k
        BY <1>1, <3>2
      <4> HIDE DEF k
      <4>2. typed[p] = s[k] /\ s[k] # Space
        BY <1>1, <1>2, <4>1, Zenon
      <4> QED
        BY <3>2, <4>2, Zenon
    <3>3. CASE p > lead + size
      <4> DEFINE k == p - (lead + size)
      <4>1. k \in 1 .. tail /\ p = (lead + size) + k
        BY <1>1, <3>3
      <4> HIDE DEF k
      <4>2. typed[p] = Space
        BY <1>2, <4>1, Zenon
      <4>3. p \notin lead + 1 .. lead + size
        BY <1>1, <3>3
      <4> QED
        BY <4>2, <4>3, Zenon
    <3> QED
      BY <1>1, <3>1, <3>2, <3>3
  <2>2. \A p \in lead + 1 .. lead + size : p \in 1 .. (lead + size) + tail
    BY <1>1
  <2> HIDE DEF marks
  <2> QED
    BY <1>5, <2>1, <2>2
<1>9. v \in Seq(Chars) /\ Len(v) = size /\ \A k \in 1 .. size : v[k] = s[k]
  <2> DEFINE lo == lead + 1
             hi == lead + size
  <2>1. /\ lo \in Int /\ hi \in Int
        /\ (IF lo <= hi THEN hi - lo + 1 ELSE 0) = size
    BY <1>1
  <2>2. \A k \in lo .. hi : typed[k] \in Chars
    <3> TAKE k \in lo .. hi
    <3>1. k - lead \in 1 .. size /\ lead + (k - lead) = k
      BY <1>1
    <3>2. typed[lead + (k - lead)] = s[k - lead] /\ s[k - lead] \in Chars
      BY <1>1, <1>2, <3>1
    <3> QED
      BY <3>1, <3>2
  <2>3. \A k \in 1 .. size : k \in 1 .. hi - lo + 1 /\ lo + k - 1 = lead + k
    BY <1>1
  <2>4. v = SubSeq(typed, lo, hi)
    OBVIOUS
  <2> HIDE DEF lo, hi, v
  <2>5. /\ v \in Seq(Chars) /\ Len(v) = (IF lo <= hi THEN hi - lo + 1 ELSE 0)
        /\ \A k \in 1 .. hi - lo + 1 : v[k] = typed[lo + k - 1]
    BY <2>1, <2>2, <2>4, SubSeqProperties
  <2> QED
    BY <1>2, <2>1, <2>3, <2>5
<1> HIDE DEF v
<1>10. v = s
  BY <1>7, <1>9
<1> HIDE DEF marks
<1>11. CASE size = 0
  <2>1. marks = {}
    BY <1>8, <1>11
  <2> QED
    BY <1>4, <1>6, <1>11, <2>1
<1>12. CASE size # 0
  <2> DEFINE lo == lead + 1
             hi == lead + size
  <2>1. /\ lo \in marks /\ hi \in marks /\ marks \subseteq Int
        /\ \A y \in marks : lo <= y /\ hi >= y
    BY <1>1, <1>8, <1>12
  <2>2. v = SubSeq(typed, lo, hi)
    BY DEF v
  <2> HIDE DEF lo, hi
  <2>3. Min(marks) = lo /\ Max(marks) = hi
    BY <2>1, MinIs, MaxIs
  <2>4. marks # {}
    BY <2>1
  <2> QED
    BY <1>4, <1>10, <2>2, <2>3, <2>4
<1> QED
  BY <1>11, <1>12

LEMMA Trimmed ==
  ASSUME NEW s \in Seq(Chars), NEW before \in Blanks, NEW behind \in Blanks
  PROVE  Trim(before \o s \o behind) = s
<1> DEFINE S == Chars \cup {Space}
           u == before \o s
           typed == u \o behind
           lead == Len(before)
           tail == Len(behind)
<1>1. /\ before \in Seq(S) /\ behind \in Seq(S) /\ s \in Seq(S)
      /\ \A k \in 1 .. lead : before[k] = Space
      /\ \A k \in 1 .. tail : behind[k] = Space
  <2>1. s \in Seq(S)
    <3>1. Chars \subseteq S
      BY Zenon
    <3>2. \A k \in 1 .. Len(s) : s[k] \in S
      BY <3>1, ElementOfSeq
    <3>3. s = [k \in 1 .. Len(s) |-> s[k]] /\ Len(s) \in Nat
      BY LenProperties
    <3> HIDE DEF S
    <3> QED
      BY <3>2, <3>3
  <2>2. ASSUME NEW x \in Blanks
        PROVE  x \in Seq(S) /\ \A k \in 1 .. Len(x) : x[k] = Space
    <3>1. Space \in S
      BY Zenon
    <3>2. x = << >> \/ x = <<Space>>
      BY Zenon DEF Blanks
    <3>3. CASE x = << >>
      BY <3>3
    <3>4. CASE x = <<Space>>
      <4> DEFINE c == Space
      <4>1. c \in S /\ x = <<c>>
        BY <3>1, <3>4, Zenon
      <4> HIDE DEF c, S
      <4>2. x \in Seq(S) /\ \A k \in 1 .. Len(x) : x[k] = c
        BY <4>1
      <4> QED
        BY <4>2, Zenon DEF c
    <3> QED
      BY <3>2, <3>3, <3>4, Zenon
  <2> QED
    BY <2>1, <2>2, Zenon
<1> HIDE DEF S
<1>2. lead \in Nat /\ tail \in Nat /\ Len(s) \in Nat
  BY <1>1, LenProperties
<1>3. /\ u \in Seq(S) /\ Len(u) = lead + Len(s)
      /\ \A k \in 1 .. lead + Len(s) : u[k] =
           IF k <= lead THEN before[k] ELSE s[k - lead]
  BY <1>1, ConcatProperties
<1> HIDE DEF u
<1>4. /\ typed \in Seq(S) /\ Len(typed) = Len(u) + tail
      /\ \A k \in 1 .. Len(u) + tail : typed[k] =
           IF k <= Len(u) THEN u[k] ELSE behind[k - Len(u)]
  <2>1. u \in Seq(S) /\ behind \in Seq(S)
    BY <1>1, <1>3, Zenon
  <2> QED
    BY <2>1, ConcatProperties
<1> HIDE DEF typed
<1>5. \A k \in 1 .. lead + Len(s) : /\ k \in 1 .. Len(u) + tail
                                   /\ k <= Len(u)
  BY <1>2, <1>3
<1> HIDE DEF lead, tail
<1>10. \A k \in 1 .. lead : typed[k] = Space
  <2> TAKE k \in 1 .. lead
  <2>1. k \in 1 .. lead + Len(s) /\ k <= lead
    BY <1>2
  <2> QED
    BY <1>1, <1>3, <1>4, <1>5, <2>1
<1>6. \A k \in 1 .. Len(s) : typed[lead + k] = s[k]
  <2> TAKE k \in 1 .. Len(s)
  <2>1. /\ lead + k \in 1 .. lead + Len(s) /\ ~(lead + k <= lead)
        /\ (lead + k) - lead = k
    BY <1>2
  <2>2. u[lead + k] = s[k]
    BY <1>3, <2>1
  <2>3. lead + k \in 1 .. Len(u) + tail /\ lead + k <= Len(u)
    BY <1>2, <1>3, <2>1
  <2> QED
    BY <1>4, <2>2, <2>3
<1>7. \A k \in 1 .. tail : typed[(lead + Len(s)) + k] = Space
  <2> TAKE k \in 1 .. tail
  <2>1. /\ Len(u) + k \in 1 .. Len(u) + tail /\ ~(Len(u) + k <= Len(u))
        /\ (Len(u) + k) - Len(u) = k
    <3>1. Len(u) \in Nat
      BY <1>3, LenProperties
    <3> DEFINE size == Len(u)
    <3> HIDE DEF size
    <3>2. size \in Nat
      BY <3>1 DEF size
    <3>3. /\ size + k \in 1 .. size + tail /\ ~(size + k <= size)
          /\ (size + k) - size = k
      BY <1>2, <3>2
    <3> QED
      BY <3>3 DEF size
  <2>2. typed[Len(u) + k] = behind[k]
    BY <1>4, <2>1
  <2> QED
    BY <1>1, <1>3, <2>2
<1>8. IsPadded(typed, s, lead, tail)
  BY <1>3, <1>4, <1>10, <1>6, <1>7 DEF IsPadded
<1>9. Trim(typed) = s
  BY <1>2, <1>4, <1>8, TrimIs
<1> QED
  BY <1>9 DEF typed, u

(* The line that is split, and how much in front of it is left out.        *)
LineOf(t) == IF IsPrefix(AT \o AT, t) THEN SubSeq(t, 3, Len(t)) ELSE t

(* checkUserInput takes the spaces away and splits what is left.           *)
LEMMA CheckUserInputIs ==
  ASSUME NEW s \in Seq(Chars), NEW before \in Blanks, NEW behind \in Blanks
  PROVE  checkUserInput(before \o s \o behind) =
           IF ~IsPrefix(AT, s) \/ ~IsSuffix(CRLF, s) THEN << >>
           ELSE Split(LineOf(s))
<1>1. Trim(before \o s \o behind) = s
  BY Trimmed
<1> DEFINE typed == before \o s \o behind
<1> HIDE DEF typed
<1>2. checkUserInput(typed) =
        IF ~IsPrefix(AT, Trim(typed)) \/ ~IsSuffix(CRLF, Trim(typed))
        THEN << >>
        ELSE IF IsPrefix(AT \o AT, Trim(typed))
             THEN Split(SubSeq(Trim(typed), 3, Len(Trim(typed))))
             ELSE Split(Trim(typed))
  BY Zenon DEF checkUserInput, Trim, Marks, Space
<1>3. Trim(typed) = s
  BY <1>1, Zenon DEF typed
<1>4. checkUserInput(typed) =
        IF ~IsPrefix(AT, s) \/ ~IsSuffix(CRLF, s) THEN << >>
        ELSE IF IsPrefix(AT \o AT, s) THEN Split(SubSeq(s, 3, Len(s)))
             ELSE Split(s)
  BY <1>2, <1>3, Zenon
<1> QED
  BY <1>4, Zenon DEF typed, LineOf

(* A text is the end of another, behind its first d characters.            *)
IsTail(line, t, d) ==
  /\ line \in Seq(Chars) /\ Len(line) = Len(t) - d
  /\ \A k \in 1 .. Len(line) : line[k] = t[d + k]

(* That line starts with "AT", ends with "\r\n" and is the end of the text.*)
LEMMA LineIs ==
  ASSUME NEW t \in Seq(Chars), IsPrefix(AT, t), IsSuffix(CRLF, t)
  PROVE  \E d \in {0, 2} :
           /\ IsTail(LineOf(t), t, d)
           /\ 1 \in Starts(LineOf(t), 1) /\ \E l, q : IsLast(LineOf(t), l, q)
<1>1. Len(t) \in Nat
  BY LenProperties
<1>2. CASE ~IsPrefix(AT \o AT, t)
  <2>1. LineOf(t) = t
    BY <1>2, Zenon DEF LineOf
  <2>2. IsTail(t, t, 0)
    BY <1>1 DEF IsTail
  <2> QED
    BY <2>1, <2>2, LastExists
<1>3. CASE IsPrefix(AT \o AT, t)
  <2> DEFINE line == LineOf(t)
             n == Len(t)
  <2>1. /\ n >= 4 /\ t[3] = "A" /\ t[4] = "T"
        /\ t[n - 1] = "CR" /\ t[n] = "LF"
    BY <1>3, BeginsWithAT, EndsWithCRLF
  <2>2. line = SubSeq(t, 3, n)
    BY <1>3, Zenon DEF LineOf
  <2>3. IsPiece(line, t, 3, n)
    <3>1. 3 \in 1 .. n /\ n \in 3 - 1 .. n
      BY <1>1, <2>1
    <3> QED
      BY <2>2, <3>1, PieceIs
  <2> HIDE DEF line, n
  <2>4. IsTail(line, t, 2)
    <3>1. /\ line \in Seq(Chars) /\ Len(line) = (n + 1) - 3
          /\ \A k \in 1 .. (n + 1) - 3 : line[k] = t[(3 + k) - 1]
      BY <2>3, Zenon DEF IsPiece
    <3>2. (n + 1) - 3 = n - 2 /\ \A k \in Int : (3 + k) - 1 = 2 + k
      BY <1>1 DEF n
    <3> QED
      BY <3>1, <3>2 DEF IsTail, n
  <2>5. n >= 6
    <3>1. n # 4 /\ n # 5
      BY <2>1
    <3> QED
      BY <1>1, <2>1, <3>1 DEF n
  <2>6. IsPrefix(AT, line)
    <3>1. /\ line \in Seq(Chars) /\ Len(line) = n - 2
          /\ \A k \in 1 .. n - 2 : line[k] = t[2 + k]
      BY <2>4 DEF IsTail, n
    <3>2. line[1] = t[3] /\ line[2] = t[4] /\ Len(line) >= 2
      BY <1>1, <2>5, <3>1 DEF n
    <3> QED
      BY <2>1, <3>1, <3>2, BeginsWithAT
  <2>7. /\ line[Len(line) - 1] = "CR" /\ line[Len(line)] = "LF"
    <3>1. /\ line \in Seq(Chars) /\ Len(line) = n - 2
          /\ \A k \in 1 .. n - 2 : line[k] = t[2 + k]
      BY <2>4 DEF IsTail, n
    <3>2. /\ n - 3 \in 1 .. n - 2 /\ 2 + (n - 3) = n - 1
          /\ n - 2 \in 1 .. n - 2 /\ 2 + (n - 2) = n /\ (n - 2) - 1 = n - 3
      BY <1>1, <2>5 DEF n
    <3> QED
      BY <2>1, <3>1, <3>2
  <2>8. 1 \in Starts(line, 1) /\ \E l, q : IsLast(line, l, q)
    BY <2>4, <2>6, <2>7, LastBehind, BeginsWithAT DEF IsTail
  <2> QED
    BY <2>4, <2>8 DEF line
<1> QED
  BY <1>2, <1>3

-----------------------------------------------------------------------------
(* A piece up to a "\r\n", and the "\r\n" behind it.                        *)
LEMMA UpToTheFeed ==
  ASSUME NEW t \in Seq(Chars), NEW i \in 1 .. Len(t),
         NEW q \in i .. Len(t) - 1, PairAt(t, q, "CR", "LF")
  PROVE  SubSeq(t, i, q - 1) \o CRLF = SubSeq(t, i, q + 1)
<1>1. Len(t) \in Nat
  BY LenProperties
<1>2. q \in 1 .. Len(t) - 1
  BY <1>1
<1>3. HasPair(t, q, "CR", "LF")
  BY <1>2, PairIs
<1>4. SubSeq(t, q, q + 1) = CRLF
  BY <1>3, Zenon DEF HasPair, CRLF
<1>5. /\ i \in 1 .. Len(t) + 1 /\ q - 1 \in i - 1 .. Len(t)
      /\ q + 1 \in q - 1 .. Len(t) /\ (q - 1) + 1 = q
  BY <1>1
<1>6. SubSeq(t, i, q - 1) \o SubSeq(t, (q - 1) + 1, q + 1)
        = SubSeq(t, i, q + 1)
  BY <1>5, ConcatAdjacentSubSeq
<1> QED
  BY <1>4, <1>5, <1>6

(* Every '\r' has its '\n'.                                                *)
IsPaired(t) == \A p \in DOMAIN t : t[p] = "CR" => SubSeq(t, p, p + 1) = CRLF

LEMMA PairedIs ==
  ASSUME NEW t \in Seq(Chars), IsPaired(t), NEW p \in 1 .. Len(t) - 1,
         t[p] = "CR"
  PROVE  t[p + 1] = "LF"
<1>1. p \in DOMAIN t
  BY LenProperties
<1>2. SubSeq(t, p, p + 1) = CRLF
  BY <1>1, Zenon DEF IsPaired
<1>3. HasPair(t, p, "CR", "LF")
  BY <1>2, Zenon DEF HasPair, CRLF
<1>4. PairAt(t, p, "CR", "LF")
  BY <1>3, PairIs
<1> QED
  BY <1>4, Zenon DEF PairAt

(* The last piece is the end of a command: there is no '\r' between the    *)
(* last "AT" and the "\r\n" behind it.                                     *)
LEMMA LastIsCommand ==
  ASSUME NEW t \in Seq(Chars), IsPaired(t), NEW d \in {0, 2}, NEW line,
         IsTail(line, t, d), NEW l, NEW q, IsLast(line, l, q)
  PROVE  \E c \in ToSet(CommandsOf(t)) : IsSuffix(SubSeq(line, l, q + 1), c)
<1> DEFINE a == d + l
           n == d + q
           w == SubSeq(line, l, q + 1)
<1>1. /\ line \in Seq(Chars) /\ Len(line) = Len(t) - d /\ Len(t) \in Nat
      /\ \A k \in 1 .. Len(line) : line[k] = t[d + k]
  BY LenProperties DEF IsTail
<1>2. /\ l \in 1 .. Len(line) - 1 /\ q \in l + 2 .. Len(line) - 1
      /\ line[l] = "A" /\ line[l + 1] = "T"
      /\ line[q] = "CR" /\ line[q + 1] = "LF"
  <2>1. line \in Seq(Chars)
    BY <1>1
  <2> QED
    BY <2>1, LastIs
<1>3. \A m \in Found(line, l + 1, "CR", "LF") : q <= m
  BY DEF IsLast
<1>4. /\ a = d + l /\ n = d + q /\ d \in Nat /\ l \in Nat /\ q \in Nat
      /\ d \in Nat /\ a \in Nat /\ n \in Nat /\ a >= 1
      /\ n \in a + 2 .. Len(t) - 1
      /\ d + (l + 1) = a + 1 /\ d + (q + 1) = n + 1
      /\ l \in 1 .. Len(line) /\ l + 1 \in 1 .. Len(line)
      /\ q \in 1 .. Len(line) /\ q + 1 \in 1 .. Len(line)
  BY <1>1, <1>2
<1>5. /\ t[a] = "A" /\ t[a + 1] = "T" /\ t[n] = "CR" /\ t[n + 1] = "LF"
  <2>1. /\ line[l] = t[d + l] /\ line[l + 1] = t[d + (l + 1)]
        /\ line[q] = t[d + q] /\ line[q + 1] = t[d + (q + 1)]
    BY <1>1, <1>4
  <2> QED
    BY <1>2, <1>4, <2>1
<1>6. BehindReturns(t, n, a)
  <2>1. SUFFICES ASSUME NEW m \in 1 .. n - 1, t[m] = "CR", ~(m < a)
                 PROVE  FALSE
    BY Zenon DEF BehindReturns
  <2> DEFINE k == m - d
  <2>2. m # a /\ m # a + 1
    BY <1>5, <2>1
  <2> HIDE DEF a, n
  <2>3. /\ k \in l + 1 .. Len(line) - 1 /\ d + k = m /\ d + (k + 1) = m + 1
        /\ k \in 1 .. Len(line) /\ k + 1 \in 1 .. Len(line)
        /\ ~(q <= k) /\ m \in 1 .. Len(t) - 1
    <3>1. m \in Nat /\ m >= a + 2 /\ m <= n - 1
      BY <1>4, <2>1, <2>2
    <3>2. Len(line) = Len(t) - d /\ Len(t) \in Nat /\ q <= Len(line) - 1
      BY <1>1, <1>2
    <3> QED
      BY <1>4, <3>1, <3>2
  <2>4. t[m + 1] = "LF"
    BY <2>1, <2>3, PairedIs
  <2> HIDE DEF k
  <2>5. line[k] = t[d + k] /\ line[k + 1] = t[d + (k + 1)]
    BY <1>1, <2>3
  <2>6. PairAt(line, k, "CR", "LF")
    BY <2>1, <2>3, <2>4, <2>5 DEF PairAt
  <2>7. k \in Found(line, l + 1, "CR", "LF")
    BY <2>3, <2>6 DEF Found
  <2> QED
    BY <1>3, <2>3, <2>7
<1> DEFINE ats == ATs(t, n)
           p == Min(ats)
           c == CommandAt(t, n)
<1> HIDE DEF a, n
<1>7. a \in ats
  <2>1. n >= 1 /\ a \in 1 .. n - 2
    BY <1>4
  <2>2. ATs(t, n) = ATsIn(t, n)
    BY <1>4, <2>1, ATsAre
  <2>3. a \in ATsIn(t, n)
    BY <1>5, <1>6, <2>1 DEF ATsIn
  <2> QED
    BY <2>2, <2>3
<1>8. n \in Ends(t)
  <2>1. n \in 1 .. Len(t) - 1
    <3>1. /\ Len(t) \in Nat /\ a \in Nat /\ n \in Nat
          /\ n \in a + 2 .. Len(t) - 1
      BY <1>1, <1>4, Zenon
    <3> QED
      BY <3>1
  <2> QED
    BY <1>5, <1>7, <2>1 DEF Ends
<1>9. p <= a
  <2>1. n >= 1 /\ ats # {}
    BY <1>4, <1>7
  <2> QED
    BY <1>4, <1>7, <2>1, FirstAT
<1>10. /\ p \in 1 .. n - 2 /\ c \in Seq(Chars) /\ Len(c) = (n + 2) - p
       /\ \A k \in 1 .. (n + 2) - p : c[k] = t[(p + k) - 1]
  BY <1>8, CommandIs
<1>11. c \in ToSet(CommandsOf(t))
  BY <1>8, CommandsAre
<1>12. /\ w \in Seq(Chars) /\ Len(w) = (q + 2) - l
       /\ \A k \in 1 .. (q + 2) - l : w[k] = line[(l + k) - 1]
  <2>1. l \in 1 .. Len(line) /\ q + 1 \in l - 1 .. Len(line)
    BY <1>1, <1>2
  <2>2. IsPiece(w, line, l, q + 1)
    BY <1>1, <2>1, PieceIs
  <2>3. /\ w \in Seq(Chars) /\ Len(w) = ((q + 1) + 1) - l
        /\ \A k \in 1 .. ((q + 1) + 1) - l : w[k] = line[(l + k) - 1]
    BY <2>2, Zenon DEF IsPiece
  <2> HIDE DEF w
  <2>4. ((q + 1) + 1) - l = (q + 2) - l
    BY <1>1, <1>2
  <2> QED
    BY <2>3, <2>4
<1> HIDE DEF w, c, p, ats
<1>13. Len(w) <= Len(c)
  BY <1>1, <1>2, <1>4, <1>9, <1>10, <1>12 DEF a, n
<1>14. \A k \in 1 .. Len(w) : w[k] = c[(Len(c) - Len(w)) + k]
  <2> TAKE k \in 1 .. Len(w)
  <2> DEFINE j == (Len(c) - Len(w)) + k
  <2>1. /\ k \in 1 .. (q + 2) - l /\ (l + k) - 1 \in 1 .. Len(line)
        /\ j \in 1 .. (n + 2) - p /\ (p + j) - 1 = d + ((l + k) - 1)
    <3>1. Len(w) = (q + 2) - l /\ Len(c) = (n + 2) - p /\ p \in Nat /\ p <= a
      BY <1>4, <1>9, <1>10, <1>12
    <3>2. /\ Len(line) \in Nat /\ q <= Len(line) - 1 /\ q >= l + 2 /\ l >= 1
      BY <1>1, <1>2
    <3>3. j = (((n + 2) - p) - ((q + 2) - l)) + k
      BY <3>1
    <3>4. k \in 1 .. (q + 2) - l
      BY <3>1
    <3> HIDE DEF j
    <3> QED
      BY <1>4, <3>1, <3>2, <3>3, <3>4
  <2> HIDE DEF j
  <2>2. w[k] = line[(l + k) - 1] /\ c[j] = t[(p + j) - 1]
    BY <1>10, <1>12, <2>1
  <2>3. line[(l + k) - 1] = t[d + ((l + k) - 1)]
    BY <1>1, <2>1
  <2>4. w[k] = c[j]
    BY <2>1, <2>2, <2>3
  <2> QED
    BY <2>4 DEF j
<1>15. IsSuffix(w, c)
  BY <1>10, <1>12, <1>13, <1>14, SuffixIs
<1> QED
  BY <1>11, <1>15 DEF w

(* The pieces of a line.                                                   *)
LEMMA SplitPieces ==
  ASSUME NEW t \in Seq(Chars), IsPrefix(AT, t), IsSuffix(CRLF, t),
         NEW d, d = Split(LineOf(t))
  PROVE  /\ Len(d) = Cardinality(Starts(LineOf(t), 1))
         /\ \A k \in DOMAIN d : IsPrefix(AT, d[k])
         /\ IsPrefix(FlattenSeq(d) \o CRLF, LineOf(t))
         /\ IsPaired(t) => \E c \in ToSet(CommandsOf(t)) :
                             IsSuffix(d[Len(d)] \o CRLF, c)
<1> DEFINE line == LineOf(t)
<1>1. PICK e \in {0, 2} : IsTail(line, t, e) /\ 1 \in Starts(line, 1)
                          /\ \E l, q : IsLast(line, l, q)
  BY LineIs
<1>2. PICK l, q : IsLast(line, l, q)
  BY <1>1
<1> HIDE DEF line
<1>3. line \in Seq(Chars)
  BY <1>1 DEF IsTail
<1>4. IsChain(d, line, 1, l, q)
  <2>1. d = Split(line)
    BY Zenon DEF line
  <2>2. IsChain(Split(line), line, 1, l, q)
    BY <1>1, <1>2, <1>3, SplitIs
  <2> QED
    BY <2>1, <2>2, Zenon
<1>5. /\ d \in Seq(Seq(Chars)) /\ Len(d) = Cardinality(Starts(line, 1))
      /\ FlattenSeq(d) = SubSeq(line, 1, q - 1)
      /\ d[Len(d)] = SubSeq(line, l, q - 1)
      /\ \A k \in 1 .. Len(d) : IsPrefix(AT, d[k])
  BY <1>4, Zenon DEF IsChain
<1>6. DOMAIN d = 1 .. Len(d)
  <2> DEFINE T == Seq(Chars)
  <2>1. d \in Seq(T)
    BY <1>5
  <2> HIDE DEF T
  <2> QED
    BY <2>1, LenProperties
<1>7. /\ Len(line) \in Nat /\ l \in 1 .. Len(line) - 1
      /\ q \in l + 2 .. Len(line) - 1 /\ PairAt(line, q, "CR", "LF")
  BY <1>2, <1>3, LastIs DEF PairAt
<1>8. /\ 1 \in 1 .. Len(line) /\ q \in 1 .. Len(line) - 1
      /\ l \in 1 .. Len(line) /\ q \in l .. Len(line) - 1
      /\ q + 1 \in 1 - 1 .. Len(line)
  BY <1>7
<1>9. FlattenSeq(d) \o CRLF = SubSeq(line, 1, q + 1)
  <2>1. SubSeq(line, 1, q - 1) \o CRLF = SubSeq(line, 1, q + 1)
    BY <1>3, <1>7, <1>8, UpToTheFeed
  <2> QED
    BY <1>5, <2>1, Zenon
<1>10. IsPrefix(SubSeq(line, 1, q + 1), line)
  <2> DEFINE u == SubSeq(line, 1, q + 1)
  <2>1. IsPiece(u, line, 1, q + 1)
    BY <1>3, <1>8, PieceIs
  <2> HIDE DEF u
  <2>2. /\ u \in Seq(Chars) /\ Len(u) = ((q + 1) + 1) - 1
        /\ \A k \in 1 .. ((q + 1) + 1) - 1 : u[k] = line[(1 + k) - 1]
    BY <2>1, Zenon DEF IsPiece
  <2>3. ((q + 1) + 1) - 1 <= Len(line) /\ \A k \in Int : (1 + k) - 1 = k
    BY <1>7
  <2>4. Begins(u, line)
    BY <2>2, <2>3 DEF Begins
  <2> QED
    BY <1>3, <2>2, <2>4, PrefixIs DEF u
<1>11. d[Len(d)] \o CRLF = SubSeq(line, l, q + 1)
  <2>1. SubSeq(line, l, q - 1) \o CRLF = SubSeq(line, l, q + 1)
    BY <1>3, <1>7, <1>8, UpToTheFeed
  <2> QED
    BY <1>5, <2>1, Zenon
<1>12. IsPaired(t) => \E c \in ToSet(CommandsOf(t)) :
                         IsSuffix(SubSeq(line, l, q + 1), c)
  BY <1>1, <1>2, LastIsCommand
<1>13. \A k \in DOMAIN d : IsPrefix(AT, d[k])
  BY <1>5, <1>6, Zenon
<1>14. IsPrefix(FlattenSeq(d) \o CRLF, line)
  BY <1>9, <1>10, Zenon
<1>15. IsPaired(t) => \E c \in ToSet(CommandsOf(t)) :
                         IsSuffix(d[Len(d)] \o CRLF, c)
  BY <1>11, <1>12, Zenon
<1> QED
  BY <1>5, <1>13, <1>14, <1>15, Zenon DEF line

(* The "AT"s of a line, as SplitsTheLine counts them.                      *)
LEMMA StartsOf ==
  ASSUME NEW t \in Seq(Chars)
  PROVE  {p \in 1 .. Len(t) - 1 : SubSeq(t, p, p + 1) = AT} = Starts(t, 1)
<1>1. \A p \in 1 .. Len(t) - 1 : SubSeq(t, p, p + 1) = AT
                                   <=> PairAt(t, p, "A", "T")
  <2> TAKE p \in 1 .. Len(t) - 1
  <2>1. HasPair(t, p, "A", "T") <=> PairAt(t, p, "A", "T")
    BY PairIs
  <2> QED
    BY <2>1, Zenon DEF HasPair, AT
<1> QED
  BY <1>1, Zenon DEF Starts, Found

(* checkUserInput cuts a line at its "AT"s and loses nothing of it up to   *)
(* the first "\r\n" behind the last "AT"; where every '\r' has its '\n',   *)
(* its last piece is the end of a command that parseData finds.            *)
THEOREM LinesAreSplit == Spec => []SplitsTheLine
<1>1. ParseInv => SplitsTheLine
  <2> SUFFICES ASSUME ParseInv, NEW before \in Blanks, NEW behind \in Blanks
               PROVE  LET line == LineOf(input)
                          pieces == checkUserInput(before \o input \o behind)
                          starts == {p \in 1 .. Len(line) - 1 :
                                       SubSeq(line, p, p + 1) = AT}
                      IN IF ~IsPrefix(AT, input) \/ ~IsSuffix(CRLF, input)
                         THEN pieces = << >>
                         ELSE /\ Len(pieces) = Cardinality(starts)
                              /\ \A k \in DOMAIN pieces :
                                   IsPrefix(AT, pieces[k])
                              /\ IsPrefix(FlattenSeq(pieces) \o CRLF, line)
                              /\ IsPaired(input) =>
                                   \E c \in ToSet(commands) :
                                     IsSuffix(pieces[Len(pieces)] \o CRLF, c)
    BY Zenon DEF SplitsTheLine, Blanks, Space, LineOf, IsPaired
  <2>1. input \in Seq(Chars) /\ commands = CommandsOf(input)
    BY DEF ParseInv, ParseTypes
  <2> DEFINE pieces == checkUserInput(before \o input \o behind)
  <2>2. pieces = IF ~IsPrefix(AT, input) \/ ~IsSuffix(CRLF, input) THEN << >>
                 ELSE Split(LineOf(input))
    BY <2>1, CheckUserInputIs
  <2> HIDE DEF pieces
  <2>3. CASE ~IsPrefix(AT, input) \/ ~IsSuffix(CRLF, input)
    BY <2>2, <2>3, Zenon DEF pieces
  <2>4. CASE IsPrefix(AT, input) /\ IsSuffix(CRLF, input)
    <3>1. pieces = Split(LineOf(input))
      BY <2>2, <2>4, Zenon
    <3>2. /\ Len(pieces) = Cardinality(Starts(LineOf(input), 1))
          /\ \A k \in DOMAIN pieces : IsPrefix(AT, pieces[k])
          /\ IsPrefix(FlattenSeq(pieces) \o CRLF, LineOf(input))
          /\ IsPaired(input) => \E c \in ToSet(CommandsOf(input)) :
                                  IsSuffix(pieces[Len(pieces)] \o CRLF, c)
      BY <2>1, <2>4, <3>1, SplitPieces
    <3>3. LineOf(input) \in Seq(Chars)
      BY <2>1, <2>4, LineIs DEF IsTail
    <3>4. {p \in 1 .. Len(LineOf(input)) - 1 :
             SubSeq(LineOf(input), p, p + 1) = AT} = Starts(LineOf(input), 1)
      BY <3>3, StartsOf
    <3> QED
      BY <2>1, <2>4, <3>2, <3>4, Zenon DEF pieces
  <2> QED
    BY <2>3, <2>4, Zenon
<1> QED
  BY <1>1, ParseInvariant, PTL
=============================================================================
