------------------------------- MODULE Lemmas -------------------------------
(***************************************************************************)
(* Facts about numbers, sets and sequences that several of the proofs      *)
(* beside this module cite.                                                *)
(***************************************************************************)
EXTENDS Integers, SequencesExt, FiniteSetTheorems, WellFoundedInduction,
        SequenceTheorems, TLAPS

-----------------------------------------------------------------------------
(* Every set of natural numbers that is not empty has a least element.     *)
(* This is the form in which the proofs do induction: the least number at  *)
(* which a fact fails.                                                     *)
LEMMA LeastElement ==
  ASSUME NEW T, T \subseteq Nat, T # {}
  PROVE  \E x \in T : \A y \in T : x <= y
<1> DEFINE R == OpToRel(<, Nat)
<1>1. IsWellFoundedOn(R, Nat)
  BY NatLessThanWellFounded
<1>2. \A x, y \in Nat : y < x => <<y, x>> \in R
  BY Zenon DEF OpToRel
<1> HIDE DEF R
<1>3. PICK x \in T : \A y \in T : ~ (<<y, x>> \in R)
  BY <1>1, WFMin
<1>4. ASSUME NEW y \in T PROVE x <= y
  <2>1. ~ (y < x)
    BY <1>2, <1>3
  <2> QED BY <2>1
<1> QED BY <1>4

(* A set of numbers up to n that is not empty has a greatest element.      *)
LEMMA GreatestElement ==
  ASSUME NEW n \in Nat, NEW T, T \subseteq 0 .. n, T # {}
  PROVE  \E x \in T : \A y \in T : y <= x
<1> DEFINE Mirror == {k \in 0 .. n : n - k \in T}
<1>1. \A y \in T : y \in 0 .. n /\ n - y \in 0 .. n /\ n - (n - y) = y
  OBVIOUS
<1>2. Mirror \subseteq Nat /\ Mirror # {}
  <2>1. PICK y \in T : TRUE
    OBVIOUS
  <2>2. n - y \in Mirror
    BY <1>1, <2>1
  <2>3. \A k \in 0 .. n : k \in Nat
    OBVIOUS
  <2> QED BY <2>2, <2>3
<1>3. \E m \in Mirror : \A k \in Mirror : m <= k
  <2> HIDE DEF Mirror
  <2> QED BY <1>2, LeastElement
<1>4. PICK m \in 0 .. n : n - m \in T /\ \A k \in Mirror : m <= k
  BY <1>3
<1>5. ASSUME NEW y \in T PROVE y <= n - m
  <2>1. m <= n - y
    BY <1>1, <1>4
  <2> QED BY <2>1, <1>1
<1> QED BY <1>4, <1>5

(* The modulo of what is below twice m.                                    *)
LEMMA Wraps ==
  \A m, x : m \in Nat /\ m >= 1 /\ x \in 0 .. 2 * m - 1
             => x % m = IF x >= m THEN x - m ELSE x
<1> TAKE m, x
<1> HAVE m \in Nat /\ m >= 1 /\ x \in 0 .. 2 * m - 1
<1>1. CASE x < m
  BY <1>1
<1>2. CASE x >= m
  <2>1. PICK y \in 0 .. m - 1 : x = y + m
    <3>1. x - m \in 0 .. m - 1 /\ x = x - m + m
      BY <1>2
    <3> QED BY <3>1
  <2>2. (y + m) % m = y
    OBVIOUS
  <2> QED BY <2>1, <2>2, <1>2
<1> QED BY <1>1, <1>2

(* The elements of S up to m.                                              *)
UpTo(S, m) == {n \in S : n <= m}

LEMMA UpToFinite ==
  ASSUME NEW top \in Nat, NEW S, S \subseteq 1 .. top, NEW m \in Nat
  PROVE  /\ IsFiniteSet(UpTo(S, m)) /\ Cardinality(UpTo(S, m)) \in Nat
         /\ IsFiniteSet(S) /\ Cardinality(S) \in Nat
         /\ Cardinality(UpTo(S, m)) <= Cardinality(S)
<1>1. IsFiniteSet(1 .. top)
  BY FS_Interval
<1>2. IsFiniteSet(S)
  BY <1>1, FS_Subset
<1>3. UpTo(S, m) \in SUBSET S
  BY DEF UpTo
<1> QED BY <1>2, <1>3, FS_Subset, FS_CardinalityType

(* A set of numbers can be counted through: for every c up to its size it  *)
(* has an element with exactly c elements up to it.                        *)
LEMMA CountThrough ==
  ASSUME NEW top \in Nat, NEW S, S \subseteq 1 .. top,
         NEW c \in 1 .. Cardinality(S)
  PROVE  \E n \in S : Cardinality(UpTo(S, n)) = c
<1> DEFINE Enough == {m \in Nat : Cardinality(UpTo(S, m)) >= c}
<1>1. \A m \in Nat : /\ IsFiniteSet(UpTo(S, m))
                     /\ Cardinality(UpTo(S, m)) \in Nat
                     /\ Cardinality(S) \in Nat
  BY UpToFinite
<1>0. \A n \in S : n \in Int /\ 1 <= n /\ n <= top
  OBVIOUS
<1>2. UpTo(S, top) = S /\ UpTo(S, 0) = {}
  <2>1. \A n \in S : n <= top /\ ~(n <= 0)
    BY <1>0
  <2> QED BY <2>1 DEF UpTo
<1>3. Enough \subseteq Nat /\ top \in Enough
  BY <1>1, <1>2
<1>4. \E m \in Enough : \A k \in Enough : m <= k
  <2> HIDE DEF Enough
  <2> QED BY <1>3, LeastElement
<1>5. PICK m \in Nat : /\ Cardinality(UpTo(S, m)) >= c
                       /\ \A k \in Enough : m <= k
  BY <1>4
<1>6. m > 0
  BY <1>1, <1>2, <1>5, FS_EmptySet
<1>7. m - 1 \in Nat /\ Cardinality(UpTo(S, m - 1)) < c
  BY <1>1, <1>5, <1>6
<1>8. CASE m \notin S
  <2>1. UpTo(S, m) = UpTo(S, m - 1)
    <3>1. \A n \in S : n <= m <=> n <= m - 1
      BY <1>0, <1>8
    <3> QED BY <3>1 DEF UpTo
  <2> QED BY <2>1, <1>1, <1>5, <1>7
<1>9. CASE m \in S
  <2>1. UpTo(S, m) = UpTo(S, m - 1) \cup {m}
    <3>1. \A n \in S : n <= m <=> n <= m - 1 \/ n = m
      BY <1>0
    <3> QED BY <3>1, <1>9 DEF UpTo
  <2>2. m \notin UpTo(S, m - 1)
    <3>1. ~(m <= m - 1)
      OBVIOUS
    <3> QED BY <3>1 DEF UpTo
  <2>3. Cardinality(UpTo(S, m)) = Cardinality(UpTo(S, m - 1)) + 1
    BY <2>1, <2>2, <1>1, <1>7, FS_AddElement
  <2>4. Cardinality(UpTo(S, m)) = c
    BY <2>3, <1>1, <1>5, <1>7
  <2> QED BY <2>4, <1>9
<1> QED BY <1>8, <1>9

(* More elements come up to the greater of two.                            *)
LEMMA CountsGrow ==
  ASSUME NEW top \in Nat, NEW S, S \subseteq 1 .. top,
         NEW m \in S, NEW n \in S,
         Cardinality(UpTo(S, m)) < Cardinality(UpTo(S, n))
  PROVE  m < n
<1>1. SUFFICES ASSUME n <= m PROVE FALSE
  <2>1. m \in Nat /\ n \in Nat
    OBVIOUS
  <2> QED BY <2>1
<1>0. \A k \in S : k \in Nat
  OBVIOUS
<1>2. UpTo(S, n) \in SUBSET UpTo(S, m)
  <2>1. \A k \in S : k <= n => k <= m
    BY <1>0, <1>1
  <2> QED BY <2>1 DEF UpTo
<1>3. /\ IsFiniteSet(UpTo(S, m)) /\ Cardinality(UpTo(S, m)) \in Nat
      /\ Cardinality(UpTo(S, n)) \in Nat
  BY <1>0, UpToFinite
<1> QED BY <1>2, <1>3, FS_Subset

-----------------------------------------------------------------------------
(* Moving the head of one sequence to the end of the one before it.        *)
LEMMA AppendHead ==
  ASSUME NEW S, NEW s \in Seq(S), NEW t \in Seq(S), t # << >>
  PROVE  Append(s, Head(t)) \o Tail(t) = s \o t
<1>1. /\ Head(t) \in S /\ Tail(t) \in Seq(S) /\ Len(Tail(t)) = Len(t) - 1
      /\ \A i \in 1 .. Len(Tail(t)) : Tail(t)[i] = t[i + 1]
  BY HeadTailProperties
<1>2. Head(t) = t[1] /\ Len(t) \in Nat /\ Len(t) >= 1 /\ Len(s) \in Nat
  OBVIOUS
<1> DEFINE u == Append(s, Head(t))
<1>3. /\ u \in Seq(S) /\ Len(u) = Len(s) + 1 /\ u[Len(s) + 1] = t[1]
      /\ \A i \in 1 .. Len(s) : u[i] = s[i]
  BY <1>1, <1>2, AppendProperties
<1> HIDE DEF u
<1>4. /\ u \o Tail(t) \in Seq(S) /\ Len(u \o Tail(t)) = Len(s) + Len(t)
      /\ \A i \in 1 .. Len(s) + Len(t) :
           (u \o Tail(t))[i] = IF i <= Len(s) + 1 THEN u[i]
                               ELSE Tail(t)[i - (Len(s) + 1)]
  <2>1. /\ u \o Tail(t) \in Seq(S)
        /\ Len(u \o Tail(t)) = Len(u) + Len(Tail(t))
        /\ \A i \in 1 .. Len(u) + Len(Tail(t)) :
             (u \o Tail(t))[i] = IF i <= Len(u) THEN u[i]
                                 ELSE Tail(t)[i - Len(u)]
    BY <1>1, <1>3, ConcatProperties
  <2>2. Len(u) + Len(Tail(t)) = Len(s) + Len(t) /\ Len(u) = Len(s) + 1
    BY <1>1, <1>2, <1>3
  <2> QED BY <2>1, <2>2
<1>5. /\ s \o t \in Seq(S) /\ Len(s \o t) = Len(s) + Len(t)
      /\ \A i \in 1 .. Len(s) + Len(t) :
           (s \o t)[i] = IF i <= Len(s) THEN s[i] ELSE t[i - Len(s)]
  BY ConcatProperties
<1>6. ASSUME NEW i \in 1 .. Len(s) + Len(t)
      PROVE  (u \o Tail(t))[i] = (s \o t)[i]
  <2>1. CASE i <= Len(s)
    BY <2>1, <1>2, <1>3, <1>4, <1>5
  <2>2. CASE i = Len(s) + 1
    BY <2>2, <1>2, <1>3, <1>4, <1>5
  <2>3. CASE i > Len(s) + 1
    <3>1. /\ i - (Len(s) + 1) \in 1 .. Len(Tail(t))
          /\ i - (Len(s) + 1) + 1 = i - Len(s)
      BY <2>3, <1>1, <1>2
    <3>2. (u \o Tail(t))[i] = Tail(t)[i - (Len(s) + 1)]
      BY <2>3, <1>2, <1>4
    <3>3. Tail(t)[i - (Len(s) + 1)] = t[i - Len(s)]
      BY <3>1, <1>1
    <3>4. (s \o t)[i] = t[i - Len(s)]
      BY <2>3, <1>2, <1>5
    <3> QED BY <3>2, <3>3, <3>4
  <2>4. i <= Len(s) \/ i = Len(s) + 1 \/ i > Len(s) + 1
    BY <1>2
  <2> QED BY <2>1, <2>2, <2>3, <2>4
<1>7. u \o Tail(t) = s \o t
  BY <1>4, <1>5, <1>6, SeqEqual
<1> QED BY <1>7 DEF u

(* Dropping the head of the second of two sequences.                       *)
LEMMA DropHead ==
  ASSUME NEW S, NEW s \in Seq(S), NEW t \in Seq(S), t # << >>
  PROVE  /\ s \o Tail(t) \in Seq(S)
         /\ Len(s \o Tail(t)) = Len(s \o t) - 1
         /\ \A i \in 1 .. Len(s \o Tail(t)) :
              (s \o Tail(t))[i] = (s \o t)[IF i <= Len(s) THEN i ELSE i + 1]
<1>1. /\ Tail(t) \in Seq(S) /\ Len(Tail(t)) = Len(t) - 1
      /\ \A i \in 1 .. Len(Tail(t)) : Tail(t)[i] = t[i + 1]
  BY HeadTailProperties
<1>2. Len(t) \in Nat /\ Len(t) >= 1 /\ Len(s) \in Nat
  OBVIOUS
<1>4. /\ s \o Tail(t) \in Seq(S) /\ Len(s \o Tail(t)) = Len(s) + Len(t) - 1
      /\ \A i \in 1 .. Len(s) + Len(t) - 1 :
           (s \o Tail(t))[i] = IF i <= Len(s) THEN s[i]
                               ELSE Tail(t)[i - Len(s)]
  BY <1>1, <1>2, ConcatProperties
<1>5. /\ Len(s \o t) = Len(s) + Len(t)
      /\ \A i \in 1 .. Len(s) + Len(t) :
           (s \o t)[i] = IF i <= Len(s) THEN s[i] ELSE t[i - Len(s)]
  BY ConcatProperties
<1>6. ASSUME NEW i \in 1 .. Len(s) + Len(t) - 1
      PROVE  (s \o Tail(t))[i] = (s \o t)[IF i <= Len(s) THEN i ELSE i + 1]
  <2>1. CASE i <= Len(s)
    BY <2>1, <1>2, <1>4, <1>5
  <2>2. CASE i > Len(s)
    <3>1. /\ i - Len(s) \in 1 .. Len(Tail(t))
          /\ i + 1 \in 1 .. Len(s) + Len(t) /\ ~(i + 1 <= Len(s))
          /\ i - Len(s) + 1 = i + 1 - Len(s)
      BY <2>2, <1>1, <1>2
    <3> QED BY <2>2, <3>1, <1>1, <1>2, <1>4, <1>5
  <2> QED BY <2>1, <2>2, <1>2
<1> QED BY <1>4, <1>5, <1>6

-----------------------------------------------------------------------------
(* FlattenSeq, for sequences of any length: the recursive function in its  *)
(* definition exists, and f is it up to m.                                 *)
Flattens(f, m, s, S) ==
  /\ f \in [1 .. m -> Seq(S)]
  /\ \A i \in 1 .. m : f[i] = IF i = 1 THEN s[i] ELSE f[i - 1] \o s[i]

LEMMA FlattensExists ==
  ASSUME NEW S, NEW s \in Seq(Seq(S)), NEW m \in 0 .. Len(s)
  PROVE  \E f : Flattens(f, m, s, S)
<1> DEFINE bad == {k \in 0 .. Len(s) : ~ \E f : Flattens(f, k, s, S)}
<1>1. SUFFICES ASSUME bad # {} PROVE FALSE
  OBVIOUS
<1>2. PICK x \in bad : \A y \in bad : x <= y
  <2>1. bad \subseteq Nat
    OBVIOUS
  <2> HIDE DEF bad
  <2> QED BY <1>1, <2>1, LeastElement
<1>3. x \in 0 .. Len(s) /\ Len(s) \in Nat /\ x \in Nat
  OBVIOUS
<1>4. x # 0
  <2>1. Flattens([i \in 1 .. 0 |-> << >>], 0, s, S)
    BY DEF Flattens
  <2> QED BY <2>1
<1>5. x - 1 \in 0 .. Len(s) /\ x - 1 \notin bad
  <2>1. x - 1 \in 0 .. Len(s) /\ ~(x <= x - 1)
    BY <1>3, <1>4
  <2> HIDE DEF bad
  <2> QED BY <2>1, <1>2
<1>6. PICK f : Flattens(f, x - 1, s, S)
  BY <1>5
<1> DEFINE last == IF x = 1 THEN s[x] ELSE f[x - 1] \o s[x]
           g == [i \in 1 .. x |-> IF i = x THEN last ELSE f[i]]
<1>7. s[x] \in Seq(S)
  <2>1. x \in 1 .. Len(s)
    BY <1>3, <1>4
  <2> QED BY <2>1, ElementOfSeq
<1>8. \A i \in 1 .. x - 1 : f[i] \in Seq(S)
  BY <1>6 DEF Flattens
<1>9. last \in Seq(S)
  <2>1. x # 1 => f[x - 1] \in Seq(S)
    BY <1>3, <1>4, <1>8
  <2> QED BY <2>1, <1>7, ConcatProperties
<1>10. \A i \in 1 .. x : i = x \/ i \in 1 .. x - 1
  BY <1>3
<1>11. g \in [1 .. x -> Seq(S)]
  <2> HIDE DEF last
  <2> QED BY <1>8, <1>9, <1>10
<1>12. ASSUME NEW i \in 1 .. x
       PROVE  g[i] = IF i = 1 THEN s[i] ELSE g[i - 1] \o s[i]
  <2>1. CASE i = x
    <3>1. x # 1 => x - 1 \in 1 .. x /\ x - 1 # x
      BY <1>3, <1>4
    <3>2. x # 1 => g[x - 1] = f[x - 1]
      BY <3>1
    <3>3. g[x] = last
      BY <1>12, <2>1
    <3> QED BY <2>1, <3>2, <3>3
  <2>2. CASE i \in 1 .. x - 1
    <3>1. i # x /\ (i # 1 => i - 1 \in 1 .. x /\ i - 1 # x)
      BY <1>3, <2>2
    <3>2. g[i] = f[i] /\ (i # 1 => g[i - 1] = f[i - 1])
      BY <1>12, <3>1
    <3> QED BY <2>2, <3>2, <1>6 DEF Flattens
  <2> QED BY <2>1, <2>2, <1>10
<1>13. Flattens(g, x, s, S)
  <2> HIDE DEF g
  <2> QED BY <1>11, <1>12 DEF Flattens
<1> QED BY <1>2, <1>13

Flattener(s) ==
  CHOOSE g : g = [i \in 1 .. Len(s) |->
                    IF i = 1 THEN s[i] ELSE g[i - 1] \o s[i]]

LEMMA FlattenIs ==
  ASSUME NEW s, Len(s) # 0
  PROVE  FlattenSeq(s) = Flattener(s)[Len(s)]
BY Zenon DEF FlattenSeq, Flattener

LEMMA FlattenerFlattens ==
  ASSUME NEW S, NEW s \in Seq(Seq(S))
  PROVE  Flattens(Flattener(s), Len(s), s, S)
<1> DEFINE n == Len(s)
           F == Flattener(s)
<1>0. n \in Nat /\ n \in 0 .. n
  OBVIOUS
<1>1. PICK f : Flattens(f, n, s, S)
  BY <1>0, FlattensExists
<1>2. F = [i \in 1 .. n |-> IF i = 1 THEN s[i] ELSE F[i - 1] \o s[i]]
  <2>1. f = [i \in 1 .. n |-> IF i = 1 THEN s[i] ELSE f[i - 1] \o s[i]]
    <3> HIDE DEF n
    <3> QED BY <1>1 DEF Flattens
  <2> QED BY <2>1, Zenon DEF Flattener
<1> HIDE DEF F, n
<1>3. \A i \in 1 .. n : F[i] = IF i = 1 THEN s[i] ELSE F[i - 1] \o s[i]
  BY <1>2
<1> DEFINE bad == {i \in 1 .. n : F[i] # f[i]}
<1>4. bad = {}
  <2>1. SUFFICES ASSUME bad # {} PROVE FALSE
    OBVIOUS
  <2>2. PICK x \in bad : \A y \in bad : x <= y
    <3>1. bad \subseteq Nat
      BY <1>0
    <3> HIDE DEF bad
    <3> QED BY <2>1, <3>1, LeastElement
  <2>3. x \in 1 .. n /\ F[x] # f[x]
    OBVIOUS
  <2>4. CASE x = 1
    BY <2>3, <2>4, <1>1, <1>3 DEF Flattens
  <2>5. CASE x # 1
    <3>1. x - 1 \in 1 .. n /\ ~(x <= x - 1)
      BY <1>0, <2>3, <2>5
    <3>2. x - 1 \notin bad
      <4> HIDE DEF bad
      <4> QED BY <3>1, <2>2
    <3>3. F[x - 1] = f[x - 1]
      BY <3>1, <3>2
    <3> QED BY <2>3, <2>5, <3>3, <1>1, <1>3 DEF Flattens
  <2> QED BY <2>4, <2>5
<1>5. \A i \in 1 .. n : F[i] = f[i]
  BY <1>4
<1>6. F = f
  <2>1. DOMAIN F = 1 .. n /\ F = [i \in 1 .. n |-> F[i]]
    BY <1>2
  <2>2. f = [i \in 1 .. n |-> f[i]]
    BY <1>1 DEF Flattens
  <2> QED BY <2>1, <2>2, <1>5
<1> QED BY <1>1, <1>6 DEF F, n

LEMMA FlattenEmpty == FlattenSeq(<< >>) = << >>
  BY DEF FlattenSeq

(* Sequences that begin alike are flattened alike.                         *)
Alike(s, t, m) == \A i \in 1 .. m : s[i] = t[i]

LEMMA FlattensAlike ==
  ASSUME NEW S, NEW s, NEW t, NEW m \in Nat, NEW n \in Nat, m <= n,
         NEW f, NEW g, Flattens(f, m, s, S), Flattens(g, n, t, S),
         Alike(s, t, m)
  PROVE  Alike(f, g, m)
<1> DEFINE bad == {i \in 1 .. m : f[i] # g[i]}
<1>1. SUFFICES ASSUME bad # {} PROVE FALSE
  BY DEF Alike
<1>2. PICK x \in bad : \A y \in bad : x <= y
  <2>1. bad \subseteq Nat
    OBVIOUS
  <2> HIDE DEF bad
  <2> QED BY <1>1, <2>1, LeastElement
<1>3. x \in 1 .. m /\ x \in 1 .. n /\ f[x] # g[x]
  OBVIOUS
<1>4. CASE x = 1
  BY <1>3, <1>4 DEF Flattens, Alike
<1>5. CASE x # 1
  <2>1. x - 1 \in 1 .. m /\ x - 1 \in 1 .. n /\ ~(x <= x - 1)
    BY <1>3, <1>5
  <2>2. x - 1 \notin bad
    <3> HIDE DEF bad
    <3> QED BY <1>2, <2>1
  <2>3. f[x - 1] = g[x - 1]
    BY <2>1, <2>2
  <2>4. f[x] = f[x - 1] \o s[x]
    BY <1>3, <1>5 DEF Flattens
  <2>5. g[x] = g[x - 1] \o t[x]
    BY <1>3, <1>5 DEF Flattens
  <2>6. s[x] = t[x]
    BY <1>3 DEF Alike
  <2> QED BY <1>3, <2>3, <2>4, <2>5, <2>6
<1> QED BY <1>4, <1>5

(* What FlattenSeq makes of a sequence with one more at its end.           *)
LEMMA FlattenAppend ==
  ASSUME NEW S, NEW s \in Seq(Seq(S)), NEW a \in Seq(S)
  PROVE  /\ FlattenSeq(s) \in Seq(S)
         /\ FlattenSeq(Append(s, a)) = FlattenSeq(s) \o a
<1> DEFINE t == Append(s, a)
           n == Len(s)
           F == Flattener(s)
           G == Flattener(t)
<1>1. /\ n \in Nat /\ t \in Seq(Seq(S)) /\ Len(t) = n + 1
      /\ t[n + 1] = a /\ \A i \in 1 .. n : s[i] = t[i]
  <2> DEFINE T == Seq(S)
  <2>1. s \in Seq(T) /\ a \in T
    OBVIOUS
  <2> HIDE DEF T
  <2>2. n \in Nat /\ t \in Seq(T) /\ Len(t) = n + 1
        /\ t[n + 1] = a /\ \A i \in 1 .. n : s[i] = t[i]
    BY <2>1
  <2> QED BY <2>2 DEF T
<1>2. Flattens(F, n, s, S) /\ Flattens(G, n + 1, t, S)
  BY <1>1, FlattenerFlattens
<1>3. FlattenSeq(t) = G[n + 1]
  <2>1. Len(t) # 0 /\ Len(t) = n + 1
    BY <1>1
  <2>2. FlattenSeq(t) = G[Len(t)]
    BY <2>1, FlattenIs
  <2> HIDE DEF G, t, n
  <2> QED BY <2>1, <2>2
<1>4. CASE n = 0
  <2>1. FlattenSeq(s) = << >>
    BY <1>4, FlattenEmpty
  <2>2. G[n + 1] = a
    BY <1>1, <1>2, <1>4 DEF Flattens
  <2>3. << >> \o a = a /\ << >> \in Seq(S)
    BY ConcatEmptySeq
  <2> QED BY <1>3, <2>1, <2>2, <2>3
<1>5. CASE n # 0
  <2>1. FlattenSeq(s) = F[n]
    BY <1>5, FlattenIs
  <2>2. \A i \in 1 .. n : F[i] = G[i]
    <3>1. n \in Nat /\ n + 1 \in Nat /\ n <= n + 1 /\ Alike(s, t, n)
      BY <1>1 DEF Alike
    <3> HIDE DEF F, G, t, n
    <3>2. Alike(F, G, n)
      BY <1>2, <3>1, FlattensAlike
    <3> QED BY <3>2 DEF Alike
  <2>3. n \in 1 .. n /\ n + 1 \in 1 .. n + 1 /\ n + 1 # 1 /\ (n + 1) - 1 = n
    BY <1>1, <1>5
  <2> HIDE DEF F, G, t, n
  <2>4. F[n] \in Seq(S)
    BY <1>2, <2>3 DEF Flattens
  <2>5. G[n + 1] = G[(n + 1) - 1] \o t[n + 1]
    <3>1. \A i \in 1 .. n + 1 :
             G[i] = IF i = 1 THEN t[i] ELSE G[i - 1] \o t[i]
      BY <1>2, Zenon DEF Flattens
    <3> DEFINE N == n + 1
    <3>2. N \in 1 .. N /\ N # 1
      BY <2>3
    <3> HIDE DEF N
    <3>3. \A i \in 1 .. N :
             G[i] = IF i = 1 THEN t[i] ELSE G[i - 1] \o t[i]
      BY <3>1 DEF N
    <3>4. G[N] = G[N - 1] \o t[N]
      BY <3>2, <3>3
    <3> QED BY <3>4 DEF N
  <2>6. G[n + 1] = G[n] \o a
    BY <1>1, <2>3, <2>5
  <2> QED BY <1>3, <2>1, <2>2, <2>3, <2>4, <2>6 DEF t
<1> QED BY <1>4, <1>5

Joins(u, s, t) == u = s \o t

LEMMA ConcatShift ==
  ASSUME NEW S, NEW h \in Seq(S), NEW g \in Seq(S), NEW u \in Seq(S),
         NEW f, NEW fu, NEW gu, Joins(f, h, g), Joins(fu, f, u), Joins(gu, g, u)
  PROVE  Joins(fu, h, gu)
BY ConcatAssociative DEF Joins

(* What FlattenSeq makes of a sequence, head first.                        *)
LEMMA FlattenHead ==
  ASSUME NEW S, NEW s \in Seq(Seq(S)), s # << >>
  PROVE  /\ FlattenSeq(s) \in Seq(S)
         /\ FlattenSeq(Tail(s)) \in Seq(S)
         /\ FlattenSeq(s) = Head(s) \o FlattenSeq(Tail(s))
<1> DEFINE t == Tail(s)
           n == Len(s)
           F == Flattener(s)
           G == Flattener(t)
           h == Head(s)
<1>1. /\ n \in Nat /\ n >= 1 /\ t \in Seq(Seq(S)) /\ Len(t) = n - 1
      /\ h \in Seq(S) /\ h = s[1]
      /\ \A i \in 1 .. n - 1 : t[i] = s[i + 1]
  <2>1. n \in Nat /\ n >= 1
    OBVIOUS
  <2>2. /\ Head(s) \in Seq(S) /\ t \in Seq(Seq(S)) /\ Len(t) = n - 1
        /\ \A i \in 1 .. Len(t) : t[i] = s[i + 1]
    BY HeadTailProperties
  <2> QED BY <2>1, <2>2
<1>2. Flattens(F, n, s, S) /\ Flattens(G, n - 1, t, S)
  BY <1>1, FlattenerFlattens
<1>3. FlattenSeq(s) = F[n]
  BY <1>1, FlattenIs
<1>4. n > 1 => FlattenSeq(t) = G[n - 1]
  <2>1. n > 1 => Len(t) # 0 /\ Len(t) = n - 1
    BY <1>1
  <2> QED BY <2>1, FlattenIs
<1>5. n = 1 => t = << >> /\ FlattenSeq(t) = << >>
  <2>1. n = 1 => Len(t) = 0
    BY <1>1
  <2>2. Len(t) = 0 => t = << >>
    <3> HIDE DEF t, n
    <3>1. t \in Seq(Seq(S)) => (t # << >> => Len(t) # 0)
      BY EmptySeq
    <3> QED BY <1>1, <3>1
  <2> QED BY <2>1, <2>2 DEF FlattenSeq
<1> HIDE DEF t, n, F, G, h
<1>6. /\ \A i \in 1 .. n : /\ F[i] \in Seq(S) /\ s[i] \in Seq(S)
                           /\ F[i] = IF i = 1 THEN s[i] ELSE F[i - 1] \o s[i]
      /\ \A i \in 1 .. n - 1 :
           /\ G[i] \in Seq(S) /\ t[i] \in Seq(S)
           /\ G[i] = IF i = 1 THEN t[i] ELSE G[i - 1] \o t[i]
  <2>1. \A i \in 1 .. n : s[i] \in Seq(S)
    BY ElementOfSeq DEF n
  <2>2. \A i \in 1 .. n - 1 : t[i] \in Seq(S)
    BY <1>1, ElementOfSeq
  <2> QED BY <1>2, <2>1, <2>2 DEF Flattens
<1>7. F[1] = h
  BY <1>1, <1>6
<1> DEFINE bad == {i \in 1 .. n - 1 : F[i + 1] # h \o G[i]}
<1>8. bad = {}
  <2>1. SUFFICES ASSUME bad # {} PROVE FALSE
    OBVIOUS
  <2>2. PICK x \in bad : \A y \in bad : x <= y
    <3>1. bad \subseteq Nat
      <4>1. \A i \in 1 .. n - 1 : i \in Nat
        BY <1>1
      <4> QED BY <4>1
    <3> HIDE DEF bad
    <3> QED BY <2>1, <3>1, LeastElement
  <2>3. x \in 1 .. n - 1 /\ F[x + 1] # h \o G[x]
    OBVIOUS
  <2>4. /\ x + 1 \in 1 .. n /\ x + 1 # 1 /\ x + 1 - 1 = x /\ x \in 1 .. n
        /\ s[x + 1] = t[x]
    BY <1>1, <2>3
  <2>5. F[x + 1] = F[x] \o t[x]
    <3>1. PICK y : y = x + 1
      OBVIOUS
    <3>2. F[y] = F[y - 1] \o s[y]
      BY <1>6, <2>4, <3>1
    <3>3. y - 1 = x /\ s[y] = t[x]
      BY <2>4, <3>1
    <3> QED BY <3>1, <3>2, <3>3, Zenon
  <2>6. CASE x = 1
    BY <1>1, <1>6, <1>7, <2>3, <2>5, <2>6
  <2>7. CASE x # 1
    <3>1. x - 1 \in 1 .. n - 1 /\ ~(x <= x - 1) /\ x - 1 + 1 = x
      BY <1>1, <2>3, <2>7
    <3>2. x - 1 \notin bad
      <4> HIDE DEF bad
      <4> QED BY <3>1, <2>2
    <3>3. F[x] = h \o G[x - 1]
      BY <3>1, <3>2
    <3>4. G[x] = G[x - 1] \o t[x]
      BY <2>3, <2>7, <1>6
    <3>5. G[x - 1] \in Seq(S) /\ t[x] \in Seq(S) /\ h \in Seq(S)
      BY <1>1, <1>6, <2>3, <3>1
    <3> HIDE DEF bad
    <3>6. F[x + 1] = h \o G[x]
      <4>1. /\ Joins(F[x], h, G[x - 1]) /\ Joins(F[x + 1], F[x], t[x])
            /\ Joins(G[x], G[x - 1], t[x])
        BY <2>5, <3>3, <3>4 DEF Joins
      <4>2. Joins(F[x + 1], h, G[x])
        BY <3>5, <4>1, ConcatShift
      <4> QED BY <4>2 DEF Joins
    <3> QED BY <2>3, <3>6
  <2> QED BY <2>6, <2>7
<1>9. CASE n = 1
  <2>1. FlattenSeq(s) = h /\ FlattenSeq(t) = << >>
    BY <1>3, <1>5, <1>7, <1>9
  <2>2. h \o << >> = h /\ << >> \in Seq(S)
    BY <1>1, ConcatEmptySeq
  <2> QED BY <1>1, <2>1, <2>2 DEF t, h
<1>10. CASE n > 1
  <2>1. n - 1 \in 1 .. n - 1 /\ n - 1 + 1 = n /\ n \in 1 .. n
    BY <1>1, <1>10
  <2>2. F[n] = h \o G[n - 1]
    BY <1>8, <2>1
  <2>3. FlattenSeq(s) = F[n] /\ FlattenSeq(t) = G[n - 1]
    BY <1>3, <1>4, <1>10
  <2> QED BY <1>6, <2>1, <2>2, <2>3 DEF t, h
<1> QED BY <1>1, <1>9, <1>10

LEMMA FlattenOne ==
  ASSUME NEW S, NEW a \in Seq(S)
  PROVE  <<a>> \in Seq(Seq(S)) /\ FlattenSeq(<<a>>) = a
<1>1. <<a>> \in Seq(Seq(S)) /\ <<a>> # << >> /\ Head(<<a>>) = a
      /\ Tail(<<a>>) = << >>
  OBVIOUS
<1>2. FlattenSeq(<<a>>) = a \o << >>
  BY <1>1, FlattenHead, FlattenEmpty
<1> QED BY <1>1, <1>2, ConcatEmptySeq

LEMMA FlattenMore ==
  ASSUME NEW S, NEW a \in Seq(S), NEW s \in Seq(Seq(S))
  PROVE  /\ <<a>> \o s \in Seq(Seq(S))
         /\ FlattenSeq(s) \in Seq(S)
         /\ FlattenSeq(<<a>> \o s) = a \o FlattenSeq(s)
         /\ Head(<<a>> \o s) = a /\ <<a>> \o s # << >>
<1> DEFINE T == Seq(S)
           one == <<a>>
           m == <<a>> \o s
<1>1. one \in Seq(T) /\ Len(one) = 1 /\ one[1] = a
  OBVIOUS
<1>2. /\ m \in Seq(T) /\ Len(m) = 1 + Len(s) /\ Len(s) \in Nat
      /\ \A i \in 1 .. 1 + Len(s) : m[i] = IF i <= 1 THEN a ELSE s[i - 1]
  <2>1. /\ one \o s \in Seq(T) /\ Len(one \o s) = Len(one) + Len(s)
        /\ \A i \in 1 .. Len(one) + Len(s) :
             (one \o s)[i] = IF i <= Len(one) THEN one[i] ELSE s[i - Len(one)]
    <3> HIDE DEF one, m
    <3> QED BY <1>1, ConcatProperties
  <2>2. \A i \in Int : i <= 1 /\ 1 <= i => i = 1
    OBVIOUS
  <2>3. Len(s) \in Nat
    OBVIOUS
  <2> HIDE DEF one, T
  <2> QED BY <1>1, <2>1, <2>2, <2>3 DEF one
<1> HIDE DEF m, one, T
<1>3. m # << >> /\ Head(m) = a
  <2>1. m # << >>
    BY <1>2
  <2>2. Head(m) = m[1] /\ 1 \in 1 .. 1 + Len(s) /\ 1 <= 1
    BY <1>2, <2>1
  <2> QED BY <1>2, <2>1, <2>2
<1>4. Tail(m) = s
  <2>1. /\ Tail(m) \in Seq(T) /\ Len(Tail(m)) = Len(m) - 1
        /\ \A i \in 1 .. Len(Tail(m)) : Tail(m)[i] = m[i + 1]
    BY <1>2, <1>3, HeadTailProperties
  <2>2. s \in Seq(T)
    BY DEF T
  <2>3. Len(Tail(m)) = Len(s)
    BY <1>2, <2>1
  <2>4. ASSUME NEW i \in 1 .. Len(s) PROVE Tail(m)[i] = s[i]
    <3>1. i + 1 \in 1 .. 1 + Len(s) /\ ~(i + 1 <= 1) /\ i + 1 - 1 = i
      BY <1>2
    <3> QED BY <1>2, <2>1, <2>3, <3>1
  <2> QED BY <2>1, <2>2, <2>3, <2>4, SeqEqual
<1>5. /\ FlattenSeq(Tail(m)) \in Seq(S)
      /\ FlattenSeq(m) = Head(m) \o FlattenSeq(Tail(m))
  BY <1>2, <1>3, FlattenHead DEF T
<1> QED BY <1>2, <1>3, <1>4, <1>5 DEF m, T

InRow(a, b, c) == a \o (b \o c)

LEMMA FlattenThree ==
  ASSUME NEW S, NEW a \in Seq(S), NEW b \in Seq(S), NEW c \in Seq(S)
  PROVE  /\ <<a, b, c>> \in Seq(Seq(S)) /\ <<a, b, c>> # << >>
         /\ Head(<<a, b, c>>) = a
         /\ FlattenSeq(<<a, b, c>>) = InRow(a, b, c)
         /\ FlattenSeq(<<a, b, c>>) \in Seq(S)
         /\ Len(FlattenSeq(<<a, b, c>>)) = Len(a) + Len(b) + Len(c)
<1> DEFINE T == Seq(S)
<1>1. a \in T /\ b \in T /\ c \in T
  OBVIOUS
<1>2. /\ <<c>> \in Seq(Seq(S)) /\ FlattenSeq(<<c>>) = c
  BY FlattenOne
<1> HIDE DEF T
<1>3. /\ <<a, b, c>> \in Seq(T) /\ <<a, b, c>> # << >>
      /\ Head(<<a, b, c>>) = a /\ Tail(<<a, b, c>>) = <<b, c>>
  BY <1>1
<1>4. /\ <<b, c>> \in Seq(T) /\ <<b, c>> # << >>
      /\ Head(<<b, c>>) = b /\ Tail(<<b, c>>) = <<c>>
  BY <1>1
<1>5. FlattenSeq(<<b, c>>) = b \o FlattenSeq(<<c>>)
      /\ FlattenSeq(<<b, c>>) \in Seq(S)
  BY <1>4, FlattenHead DEF T
<1>6. FlattenSeq(<<a, b, c>>) = a \o FlattenSeq(<<b, c>>)
  BY <1>3, FlattenHead DEF T
<1>7. /\ a \o (b \o c) \in Seq(S) /\ b \o c \in Seq(S)
      /\ Len(a \o (b \o c)) = Len(a) + Len(b) + Len(c)
  <2>1. /\ b \o c \in Seq(S) /\ Len(b \o c) = Len(b) + Len(c)
    BY ConcatProperties
  <2>2. /\ a \o (b \o c) \in Seq(S)
        /\ Len(a \o (b \o c)) = Len(a) + Len(b \o c)
    BY <2>1, ConcatProperties
  <2>3. Len(a) \in Nat /\ Len(b) \in Nat /\ Len(c) \in Nat
    BY LenProperties
  <2> QED BY <2>1, <2>2, <2>3
<1>8. FlattenSeq(<<a, b, c>>) = a \o (b \o c)
  BY <1>2, <1>5, <1>6
<1>9. a \in Seq(S) /\ <<a, b, c>> \in Seq(Seq(S))
  BY <1>3 DEF T
<1> QED BY <1>3, <1>7, <1>8, <1>9 DEF InRow

(* Where the elements of a concatenation come from.                        *)
LEMMA JoinFacts ==
  ASSUME NEW S, NEW s \in Seq(S), NEW t \in Seq(S), NEW u, Joins(u, s, t)
  PROVE  /\ u \in Seq(S) /\ Len(u) = Len(s) + Len(t)
         /\ Len(s) \in Nat /\ Len(t) \in Nat
         /\ \A k \in 1 .. Len(s) : u[k] = s[k]
         /\ \A k \in 1 .. Len(t) : u[Len(s) + k] = t[k]
<1>1. u = s \o t
  BY DEF Joins
<1>2. /\ s \o t \in Seq(S) /\ Len(s \o t) = Len(s) + Len(t)
      /\ \A i \in 1 .. Len(s) + Len(t) :
           (s \o t)[i] = IF i <= Len(s) THEN s[i] ELSE t[i - Len(s)]
  BY ConcatProperties
<1>3. /\ u \in Seq(S) /\ Len(u) = Len(s) + Len(t)
      /\ \A i \in 1 .. Len(s) + Len(t) :
           u[i] = IF i <= Len(s) THEN s[i] ELSE t[i - Len(s)]
  BY <1>1, <1>2
<1>4. Len(s) \in Nat /\ Len(t) \in Nat
  BY LenProperties
<1>5. ASSUME NEW k \in 1 .. Len(s) PROVE u[k] = s[k]
  <2>1. k \in 1 .. Len(s) + Len(t) /\ k <= Len(s)
    BY <1>4
  <2> QED BY <1>3, <2>1
<1>6. ASSUME NEW k \in 1 .. Len(t) PROVE u[Len(s) + k] = t[k]
  <2>1. /\ Len(s) + k \in 1 .. Len(s) + Len(t) /\ ~(Len(s) + k <= Len(s))
        /\ Len(s) + k - Len(s) = k
    BY <1>4
  <2> QED BY <1>3, <2>1
<1> QED BY <1>3, <1>4, <1>5, <1>6

(* fs is h followed by ft, and fn is fs without its first n elements, all  *)
(* of them taken off h.                                                    *)
Parts(S, h, ft, rest, fs, fn, n) ==
  /\ h \in Seq(S) /\ ft \in Seq(S) /\ rest \in Seq(S)
  /\ Joins(fs, h, ft) /\ Joins(fn, rest, ft)
  /\ n \in 0 .. Len(h) /\ Len(rest) = Len(h) - n
  /\ \A k \in 1 .. Len(rest) : rest[k] = h[n + k]
Shorter(h, fs, fn, n) ==
  /\ Len(fn) = Len(fs) - n /\ Len(h) <= Len(fs)
  /\ \A k \in 1 .. Len(fn) : fn[k] = fs[n + k]
  /\ \A k \in 1 .. Len(h) : fs[k] = h[k]

LEMMA DropJoin ==
  \A S, h, ft, rest, fs, fn, n :
    Parts(S, h, ft, rest, fs, fn, n) => Shorter(h, fs, fn, n)
<1> TAKE S, h, ft, rest, fs, fn, n
<1> HAVE Parts(S, h, ft, rest, fs, fn, n)
<1>1. /\ h \in Seq(S) /\ ft \in Seq(S) /\ rest \in Seq(S)
      /\ Joins(fs, h, ft) /\ Joins(fn, rest, ft)
  BY DEF Parts
<1>2. /\ Len(fs) = Len(h) + Len(ft) /\ Len(h) \in Nat /\ Len(ft) \in Nat
      /\ \A k \in 1 .. Len(h) : fs[k] = h[k]
      /\ \A k \in 1 .. Len(ft) : fs[Len(h) + k] = ft[k]
  BY <1>1, JoinFacts
<1>3. /\ Len(fn) = Len(rest) + Len(ft)
      /\ \A k \in 1 .. Len(rest) : fn[k] = rest[k]
      /\ \A k \in 1 .. Len(ft) : fn[Len(rest) + k] = ft[k]
  BY <1>1, JoinFacts
<1>4. /\ Len(rest) = Len(h) - n /\ n \in Nat /\ n <= Len(h)
      /\ \A k \in 1 .. Len(rest) : rest[k] = h[n + k]
  BY <1>2 DEF Parts
<1>5. Len(fn) = Len(fs) - n /\ Len(h) <= Len(fs)
  BY <1>2, <1>3, <1>4
<1>6. ASSUME NEW k \in 1 .. Len(fn) PROVE fn[k] = fs[n + k]
  <2>1. Len(rest) \in Nat /\ k \in Nat /\ 1 <= k /\ k <= Len(rest) + Len(ft)
    BY <1>2, <1>3, <1>4
  <2>2. CASE k <= Len(rest)
    <3>1. k \in 1 .. Len(rest) /\ n + k \in 1 .. Len(h)
      BY <1>2, <1>4, <2>1, <2>2
    <3> QED BY <1>2, <1>3, <1>4, <3>1
  <2>3. CASE k > Len(rest)
    <3>1. PICK j \in 1 .. Len(ft) : k = Len(rest) + j
      <4>1. k - Len(rest) \in 1 .. Len(ft) /\ k = Len(rest) + (k - Len(rest))
        BY <1>2, <2>1, <2>3
      <4> QED BY <4>1
    <3>2. n + k = Len(h) + j
      BY <1>2, <1>4, <3>1
    <3> QED BY <1>2, <1>3, <3>1, <3>2
  <2> QED BY <2>1, <2>2, <2>3
<1> QED BY <1>2, <1>5, <1>6 DEF Shorter

(* Taking the first n elements off the first of several sequences.         *)
Rest(s, n) == SubSeq(Head(s), n + 1, Len(Head(s)))
Dropped(s, n) == IF Rest(s, n) = << >> THEN Tail(s)
                                       ELSE <<Rest(s, n)>> \o Tail(s)

LEMMA DropFront ==
  ASSUME NEW S, NEW s \in Seq(Seq(S)), s # << >>, NEW n \in 0 .. Len(Head(s))
  PROVE  LET next == Dropped(s, n)
         IN /\ next \in Seq(Seq(S)) /\ FlattenSeq(next) \in Seq(S)
            /\ Shorter(Head(s), FlattenSeq(s), FlattenSeq(next), n)
<1> DEFINE h == Head(s)
           t == Tail(s)
           rest == Rest(s, n)
           next == Dropped(s, n)
           ft == FlattenSeq(t)
           fs == FlattenSeq(s)
           fn == FlattenSeq(next)
<1>1. /\ h \in Seq(S) /\ t \in Seq(Seq(S)) /\ ft \in Seq(S) /\ fs \in Seq(S)
      /\ Joins(fs, h, ft)
  <2>1. h \in Seq(S) /\ t \in Seq(Seq(S))
    BY HeadTailProperties
  <2>2. /\ ft \in Seq(S) /\ fs \in Seq(S) /\ fs = h \o ft
    BY FlattenHead
  <2> QED BY <2>1, <2>2 DEF Joins
<1>2. n \in Nat /\ n <= Len(h) /\ Len(h) \in Nat
  BY <1>1, LenProperties
<1>3. rest = SubSeq(h, n + 1, Len(h)) /\ n \in 0 .. Len(h)
  BY DEF Rest
<1> HIDE DEF h, t, ft, fs, fn, rest, next
<1>4. /\ rest \in Seq(S) /\ Len(rest) = Len(h) - n
      /\ \A k \in 1 .. Len(rest) : rest[k] = h[n + k]
  <2>2. \A i \in n + 1 .. Len(h) : h[i] \in S
    <3>1. \A i \in n + 1 .. Len(h) : i \in 1 .. Len(h)
      BY <1>2
    <3> QED BY <1>1, <3>1, ElementOfSeq
  <2>3. /\ rest \in Seq(S)
        /\ Len(rest) = IF n + 1 <= Len(h) THEN Len(h) - (n + 1) + 1 ELSE 0
        /\ \A i \in 1 .. Len(h) - (n + 1) + 1 : rest[i] = h[n + 1 + i - 1]
    <3>1. n + 1 \in Int /\ Len(h) \in Int
      BY <1>2
    <3> QED BY <1>3, <2>2, <3>1, SubSeqProperties
  <2>4. Len(rest) = Len(h) - n /\ Len(h) - (n + 1) + 1 = Len(h) - n
    BY <1>2, <2>3
  <2>5. ASSUME NEW k \in 1 .. Len(rest) PROVE rest[k] = h[n + k]
    <3>1. n + 1 + k - 1 = n + k
      BY <1>2, <2>4
    <3> QED BY <2>3, <2>4, <3>1
  <2> QED BY <2>3, <2>4, <2>5
<1>5. next \in Seq(Seq(S)) /\ fn \in Seq(S) /\ Joins(fn, rest, ft)
  <2>1. CASE rest = << >>
    <3>1. next = t
      BY <2>1 DEF t, rest, next, Dropped
    <3>2. fn = ft
      BY <3>1 DEF fn, ft
    <3>3. << >> \o ft = ft
      BY <1>1, ConcatEmptySeq
    <3> QED BY <1>1, <2>1, <3>1, <3>2, <3>3 DEF Joins
  <2>2. CASE rest # << >>
    <3>1. next = <<rest>> \o t
      BY <2>2 DEF t, rest, next, Dropped
    <3>2. /\ <<rest>> \o t \in Seq(Seq(S)) /\ FlattenSeq(t) \in Seq(S)
          /\ FlattenSeq(<<rest>> \o t) = rest \o FlattenSeq(t)
      BY <1>1, <1>4, FlattenMore, ZenonT(60)
    <3>3. fn = rest \o ft
      BY <3>1, <3>2 DEF fn, ft
    <3>4. rest \o ft \in Seq(S)
      BY <1>1, <1>4, ConcatProperties
    <3> QED BY <3>1, <3>2, <3>3, <3>4 DEF Joins
  <2> QED BY <2>1, <2>2
<1>6. Parts(S, h, ft, rest, fs, fn, n)
  BY <1>1, <1>3, <1>4, <1>5 DEF Parts
<1>7. Shorter(h, fs, fn, n)
  BY <1>6, DropJoin
<1> QED BY <1>5, <1>7 DEF h, fs, fn, next

-----------------------------------------------------------------------------
(* A function that is defined by recursion from 0 on exists.               *)
IsRule(F, n, S) == F \in [1 .. n -> [S -> S]]
Follows(f, F, n, a, S) == /\ f \in [0 .. n -> S] /\ f[0] = a
                          /\ \A k \in 1 .. n : f[k] = F[k][f[k - 1]]

LEMMA RecursionExists ==
  ASSUME NEW S, NEW n \in Nat, NEW a \in S, NEW F, IsRule(F, n, S)
  PROVE  \E f : Follows(f, F, n, a, S)
<1> USE DEF IsRule, Follows
<1> DEFINE Has(f, m) == Follows(f, F, m, a, S)
           bad == {m \in 0 .. n : ~ \E f : Has(f, m)}
<1>1. SUFFICES ASSUME bad # {} PROVE FALSE
  <2>1. n \in 0 .. n
    OBVIOUS
  <2> QED
    BY <2>1
<1>2. PICK x \in bad : \A y \in bad : x <= y
  <2>1. bad \subseteq Nat
    OBVIOUS
  <2> HIDE DEF bad
  <2> QED
    BY <1>1, <2>1, LeastElement
<1>3. x \in 0 .. n /\ x \in Nat /\ ~ \E f : Has(f, x)
  OBVIOUS
<1>4. x # 0
  <2>1. Has([k \in 0 .. 0 |-> a], 0)
    OBVIOUS
  <2> QED
    BY <1>3, <2>1
<1>5. x - 1 \in 0 .. n /\ x - 1 \notin bad
  <2>1. x - 1 \in 0 .. n /\ ~(x <= x - 1)
    BY <1>3, <1>4
  <2> HIDE DEF bad
  <2> QED
    BY <2>1, <1>2
<1>6. PICK f : Has(f, x - 1)
  BY <1>5
<1> DEFINE last == F[x][f[x - 1]]
           g == [k \in 0 .. x |-> IF k = x THEN last ELSE f[k]]
<1>7. last \in S
  <2>1. x \in 1 .. n /\ x - 1 \in 0 .. x - 1
    BY <1>3, <1>4
  <2>2. F[x] \in [S -> S] /\ f[x - 1] \in S
    BY <1>6, <2>1
  <2> QED
    BY <2>2
<1>8. \A k \in 0 .. x : k = x \/ (k \in 0 .. x - 1 /\ k # x)
  BY <1>3
<1>9. g \in [0 .. x -> S]
  <2> HIDE DEF last
  <2> QED
    BY <1>6, <1>7, <1>8
<1>10. g[0] = a
  BY <1>3, <1>4, <1>6
<1>11. ASSUME NEW k \in 1 .. x
       PROVE  g[k] = F[k][g[k - 1]]
  <2>1. k \in 0 .. x /\ k - 1 \in 0 .. x /\ k - 1 # x
    BY <1>3
  <2>2. g[k - 1] = f[k - 1]
    BY <2>1
  <2>3. CASE k = x
    BY <2>1, <2>2, <2>3
  <2>4. CASE k # x
    <3>1. k \in 1 .. x - 1 /\ g[k] = f[k]
      BY <1>3, <2>1, <2>4
    <3> QED
      BY <1>6, <2>2, <3>1
  <2> QED
    BY <2>3, <2>4
<1>12. Has(g, x)
  <2> HIDE DEF g
  <2> QED
    BY <1>9, <1>10, <1>11
<1> QED
  BY <1>3, <1>12
=============================================================================
