-------------------------- MODULE RttPrintf_proofs --------------------------
(***************************************************************************)
(* Proofs about SEGGER_RTT_printf: how a text gets to the up-buffer, for   *)
(* every chunk size, buffer, set of lengths of texts and set of tasks and  *)
(* for each of the three modes; and that it shows an integer as ISO C has  *)
(* it, for every word size, argument, width, precision and set of flags.   *)
(***************************************************************************)
EXTENDS RttPrintf, PrintfUtil_proofs

(* The tasks that log, alone: module MCPrintf runs NextRtt beside          *)
(* NextFormat, which leaves these variables alone.                         *)
RttSpec == InitRtt /\ [][NextRtt]_rttVars

RttTypes == /\ mode \in Modes /\ stream \in Seq(Nat \X Nat)
            /\ texts \in Seq(Nat)
            /\ results \in Seq(Int) /\ Len(results) = Len(texts)
            /\ call \in [Printers -> Nat] /\ taken \in [Printers -> Nat]

(* A call in progress: all that it passed on is stored, in whole chunks.   *)
InChunks(n) == \E q \in Nat : n = q * ChunkSize
CallInv(t) ==
  call[t] # 0 =>
    /\ call[t] \in DOMAIN texts /\ results[call[t]] = Running
    /\ taken[t] <= texts[call[t]] /\ InChunks(taken[t])
    /\ Cardinality(Shown(call[t])) = taken[t]
    /\ \A u \in Printers : call[u] = call[t] => u = t

(* Each character is of a text, and the next one of it.                    *)
StreamInv == \A j \in DOMAIN stream : stream[j][1] \in DOMAIN texts

(* ShortTextsWhole, of one text.                                           *)
ShortWhole(c) ==
  texts[c] < ChunkSize =>
    /\ \A j, k \in Shown(c) : j - k < Cardinality(Shown(c))
    /\ mode # "trim" => Cardinality(Shown(c)) \in {0, texts[c]}

RttInv == /\ RttTypes /\ StreamInv /\ \A t \in Printers : CallInv(t)
          /\ CutOnlyAtTheEnd
          /\ \A c \in DOMAIN texts : ShortWhole(c)

-----------------------------------------------------------------------------
(* The places of a call are finitely many.                                 *)
LEMMA ShownFinite ==
  ASSUME RttTypes, NEW c
  PROVE  /\ Shown(c) \subseteq 1 .. Len(stream) /\ Len(stream) \in Nat
         /\ IsFiniteSet(Shown(c)) /\ Cardinality(Shown(c)) \in Nat
<1>1. Len(stream) \in Nat /\ DOMAIN stream = 1 .. Len(stream)
  BY DEF RttTypes
<1>2. Shown(c) \subseteq 1 .. Len(stream)
  BY <1>1 DEF Shown
<1> QED
  BY <1>1, <1>2, UpToFinite, Zenon

(* Adding k places behind all others.                                      *)
LEMMA PlacesBehind ==
  ASSUME NEW top \in Nat, NEW S, S \subseteq 1 .. top, NEW k \in Nat
  PROVE  /\ IsFiniteSet(S \cup (top + 1 .. top + k))
         /\ Cardinality(S \cup (top + 1 .. top + k)) = Cardinality(S) + k
<1>1. IsFiniteSet(S) /\ Cardinality(S) \in Nat
  BY UpToFinite
<1>2. /\ IsFiniteSet(top + 1 .. top + k)
      /\ Cardinality(top + 1 .. top + k) = k
  <2>1. top + 1 \in Int /\ top + k \in Int
    OBVIOUS
  <2>2. /\ IsFiniteSet(top + 1 .. top + k)
        /\ Cardinality(top + 1 .. top + k) =
             IF top + 1 > top + k THEN 0 ELSE (top + k) - (top + 1) + 1
    BY <2>1, FS_Interval, Zenon
  <2> QED BY <2>2
<1>3. S \cap (top + 1 .. top + k) = {}
  OBVIOUS
<1> DEFINE T == top + 1 .. top + k
<1> HIDE DEF T
<1>4. IsFiniteSet(T) /\ Cardinality(T) = k /\ S \cap T = {}
  BY <1>2, <1>3 DEF T
<1>5. /\ IsFiniteSet(S \cup T)
      /\ Cardinality(S \cup T) =
           Cardinality(S) + Cardinality(T) - Cardinality({})
  BY <1>1, <1>4, FS_Union, Zenon
<1>6. Cardinality(S \cup T) = Cardinality(S) + k
  BY <1>1, <1>4, <1>5, FS_EmptySet
<1> QED
  BY <1>5, <1>6 DEF T

(* The characters from + 1 .. from + k of call c are stored behind all     *)
(* others, and no other call has a place among them.                       *)
Grows(c, from, k) ==
  /\ stream' \in Seq(Nat \X Nat) /\ Len(stream') = Len(stream) + k
  /\ \A i \in 1 .. Len(stream) : stream'[i] = stream[i]
  /\ \A j \in 1 .. k : stream'[Len(stream) + j] = <<c, from + j>>
  /\ \A d : d # c => Shown(d)' = Shown(d)
  /\ Shown(c)' = Shown(c) \cup (Len(stream) + 1 .. Len(stream) + k)
  /\ Cardinality(Shown(c))' = Cardinality(Shown(c)) + k

(* SEGGER_RTT_Write stores the next characters of its call.                *)
LEMMA WriteAdds ==
  ASSUME RttTypes, NEW t \in Printers, NEW n \in Nat, NEW k \in Nat,
         NEW c \in Nat, c = call[t], Write(t, n, k)
  PROVE  Grows(c, taken[t], k)
<1> DEFINE added == [j \in 1 .. k |-> <<c, taken[t] + j>>]
           L == Len(stream)
<1>1. /\ stream' = stream \o added /\ stream \in Seq(Nat \X Nat)
      /\ L \in Nat /\ taken[t] \in Nat
  BY DEF Write, RttTypes
<1>2. added \in Seq(Nat \X Nat) /\ Len(added) = k
      /\ \A j \in 1 .. k : added[j] = <<c, taken[t] + j>>
  <2>1. \A j \in 1 .. k : <<c, taken[t] + j>> \in Nat \X Nat
    BY <1>1
  <2> QED BY <2>1
<1> HIDE DEF added
<1>3. /\ stream' \in Seq(Nat \X Nat) /\ Len(stream') = L + k
      /\ \A i \in 1 .. L : stream'[i] = stream[i]
      /\ \A j \in 1 .. k : stream'[L + j] = <<c, taken[t] + j>>
  <2>1. stream \o added \in Seq(Nat \X Nat) /\ Len(stream \o added) = L + k
    BY <1>1, <1>2, ConcatProperties
  <2>2. \A i \in 1 .. L + k : (stream \o added)[i] =
           IF i <= L THEN stream[i] ELSE added[i - L]
    BY <1>1, <1>2, ConcatProperties
  <2>3. ASSUME NEW j \in 1 .. k
        PROVE  (stream \o added)[L + j] = <<c, taken[t] + j>>
    <3>1. L + j \in 1 .. L + k /\ ~(L + j <= L) /\ L + j - L = j
      BY <1>1
    <3> QED BY <1>2, <2>2, <3>1
  <2>4. \A i \in 1 .. L : i \in 1 .. L + k /\ i <= L
    BY <1>1
  <2> QED BY <1>1, <2>1, <2>2, <2>3, <2>4
<1>4. DOMAIN stream = 1 .. L /\ DOMAIN stream' = 1 .. L + k
  BY <1>1, <1>3
<1>5. ASSUME NEW i \in L + 1 .. L + k
      PROVE  stream'[i][1] = c
  <2>1. i - L \in 1 .. k /\ L + (i - L) = i
    BY <1>1
  <2>2. stream'[L + (i - L)] = <<c, taken[t] + (i - L)>>
    BY <1>3, <2>1
  <2> QED BY <2>1, <2>2
<1>6. \A i \in 1 .. L + k : i \in 1 .. L \/ i \in L + 1 .. L + k
  BY <1>1
<1>7. \A i \in 1 .. L : i \in 1 .. L + k /\ i \notin L + 1 .. L + k
  BY <1>1
<1>8. \A i \in L + 1 .. L + k : i \in 1 .. L + k
  BY <1>1
<1> HIDE DEF L
<1>9. \A d : Shown(d)' = {i \in 1 .. L + k : stream'[i][1] = d}
  BY <1>4 DEF Shown
<1>10. \A d : Shown(d) = {i \in 1 .. L : stream[i][1] = d}
  BY <1>4 DEF Shown
<1>11. \A d : d # c => Shown(d)' = Shown(d)
  BY <1>3, <1>5, <1>6, <1>7, <1>9, <1>10
<1>12. Shown(c)' = Shown(c) \cup (L + 1 .. L + k)
  BY <1>3, <1>5, <1>6, <1>7, <1>8, <1>9, <1>10
<1>13. Shown(c) \subseteq 1 .. L
  BY <1>10
<1>14. Cardinality(Shown(c))' = Cardinality(Shown(c)) + k
  <2>1. \A m \in Nat : \A S : S \subseteq 1 .. m =>
           Cardinality(S \cup (m + 1 .. m + k)) = Cardinality(S) + k
    <3> SUFFICES ASSUME NEW m \in Nat, NEW S, S \subseteq 1 .. m
                 PROVE  Cardinality(S \cup (m + 1 .. m + k)) = Cardinality(S) + k
      OBVIOUS
    <3> QED BY ONLY PlacesBehind, m \in Nat, k \in Nat, S \subseteq 1 .. m
  <2> QED BY <1>1, <1>12, <1>13, <2>1, ZenonT(60)
<1> QED
  BY <1>3, <1>11, <1>12, <1>14 DEF L, Grows

-----------------------------------------------------------------------------
(* What is true of every text before a write is true of the others after   *)
(* it, and of the text written to: its characters are the next ones.       *)
LEMMA WriteOfCall ==
  ASSUME RttTypes, StreamInv, CutOnlyAtTheEnd,
         NEW t \in Printers, NEW n \in Nat, NEW k \in Nat,
         NEW c \in Nat, c = call[t], c \in DOMAIN texts,
         Cardinality(Shown(c)) = taken[t],
         Write(t, n, k), texts' = texts
  PROVE  StreamInv' /\ CutOnlyAtTheEnd'
<1> DEFINE L == Len(stream)
<1>1. /\ Len(stream') = L + k /\ L \in Nat /\ taken[t] \in Nat
      /\ \A i \in 1 .. L : stream'[i] = stream[i]
      /\ \A j \in 1 .. k : stream'[L + j] = <<c, taken[t] + j>>
      /\ \A d : d # c => Shown(d)' = Shown(d)
      /\ Shown(c)' = Shown(c) \cup (L + 1 .. L + k)
  <2>1. Grows(c, taken[t], k)
    BY WriteAdds
  <2>2. Len(stream) \in Nat /\ taken[t] \in Nat
    BY DEF RttTypes
  <2> QED BY <2>1, <2>2 DEF Grows
<1>2. \A d : Shown(d) \subseteq 1 .. L
  BY ShownFinite
<1>3. DOMAIN stream' = 1 .. L + k /\ DOMAIN stream = 1 .. L
  <2>1. Grows(c, taken[t], k)
    BY WriteAdds
  <2> QED BY <1>1, <2>1 DEF Grows, RttTypes
<1>4. \A i \in 1 .. L + k : i \in 1 .. L \/ \E j \in 1 .. k : i = L + j
  <2> SUFFICES ASSUME NEW i \in 1 .. L + k, i \notin 1 .. L
               PROVE  \E j \in 1 .. k : i = L + j
    OBVIOUS
  <2>1. i - L \in 1 .. k /\ i = L + (i - L)
    BY <1>1
  <2> QED BY <2>1
<1> HIDE DEF L
<1>5. StreamInv'
  <2> SUFFICES ASSUME NEW i \in 1 .. L + k
               PROVE  stream'[i][1] \in DOMAIN texts
    BY <1>3 DEF StreamInv
  <2>1. CASE i \in 1 .. L
    BY <1>1, <1>3, <2>1 DEF StreamInv
  <2>2. CASE \E j \in 1 .. k : i = L + j
    BY <1>1, <2>2
  <2> QED BY <1>4, <2>1, <2>2
<1>6. ASSUME NEW d \in DOMAIN texts, NEW m \in Shown(d)'
      PROVE  stream'[m][2] = Cardinality(Shown(d)' \cap 1 .. m)
  <2>1. \A b \in Shown(d) : /\ b \in 1 .. L /\ stream'[b] = stream[b]
                             /\ stream[b][2] = Cardinality(Shown(d) \cap 1 .. b)
    BY <1>1, <1>2 DEF CutOnlyAtTheEnd
  <2>2. CASE d # c
    BY <1>1, <2>1, <2>2
  <2>3. CASE d = c /\ m \in Shown(c)
    <3>1. Shown(c)' \cap 1 .. m = Shown(c) \cap 1 .. m
      <4>1. m \in 1 .. L
        BY <2>1, <2>3
      <4>2. (L + 1 .. L + k) \cap 1 .. m = {}
        BY <1>1, <4>1
      <4> QED BY <1>1, <4>2
    <3> QED BY <2>1, <2>3, <3>1
  <2>4. CASE d = c /\ m \notin Shown(c)
    <3>1. m \in L + 1 .. L + k
      BY <1>1, <2>4
    <3>2. PICK j \in 1 .. k : m = L + j
      <4>1. m - L \in 1 .. k /\ m = L + (m - L)
        BY <1>1, <3>1
      <4> QED BY <4>1
    <3>3. Shown(c)' \cap 1 .. m = Shown(c) \cup (L + 1 .. L + j)
      <4>1. (L + 1 .. L + k) \cap 1 .. m = L + 1 .. L + j
        BY <1>1, <3>2
      <4>2. 1 .. L \subseteq 1 .. m
        BY <1>1, <3>2
      <4> QED BY <1>1, <1>2, <4>1, <4>2
    <3>4. Cardinality(Shown(c) \cup (L + 1 .. L + j)) = taken[t] + j
      <4>1. j \in Nat /\ Shown(c) \subseteq 1 .. L
        BY <1>2, <3>2
      <4>2. \A S : S \subseteq 1 .. L =>
               Cardinality(S \cup (L + 1 .. L + j)) = Cardinality(S) + j
        <5> SUFFICES ASSUME NEW S, S \subseteq 1 .. L
              PROVE  Cardinality(S \cup (L + 1 .. L + j)) = Cardinality(S) + j
          OBVIOUS
        <5>1. L \in Nat
          BY <1>1
        <5> QED BY ONLY PlacesBehind, <5>1, <4>1, S \subseteq 1 .. L
      <4> QED BY <4>1, <4>2
    <3>5. stream'[m][2] = taken[t] + j
      BY <1>1, <3>2
    <3> QED BY <2>4, <3>3, <3>4, <3>5
  <2> QED BY <2>2, <2>3, <2>4
<1>7. CutOnlyAtTheEnd'
  BY <1>6 DEF CutOnlyAtTheEnd
<1> QED BY <1>5, <1>7

-----------------------------------------------------------------------------
(* A text whose characters and length a step leaves alone.                 *)
LEMMA TextKept ==
  ASSUME NEW c, Shown(c)' = Shown(c), texts'[c] = texts[c],
         mode' = mode, ShortWhole(c)
  PROVE  ShortWhole(c)'
  BY DEF ShortWhole

(* A call that a step of task t leaves alone.                              *)
LEMMA CallKept ==
  ASSUME RttTypes, NEW t \in Printers, NEW u \in Printers, u # t,
         CallInv(u), CallInv(t), call[t] # 0,
         \A v \in Printers : v # t => call'[v] = call[v] /\ taken'[v] = taken[v],
         call'[t] \in {0, call[t]},
         \A d \in DOMAIN texts : d # call[t] => /\ Shown(d)' = Shown(d)
                                              /\ results'[d] = results[d],
         texts' = texts
  PROVE  CallInv(u)'
<1> SUFFICES ASSUME call[u] # 0
             PROVE  CallInv(u)'
  BY DEF CallInv
<1>1. call'[u] = call[u] /\ taken'[u] = taken[u]
  OBVIOUS
<1>2. /\ call[u] \in DOMAIN texts /\ results[call[u]] = Running
      /\ taken[u] <= texts[call[u]] /\ InChunks(taken[u])
      /\ Cardinality(Shown(call[u])) = taken[u]
      /\ \A v \in Printers : call[v] = call[u] => v = u
  BY DEF CallInv
<1>3. call[u] # call[t]
  BY <1>2
<1>4. Shown(call[u])' = Shown(call[u]) /\ results'[call[u]] = Running
  BY <1>1, <1>2, <1>3 DEF Shown, Running, None
<1>5. \A v \in Printers : call'[v] = call'[u] => v = u
  BY <1>1, <1>2, <1>3
<1>6. InChunks(taken'[u])
  BY <1>1, <1>2
<1> QED
  BY <1>1, <1>2, <1>4, <1>5, <1>6 DEF CallInv, InChunks, Running, None

-----------------------------------------------------------------------------
(* The invariant holds before any text.                                    *)
LEMMA RttStarts == InitRtt => RttInv
<1> SUFFICES ASSUME InitRtt
             PROVE  RttInv
  OBVIOUS
<1>1. RttTypes /\ DOMAIN texts = {} /\ DOMAIN stream = {}
  BY DEF InitRtt, RttTypes
<1>2. \A t \in Printers : CallInv(t)
  BY DEF InitRtt, CallInv
<1> QED
  BY <1>1, <1>2 DEF RttInv, StreamInv, CutOnlyAtTheEnd

(* A new call: nothing of it is stored yet.                                *)
LEMMA CallStep ==
  ASSUME RttInv, NEW t \in Printers, NEW n \in Lengths, Call(t, n)
  PROVE  RttInv'
<1> DEFINE c == Len(texts) + 1
<1>1. /\ RttTypes /\ StreamInv /\ \A u \in Printers : CallInv(u)
      /\ CutOnlyAtTheEnd
      /\ \A d \in DOMAIN texts : ShortWhole(d)
  BY DEF RttInv
<1>2. /\ texts \in Seq(Nat) /\ results \in Seq(Int)
      /\ Len(results) = Len(texts) /\ Len(texts) \in Nat
      /\ call \in [Printers -> Nat] /\ taken \in [Printers -> Nat]
      /\ n \in Nat /\ Running \in Int
  BY <1>1, ChunkAssumption DEF RttTypes, Running, None
<1>3. /\ texts' = Append(texts, n) /\ results' = Append(results, Running)
      /\ call' = [call EXCEPT ![t] = c] /\ taken' = [taken EXCEPT ![t] = 0]
      /\ mode' = mode /\ stream' = stream /\ call[t] = 0
  BY DEF Call
<1>4. /\ texts' \in Seq(Nat) /\ results' \in Seq(Int)
      /\ Len(texts') = c /\ Len(results') = c
      /\ DOMAIN texts = 1 .. c - 1 /\ DOMAIN texts' = 1 .. c
      /\ \A d \in 1 .. c - 1 : texts'[d] = texts[d] /\ results'[d] = results[d]
      /\ texts'[c] = n /\ results'[c] = Running
  BY <1>2, <1>3
<1>5. /\ c \in Nat /\ c \notin 1 .. c - 1 /\ c \in 1 .. c /\ c # 0
      /\ \A d \in 1 .. c : d = c \/ d \in 1 .. c - 1
      /\ \A d \in 1 .. c - 1 : d \in 1 .. c /\ d # c
  BY <1>2
<1> HIDE DEF c
<1>6. \A d : Shown(d)' = Shown(d)
  BY <1>3 DEF Shown
<1>7. Shown(c) = {}
  BY <1>1, <1>4, <1>5 DEF Shown, StreamInv
<1>8. RttTypes'
  <2>1. call' \in [Printers -> Nat] /\ taken' \in [Printers -> Nat]
    BY <1>2, <1>3, <1>5
  <2> QED
    BY <1>1, <1>3, <1>4, <2>1 DEF RttTypes
<1>9. StreamInv' /\ CutOnlyAtTheEnd'
  <2>1. StreamInv'
    BY <1>1, <1>3, <1>4, <1>5 DEF StreamInv
  <2>2. ASSUME NEW d \in DOMAIN texts', NEW k \in Shown(d)'
        PROVE  stream'[k][2] = Cardinality(Shown(d)' \cap 1 .. k)
    <3>1. d \in DOMAIN texts /\ k \in Shown(d)
      BY <1>4, <1>5, <1>6, <1>7, <2>2
    <3> QED
      BY <1>1, <1>3, <1>6, <3>1 DEF CutOnlyAtTheEnd
  <2> QED
    BY <2>1, <2>2 DEF CutOnlyAtTheEnd
<1>10. ASSUME NEW d \in DOMAIN texts'
       PROVE  ShortWhole(d)'
  <2>1. CASE d \in 1 .. c - 1
    BY <1>1, <1>3, <1>4, <1>6, <2>1, TextKept
  <2>2. CASE d = c
    <3>1. Shown(d)' = {} /\ Cardinality(Shown(d))' = 0
      BY <1>6, <1>7, <2>2, FS_EmptySet
    <3> QED
      BY <1>4, <2>2, <3>1 DEF ShortWhole
  <2> QED
    BY <1>4, <1>5, <2>1, <2>2
<1>11. ASSUME NEW u \in Printers
       PROVE  CallInv(u)'
  <2>1. CASE u = t
    <3>1. call'[t] = c /\ taken'[t] = 0
      BY <1>2, <1>3
    <3>2. Cardinality(Shown(call[t]))' = 0
      <4>1. Shown(call[t])' = {}
        BY <1>3, <1>7, <3>1 DEF Shown
      <4> QED
        BY <4>1, FS_EmptySet
    <3>3. \A v \in Printers : call'[v] = c => v = t
      <4> SUFFICES ASSUME NEW v \in Printers, call'[v] = c, v # t
                   PROVE  FALSE
        OBVIOUS
      <4>1. call[v] = c
        BY <1>2, <1>3
      <4> QED
        BY <1>1, <1>4, <1>5, <4>1 DEF CallInv
    <3>4. InChunks(0)
      <4>1. 0 = 0 * ChunkSize
        BY ChunkAssumption
      <4> QED
        BY <4>1 DEF InChunks
    <3>5. InChunks(taken[t])'
      BY <3>1, <3>4 DEF InChunks
    <3> QED
      BY <1>2, <1>4, <1>5, <2>1, <3>1, <3>2, <3>3, <3>5
      DEF CallInv, Running, None
  <2>2. CASE u # t /\ call[u] # 0
    <3>1. call'[u] = call[u] /\ taken'[u] = taken[u] /\ call'[t] = c
      BY <1>2, <1>3, <2>2
    <3>2. /\ call[u] \in DOMAIN texts /\ results[call[u]] = Running
          /\ taken[u] <= texts[call[u]] /\ InChunks(taken[u])
          /\ Cardinality(Shown(call[u])) = taken[u]
          /\ \A v \in Printers : call[v] = call[u] => v = u
      BY <1>1, <2>2 DEF CallInv
    <3>3. \A v \in Printers : call'[v] = call'[u] => v = u
      <4> SUFFICES ASSUME NEW v \in Printers, call'[v] = call'[u]
                   PROVE  v = u
        OBVIOUS
      <4>1. CASE v = t
        BY <1>4, <1>5, <3>1, <3>2, <4>1
      <4>2. CASE v # t
        BY <1>2, <1>3, <3>1, <3>2, <4>2
      <4> QED
        BY <4>1, <4>2
    <3>4. InChunks(taken[u])'
      BY <3>1, <3>2 DEF InChunks
    <3>5. Cardinality(Shown(call[u]))' = taken[u]
      BY <1>6, <3>1, <3>2
    <3> QED
      BY <1>4, <1>5, <3>1, <3>2, <3>3, <3>4, <3>5
      DEF CallInv, Running, None
  <2>3. CASE u # t /\ call[u] = 0
    BY <1>2, <1>3, <2>3 DEF CallInv
  <2> QED
    BY <2>1, <2>2, <2>3
<1> QED
  BY <1>8, <1>9, <1>10, <1>11 DEF RttInv

-----------------------------------------------------------------------------
(* A write by a task: what follows for the other tasks and texts, and for  *)
(* the one text it leaves to show.                                         *)
LEMMA WriteStep ==
  ASSUME RttInv, NEW t \in Printers, NEW c \in Nat, c = call[t], c # 0,
         NEW n \in Nat, NEW k \in Nat, Write(t, n, k),
         texts' = texts, mode' = mode, RttTypes', CallInv(t)',
         \A v \in Printers : v # t => call'[v] = call[v] /\ taken'[v] = taken[v],
         call'[t] \in {0, c},
         \A d \in DOMAIN texts : d # c => results'[d] = results[d],
         ShortWhole(c)'
  PROVE  RttInv'
<1>1. /\ RttTypes /\ StreamInv /\ \A u \in Printers : CallInv(u)
      /\ CutOnlyAtTheEnd
      /\ \A d \in DOMAIN texts : ShortWhole(d)
  BY DEF RttInv
<1>2. c \in DOMAIN texts /\ Cardinality(Shown(c)) = taken[t]
  BY <1>1 DEF CallInv
<1>3. StreamInv' /\ CutOnlyAtTheEnd'
  BY <1>1, <1>2, WriteOfCall
<1>4. \A d : d # c => Shown(d)' = Shown(d)
  <2>1. Grows(c, taken[t], k)
    BY <1>1, WriteAdds
  <2> QED
    BY <2>1 DEF Grows
<1>5. ASSUME NEW d \in DOMAIN texts'
      PROVE  ShortWhole(d)'
  <2>1. CASE d = c
    BY <2>1
  <2>2. CASE d # c
    BY <1>1, <1>4, <1>5, <2>2, TextKept
  <2> QED
    BY <2>1, <2>2
<1>6. ASSUME NEW u \in Printers
      PROVE  CallInv(u)'
  <2>1. CASE u = t
    BY <2>1
  <2>2. CASE u # t
    BY <1>1, <1>4, <2>2, CallKept
  <2> QED
    BY <2>1, <2>2
<1> QED
  BY <1>3, <1>5, <1>6 DEF RttInv

(* A task in the middle of a text.                                         *)
LEMMA Midway ==
  ASSUME RttInv, NEW t \in Printers, call[t] # 0
  PROVE  /\ call[t] \in Nat /\ call[t] \in DOMAIN texts
         /\ call[t] \in DOMAIN results /\ texts[call[t]] \in Nat
         /\ taken[t] \in Nat /\ taken[t] <= texts[call[t]]
         /\ InChunks(taken[t]) /\ results[call[t]] = Running
         /\ Cardinality(Shown(call[t])) = taken[t]
         /\ \A u \in Printers : call[u] = call[t] => u = t
         /\ ChunkSize \in Nat /\ ChunkSize > 0 /\ mode \in Modes
<1>1. RttTypes /\ CallInv(t)
  BY DEF RttInv
<1>2. DOMAIN texts = DOMAIN results
  BY <1>1 DEF RttTypes
<1> QED
  BY <1>1, <1>2, ChunkAssumption DEF RttTypes, CallInv

(* A full chunk, stored or refused.                                        *)
LEMMA StoreChunkStep ==
  ASSUME RttInv, NEW t \in Printers, StoreChunk(t)
  PROVE  RttInv'
<1>c. PICK c \in Nat : c = call[t]
  BY DEF RttInv, RttTypes
<1>1. PICK k \in 0 .. ChunkSize :
        /\ Write(t, ChunkSize, k)
        /\ \/ k # ChunkSize /\ Returns(t, None)
           \/ /\ k = ChunkSize
              /\ taken' = [taken EXCEPT ![t] = @ + ChunkSize]
              /\ UNCHANGED <<call, results>>
  BY DEF StoreChunk
<1>2. /\ c # 0 /\ texts[c] - taken[t] >= ChunkSize
      /\ mode' = mode /\ texts' = texts
  BY <1>c DEF StoreChunk, Left
<1>3. /\ c \in Nat /\ c \in DOMAIN texts
      /\ c \in DOMAIN results /\ texts[c] \in Nat
      /\ taken[t] \in Nat /\ taken[t] <= texts[c]
      /\ InChunks(taken[t]) /\ results[c] = Running
      /\ Cardinality(Shown(c)) = taken[t]
      /\ \A u \in Printers : call[u] = c => u = t
      /\ ChunkSize \in Nat /\ ChunkSize > 0 /\ mode \in Modes
  BY <1>2, <1>c, Midway
<1>4. /\ RttTypes /\ results \in Seq(Int) /\ texts \in Seq(Nat)
      /\ call \in [Printers -> Nat] /\ taken \in [Printers -> Nat]
  BY DEF RttInv, RttTypes
<1>5. k \in Nat /\ texts[c] >= ChunkSize
  BY <1>2, <1>3
<1>7. Grows(c, taken[t], k)
  BY <1>1, <1>3, <1>4, <1>5, <1>c, WriteAdds
<1>8. /\ stream' \in Seq(Nat \X Nat)
      /\ Cardinality(Shown(c))' = taken[t] + k
  BY <1>3, <1>7 DEF Grows
<1>9. ShortWhole(c)'
  BY <1>2, <1>3, <1>5 DEF ShortWhole
<1>10. CASE k # ChunkSize /\ Returns(t, None)
  <2>1. /\ results' = [results EXCEPT ![c] = None]
        /\ call' = [call EXCEPT ![t] = 0] /\ taken' = [taken EXCEPT ![t] = 0]
    BY <1>c, <1>10 DEF Returns
  <2>2. /\ results' \in Seq(Int) /\ Len(results') = Len(results)
        /\ results'[c] = None
        /\ \A d \in DOMAIN texts : d # c => results'[d] = results[d]
    BY <1>3, <1>4, <2>1 DEF None, RttTypes
  <2>3. RttTypes'
    BY <1>2, <1>4, <1>8, <2>1, <2>2 DEF RttTypes
  <2>4. CallInv(t)' /\ call'[t] \in {0, c}
    BY <1>4, <2>1 DEF CallInv
  <2>6. \A v \in Printers : v # t => call'[v] = call[v] /\ taken'[v] = taken[v]
    BY <1>4, <2>1
  <2> QED
    BY <1>1, <1>2, <1>3, <1>5, <1>c, <1>9, <2>2, <2>3, <2>4, <2>6,
       WriteStep
<1>11. CASE /\ k = ChunkSize
            /\ taken' = [taken EXCEPT ![t] = @ + ChunkSize]
            /\ UNCHANGED <<call, results>>
  <2>1. taken' \in [Printers -> Nat] /\ taken'[t] = taken[t] + ChunkSize
    BY <1>3, <1>4, <1>11
  <2>2. RttTypes'
    BY <1>2, <1>4, <1>8, <1>11, <2>1 DEF RttTypes
  <2>3. InChunks(taken'[t])
    <3>1. PICK q \in Nat : taken[t] = q * ChunkSize
      BY <1>3 DEF InChunks
    <3>2. taken'[t] = (q + 1) * ChunkSize /\ q + 1 \in Nat
      BY <1>3, <2>1, <3>1
    <3> QED
      BY <3>2 DEF InChunks
  <2>4. CallInv(t)' /\ call'[t] \in {0, c}
    <3>1. call' = call /\ results' = results /\ call'[t] = c
      BY <1>c, <1>11
    <3>2. taken'[t] <= texts'[c]
      BY <1>2, <1>3, <2>1
    <3>3. Cardinality(Shown(call[t]))' = taken'[t]
      <4>1. Shown(call[t])' = Shown(c)'
        BY <3>1 DEF Shown
      <4> QED
        BY <1>8, <1>11, <2>1, <4>1
    <3>4. InChunks(taken[t])'
      BY <2>3 DEF InChunks
    <3> QED
      BY <1>2, <1>3, <3>1, <3>2, <3>3, <3>4 DEF CallInv, Running, None
  <2>6. \A v \in Printers : v # t => call'[v] = call[v] /\ taken'[v] = taken[v]
    BY <1>4, <1>11
  <2>7. \A d \in DOMAIN texts : d # c => results'[d] = results[d]
    BY <1>11
  <2> QED
    BY <1>1, <1>2, <1>3, <1>5, <1>c, <1>9, <2>2, <2>4, <2>6, <2>7,
       WriteStep
<1> QED
  BY <1>1, <1>10, <1>11

(* The end of a text.  What is left of it is less than a chunk, so what    *)
(* was stored before are all its whole chunks.                             *)
LEMMA StoreRestStep ==
  ASSUME RttInv, NEW t \in Printers, StoreRest(t)
  PROVE  RttInv'
<1>c. PICK c \in Nat : c = call[t]
  BY DEF RttInv, RttTypes
<1>n. PICK n : n = texts[c] - taken[t]
  OBVIOUS
<1>1. PICK k \in 0 .. ChunkSize : Write(t, n, k)
  BY <1>n, <1>c DEF StoreRest, Left
<1>2. /\ c # 0 /\ n < ChunkSize /\ Returns(t, texts[c] + n)
      /\ mode' = mode /\ texts' = texts
  BY <1>n, <1>c DEF StoreRest, Left
<1>3. /\ c \in Nat /\ c \in DOMAIN texts
      /\ c \in DOMAIN results /\ texts[c] \in Nat
      /\ taken[t] \in Nat /\ taken[t] <= texts[c]
      /\ InChunks(taken[t]) /\ results[c] = Running
      /\ Cardinality(Shown(c)) = taken[t]
      /\ \A u \in Printers : call[u] = c => u = t
      /\ ChunkSize \in Nat /\ ChunkSize > 0 /\ mode \in Modes
  BY <1>2, <1>c, Midway
<1>4. /\ RttTypes /\ results \in Seq(Int) /\ texts \in Seq(Nat)
      /\ call \in [Printers -> Nat] /\ taken \in [Printers -> Nat]
  BY DEF RttInv, RttTypes
<1>5. k \in Nat /\ n \in Nat /\ texts[c] = taken[t] + n
  BY <1>n, <1>3
<1>7. Grows(c, taken[t], k)
  BY <1>1, <1>3, <1>4, <1>5, <1>c, WriteAdds
<1>8. /\ stream' \in Seq(Nat \X Nat) /\ Len(stream) \in Nat
      /\ Cardinality(Shown(c))' = taken[t] + k
      /\ Shown(c)' = Shown(c) \cup (Len(stream) + 1 .. Len(stream) + k)
  BY <1>3, <1>4, <1>7 DEF Grows, RttTypes
<1>10. mode # "trim" => k \in {0, n}
  <2>1. mode \in {"skip", "block"} \/ mode = "trim"
    BY <1>3 DEF Modes
  <2> QED
    BY <1>1, <2>1 DEF Write
<1>11. PICK q \in Nat : taken[t] = q * ChunkSize
  BY <1>3 DEF InChunks
<1>12. ShortWhole(c)'
  <2> SUFFICES ASSUME texts[c] < ChunkSize
               PROVE  ShortWhole(c)'
    BY <1>2 DEF ShortWhole
  <2>1. taken[t] = 0
    <3>1. CASE q = 0
      BY <1>11, <3>1, <1>3
    <3>2. CASE q >= 1
      <4>1. q * ChunkSize >= ChunkSize
        BY <1>3, <3>2
      <4> QED
        BY <1>3, <1>11, <4>1
    <3> QED
      BY <3>1, <3>2
  <2>2. Shown(c) = {}
    BY <1>3, <1>4, <2>1, ShownFinite, FS_EmptySet
  <2>3. Shown(c)' = Len(stream) + 1 .. Len(stream) + k
    BY <1>8, <2>2
  <2>4. Cardinality(Shown(c))' = k /\ texts[c] = n
    BY <1>5, <1>8, <2>1
  <2>5. \A i, j \in Shown(c)' : i - j < k
    BY <1>5, <1>8, <2>3
  <2> QED
    BY <1>2, <1>10, <2>4, <2>5 DEF ShortWhole
<1>13. /\ results' = [results EXCEPT ![c] = texts[c] + n]
       /\ call' = [call EXCEPT ![t] = 0] /\ taken' = [taken EXCEPT ![t] = 0]
  BY <1>2, <1>c DEF Returns
<1>14. /\ results' \in Seq(Int) /\ Len(results') = Len(results)
       /\ results'[c] = texts[c] + n
       /\ \A d \in DOMAIN texts : d # c => results'[d] = results[d]
  BY <1>3, <1>4, <1>5, <1>13 DEF RttTypes
<1>15. RttTypes'
  BY <1>2, <1>4, <1>8, <1>13, <1>14 DEF RttTypes
<1>16. CallInv(t)' /\ call'[t] \in {0, c}
  BY <1>4, <1>13 DEF CallInv
<1>18. \A v \in Printers : v # t => call'[v] = call[v] /\ taken'[v] = taken[v]
  BY <1>4, <1>13
<1> QED
  BY <1>1, <1>2, <1>3, <1>5, <1>c, <1>12, <1>14, <1>15, <1>16, <1>18,
     WriteStep

-----------------------------------------------------------------------------
(* RttInv is an invariant of the tasks that log.                           *)
THEOREM RttInvariant == RttSpec => []RttInv
<1>1. RttInv /\ [NextRtt]_rttVars => RttInv'
  <2> SUFFICES ASSUME RttInv, [NextRtt]_rttVars
               PROVE  RttInv'
    OBVIOUS
  <2>1. ASSUME NEW t \in Printers, NEW n \in Lengths, Call(t, n)
        PROVE  RttInv'
    BY <2>1, CallStep
  <2>2. ASSUME NEW t \in Printers, StoreChunk(t) \/ StoreRest(t)
        PROVE  RttInv'
    BY <2>2, StoreChunkStep, StoreRestStep
  <2>3. CASE ProbeReads \/ UNCHANGED rttVars
    <3>1. UNCHANGED <<mode, stream, texts, call, taken, results>>
      BY <2>3 DEF ProbeReads, rttVars
    <3>2. \A c : Shown(c)' = Shown(c)
      BY <3>1 DEF Shown
    <3>3. RttTypes' /\ StreamInv' /\ CutOnlyAtTheEnd'
      BY <3>1, <3>2 DEF RttInv, RttTypes, StreamInv, CutOnlyAtTheEnd
    <3>4. \A t \in Printers : CallInv(t)'
      BY <3>1, <3>2 DEF RttInv, CallInv, InChunks, Running, None
    <3>5. \A c \in DOMAIN texts : ShortWhole(c)'
      BY <3>1, <3>2, TextKept DEF RttInv
    <3> QED
      BY <3>1, <3>3, <3>4, <3>5 DEF RttInv
  <2> QED
    BY <2>1, <2>2, <2>3 DEF NextRtt
<1> QED
  BY <1>1, RttStarts, PTL DEF RttSpec

(* A log text that is cut loses its end, whatever the mode of the buffer,  *)
(* the other tasks and the probe: what shows is the head of it, each       *)
(* character once and in order.                                            *)
THEOREM CutsAreAtTheEnd == RttSpec => []CutOnlyAtTheEnd
<1>1. RttInv => CutOnlyAtTheEnd
  BY DEF RttInv
<1> QED
  BY <1>1, RttInvariant, PTL

(* A text shorter than SEGGER_RTT_PRINTF_BUFFER_SIZE is in one piece, and  *)
(* where the buffer does not trim it shows whole or not at all.            *)
THEOREM ShortTextsAreWhole == RttSpec => []ShortTextsWhole
<1>1. RttInv => ShortTextsWhole
  BY Zenon DEF RttInv, ShortWhole, ShortTextsWhole
<1> QED
  BY <1>1, RttInvariant, PTL

-----------------------------------------------------------------------------
(* The bases of the log's printf.                                          *)
LogBases == {10, 16}
PowerTable(base, n) ==
  CHOOSE power : power = [k \in 0 .. n |-> IF k = 0 THEN 1
                                           ELSE power[k - 1] * base]
IsPowers(p, base, n) ==
  /\ p \in [0 .. n -> Nat \ {0}] /\ p[0] = 1
  /\ \A k \in 1 .. n : p[k] = p[k - 1] * base

(* The table of the powers of a base exists, and holds them.              *)
LEMMA PowerTableIs ==
  ASSUME NEW base \in LogBases, NEW n \in Nat
  PROVE  /\ IsPowers(PowerTable(base, n), base, n)
         /\ Power(base, n) = PowerTable(base, n)[n]
<1> DEFINE P == PowerTable(base, n)
           S == Nat \ {0}
           F == [k \in 1 .. n |-> [x \in S |-> x * base]]
<1>0. base \in Nat \ {0}
  BY DEF LogBases
<1>1. IsRule(F, n, S) /\ 1 \in S
  <2>1. \A x \in S : x * base \in S
    BY <1>0
  <2> QED
    BY <2>1 DEF IsRule
<1>2. PICK f : Follows(f, F, n, 1, S)
  <2> HIDE DEF F, S
  <2> QED
    BY <1>1, RecursionExists
<1>3. \A k \in 1 .. n : f[k] = f[k - 1] * base
  <2> TAKE k \in 1 .. n
  <2>1. k - 1 \in 0 .. n
    OBVIOUS
  <2>2. f[k - 1] \in S
    BY <1>2, <2>1 DEF Follows
  <2> QED
    BY <1>2, <2>2 DEF Follows
<1>4. f = [k \in 0 .. n |-> IF k = 0 THEN 1 ELSE f[k - 1] * base]
  <2>1. \A k \in 0 .. n : k = 0 \/ (k \in 1 .. n /\ k # 0)
    OBVIOUS
  <2> HIDE DEF F, S
  <2>2. \A k \in 0 .. n : f[k] = IF k = 0 THEN 1 ELSE f[k - 1] * base
    BY <1>2, <1>3, <2>1 DEF Follows
  <2>3. f = [k \in 0 .. n |-> f[k]]
    BY <1>2 DEF Follows
  <2> QED
    BY <2>2, <2>3
<1>5. P = [k \in 0 .. n |-> IF k = 0 THEN 1 ELSE P[k - 1] * base]
  BY <1>4, Zenon DEF PowerTable
<1> HIDE DEF P
<1>6. P[0] = 1 /\ \A k \in 1 .. n : P[k] = P[k - 1] * base
  <2>1. 0 \in 0 .. n /\ \A k \in 1 .. n : k \in 0 .. n /\ k # 0
    OBVIOUS
  <2> QED
    BY <1>5, <2>1
<1> DEFINE bad == {k \in 0 .. n : P[k] \notin S}
<1>7. bad = {}
  <2>1. SUFFICES ASSUME bad # {} PROVE FALSE
    OBVIOUS
  <2>2. PICK x \in bad : \A y \in bad : x <= y
    <3>1. bad \subseteq Nat
      OBVIOUS
    <3> HIDE DEF bad
    <3> QED
      BY <2>1, <3>1, LeastElement
  <2>3. x \in 0 .. n /\ P[x] \notin S
    OBVIOUS
  <2>4. x # 0
    BY <1>6, <2>3
  <2>5. x - 1 \in 0 .. n /\ ~(x <= x - 1) /\ x \in 1 .. n
    BY <2>3, <2>4
  <2>6. P[x - 1] \in S
    <3>1. x - 1 \notin bad
      <4> HIDE DEF bad
      <4> QED
        BY <2>2, <2>5
    <3> QED
      BY <2>5, <3>1
  <2>7. P[x] = P[x - 1] * base
    BY <1>6, <2>5
  <2>8. \A m \in S : m * base \in S
    BY <1>0
  <2> QED
    BY <2>3, <2>6, <2>7, <2>8
<1>8. P \in [0 .. n -> Nat \ {0}]
  BY <1>5, <1>7
<1>9. Power(base, n) = P[n]
  BY Zenon DEF Power, PowerTable, P
<1> QED
  BY <1>6, <1>8, <1>9 DEF IsPowers, P

(* A power is the one before times the base.                              *)
LEMMA PowerIs ==
  ASSUME NEW base \in LogBases
  PROVE  /\ Power(base, 0) = 1
         /\ \A n \in Nat : Power(base, n) \in Nat \ {0}
         /\ \A n \in Nat : Power(base, n + 1) = Power(base, n) * base
<1>1. Power(base, 0) = 1
  BY PowerTableIs DEF IsPowers
<1>2. ASSUME NEW n \in Nat
      PROVE  Power(base, n) \in Nat \ {0}
  <2> DEFINE P == PowerTable(base, n)
  <2>1. IsPowers(P, base, n) /\ Power(base, n) = P[n]
    BY PowerTableIs
  <2>2. n \in 0 .. n
    OBVIOUS
  <2> HIDE DEF P
  <2> QED
    BY <2>1, <2>2 DEF IsPowers
<1>3. ASSUME NEW n \in Nat
      PROVE  Power(base, n + 1) = Power(base, n) * base
  <2> DEFINE P == PowerTable(base, n)
             Q == PowerTable(base, n + 1)
  <2>1. n + 1 \in Nat
    OBVIOUS
  <2>2. IsPowers(P, base, n) /\ IsPowers(Q, base, n + 1)
    BY <2>1, PowerTableIs
  <2>3. Power(base, n) = P[n] /\ Power(base, n + 1) = Q[n + 1]
    BY <2>1, PowerTableIs
  <2> HIDE DEF P, Q
  <2> DEFINE bad == {k \in 0 .. n : P[k] # Q[k]}
  <2>4. bad = {}
    <3>1. SUFFICES ASSUME bad # {} PROVE FALSE
      OBVIOUS
    <3>2. PICK x \in bad : \A y \in bad : x <= y
      <4>1. bad \subseteq Nat
        OBVIOUS
      <4> HIDE DEF bad
      <4> QED
        BY <3>1, <4>1, LeastElement
    <3>3. x \in 0 .. n /\ P[x] # Q[x]
      OBVIOUS
    <3>4. x # 0
      BY <2>2, <3>3 DEF IsPowers
    <3>5. x - 1 \in 0 .. n /\ ~(x <= x - 1) /\ x \in 1 .. n /\ x \in 1 .. n + 1
      BY <3>3, <3>4
    <3>6. P[x - 1] = Q[x - 1]
      <4>1. x - 1 \notin bad
        <5> HIDE DEF bad
        <5> QED
          BY <3>2, <3>5
      <4> QED
        BY <3>5, <4>1
    <3> QED
      BY <2>2, <3>3, <3>5, <3>6 DEF IsPowers
  <2>5. P[n] = Q[n] /\ n + 1 \in 1 .. n + 1 /\ (n + 1) - 1 = n
    <3>1. n \in 0 .. n
      OBVIOUS
    <3> QED
      BY <2>4, <3>1
  <2>6. Q[n + 1] = Q[(n + 1) - 1] * base
    BY <2>2, <2>5 DEF IsPowers
  <2> QED
    BY <2>3, <2>5, <2>6
<1> QED
  BY <1>1, <1>2, <1>3

(* Powers grow.                                                            *)
LEMMA PowersGrow ==
  ASSUME NEW base \in LogBases, NEW j \in Nat, NEW k \in Nat, j < k
  PROVE  Power(base, j) < Power(base, k)
<1> DEFINE bad == {n \in Nat : j < n /\ ~(Power(base, j) < Power(base, n))}
<1>1. SUFFICES ASSUME bad # {} PROVE FALSE
  OBVIOUS
<1>2. PICK x \in bad : \A y \in bad : x <= y
  <2>1. bad \subseteq Nat
    OBVIOUS
  <2> HIDE DEF bad
  <2> QED
    BY <1>1, <2>1, LeastElement
<1>3. x \in Nat /\ j < x /\ ~(Power(base, j) < Power(base, x))
  OBVIOUS
<1>4. x - 1 \in Nat /\ ~(x <= x - 1) /\ (x - 1) + 1 = x
      /\ (x - 1 = j \/ j < x - 1)
  BY <1>3
<1>5. x - 1 = j \/ Power(base, j) < Power(base, x - 1)
  <2>1. x - 1 \notin bad
    <3> HIDE DEF bad
    <3> QED
      BY <1>2, <1>4
  <2> QED
    BY <1>4, <2>1
<1> DEFINE a == Power(base, j)
           b == Power(base, x - 1)
           c == Power(base, x)
<1>6. a \in Nat \ {0} /\ b \in Nat \ {0} /\ c = b * base /\ c \in Nat
  <2>1. Power(base, (x - 1) + 1) = Power(base, x - 1) * base
    BY <1>4, PowerIs
  <2> QED
    BY <1>3, <1>4, <2>1, PowerIs
<1>7. (a = b \/ a < b) /\ ~(a < c)
  BY <1>3, <1>5
<1> HIDE DEF a, b, c
<1> QED
  BY <1>6, <1>7 DEF LogBases

-----------------------------------------------------------------------------
(* One bit more at most doubles the number of words: a subset of           *)
(* 1 .. n + 1 is one of 1 .. n, with n + 1 or without.                     *)
LEMMA OneBitMore ==
  ASSUME NEW n \in Nat
  PROVE  2 ^ (n + 1) <= 2 * 2 ^ n
<1> DEFINE A == SUBSET (1 .. n)
           B == {s \cup {n + 1} : s \in A}
           f == [s \in A |-> s \cup {n + 1}]
<1>1. /\ IsFiniteSet(A) /\ Cardinality(A) = 2 ^ n
      /\ Cardinality(SUBSET (1 .. n + 1)) = 2 ^ (n + 1)
  <2>1. IsFiniteSet(1 .. n) /\ Cardinality(1 .. n) = n
    BY FS_Interval
  <2>2. IsFiniteSet(1 .. n + 1) /\ Cardinality(1 .. n + 1) = n + 1
    BY FS_Interval
  <2> QED
    BY <2>1, <2>2, FS_SUBSET
<1>2. f \in Surjection(A, B)
  BY Zenon DEF Surjection
<1>3. IsFiniteSet(B) /\ Cardinality(B) <= Cardinality(A)
  BY <1>1, <1>2, FS_Surjection
<1>4. SUBSET (1 .. n + 1) = A \cup B
  <2>1. 1 .. n + 1 = 1 .. n \cup {n + 1}
    OBVIOUS
  <2>2. ASSUME NEW s \in SUBSET (1 .. n + 1), n + 1 \in s
        PROVE  s \in B
    <3>1. s \ {n + 1} \in A /\ s = (s \ {n + 1}) \cup {n + 1}
      BY <2>1, <2>2
    <3> QED
      BY <3>1, Zenon
  <2>3. ASSUME NEW s \in SUBSET (1 .. n + 1), n + 1 \notin s
        PROVE  s \in A
    BY <2>1, <2>3
  <2>4. ASSUME NEW s \in B
        PROVE  s \in SUBSET (1 .. n + 1)
    BY <2>1, <2>4
  <2>5. ASSUME NEW s \in A
        PROVE  s \in SUBSET (1 .. n + 1)
    BY <2>1, <2>5
  <2> HIDE DEF A, B
  <2> QED
    BY <2>2, <2>3, <2>4, <2>5, Zenon
<1> HIDE DEF A, B, f
<1>5. /\ Cardinality(A \cup B)
           = Cardinality(A) + Cardinality(B) - Cardinality(A \cap B)
      /\ Cardinality(A) \in Nat /\ Cardinality(B) \in Nat
      /\ Cardinality(A \cap B) \in Nat
  <2>1. IsFiniteSet(A \cap B)
    BY <1>1, FS_Intersection
  <2> QED
    BY <1>1, <1>3, <2>1, FS_Union, FS_CardinalityType
<1>6. 2 ^ (n + 1) = 2 ^ n + Cardinality(B) - Cardinality(A \cap B)
  BY <1>1, <1>4, <1>5
<1> QED
  BY <1>1, <1>3, <1>5, <1>6

(* A word of half the size is a smaller one.                               *)
LEMMA HalfIsLess ==
  ASSUME NEW n \in Nat, n > 0
  PROVE  /\ 2 ^ (n - 1) \in Nat \ {0} /\ 2 ^ n \in Nat \ {0}
         /\ 2 ^ (n - 1) < 2 ^ n
<1> DEFINE A == SUBSET (1 .. n - 1)
           B == SUBSET (1 .. n)
<1>1. /\ IsFiniteSet(B) /\ Cardinality(A) = 2 ^ (n - 1)
      /\ Cardinality(B) = 2 ^ n
  <2>1. IsFiniteSet(1 .. n - 1) /\ Cardinality(1 .. n - 1) = n - 1
    BY FS_Interval
  <2>2. IsFiniteSet(1 .. n) /\ Cardinality(1 .. n) = n
    BY FS_Interval
  <2> QED
    BY <2>1, <2>2, FS_SUBSET
<1>2. A \in SUBSET B /\ A # B
  <2>1. {n} \in B /\ {n} \notin A
    OBVIOUS
  <2>2. 1 .. n - 1 \subseteq 1 .. n
    OBVIOUS
  <2> QED
    BY <2>1, <2>2
<1> HIDE DEF A, B
<1>3. Cardinality(A) <= Cardinality(B) /\ Cardinality(A) # Cardinality(B)
  BY <1>1, <1>2, FS_Subset
<1>4. 2 ^ (n - 1) \in Nat \ {0} /\ 2 ^ n \in Nat \ {0}
  <2>1. n - 1 \in Nat
    OBVIOUS
  <2> QED
    BY <2>1, PowerOfTwo
<1> QED
  BY <1>1, <1>3, <1>4

(* A power of the base is at least the power of two.                      *)
LEMMA PowersAreLarge ==
  ASSUME NEW base \in LogBases, NEW n \in Nat
  PROVE  2 ^ n <= Power(base, n)
<1> DEFINE bad == {m \in Nat : ~(2 ^ m <= Power(base, m))}
<1>1. SUFFICES ASSUME bad # {} PROVE FALSE
  OBVIOUS
<1>2. PICK x \in bad : \A y \in bad : x <= y
  <2>1. bad \subseteq Nat
    OBVIOUS
  <2> HIDE DEF bad
  <2> QED
    BY <1>1, <2>1, LeastElement
<1>3. x \in Nat /\ ~(2 ^ x <= Power(base, x))
  OBVIOUS
<1>4. x # 0
  <2>1. x = 0 => 2 ^ x = 1
    OBVIOUS
  <2>2. x = 0 => Power(base, x) = 1
    BY PowerIs
  <2> QED
    BY <1>3, <2>1, <2>2
<1>5. x - 1 \in Nat /\ ~(x <= x - 1) /\ (x - 1) + 1 = x
  BY <1>3, <1>4
<1>6. 2 ^ (x - 1) <= Power(base, x - 1)
  <2>1. x - 1 \notin bad
    <3> HIDE DEF bad
    <3> QED
      BY <1>2, <1>5
  <2> QED
    BY <1>5, <2>1
<1> DEFINE a == 2 ^ (x - 1)
           b == Power(base, x - 1)
           c == Power(base, x)
           d == 2 ^ x
<1>7. /\ a \in Nat \ {0} /\ b \in Nat \ {0} /\ c = b * base /\ c \in Nat
      /\ d \in Nat /\ d <= 2 * a
  <2>1. Power(base, (x - 1) + 1) = Power(base, x - 1) * base
    BY <1>5, PowerIs
  <2>2. 2 ^ ((x - 1) + 1) <= 2 * 2 ^ (x - 1)
    BY <1>5, OneBitMore
  <2>3. a \in Nat \ {0} /\ d \in Nat
    BY <1>3, <1>5, PowerOfTwo
  <2>4. b \in Nat \ {0} /\ c \in Nat
    BY <1>3, <1>5, PowerIs
  <2>5. c = b * base /\ d <= 2 * a
    BY <1>5, <2>1, <2>2
  <2> HIDE DEF a, b, c, d
  <2> QED
    BY <2>3, <2>4, <2>5
<1>8. a <= b /\ ~(d <= c)
  BY <1>3, <1>6
<1> HIDE DEF a, b, c, d
<1> QED
  BY <1>7, <1>8 DEF LogBases

-----------------------------------------------------------------------------
(* The remainder by a weight, divided, is that by the weight below.        *)
LEMMA NextWeight ==
  ASSUME NEW base \in LogBases, NEW x \in Nat, NEW w \in Nat \ {0}
  PROVE  /\ (x % (w * base)) % w = x % w
         /\ (x % (w * base)) \div base = (x \div base) % w
         /\ x \div (w * base) = (x \div base) \div w
         /\ x \div w < base <=> x < w * base
         /\ x % w \in Nat /\ x % (w * base) \in Nat /\ x \div base \in Nat
         /\ w * base \in Nat \ {0} /\ (w * base) \div base = w
         /\ x < w => x % w = x /\ x \div w = 0
<1>1. base \in Nat \ {0} /\ base > 0
  BY DEF LogBases
<1> DEFINE y == x \div base
           r == x % base
           q == y \div w
           s == y % w
           m == w * base
<1>2. y \in Nat /\ r \in 0 .. base - 1 /\ x = y * base + r
  BY <1>1, Divided
<1>3. q \in Nat /\ s \in 0 .. w - 1 /\ y = q * w + s
  BY <1>2, Divided
<1>4. m \in Nat \ {0}
  BY <1>1
<1>5. s * base + r \in Nat /\ s * base + r < m
  <2> HIDE DEF r, s
  <2> QED
    BY <1>2, <1>3 DEF LogBases
<1>6. x = q * m + (s * base + r)
  <2>1. x = (q * w + s) * base + r
    <3> HIDE DEF y, r, q, s
    <3> QED
      BY <1>2, <1>3
  <2> HIDE DEF y, r, q, s
  <2> QED
    BY <1>1, <1>2, <1>3, <2>1
<1> HIDE DEF m, q, s, r, y
<1>7. x \div m = q /\ x % m = s * base + r
  BY <1>3, <1>4, <1>5, <1>6, DividedOnce
<1>8. (s * base + r) \div base = s
  BY <1>1, <1>2, <1>3, <1>5, DividedOnce
<1>9. (x % m) % w = x % w
  <2>1. x = (x \div w) * w + (x % w) /\ x \div w \in Nat /\ x % w \in 0 .. w - 1
    BY Divided
  <2>2. x % m \in Nat /\ x = q * m + (x % m)
    BY <1>5, <1>6, <1>7
  <2> DEFINE a == (x % m) \div w
             b == (x % m) % w
  <2>3. x % m = a * w + b /\ a \in Nat /\ b \in 0 .. w - 1
    BY <2>2, Divided
  <2> HIDE DEF a, b
  <2>4. q * base + a \in Nat /\ x = (q * base + a) * w + b
    BY <1>1, <1>3, <2>2, <2>3 DEF m
  <2>5. x % w = b
    BY <2>3, <2>4, DividedOnce
  <2> QED
    BY <2>5 DEF b
<1>10. x \div w < base <=> x < m
  <2>1. x = (x \div w) * w + (x % w) /\ x \div w \in Nat /\ x % w \in 0 .. w - 1
    BY Divided
  <2> DEFINE a == x \div w
             b == x % w
  <2> HIDE DEF a, b
  <2>2. a < base <=> a * w + b < m
    <3>1. a \in Nat /\ b \in 0 .. w - 1
      BY <2>1 DEF a, b
    <3>2. ASSUME a >= base PROVE a * w >= base * w
      BY <1>1, <3>1, <3>2
    <3>3. ASSUME a < base PROVE a * w <= base * w - w
      BY <1>1, <3>1, <3>3 DEF LogBases
    <3> QED
      BY <1>1, <3>1, <3>2, <3>3 DEF m
  <2> QED
    BY <2>1, <2>2 DEF a, b
<1>11. m \div base = w
  BY <1>1, DividedOnce DEF m
<1>12. ASSUME x < w PROVE x % w = x /\ x \div w = 0
  <2>1. x = 0 * w + x
    OBVIOUS
  <2> QED
    BY <1>12, <2>1, DividedOnce
<1>13. x % w \in Nat /\ x % m \in Nat /\ y \in Nat
  <2>1. \A u \in Nat \ {0} : x % u \in Nat
    OBVIOUS
  <2> QED
    BY <1>2, <1>4, <2>1
<1> QED
  BY <1>4, <1>7, <1>8, <1>9, <1>10, <1>11, <1>12, <1>13 DEF m, q, s, y

-----------------------------------------------------------------------------
(* The digit of v that stands at weight base ^ j.                          *)
Place(v, base, j) == (v % Power(base, j + 1)) \div Power(base, j)

(* The digit at the next weight is that of what is left.                  *)
LEMMA PlacesAre ==
  ASSUME NEW base \in LogBases, NEW v \in Nat, NEW j \in Nat
  PROVE  /\ Place(v, base, 0) = v % base
         /\ Place(v, base, j + 1) = Place(v \div base, base, j)
         /\ Place(v, base, j) \in 0 .. base - 1
         /\ v < Power(base, j) => Place(v, base, j) = 0
<1> DEFINE w == Power(base, j)
<1>1. w \in Nat \ {0} /\ Power(base, j + 1) = w * base
      /\ Power(base, (j + 1) + 1) = (w * base) * base
  <2>1. j + 1 \in Nat
    OBVIOUS
  <2>2. Power(base, (j + 1) + 1) = Power(base, j + 1) * base
    BY <2>1, PowerIs
  <2> QED
    BY <2>2, PowerIs
<1> HIDE DEF w
<1>2. base \in Nat \ {0} /\ w * base \in Nat \ {0}
  <2>1. base \in Nat \ {0}
    BY DEF LogBases
  <2> QED
    BY <1>1, <2>1
<1>3. Place(v, base, 0) = v % base
  <2>1. Power(base, 0) = 1 /\ Power(base, 0 + 1) = 1 * base
    <3>1. 0 \in Nat
      OBVIOUS
    <3> QED
      BY <3>1, PowerIs
  <2>2. 1 * base = base
    BY <1>2
  <2>3. v % base \in Nat
    BY <1>2
  <2>4. (v % base) \div 1 = v % base
    BY <2>3
  <2> QED
    BY <2>1, <2>2, <2>4 DEF Place
<1>4. Place(v, base, j + 1) = Place(v \div base, base, j)
  <2> DEFINE m == w * base
             y == v % (m * base)
  <2>0. m \in Nat \ {0}
    BY <1>2
  <2>1. y \in Nat /\ y \div base = (v \div base) % m
    <3> HIDE DEF m
    <3> QED
      BY <2>0, NextWeight
  <2>2. y \div (w * base) = (y \div base) \div w
    <3> HIDE DEF y
    <3> QED
      BY <1>1, <2>1, NextWeight
  <2>3. Place(v, base, j + 1) = y \div m
    BY <1>1 DEF Place, w
  <2>4. Place(v \div base, base, j) = ((v \div base) % m) \div w
    BY <1>1 DEF Place, w
  <2> HIDE DEF y
  <2> QED
    BY <2>1, <2>2, <2>3, <2>4
<1>5. v % (w * base) \in Nat /\ v % (w * base) < w * base
  <2> DEFINE u == w * base
  <2>1. u \in Nat \ {0}
    BY <1>2
  <2> HIDE DEF u
  <2>2. v % u \in 0 .. u - 1
    BY <2>1, Divided
  <2>3. v % u \in Nat /\ v % u < u
    BY <2>1, <2>2
  <2> QED
    BY <2>3 DEF u
<1>6. Place(v, base, j) \in 0 .. base - 1
  <2> DEFINE y == v % (w * base)
  <2>1. y \in Nat /\ y < w * base
    BY <1>5
  <2>2. Place(v, base, j) = y \div w
    BY <1>1 DEF Place, w
  <2> HIDE DEF y
  <2>3. y \div w < base /\ y \div w \in Nat
    BY <1>1, <2>1, NextWeight, Divided
  <2> QED
    BY <1>2, <2>2, <2>3
<1>7. ASSUME v < w PROVE Place(v, base, j) = 0
  <2>1. v < w * base
    BY <1>1, <1>7 DEF LogBases
  <2>2. v % (w * base) = v
    BY <1>2, <2>1, NextWeight
  <2> QED
    BY <1>1, <1>7, <2>2, NextWeight DEF Place, w
<1> QED
  BY <1>3, <1>4, <1>6, <1>7 DEF w

(* How many digits a number has, and what they are.                        *)
Spans(v, base, chars) ==
  LET d == Digits(v, base, chars)
      n == Len(d)
  IN /\ v < Power(base, n) /\ (n > 1 => Power(base, n - 1) <= v)
     /\ \A j \in 0 .. n - 1 : d[n - j] = chars[Place(v, base, j) + 1]

(* A number of n digits is below base ^ n and not below base ^ (n - 1).   *)
LEMMA DigitsSpan ==
  ASSUME NEW base \in LogBases, NEW chars \in Charts, NEW v \in Nat
  PROVE  Spans(v, base, chars)
<1> DEFINE bad == {u \in Nat : ~Spans(u, base, chars)}
<1>1. SUFFICES ASSUME bad # {} PROVE FALSE
  OBVIOUS
<1>2. PICK x \in bad : \A y \in bad : x <= y
  <2>1. bad \subseteq Nat
    OBVIOUS
  <2> HIDE DEF bad
  <2> QED
    BY <1>1, <2>1, LeastElement
<1>3. x \in Nat /\ ~Spans(x, base, chars)
  OBVIOUS
<1>4. base \in Bases /\ base \in Nat /\ base > 1
  BY DEF LogBases, Bases
<1> DEFINE d == Digits(x, base, chars)
           n == Len(d)
<1>5. d \in Seq(Char) /\ n \in Nat \ {0}
  BY <1>3, <1>4, DigitsAreText
<1>6. Power(base, 0 + 1) = base
  <2>1. Power(base, 0 + 1) = 1 * base
    <3>1. 0 \in Nat
      OBVIOUS
    <3> QED
      BY <3>1, PowerIs
  <2> QED
    BY <1>4, <2>1
<1>7. Power(base, 1) = base
  BY <1>6
<1>8. CASE x < base
  <2>1. d = <<chars[x + 1]>>
    BY <1>3, <1>4, <1>8, DigitsGrow
  <2> HIDE DEF d
  <2>2. n = 1 /\ d[1] = chars[x + 1]
    BY <2>1
  <2>3. Place(x, base, 0) = x
    <3>1. x % base = x
      BY <1>3, <1>4, <1>8, NextWeight
    <3> QED
      BY <1>3, <3>1, PlacesAre
  <2>4. \A j \in 0 .. n - 1 : j = 0 /\ n - j = 1
    BY <2>2
  <2>5. Spans(x, base, chars)
    BY <1>7, <1>8, <2>2, <2>3, <2>4 DEF Spans, d
  <2> QED
    BY <1>3, <2>5
<1>9. CASE ~(x < base)
  <2> DEFINE w == x \div base
             e == Digits(w, base, chars)
             m == Len(e)
  <2>1. w \in Nat /\ ~(x <= w) /\ x % base \in 0 .. base - 1
        /\ x = w * base + (x % base)
    <3>1. w \in 0 .. x - 1
      BY <1>3, <1>4, <1>9, DigitIsPlace
    <3> QED
      BY <1>3, <1>4, <3>1, Divided
  <2>2. Spans(w, base, chars)
    <3>1. w \notin bad
      <4> HIDE DEF bad, w
      <4> QED
        BY <1>2, <2>1
    <3> HIDE DEF w
    <3> QED
      BY <2>1, <3>1
  <2>3. d = Append(e, chars[(x % base) + 1])
    BY <1>3, <1>4, <1>9, DigitsGrow
  <2> HIDE DEF w
  <2>4. e \in Seq(Char) /\ m \in Nat \ {0}
    BY <1>4, <2>1, DigitsAreText
  <2> HIDE DEF d, e
  <2>5. /\ n = m + 1 /\ d[m + 1] = chars[(x % base) + 1]
        /\ \A i \in 1 .. m : d[i] = e[i]
    <3>1. chars[(x % base) + 1] \in Char
      <4>1. (x % base) + 1 \in 1 .. 16
        BY <2>1 DEF LogBases
      <4> QED
        BY <4>1 DEF Charts
    <3> QED
      BY <2>3, <2>4, <3>1, AppendProperties
  <2>6. /\ w < Power(base, m) /\ (m > 1 => Power(base, m - 1) <= w)
        /\ \A j \in 0 .. m - 1 : e[m - j] = chars[Place(w, base, j) + 1]
    BY <2>2, Zenon DEF Spans, e, m
  <2> DEFINE a == Power(base, m)
  <2>7. a \in Nat \ {0} /\ Power(base, n) = a * base
    BY <2>4, <2>5, PowerIs
  <2>8. x < a * base
    <3>1. w < a
      BY <2>6
    <3> HIDE DEF a
    <3> QED
      BY <2>1, <2>7, <3>1 DEF LogBases
  <2>9. a <= x
    <3>1. CASE m = 1
      <4>1. a = base
        BY <1>7, <3>1
      <4> HIDE DEF a
      <4> QED
        BY <1>3, <1>4, <1>9, <4>1
    <3>2. CASE m # 1
      <4> DEFINE b == Power(base, m - 1)
      <4>1. m - 1 \in Nat /\ (m - 1) + 1 = m /\ m > 1
        <5>1. m \in Nat \ {0} /\ m # 1
          BY <2>4, <3>2
        <5> HIDE DEF m
        <5> QED
          BY <5>1
      <4>2. b \in Nat \ {0} /\ a = b * base /\ b <= w
        BY <2>6, <4>1, PowerIs
      <4> HIDE DEF a, b
      <4> QED
        BY <2>1, <4>2 DEF LogBases
    <3> QED
      BY <3>1, <3>2
  <2>10. ASSUME NEW j \in 0 .. n - 1
         PROVE  d[n - j] = chars[Place(x, base, j) + 1]
    <3>1. CASE j = 0
      <4>1. n - j = m + 1
        BY <2>4, <2>5, <3>1
      <4>2. Place(x, base, j) = x % base
        BY <1>3, <3>1, PlacesAre
      <4> QED
        BY <2>5, <4>1, <4>2
    <3>2. CASE j # 0
      <4>1. j - 1 \in 0 .. m - 1 /\ (j - 1) + 1 = j /\ n - j = m - (j - 1)
            /\ m - (j - 1) \in 1 .. m /\ j - 1 \in Nat
        BY <2>4, <2>5, <2>10, <3>2
      <4>2. Place(x, base, (j - 1) + 1) = Place(w, base, j - 1)
        BY <1>3, <4>1, PlacesAre DEF w
      <4>3. e[m - (j - 1)] = chars[Place(w, base, j - 1) + 1]
        BY <2>6, <4>1
      <4> QED
        BY <2>5, <4>1, <4>2, <4>3
    <3> QED
      BY <3>1, <3>2
  <2>11. Spans(x, base, chars)
    <3>1. n - 1 = m
      BY <2>4, <2>5
    <3> QED
      BY <2>7, <2>8, <2>9, <2>10, <3>1 DEF Spans, d, n
  <2> QED
    BY <1>3, <2>11
<1> QED
  BY <1>8, <1>9

-----------------------------------------------------------------------------
(* The weight of the first digit.  Digit is the power of the base that the *)
(* loop has reached, as long as a word holds it.                           *)
WordTable(base, last) ==
  CHOOSE digit : digit = [k \in 0 .. last |->
                            IF k = 0 THEN 1
                            ELSE (digit[k - 1] * base) % 2 ^ IntBits]
Enough(d, v, base, numDigits, k) ==
  k + 1 >= numDigits /\ Quotient(v, d[k]) < base
FirstEnough(d, v, base, numDigits, last) ==
  CHOOSE k \in 0 .. last : /\ Enough(d, v, base, numDigits, k)
                           /\ \A j \in 0 .. k - 1 :
                                ~Enough(d, v, base, numDigits, j)

(* A word holds more than one number.                                     *)
LEMMA WordSize == 2 ^ IntBits \in Nat /\ 2 ^ IntBits > 1 /\ IntBits \in Nat \ {0}
<1>1. IntBits \in Nat \ {0}
  BY FormatAssumption
<1> DEFINE a == 2 ^ (IntBits - 1)
           b == 2 ^ IntBits
<1>2. a \in Nat \ {0} /\ b \in Nat \ {0} /\ a < b
  BY <1>1, HalfIsLess
<1> HIDE DEF a, b
<1>3. b \in Nat /\ b > 1
  BY <1>2
<1> QED
  BY <1>1, <1>3 DEF b

(* As long as a word holds them, what the loop reaches are the powers.    *)
LEMMA WordsArePowers ==
  ASSUME NEW base \in LogBases, NEW last \in Nat, NEW m \in 0 .. last,
         Power(base, m) < 2 ^ IntBits
  PROVE  \A k \in 0 .. m : WordTable(base, last)[k] = Power(base, k)
<1> DEFINE D == WordTable(base, last)
           M == 2 ^ IntBits
           F == [k \in 1 .. last |-> [x \in Nat |-> (x * base) % M]]
<1>0. M \in Nat \ {0} /\ base \in Nat
  BY WordSize DEF LogBases
<1> HIDE DEF M
<1>1. IsRule(F, last, Nat) /\ 1 \in Nat
  <2>1. \A x \in Nat : (x * base) % M \in Nat
    <3>1. \A x \in Nat : x * base \in Nat
      BY <1>0
    <3>2. \A y \in Nat : y % M \in Nat
      BY <1>0
    <3> QED
      BY <3>1, <3>2
  <2> QED
    BY <2>1 DEF IsRule
<1>2. PICK f : Follows(f, F, last, 1, Nat)
  <2> HIDE DEF F
  <2> QED
    BY <1>1, RecursionExists
<1>3. \A k \in 1 .. last : f[k] = (f[k - 1] * base) % M
  <2> TAKE k \in 1 .. last
  <2>1. k - 1 \in 0 .. last
    OBVIOUS
  <2>2. f[k - 1] \in Nat
    BY <1>2, <2>1 DEF Follows
  <2> QED
    BY <1>2, <2>2 DEF Follows
<1>4. f = [k \in 0 .. last |-> IF k = 0 THEN 1 ELSE (f[k - 1] * base) % M]
  <2>1. \A k \in 0 .. last : k = 0 \/ (k \in 1 .. last /\ k # 0)
    OBVIOUS
  <2> HIDE DEF F
  <2>2. \A k \in 0 .. last :
          f[k] = IF k = 0 THEN 1 ELSE (f[k - 1] * base) % M
    BY <1>2, <1>3, <2>1 DEF Follows
  <2>3. f = [k \in 0 .. last |-> f[k]]
    BY <1>2 DEF Follows
  <2> QED
    BY <2>2, <2>3
<1>5. D = [k \in 0 .. last |-> IF k = 0 THEN 1 ELSE (D[k - 1] * base) % M]
  BY <1>4, Zenon DEF WordTable, M
<1> HIDE DEF D, F
<1> DEFINE bad == {k \in 0 .. m : D[k] # Power(base, k)}
<1>6. SUFFICES ASSUME bad # {} PROVE FALSE
  BY DEF D
<1>7. PICK x \in bad : \A y \in bad : x <= y
  <2>1. bad \subseteq Nat
    OBVIOUS
  <2> HIDE DEF bad
  <2> QED
    BY <1>6, <2>1, LeastElement
<1>8. x \in 0 .. m /\ x \in 0 .. last /\ x \in Nat /\ D[x] # Power(base, x)
  OBVIOUS
<1>9. x # 0
  <2>1. D[0] = 1
    BY <1>5
  <2> QED
    BY <1>8, <2>1, PowerIs
<1>10. x - 1 \in 0 .. m /\ x - 1 \in Nat /\ ~(x <= x - 1) /\ (x - 1) + 1 = x
  BY <1>8, <1>9
<1>11. D[x - 1] = Power(base, x - 1)
  <2>1. x - 1 \notin bad
    <3> HIDE DEF bad
    <3> QED
      BY <1>7, <1>10
  <2> QED
    BY <1>10, <2>1
<1>12. Power(base, x) \in Nat /\ Power(base, x) < M
  <2>1. x = m \/ x < m
    BY <1>8
  <2>2. Power(base, x) \in Nat /\ Power(base, m) \in Nat
    BY <1>8, PowerIs
  <2>3. x < m => Power(base, x) < Power(base, m)
    BY <1>8, PowersGrow
  <2> QED
    BY <1>0, <2>1, <2>2, <2>3 DEF M
<1>13. Power(base, x) = Power(base, x - 1) * base
  <2>1. Power(base, (x - 1) + 1) = Power(base, x - 1) * base
    BY <1>10, PowerIs
  <2> QED
    BY <1>10, <2>1
<1>14. D[x] = Power(base, x) % M
  BY <1>5, <1>8, <1>9, <1>11, <1>13
<1>15. Power(base, x) % M = Power(base, x)
  BY <1>0, <1>12, NextWeight
<1> QED
  BY <1>8, <1>14, <1>15

(* Of which weight the first of at least numDigits digits is.              *)
Highest(v, base, numDigits, chars) ==
  Larger(Len(Digits(v, base, chars)), numDigits) - 1

(* The first digit is that of the number or of the precision, and a word  *)
(* holds its weight.                                                      *)
LEMMA HighestIs ==
  ASSUME NEW base \in LogBases, NEW chars \in Charts, NEW v \in Nat,
         NEW numDigits \in Nat, v < 2 ^ IntBits,
         numDigits > 0 => Power(base, numDigits - 1) < 2 ^ IntBits
  PROVE  LET n == Len(Digits(v, base, chars))
             h == Highest(v, base, numDigits, chars)
         IN /\ h \in Nat /\ n \in Nat \ {0} /\ n <= h + 1 /\ numDigits <= h + 1
            /\ h = n - 1 \/ h = numDigits - 1
            /\ Power(base, h) < 2 ^ IntBits
            /\ h <= numDigits \/ h <= IntBits
<1> DEFINE n == Len(Digits(v, base, chars))
           h == Highest(v, base, numDigits, chars)
           M == 2 ^ IntBits
<1>1. n \in Nat \ {0}
  <2>1. base \in Bases
    BY DEF LogBases, Bases
  <2> QED
    BY <2>1, DigitsAreText
<1>2. v < Power(base, n) /\ (n > 1 => Power(base, n - 1) <= v)
  BY DigitsSpan, Zenon DEF Spans
<1>3. h = (IF n < numDigits THEN numDigits ELSE n) - 1
  BY <1>1 DEF Highest, Larger
<1> HIDE DEF n, h
<1>4. /\ h \in Nat /\ n <= h + 1 /\ numDigits <= h + 1
      /\ h = n - 1 \/ (h = numDigits - 1 /\ numDigits > 0)
  BY <1>1, <1>3
<1>5. Power(base, h) \in Nat
  BY <1>4, PowerIs
<1>6. Power(base, h) < M
  <2>1. CASE h = numDigits - 1 /\ numDigits > 0
    BY <2>1
  <2>2. CASE h = n - 1 /\ n > 1
    BY <1>2, <1>5, <2>2, WordSize
  <2>3. CASE h = n - 1 /\ ~(n > 1)
    <3>1. h = 0
      BY <1>1, <2>3
    <3> QED
      BY <3>1, PowerIs, WordSize
  <2> QED
    BY <1>4, <2>1, <2>2, <2>3
<1>7. h <= IntBits
  <2>1. SUFFICES ASSUME IntBits < h PROVE FALSE
    BY <1>4, WordSize
  <2>2. Power(base, IntBits) < Power(base, h)
    BY <1>4, <2>1, WordSize, PowersGrow
  <2>3. M <= Power(base, IntBits) /\ Power(base, IntBits) \in Nat /\ M \in Nat
    BY WordSize, PowersAreLarge, PowerIs
  <2> HIDE DEF M
  <2> QED
    BY <1>5, <1>6, <2>2, <2>3
<1> QED
  BY <1>1, <1>4, <1>6, <1>7 DEF n, h

(* Digit, when its loop ends, is the weight of the first digit.           *)
LEMMA DigitOfIs ==
  ASSUME NEW base \in LogBases, NEW chars \in Charts, NEW v \in Nat,
         NEW numDigits \in Nat, v < 2 ^ IntBits,
         numDigits > 0 => Power(base, numDigits - 1) < 2 ^ IntBits
  PROVE  DigitOf(v, base, numDigits)
           = Power(base, Highest(v, base, numDigits, chars))
<1> DEFINE n == Len(Digits(v, base, chars))
           h == Highest(v, base, numDigits, chars)
           last == Larger(numDigits, IntBits)
           D == WordTable(base, last)
           E(k) == Enough(D, v, base, numDigits, k)
<1>1. DigitOf(v, base, numDigits)
        = D[FirstEnough(D, v, base, numDigits, last)]
  BY Zenon DEF DigitOf, FirstEnough, Enough, WordTable
<1>2. v < Power(base, n) /\ (n > 1 => Power(base, n - 1) <= v)
  BY DigitsSpan, Zenon DEF Spans
<1>3. /\ h \in Nat /\ n \in Nat \ {0} /\ n <= h + 1 /\ numDigits <= h + 1
      /\ h = n - 1 \/ h = numDigits - 1
      /\ Power(base, h) < 2 ^ IntBits
      /\ h <= numDigits \/ h <= IntBits
  BY HighestIs, Zenon
<1>4. last \in Nat /\ h \in 0 .. last
  BY <1>3, WordSize DEF Larger
<1> HIDE DEF n, h, last
<1>5. \A k \in 0 .. h : D[k] = Power(base, k)
  BY <1>3, <1>4, WordsArePowers
<1> HIDE DEF D
<1>6. ASSUME NEW k \in 0 .. h
      PROVE  /\ k \in Nat /\ Power(base, k + 1) \in Nat
             /\ E(k) <=> k + 1 >= numDigits /\ v < Power(base, k + 1)
  <2>1. /\ D[k] = Power(base, k) /\ Power(base, k) \in Nat \ {0} /\ k \in Nat
        /\ Power(base, k + 1) = Power(base, k) * base
    BY <1>5, PowerIs
  <2>2. Quotient(v, D[k]) = v \div Power(base, k)
    BY <2>1 DEF Quotient
  <2>3. v \div Power(base, k) < base <=> v < Power(base, k + 1)
    <3>1. \A w \in Nat \ {0} : v \div w < base <=> v < w * base
      BY NextWeight
    <3> QED
      BY <2>1, <3>1
  <2>4. k + 1 \in Nat
    BY <2>1
  <2> QED
    BY <2>1, <2>2, <2>3, <2>4, PowerIs DEF Enough
<1>7. E(h)
  <2>1. n = h + 1 \/ n < h + 1
    BY <1>3
  <2>2. Power(base, n) \in Nat /\ Power(base, h + 1) \in Nat
        /\ (n < h + 1 => Power(base, n) < Power(base, h + 1))
    <3>1. h + 1 \in Nat
      BY <1>3
    <3> QED
      BY <1>3, <3>1, PowerIs, PowersGrow
  <2>3. v < Power(base, h + 1)
    BY <1>2, <2>1, <2>2
  <2>4. h \in 0 .. h /\ h + 1 >= numDigits
    BY <1>3
  <2> QED
    BY <1>6, <2>3, <2>4
<1>8. ASSUME NEW j \in 0 .. h - 1
      PROVE  ~E(j)
  <2>1. j \in 0 .. h /\ j \in Nat /\ j + 1 \in Nat
    BY <1>3
  <2>2. CASE h = numDigits - 1
    <3>1. ~(j + 1 >= numDigits)
      BY <1>3, <2>2
    <3> QED
      BY <1>6, <2>1, <3>1
  <2>3. CASE h = n - 1
    <3>1. n > 1 /\ (j + 1 = n - 1 \/ j + 1 < n - 1) /\ n - 1 \in Nat
      BY <1>3, <2>3
    <3>2. /\ Power(base, j + 1) \in Nat /\ Power(base, n - 1) \in Nat
          /\ j + 1 < n - 1 => Power(base, j + 1) < Power(base, n - 1)
      BY <2>1, <3>1, PowerIs, PowersGrow
    <3>3. ~(v < Power(base, j + 1))
      BY <1>2, <3>1, <3>2
    <3> QED
      BY <1>6, <2>1, <3>3
  <2> QED
    BY <1>3, <2>2, <2>3
<1>9. FirstEnough(D, v, base, numDigits, last) = h
  <2> DEFINE Is(k) == E(k) /\ \A j \in 0 .. k - 1 : ~E(j)
  <2>1. Is(h)
    BY <1>7, <1>8
  <2>2. ASSUME NEW k \in 0 .. last, Is(k)
        PROVE  k = h
    <3>1. ~(k < h)
      <4>1. k < h => k \in 0 .. h - 1
        BY <1>3, <2>2
      <4> QED
        BY <1>8, <2>2, <4>1
    <3>2. ~(h < k)
      <4>1. h < k => h \in 0 .. k - 1
        BY <1>3, <2>2
      <4> QED
        BY <1>7, <2>2, <4>1
    <3> QED
      BY <1>3, <1>4, <3>1, <3>2
  <2> HIDE DEF E
  <2>3. h = CHOOSE k \in 0 .. last : Is(k)
    BY <1>4, <2>1, <2>2
  <2> QED
    BY <2>3, Zenon DEF FirstEnough, E
<1>10. h \in 0 .. h
  BY <1>3
<1> QED
  BY <1>1, <1>5, <1>9, <1>10 DEF h

-----------------------------------------------------------------------------
(* The digits the loop of _PrintUnsigned puts out, from the first on.      *)
WeightTable(rounds, base, digit) ==
  CHOOSE weight : weight = [k \in rounds |->
                              IF k = 1 THEN digit
                              ELSE weight[k - 1] \div base]
LeftTable(rounds, v, weight) ==
  CHOOSE left : left = [k \in rounds |->
                          IF k = 1 THEN v
                          ELSE Remainder(left[k - 1], weight[k - 1])]

(* base ^ h has h + 1 digits: the loop makes as many rounds.              *)
LEMMA PowerHasDigits ==
  ASSUME NEW base \in LogBases, NEW h \in Nat
  PROVE  Len(Digits(Power(base, h), base, UpperChars)) = h + 1
<1> DEFINE v == Power(base, h)
           n == Len(Digits(v, base, UpperChars))
<1>1. v \in Nat /\ UpperChars \in Charts /\ base \in Bases
  BY PowerIs, ChartsAre DEF LogBases, Bases
<1>2. v < Power(base, n) /\ (n > 1 => Power(base, n - 1) <= v)
  <2> HIDE DEF v
  <2> QED
    BY <1>1, DigitsSpan, Zenon DEF Spans
<1>3. n \in Nat \ {0}
  <2> HIDE DEF v
  <2> QED
    BY <1>1, DigitsAreText
<1> HIDE DEF n
<1>4. ~(n < h + 1)
  <2>1. SUFFICES ASSUME n < h + 1 PROVE FALSE
    OBVIOUS
  <2>2. n = h \/ n < h
    BY <1>3, <2>1
  <2>3. n < h => Power(base, n) < Power(base, h)
    BY <1>3, PowersGrow
  <2>4. Power(base, n) \in Nat
    BY <1>3, PowerIs
  <2> QED
    BY <1>1, <1>2, <2>2, <2>3, <2>4
<1>5. ~(n > h + 1)
  <2>1. SUFFICES ASSUME n > h + 1 PROVE FALSE
    OBVIOUS
  <2>2. n - 1 \in Nat /\ h < n - 1 /\ n > 1
    BY <1>3, <2>1
  <2>3. Power(base, h) < Power(base, n - 1) /\ Power(base, n - 1) \in Nat
    BY <2>2, PowersGrow, PowerIs
  <2> QED
    BY <1>1, <1>2, <2>2, <2>3
<1> QED
  BY <1>3, <1>4, <1>5 DEF n

(* In round k the weight is base ^ (h + 1 - k).                            *)
LEMMA WeightsAre ==
  ASSUME NEW base \in LogBases, NEW h \in Nat
  PROVE  WeightTable(1 .. h + 1, base, Power(base, h))
           = [k \in 1 .. h + 1 |-> Power(base, h + 1 - k)]
<1> DEFINE R == 1 .. h + 1
           W == WeightTable(R, base, Power(base, h))
           P == [k \in R |-> Power(base, h + 1 - k)]
           Rule(w, k) == IF k = 1 THEN Power(base, h) ELSE w[k - 1] \div base
<1>1. P = [k \in R |-> Rule(P, k)]
  <2>1. ASSUME NEW k \in R
        PROVE  Power(base, h + 1 - k) = Rule(P, k)
    <3>1. CASE k = 1
      <4>1. h + 1 - k = h
        BY <3>1
      <4> QED
        BY <3>1, <4>1
    <3>2. CASE k # 1
      <4>1. /\ k - 1 \in R /\ h + 1 - k \in Nat
            /\ h + 1 - (k - 1) = (h + 1 - k) + 1
        BY <2>1, <3>2
      <4>2. /\ Power(base, h + 1 - k) \in Nat \ {0}
            /\ P[k - 1] = Power(base, h + 1 - k) * base
        BY <4>1, PowerIs
      <4>3. \A w \in Nat \ {0} : (w * base) \div base = w
        BY NextWeight
      <4> QED
        BY <3>2, <4>2, <4>3
    <3> QED
      BY <3>1, <3>2
  <2> QED
    BY <2>1
<1>2. W = [k \in R |-> Rule(W, k)]
  <2> HIDE DEF P, R
  <2> QED
    BY <1>1, Zenon DEF WeightTable
<1> HIDE DEF W
<1> DEFINE bad == {k \in R : W[k] # P[k]}
<1>3. bad = {}
  <2>1. SUFFICES ASSUME bad # {} PROVE FALSE
    OBVIOUS
  <2>2. PICK x \in bad : \A y \in bad : x <= y
    <3>1. bad \subseteq Nat
      OBVIOUS
    <3> HIDE DEF bad
    <3> QED
      BY <2>1, <3>1, LeastElement
  <2>3. x \in R /\ W[x] # P[x]
    OBVIOUS
  <2>4. x # 1 => W[x - 1] = P[x - 1]
    <3>1. SUFFICES ASSUME x # 1 PROVE W[x - 1] = P[x - 1]
      OBVIOUS
    <3>2. x - 1 \in R /\ ~(x <= x - 1)
      BY <2>3, <3>1
    <3>3. x - 1 \notin bad
      <4> HIDE DEF bad
      <4> QED
        BY <2>2, <3>2
    <3> HIDE DEF P
    <3> QED
      BY <3>2, <3>3
  <2>5. W[x] = Rule(W, x) /\ P[x] = Rule(P, x)
    <3> HIDE DEF R, P
    <3>1. W[x] = Rule(W, x)
      BY <1>2, <2>3
    <3>2. P[x] = Rule(P, x)
      BY <1>1, <2>3
    <3> QED
      BY <3>1, <3>2
  <2>6. Rule(W, x) = Rule(P, x)
    <3> HIDE DEF P
    <3> QED
      BY <2>4
  <2> HIDE DEF Rule, P
  <2> QED
    BY <2>3, <2>5, <2>6
<1>4. \A k \in R : W[k] = P[k]
  BY <1>3
<1>5. W = [k \in R |-> W[k]] /\ P = [k \in R |-> P[k]]
  <2>1. P = [k \in R |-> P[k]]
    OBVIOUS
  <2> HIDE DEF R, P
  <2> QED
    BY <1>2, <2>1
<1>6. W = P
  <2> HIDE DEF P, R
  <2> QED
    BY <1>4, <1>5
<1> QED
  BY <1>6 DEF W

(* What is left in round k is the remainder by base ^ (h + 2 - k).         *)
LEMMA LeftIs ==
  ASSUME NEW base \in LogBases, NEW h \in Nat, NEW v \in Nat,
         v < Power(base, h + 1), NEW weight,
         weight = [k \in 1 .. h + 1 |-> Power(base, h + 1 - k)]
  PROVE  \A k \in 1 .. h + 1 :
           LeftTable(1 .. h + 1, v, weight)[k] = v % Power(base, h + 1 - k + 1)
<1> DEFINE R == 1 .. h + 1
           L == LeftTable(R, v, weight)
           P == [k \in R |-> v % Power(base, h + 1 - k + 1)]
           Rule(w, k) == IF k = 1 THEN v ELSE Remainder(w[k - 1], weight[k - 1])
<1>1. P = [k \in R |-> Rule(P, k)]
  <2>1. ASSUME NEW k \in R
        PROVE  v % Power(base, h + 1 - k + 1) = Rule(P, k)
    <3>1. CASE k = 1
      <4>1. h + 1 - k + 1 = h + 1 /\ h + 1 \in Nat
        BY <3>1
      <4>2. v % Power(base, h + 1) = v
        <5>1. Power(base, h + 1) \in Nat \ {0}
          BY <4>1, PowerIs
        <5>2. \A w \in Nat \ {0} : v < w => v % w = v
          BY NextWeight
        <5> QED
          BY <5>1, <5>2
      <4> QED
        BY <3>1, <4>1, <4>2
    <3>2. CASE k # 1
      <4> DEFINE j == h + 1 - k + 1
      <4>1. /\ k - 1 \in R /\ j \in Nat
            /\ h + 1 - (k - 1) = j
        BY <2>1, <3>2
      <4>2. /\ P[k - 1] = v % Power(base, j + 1)
            /\ weight[k - 1] = Power(base, j)
        <5> HIDE DEF j
        <5> QED
          BY <4>1
      <4>3. /\ Power(base, j) \in Nat \ {0}
            /\ Power(base, j + 1) = Power(base, j) * base
        BY <4>1, PowerIs
      <4> HIDE DEF P, R, j
      <4>4. Rule(P, k) = (v % Power(base, j + 1)) % Power(base, j)
        BY <3>2, <4>2, <4>3 DEF Remainder
      <4>5. \A w \in Nat \ {0} : (v % (w * base)) % w = v % w
        BY NextWeight
      <4> QED
        BY <4>3, <4>4, <4>5 DEF j
    <3> QED
      BY <3>1, <3>2
  <2> QED
    BY <2>1
<1>2. L = [k \in R |-> Rule(L, k)]
  <2> HIDE DEF P, R
  <2> QED
    BY <1>1, Zenon DEF LeftTable
<1> HIDE DEF L
<1> DEFINE bad == {k \in R : L[k] # P[k]}
<1>3. bad = {}
  <2>1. SUFFICES ASSUME bad # {} PROVE FALSE
    OBVIOUS
  <2>2. PICK x \in bad : \A y \in bad : x <= y
    <3>1. bad \subseteq Nat
      OBVIOUS
    <3> HIDE DEF bad
    <3> QED
      BY <2>1, <3>1, LeastElement
  <2>3. x \in R /\ L[x] # P[x]
    OBVIOUS
  <2>4. x # 1 => L[x - 1] = P[x - 1]
    <3>1. SUFFICES ASSUME x # 1 PROVE L[x - 1] = P[x - 1]
      OBVIOUS
    <3>2. x - 1 \in R /\ ~(x <= x - 1)
      BY <2>3, <3>1
    <3>3. x - 1 \notin bad
      <4> HIDE DEF bad
      <4> QED
        BY <2>2, <3>2
    <3> HIDE DEF P
    <3> QED
      BY <3>2, <3>3
  <2> HIDE DEF P, R
  <2>5. L[x] = Rule(L, x)
    BY <1>2, <2>3
  <2>6. P[x] = Rule(P, x)
    BY <1>1, <2>3
  <2>7. Rule(L, x) = Rule(P, x)
    BY <2>4
  <2> HIDE DEF Rule
  <2> QED
    BY <2>3, <2>5, <2>6, <2>7
<1>4. \A k \in R : L[k] = P[k]
  BY <1>3
<1> QED
  BY <1>4 DEF L

(* The loop puts out the digits at the weights from base ^ h down.        *)
LEMMA DigitsFromIs ==
  ASSUME NEW base \in LogBases, NEW h \in Nat, NEW v \in Nat,
         v < Power(base, h + 1)
  PROVE  DigitsFrom(v, base, Power(base, h)) =
           [k \in 1 .. h + 1 |-> UpperChars[Place(v, base, h + 1 - k) + 1]]
<1> DEFINE R == 1 .. h + 1
           d == Power(base, h)
           W == WeightTable(R, base, d)
           L == LeftTable(R, v, W)
<1>1. DigitsFrom(v, base, d) =
        [k \in R |-> UpperChars[Quotient(L[k], W[k]) + 1]]
  <2>1. 1 .. Len(Digits(d, base, UpperChars)) = R
    BY PowerHasDigits
  <2> HIDE DEF d, R
  <2>2. DigitsFrom(v, base, d) =
          [k \in 1 .. Len(Digits(d, base, UpperChars)) |->
             UpperChars[Quotient(
               LeftTable(1 .. Len(Digits(d, base, UpperChars)), v,
                 WeightTable(1 .. Len(Digits(d, base, UpperChars)), base, d))[k],
               WeightTable(1 .. Len(Digits(d, base, UpperChars)), base, d)[k])
               + 1]]
    BY Zenon DEF DigitsFrom, WeightTable, LeftTable
  <2> HIDE DEF W, L
  <2> QED
    BY <2>1, <2>2, Zenon DEF W, L
<1>2. W = [k \in R |-> Power(base, h + 1 - k)]
  BY WeightsAre
<1>3. \A k \in R : L[k] = v % Power(base, h + 1 - k + 1)
  <2> HIDE DEF W
  <2> QED
    BY <1>2, LeftIs
<1> HIDE DEF W, L
<1>4. ASSUME NEW k \in R
      PROVE  Quotient(L[k], W[k]) = Place(v, base, h + 1 - k)
  <2>1. h + 1 - k \in Nat
    OBVIOUS
  <2>2. Power(base, h + 1 - k) \in Nat \ {0}
    BY <2>1, PowerIs
  <2> QED
    BY <1>2, <1>3, <2>2 DEF Quotient, Place
<1> HIDE DEF R, d
<1> QED
  BY <1>1, <1>4 DEF R, d

-----------------------------------------------------------------------------
(* The two ways to number text agree: from the first digit on, as the log  *)
(* does, and from the last one on, as C's reference and _ntoa_long do.     *)
Agrees(chars, base) == \A i \in 1 .. base : chars[i] = UpperChars[i]
WordFits(base, numDigits) ==
  numDigits > 0 => Power(base, numDigits - 1) < 2 ^ IntBits

(* A number behind zeros up to n digits.                                  *)
LEMMA FilledIs ==
  ASSUME NEW t \in Text, NEW n \in Int
  PROVE  /\ Filled(n, t) \in Text
         /\ Len(Filled(n, t)) = IF n > Len(t) THEN n ELSE Len(t)
         /\ n <= Len(t) => Filled(n, t) = t
         /\ \A k \in 1 .. n - Len(t) : Filled(n, t)[k] = "0"
         /\ n > Len(t) => \A k \in 1 .. Len(t) :
                            Filled(n, t)[n - Len(t) + k] = t[k]
<1> DEFINE l == Len(t)
           z == Rep("0", n - l)
           m == IF n - l >= 0 THEN n - l ELSE 0
<1>1. l \in Nat /\ n - l \in Int /\ "0" \in Char /\ t \in Seq(Char)
  <2>1. "0" \in Char
    BY LettersAre DEF Letters
  <2>2. t \in Seq(Char)
    BY DEF Text
  <2> QED
    BY <2>1, <2>2
<1>2. /\ z \in Seq(Char) /\ Len(z) = m /\ m \in Nat
      /\ n - l <= 0 => z = << >>
      /\ \A k \in 1 .. n - l : z[k] = "0"
  BY <1>1, RepIs
<1>3. Filled(n, t) = z \o t
  BY DEF Filled
<1> HIDE DEF z
<1>4. /\ z \o t \in Seq(Char) /\ Len(z \o t) = m + l
      /\ \A i \in 1 .. m + l : (z \o t)[i] = IF i <= m THEN z[i] ELSE t[i - m]
  BY <1>1, <1>2, Concat
<1>5. ASSUME n <= l PROVE Filled(n, t) = t
  <2>1. z = << >>
    BY <1>1, <1>2, <1>5
  <2> QED
    BY <1>1, <1>3, <2>1, ConcatEmptySeq
<1> HIDE DEF l
<1>6. ASSUME NEW k \in 1 .. n - l PROVE Filled(n, t)[k] = "0"
  <2>1. k \in 1 .. m + l /\ k <= m
    BY <1>1
  <2> QED
    BY <1>2, <1>3, <1>4, <2>1
<1>7. ASSUME n > l, NEW k \in 1 .. l PROVE Filled(n, t)[n - l + k] = t[k]
  <2>1. n - l + k \in 1 .. m + l /\ ~(n - l + k <= m) /\ (n - l + k) - m = k
    BY <1>1, <1>7
  <2> QED
    BY <1>3, <1>4, <2>1
<1>8. m + l = IF n > l THEN n ELSE l
  BY <1>1
<1> QED
  BY <1>3, <1>4, <1>5, <1>6, <1>7, <1>8 DEF l, Text

(* What the log shows of a number is its digits behind zeros up to the    *)
(* precision.                                                             *)
LEMMA ShownAsFilled ==
  ASSUME NEW base \in LogBases, NEW chars \in Charts, Agrees(chars, base),
         NEW v \in Nat, v < 2 ^ IntBits,
         NEW numDigits \in Nat, WordFits(base, numDigits)
  PROVE  DigitsFrom(v, base, DigitOf(v, base, numDigits))
           = Filled(numDigits, Digits(v, base, chars))
<1> DEFINE D == Digits(v, base, chars)
           n == Len(D)
           h == Highest(v, base, numDigits, chars)
           T == DigitsFrom(v, base, DigitOf(v, base, numDigits))
           U == Filled(numDigits, D)
<1>1. /\ h \in Nat /\ n \in Nat \ {0} /\ n <= h + 1 /\ numDigits <= h + 1
      /\ h = n - 1 \/ h = numDigits - 1
  BY HighestIs, Zenon DEF WordFits
<1>2. DigitOf(v, base, numDigits) = Power(base, h)
  BY DigitOfIs, Zenon DEF WordFits
<1>3. v < Power(base, n) /\ Power(base, n) \in Nat
      /\ \A j \in 0 .. n - 1 : D[n - j] = chars[Place(v, base, j) + 1]
  <2>1. v < Power(base, n)
        /\ \A j \in 0 .. n - 1 : D[n - j] = chars[Place(v, base, j) + 1]
    BY DigitsSpan, Zenon DEF Spans
  <2> QED
    BY <1>1, <2>1, PowerIs
<1>4. D \in Text
  <2>1. base \in Bases
    BY DEF LogBases, Bases
  <2> QED
    BY <2>1, DigitsAreText DEF Text
<1> HIDE DEF D, n, h
<1>5. \A j \in Nat : j >= n => v < Power(base, j)
  <2> TAKE j \in Nat
  <2> HAVE j >= n
  <2>1. j = n \/ n < j
    BY <1>1
  <2>2. n < j => Power(base, n) < Power(base, j)
    BY <1>1, PowersGrow
  <2>3. Power(base, j) \in Nat
    BY PowerIs
  <2> QED
    BY <1>3, <2>1, <2>2, <2>3
<1>6. T = [k \in 1 .. h + 1 |-> UpperChars[Place(v, base, h + 1 - k) + 1]]
  <2>1. v < Power(base, h + 1)
    BY <1>1, <1>5
  <2> QED
    BY <1>1, <1>2, <2>1, DigitsFromIs
<1>7. /\ U \in Text /\ Len(U) = (IF numDigits > n THEN numDigits ELSE n)
      /\ numDigits <= n => U = D
      /\ \A k \in 1 .. numDigits - n : U[k] = "0"
      /\ numDigits > n => \A k \in 1 .. n : U[numDigits - n + k] = D[k]
  BY <1>4, FilledIs DEF n
<1> HIDE DEF T, U
<1>8. Len(U) = h + 1
  BY <1>1, <1>7
<1>9. ASSUME NEW k \in 1 .. h + 1
      PROVE  U[k] = UpperChars[Place(v, base, h + 1 - k) + 1]
  <2> DEFINE j == h + 1 - k
  <2>1. j \in Nat /\ Place(v, base, j) \in 0 .. base - 1 /\ base \in Nat
    <3>1. j \in Nat /\ base \in Nat
      BY <1>1 DEF LogBases
    <3> HIDE DEF j
    <3> QED
      BY <3>1, PlacesAre
  <2>2. CASE j >= n
    <3>1. numDigits > n /\ k \in 1 .. numDigits - n
      BY <1>1, <2>2
    <3>2. Place(v, base, j) = 0
      <4> HIDE DEF j
      <4> QED
        BY <1>5, <2>1, <2>2, PlacesAre
    <3>3. U[k] = "0" /\ UpperChars[0 + 1] = "0"
      BY <1>7, <3>1, ChartsAre
    <3> QED
      BY <3>2, <3>3
  <2>3. CASE ~(j >= n)
    <3>1. j \in 0 .. n - 1 /\ n - j \in 1 .. n
      BY <1>1, <2>1, <2>3
    <3>2. D[n - j] = chars[Place(v, base, j) + 1]
      BY <1>3, <3>1
    <3>3. chars[Place(v, base, j) + 1] = UpperChars[Place(v, base, j) + 1]
      <4>1. Place(v, base, j) + 1 \in 1 .. base
        BY <2>1
      <4> QED
        BY <4>1 DEF Agrees
    <3>4. CASE numDigits <= n
      <4>1. k = n - j
        BY <1>1, <3>4
      <4> QED
        BY <1>7, <3>2, <3>3, <3>4, <4>1
    <3>5. CASE numDigits > n
      <4>1. k = numDigits - n + (n - j)
        BY <1>1, <3>5
      <4>2. U[numDigits - n + (n - j)] = D[n - j]
        BY <1>7, <3>1, <3>5
      <4> QED
        BY <3>2, <3>3, <4>1, <4>2
    <3> QED
      BY <1>1, <3>4, <3>5
  <2> QED
    BY <2>2, <2>3
<1>10. U = [k \in 1 .. h + 1 |-> U[k]]
  <2>1. U \in Seq(Char)
    BY <1>7 DEF Text
  <2> QED
    BY <1>8, <2>1
<1>11. T = U
  BY <1>6, <1>9, <1>10
<1> QED
  BY <1>11 DEF T, U, D

(* The charts do not differ in these digits.                               *)
LEMMA SameDigits ==
  ASSUME NEW base \in LogBases, NEW chars \in Charts, Agrees(chars, base),
         NEW v \in Nat, v < 2 ^ IntBits
  PROVE  Digits(v, base, UpperChars) = Digits(v, base, chars)
<1>1. base \in Bases /\ UpperChars \in Charts /\ Agrees(UpperChars, base)
      /\ WordFits(base, 0)
  BY ChartsAre DEF LogBases, Bases, Agrees, WordFits
<1> DEFINE D == Digits(v, base, chars)
           E == Digits(v, base, UpperChars)
<1>2. D \in Text /\ E \in Text /\ Len(D) \in Nat /\ Len(E) \in Nat
  BY <1>1, DigitsAreText DEF Text
<1>3. Filled(0, D) = Filled(0, E)
  BY <1>1, ShownAsFilled
<1> HIDE DEF D, E
<1>4. Filled(0, D) = D /\ Filled(0, E) = E
  BY <1>2, FilledIs
<1> QED
  BY <1>3, <1>4 DEF D, E

(* The decimal digits are in both charts.                                 *)
LEMMA UpperAgrees ==
  /\ \A base : Agrees(UpperChars, base)
  /\ Agrees(DigitChars, 10)
<1>1. \A base : Agrees(UpperChars, base)
  BY DEF Agrees
<1>2. ASSUME NEW i \in 1 .. 10
      PROVE  DigitChars[i] = UpperChars[i]
  <2> DEFINE ten == SubSeq(DigitChars, 1, 10)
             rest == <<"A", "B", "C", "D", "E", "F">>
  <2>1. \A k \in 1 .. 10 : DigitChars[k] \in Char
    <3>1. DigitChars \in [1 .. 16 -> Char]
      BY ChartsAre DEF Charts
    <3> QED
      BY <3>1
  <2>2. /\ ten \in Seq(Char) /\ Len(ten) = 10 - 1 + 1
        /\ \A k \in 1 .. 10 - 1 + 1 : ten[k] = DigitChars[1 + k - 1]
    BY <2>1, SubSeqProperties
  <2>3. rest \in Seq(Char) /\ Len(rest) = 6
    <3>1. /\ "A" \in Char /\ "B" \in Char /\ "C" \in Char
          /\ "D" \in Char /\ "E" \in Char /\ "F" \in Char
      BY LettersAre DEF Letters
    <3> QED
      BY <3>1
  <2> HIDE DEF ten, rest
  <2>4. Len(ten) = 10 /\ ten[i] = DigitChars[i]
    BY <2>2
  <2>5. /\ Len(ten \o rest) = 10 + Len(rest)
        /\ \A k \in 1 .. 10 + Len(rest) :
             (ten \o rest)[k] = IF k <= 10 THEN ten[k] ELSE rest[k - 10]
    <3>1. /\ Len(ten \o rest) = Len(ten) + Len(rest)
          /\ \A k \in 1 .. Len(ten) + Len(rest) : (ten \o rest)[k] =
               IF k <= Len(ten) THEN ten[k] ELSE rest[k - Len(ten)]
      BY <2>2, <2>3, ConcatProperties
    <3> QED
      BY <2>4, <3>1
  <2>6. UpperChars = ten \o rest
    BY DEF UpperChars, ten, rest
  <2>7. i \in 1 .. 10 + Len(rest) /\ i <= 10
    BY <2>3
  <2> QED
    BY <2>4, <2>5, <2>6, <2>7
<1> QED
  BY <1>1, <1>2 DEF Agrees

-----------------------------------------------------------------------------
(* Spaces and zeros of a field.                                            *)
LEMMA RepAlike ==
  ASSUME NEW c, NEW m, NEW n, Larger(m, 0) = Larger(n, 0)
  PROVE  Rep(c, m) = Rep(c, n)
BY DEF Rep

(* Spaces are a text.                                                     *)
LEMMA SpaceText ==
  ASSUME NEW t \in Text, NEW n \in Int
  PROVE  /\ Rep(" ", n) \in Text /\ Len(Rep(" ", n)) = Larger(n, 0)
         /\ n <= 0 => Rep(" ", n) = << >>
         /\ t \o << >> = t /\ << >> \o t = t
<1>1. " " \in Char
  BY LettersAre DEF Letters
<1>2. /\ Rep(" ", n) \in Text /\ Len(Rep(" ", n)) = Larger(n, 0)
      /\ n <= 0 => Rep(" ", n) = << >>
  BY <1>1, RepIs DEF Larger, Text
<1> QED
  BY <1>2, ConcatEmptySeq DEF Text

(* A text that reaches the width gets no spaces.                          *)
LEMMA SpacedNone ==
  ASSUME NEW t \in Text, NEW w \in Int, w <= Len(t), NEW flags
  PROVE  Spaced(t, w, flags) = t
<1>1. w - Len(t) \in Int /\ w - Len(t) <= 0
  BY DEF Text
<1>2. Rep(" ", w - Len(t)) = << >> /\ t \o << >> = t /\ << >> \o t = t
  BY <1>1, SpaceText
<1> QED
  BY <1>2, Zenon DEF Spaced

(* Zeros up to less than what is there are none.                          *)
LEMMA FilledAlike ==
  ASSUME NEW t \in Text, NEW m \in Int, NEW n \in Int,
         m = n \/ (m <= Len(t) /\ n <= Len(t))
  PROVE  Filled(m, t) = Filled(n, t)
<1>1. m <= Len(t) /\ n <= Len(t) => Filled(m, t) = t /\ Filled(n, t) = t
  BY FilledIs
<1> QED
  BY <1>1

-----------------------------------------------------------------------------
(* A number of the log in its field: behind its sign zeros, up to the      *)
(* precision or the width, then the digits; spaces around them.            *)
LogZeros(numDigits, flags) ==
  "ZEROPAD" \in flags /\ "LEFT" \notin flags /\ numDigits = 0
LogText(sign, digits, numDigits, width, flags) ==
  Spaced(sign \o Filled(IF LogZeros(numDigits, flags)
                        THEN width - Len(sign) ELSE numDigits, digits),
         width, flags)

(* _PrintUnsigned, in a field.                                            *)
LEMMA PrintUnsignedIs ==
  ASSUME NEW base \in LogBases, NEW chars \in Charts, Agrees(chars, base),
         NEW v \in Nat, v < 2 ^ IntBits,
         NEW numDigits \in Nat, WordFits(base, numDigits),
         NEW width \in Int, NEW flags
  PROVE  PrintUnsigned(v, base, numDigits, width, flags)
           = LogText(<< >>, Digits(v, base, chars), numDigits, width, flags)
<1> DEFINE D == Digits(v, base, chars)
           F == Filled(numDigits, D)
           T == DigitsFrom(v, base, DigitOf(v, base, numDigits))
           w == WidthOf(v, base, numDigits)
           zero == "ZEROPAD" \in flags /\ numDigits = 0
           L == LogText(<< >>, D, numDigits, width, flags)
<1>1. T = F
  BY ShownAsFilled
<1>2. D \in Text /\ Len(D) \in Nat
  <2>1. base \in Bases
    BY DEF LogBases, Bases
  <2> QED
    BY <2>1, DigitsAreText DEF Text
<1>3. w = Larger(Len(D), numDigits)
  <2>1. Digits(v, base, UpperChars) = D
    BY SameDigits
  <2> QED
    BY <2>1 DEF WidthOf
<1>4. PrintUnsigned(v, base, numDigits, width, flags) =
        IF "LEFT" \in flags THEN T \o Rep(" ", width - w)
        ELSE Rep(IF zero THEN "0" ELSE " ", width - w) \o T
  BY Zenon DEF PrintUnsigned
<1>5. L = Spaced(<< >> \o Filled(IF LogZeros(numDigits, flags)
                                  THEN width - Len(<< >>) ELSE numDigits, D),
                 width, flags)
  BY Zenon DEF LogText
<1> HIDE DEF D, T, w
<1>6. F \in Text /\ Len(F) = w /\ (numDigits = 0 => F = D) /\ w \in Nat
  <2>1. /\ F \in Text /\ Len(F) = (IF numDigits > Len(D) THEN numDigits ELSE Len(D))
        /\ numDigits <= Len(D) => F = D
    BY <1>2, FilledIs
  <2> HIDE DEF F
  <2> QED
    BY <1>2, <1>3, <2>1 DEF Larger
<1>7. << >> \o F = F /\ Len(<< >>) = 0
  <2> HIDE DEF F
  <2>1. << >> \o F = F
    BY <1>6, SpaceText
  <2> QED
    BY <2>1
<1>8. CASE ~LogZeros(numDigits, flags)
  <2>1. L = Spaced(F, width, flags)
    BY <1>5, <1>7, <1>8, Zenon
  <2>2. "LEFT" \in flags \/ ~zero
    BY <1>8 DEF LogZeros
  <2> HIDE DEF L, F
  <2>3. Spaced(F, width, flags) =
          IF "LEFT" \in flags THEN F \o Rep(" ", width - w)
                              ELSE Rep(" ", width - w) \o F
    BY <1>6, Zenon DEF Spaced
  <2> QED
    BY <1>1, <1>4, <2>1, <2>2, <2>3, Zenon DEF L, D
<1>9. CASE LogZeros(numDigits, flags)
  <2>1. "LEFT" \notin flags /\ zero /\ F = D /\ w = Len(D)
    BY <1>6, <1>9 DEF LogZeros
  <2>2. Filled(width, D) = Rep("0", width - w) \o D
    BY <2>1 DEF Filled
  <2> DEFINE G == Filled(width, D)
  <2>3. G \in Text /\ width <= Len(G)
    <3>1. /\ G \in Text /\ Len(G) = IF width > Len(D) THEN width ELSE Len(D)
      BY <1>2, FilledIs
    <3> HIDE DEF G
    <3> QED
      BY <1>2, <3>1
  <2>4. width - Len(<< >>) = width
    BY <1>7
  <2> HIDE DEF G, F
  <2>5. L = Spaced(<< >> \o G, width, flags)
    BY <1>5, <1>9, <2>4, Zenon DEF G
  <2>6. << >> \o G = G
    BY <2>3, SpaceText
  <2>7. L = G
    BY <2>3, <2>5, <2>6, SpacedNone
  <2> QED
    BY <1>1, <1>4, <2>1, <2>2, <2>7, Zenon DEF G, L, D
<1> QED
  BY <1>8, <1>9

-----------------------------------------------------------------------------
(* A signed number.  In a field, the smallest int is left out: its         *)
(* absolute value is taken for one digit.                                  *)
SmallestInt == -(2 ^ (IntBits - 1))
LogSign(v, flags) == Sign(v < 0, flags \cap {"PLUS"})
Absolute(v) == IF v < 0 THEN -v ELSE v

(* The text without characters.                                           *)
LEMMA NoText == << >> \in Text /\ Len(<< >>) = 0
BY JoinedTexts

(* Texts joined in turn.                                                  *)
LEMMA ThreeTexts ==
  ASSUME NEW s \in Text, NEW t \in Text, NEW u \in Text
  PROVE  /\ (s \o t) \o u = s \o (t \o u)
         /\ s \o t \in Text /\ Len(s \o t) = Len(s) + Len(t)
<1>1. (s \o t) \o u = s \o (t \o u)
  BY JoinedInTurn DEF Text
<1>2. s \o t \in Text /\ Len(s \o t) = Len(s) + Len(t)
  BY ConcatProperties DEF Text
<1> QED
  BY <1>1, <1>2

(* _PrintInt, which does its own padding and hands on the rest of the field.*)
LEMMA PrintIntIs ==
  ASSUME NEW base \in LogBases, NEW chars \in Charts, Agrees(chars, base),
         NEW v \in Int, NEW n \in Nat, n = Absolute(v),
         n < 2 ^ IntBits,
         NEW numDigits \in Nat, WordFits(base, numDigits),
         NEW width \in Nat, v = SmallestInt => width = 0, NEW flags
  PROVE  PrintInt(v, base, numDigits, width, flags)
           = LogText(LogSign(v, flags), Digits(n, base, chars), numDigits,
                     width, flags)
<1> DEFINE sign == LogSign(v, flags)
           field == IF width > 0 THEN width - Len(sign) ELSE 0
           D == Digits(n, base, chars)
           F == Filled(numDigits, D)
           w == WidthOf(n, base, numDigits)
           least == IF v = SmallestInt THEN Larger(1, numDigits) ELSE w
           pad == IF "LEFT" \in flags THEN 0 ELSE Larger(field - least, 0)
           zero == "ZEROPAD" \in flags /\ numDigits = 0
           P == PrintUnsigned(n, base, numDigits, field - pad, flags)
           T == PrintInt(v, base, numDigits, width, flags)
           L == LogText(sign, D, numDigits, width, flags)
           m == IF LogZeros(numDigits, flags) THEN width - Len(sign)
                ELSE numDigits
<1>1. T = (IF zero THEN << >> ELSE Rep(" ", pad)) \o sign
            \o (IF zero THEN Rep("0", pad) ELSE << >>) \o P
  <2>1. n = IF v < 0 THEN -v ELSE v
    BY DEF Absolute
  <2>2. T = (IF "ZEROPAD" \in flags /\ numDigits = 0 THEN << >>
             ELSE Rep(" ", pad)) \o sign
            \o (IF "ZEROPAD" \in flags /\ numDigits = 0 THEN Rep("0", pad)
                ELSE << >>) \o P
    BY <2>1, Zenon DEF PrintInt, SmallestInt, LogSign
  <2> QED
    BY <2>2, Zenon
<1>2. L = Spaced(sign \o Filled(m, D), width, flags)
  BY Zenon DEF LogText
<1>3. sign \in Text /\ Len(sign) \in Nat
  <2>1. sign \in Text
    BY SignIs DEF LogSign
  <2> QED
    BY <2>1 DEF Text
<1>4. D \in Text /\ Len(D) \in Nat
  <2>1. base \in Bases
    BY DEF LogBases, Bases
  <2> QED
    BY <2>1, DigitsAreText DEF Text
<1>5. w = Larger(Len(D), numDigits)
  <2>1. Digits(n, base, UpperChars) = D
    BY SameDigits
  <2> QED
    BY <2>1 DEF WidthOf
<1> HIDE DEF D, w, sign, T, L
<1>6. F \in Text /\ Len(F) = w /\ (numDigits = 0 => F = D) /\ w \in Nat
  <2>1. /\ F \in Text /\ Len(F) = (IF numDigits > Len(D) THEN numDigits ELSE Len(D))
        /\ numDigits <= Len(D) => F = D
    BY <1>4, FilledIs
  <2> HIDE DEF F
  <2> QED
    BY <1>4, <1>5, <2>1 DEF Larger
<1>7. /\ field \in Int /\ pad \in Nat
      /\ pad = IF "LEFT" \in flags THEN 0 ELSE Larger(field - w, 0)
  <2>1. field \in Int
    BY <1>3
  <2>2. v = SmallestInt => field = 0
    OBVIOUS
  <2> HIDE DEF field, SmallestInt
  <2>3. v = SmallestInt =>
          Larger(field - least, 0) = 0 /\ Larger(field - w, 0) = 0
    BY <1>6, <2>2 DEF Larger
  <2>4. v # SmallestInt => least = w
    OBVIOUS
  <2>5. Larger(field - w, 0) \in Nat
    BY <1>6, <2>1 DEF Larger
  <2> HIDE DEF least
  <2>6. Larger(field - least, 0) = Larger(field - w, 0)
    BY <2>3, <2>4
  <2> QED
    BY <2>1, <2>5, <2>6
<1>8. field = width - Len(sign) \/ (field <= 0 /\ width - Len(sign) <= 0)
  BY <1>3
<1>9. P = LogText(<< >>, D, numDigits, field - pad, flags)
  <2>1. field - pad \in Int
    BY <1>7
  <2> HIDE DEF field, pad
  <2> QED
    BY <2>1, PrintUnsignedIs DEF D
<1> HIDE DEF field, least, pad, P, F
<1>10. width - Len(sign) \in Int /\ pad \in Int
  <2> HIDE DEF pad
  <2> QED
    BY <1>3, <1>7
<1>11. CASE LogZeros(numDigits, flags)
  <2>1. zero /\ "LEFT" \notin flags /\ numDigits = 0 /\ F = D /\ w = Len(D)
    BY <1>6, <1>11 DEF LogZeros
  <2>2. pad = Larger(field - w, 0) /\ field - pad \in Int /\ field - pad <= w
    BY <1>6, <1>7, <2>1 DEF Larger
  <2>3. P = D
    <3>1. P = Spaced(<< >> \o Filled(field - pad - Len(<< >>), D),
                     field - pad, flags)
      BY <1>9, <1>11, Zenon DEF LogText
    <3>2. Filled(field - pad - Len(<< >>), D) = D
      <4>1. field - pad - Len(<< >>) \in Int
            /\ field - pad - Len(<< >>) <= Len(D)
        BY <2>1, <2>2, NoText
      <4> QED
        BY <1>4, <4>1, FilledIs
    <3>3. << >> \o D = D
      BY <1>4, <1>10, SpaceText
    <3> QED
      BY <1>4, <2>1, <2>2, <3>1, <3>2, <3>3, SpacedNone
  <2>4. Rep("0", pad) \o D = Filled(field, D)
    <3>1. Larger(field - Len(D), 0) = Larger(pad, 0)
      BY <1>6, <1>7, <2>1, <2>2 DEF Larger
    <3>2. Rep("0", field - Len(D)) = Rep("0", pad)
      BY <3>1, RepAlike
    <3> QED
      BY <3>2 DEF Filled
  <2>5. Filled(field, D) = Filled(width - Len(sign), D)
    <3>1. field = width - Len(sign)
            \/ (field <= Len(D) /\ width - Len(sign) <= Len(D))
      BY <1>4, <1>7, <1>8, <1>10
    <3> QED
      BY <1>4, <1>7, <1>10, <3>1, FilledAlike
  <2> DEFINE G == Filled(width - Len(sign), D)
  <2>6. G \in Text /\ width - Len(sign) <= Len(G)
    <3>1. G \in Text
          /\ Len(G) = IF width - Len(sign) > Len(D) THEN width - Len(sign)
                      ELSE Len(D)
      BY <1>4, <1>10, FilledIs
    <3> HIDE DEF G
    <3> QED
      BY <1>4, <1>10, <3>1
  <2>7. T = sign \o G
    <3>1. T = ((<< >> \o sign) \o Rep("0", pad)) \o D
      BY <1>1, <2>1, <2>3
    <3>2. << >> \o sign = sign
      BY <1>3, <1>10, SpaceText
    <3>3. Rep("0", pad) \in Text
      BY <1>4, <1>10, ZeroText
    <3>4. T = sign \o (Rep("0", pad) \o D)
      <4>1. (sign \o Rep("0", pad)) \o D = sign \o (Rep("0", pad) \o D)
        BY <1>3, <1>4, <3>3, ThreeTexts
      <4> QED
        BY <3>1, <3>2, <4>1
    <3> QED
      BY <2>4, <2>5, <3>4
  <2>8. L = Spaced(sign \o G, width, flags)
    BY <1>2, <1>11
  <2> HIDE DEF G
  <2>9. sign \o G \in Text /\ width <= Len(sign \o G)
    <3>1. sign \o G \in Text /\ Len(sign \o G) = Len(sign) + Len(G)
      BY <1>3, <2>6, ThreeTexts
    <3>2. Len(G) \in Nat
      BY <2>6 DEF Text
    <3> QED
      BY <1>3, <2>6, <3>1, <3>2
  <2>10. L = T
    <3> DEFINE t == sign \o G
    <3>1. t \in Text /\ width <= Len(t) /\ width \in Int
      BY <2>9
    <3>2. L = Spaced(t, width, flags) /\ T = t
      BY <2>7, <2>8
    <3> HIDE DEF t
    <3> QED
      BY <3>1, <3>2, SpacedNone
  <2> QED
    BY <2>10 DEF L, T, sign, D
<1>12. CASE ~LogZeros(numDigits, flags)
  <2> DEFINE B == Rep(" ", width - Len(sign \o F))
  <2>1. L = IF "LEFT" \in flags THEN (sign \o F) \o B ELSE B \o (sign \o F)
    <3>1. L = Spaced(sign \o F, width, flags)
      BY <1>2, <1>12 DEF F
    <3> QED
      BY <3>1, Zenon DEF Spaced
  <2>2. sign \o F \in Text /\ Len(sign \o F) = Len(sign) + w
    BY <1>3, <1>6, ThreeTexts
  <2>3. Larger(width - Len(sign \o F), 0) = Larger(field - w, 0)
    BY <1>3, <1>6, <1>7, <1>8, <2>2 DEF Larger
  <2>4. B = Rep(" ", field - w)
    BY <2>3, RepAlike
  <2>5. field - w \in Int /\ B \in Text
    <3>1. field - w \in Int
      BY <1>6, <1>7
    <3> HIDE DEF B
    <3> QED
      BY <1>3, <2>4, <3>1, SpaceText
  <2> HIDE DEF B
  <2>6. P = Spaced(F, field - pad, flags)
    <3>1. P = Spaced(<< >> \o F, field - pad, flags)
      BY <1>9, <1>12, Zenon DEF LogText, F
    <3>2. << >> \o F = F
      BY <1>6, <1>10, SpaceText
    <3> QED
      BY <3>1, <3>2
  <2>7. << >> \o sign = sign /\ sign \o << >> = sign
    BY <1>3, <1>10, SpaceText
  <2>8. CASE "LEFT" \in flags
    <3>1. pad = 0 /\ field - pad = field
      BY <1>7, <2>8
    <3>2. Rep("0", pad) = << >> /\ Rep(" ", pad) = << >>
      <4>1. pad \in Int /\ pad <= 0
        BY <1>10, <3>1
      <4>2. Rep("0", pad) = << >>
        BY <1>3, <4>1, ZeroText
      <4>3. Rep(" ", pad) = << >>
        BY <1>3, <4>1, SpaceText
      <4> QED
        BY <4>2, <4>3
    <3>3. P = F \o B
      BY <1>6, <2>4, <2>6, <2>8, <3>1, Zenon DEF Spaced
    <3>4. T = sign \o (F \o B)
      BY <1>1, <2>7, <3>2, <3>3
    <3>5. T = (sign \o F) \o B
      BY <1>3, <1>6, <2>5, <3>4, ThreeTexts
    <3>6. T = L
      BY <2>1, <2>8, <3>5
    <3> QED
      BY <3>6 DEF L, T, sign, D
  <2>9. CASE "LEFT" \notin flags
    <3>1. ~zero
      BY <1>12, <2>9 DEF LogZeros
    <3>2. pad = Larger(field - w, 0) /\ field - pad \in Int /\ field - pad <= w
      BY <1>6, <1>7, <2>9 DEF Larger
    <3>3. P = F
      BY <1>6, <2>6, <3>2, SpacedNone
    <3>4. Rep(" ", pad) = B
      <4>1. Larger(pad, 0) = Larger(field - w, 0)
        BY <1>7, <3>2 DEF Larger
      <4> QED
        BY <2>4, <4>1, RepAlike
    <3>5. T = ((B \o sign) \o << >>) \o F
      BY <1>1, <3>1, <3>3, <3>4
    <3>6. B \o sign \in Text
      BY <1>3, <1>6, <2>5, ThreeTexts
    <3>7. (B \o sign) \o << >> = B \o sign
      BY <1>10, <3>6, SpaceText
    <3>8. T = B \o (sign \o F)
      <4>1. (B \o sign) \o F = B \o (sign \o F)
        <5>1. /\ B \in Seq(Char) /\ sign \in Seq(Char)
              /\ F \in Seq(Char)
          BY <1>3, <1>6, <2>5 DEF Text
        <5> QED
          BY <5>1, JoinedInTurn, SMTT(60)
      <4> QED
        BY <3>5, <3>7, <4>1
    <3>9. T = L
      BY <2>1, <2>9, <3>8
    <3> QED
      BY <3>9 DEF L, T, sign, D
  <2> QED
    BY <2>8, <2>9
<1> QED
  BY <1>11, <1>12

-----------------------------------------------------------------------------
(* The specifications LogsAsC is about.                                    *)
LogSpec(s) ==
  /\ s.kind \in {"d", "u", "X"}
  /\ s.flags \subseteq {"LEFT", "ZEROPAD", "PLUS"}
  /\ s.width >= 0 /\ s.length = ""
  /\ Value(s) = -(2 ^ (IntBits - 1)) => s.width = 0
  /\ s.precision = None \/
       (s.precision > 0 /\ Power(Base(s.kind), s.precision - 1) < 2 ^ IntBits)

(* Remainders are below the divisor, of negative numbers also.            *)
LEMMA RemainderIs ==
  ASSUME NEW x \in Int, NEW w \in Nat \ {0}
  PROVE  x % w \in 0 .. w - 1
OBVIOUS

(* Its argument fits a word.                                               *)
LEMMA ArgumentIs ==
  ASSUME NEW s \in IntegerSpecs, LogSpec(s)
  PROVE  /\ Value(s) = IF s.kind = "d" THEN Wrapped(s.arg, IntBits)
                       ELSE s.arg % 2 ^ IntBits
         /\ Magnitude(s) < 2 ^ IntBits
<1> DEFINE half == 2 ^ (IntBits - 1)
           full == 2 ^ IntBits
<1>1. Value(s) = IF s.kind = "d" THEN Wrapped(s.arg, IntBits)
                 ELSE s.arg % 2 ^ IntBits
  <2>1. s.kind \in Signed <=> s.kind = "d"
    BY KindsAre
  <2>2. s.length = ""
    BY Zenon DEF LogSpec
  <2> DEFINE bits == CASE s.length = "hh" -> CharBits
                       [] s.length = "h" -> ShortBits
                       [] s.length = "" -> IntBits
                       [] s.length = "ll" -> 2 * IntBits
  <2>3. bits = IntBits /\ s.length # "hh"
    BY <2>2, Zenon
  <2> HIDE DEF half, full
  <2>4. Value(s) = IF s.kind \in Signed /\ s.length # "hh"
                   THEN Wrapped(s.arg, bits) ELSE s.arg % 2 ^ bits
    BY Zenon DEF Value
  <2> HIDE DEF bits
  <2>5. Value(s) = IF s.kind = "d" THEN Wrapped(s.arg, bits)
                   ELSE s.arg % 2 ^ bits
    BY <2>1, <2>3, <2>4, Zenon
  <2> QED
    BY <2>3, <2>5, Zenon
<1>2. s.arg \in Int
  BY FormatAssumption DEF IntegerSpecs
<1>3. half \in Nat \ {0} /\ full \in Nat \ {0} /\ half < full
  <2>1. IntBits \in Nat /\ IntBits > 0
    <3> HIDE DEF half, full
    <3>1. IntBits \in Nat \ {0}
      BY FormatAssumption
    <3> QED
      BY <3>1
  <2> QED
    BY <2>1, HalfIsLess
<1>4. Wrapped(s.arg, IntBits) = ((s.arg + half) % full) - half
  BY DEF Wrapped
<1>5. Value(s) = IF s.kind = "d" THEN ((s.arg + half) % full) - half
                 ELSE s.arg % full
  BY <1>1, <1>4
<1> HIDE DEF half, full
<1>6. (s.arg + half) % full \in 0 .. full - 1 /\ s.arg % full \in 0 .. full - 1
  <2>1. s.arg + half \in Int
    <3>1. half \in Int
      BY <1>3
    <3> QED
      BY <1>2, <3>1
  <2> QED
    BY <1>2, <1>3, <2>1, RemainderIs
<1>7. Magnitude(s) < full
  <2> DEFINE a == (s.arg + half) % full
             b == s.arg % full
             v == Value(s)
  <2>1. /\ a \in 0 .. full - 1 /\ b \in 0 .. full - 1
        /\ v = IF s.kind = "d" THEN a - half ELSE b
    BY <1>5, <1>6
  <2> HIDE DEF a, b, v
  <2>2. v \in Int /\ v < full /\ -v < full
    <3>1. CASE s.kind = "d"
      BY <1>3, <2>1, <3>1
    <3>2. CASE s.kind # "d"
      BY <1>3, <2>1, <3>2
    <3> QED
      BY <3>1, <3>2
  <2>3. Magnitude(s) = IF v < 0 THEN -v ELSE v
    BY DEF Magnitude, v
  <2> QED
    BY <2>2, <2>3
<1> QED
  BY <1>1, <1>7 DEF full

(* What ISO C says of these specifications, in the same form.             *)
LEMMA CTextIs ==
  ASSUME NEW s \in IntegerSpecs, LogSpec(s)
  PROVE  CText(s) = LogText(IF s.kind = "d" THEN Sign(Value(s) < 0, s.flags)
                            ELSE << >>,
                            Number(s), Precision(s), s.width, s.flags)
<1> DEFINE N == Number(s)
           sign == IF s.kind \in Signed THEN Sign(Value(s) < 0, s.flags)
                   ELSE << >>
           prefix == IF "HASH" \notin s.flags \/ Value(s) = 0 THEN << >>
                     ELSE CASE s.kind \in {"x", "X"} -> <<"0", s.kind>>
                            [] s.kind = "o" -> <<"0">> [] OTHER -> << >>
           digits == IF Value(s) = 0 /\ s.precision = 0 THEN << >> ELSE N
           least == IF s.precision = None /\ "ZEROPAD" \in s.flags
                      /\ "LEFT" \notin Flags(s)
                    THEN Width(s) - Len(sign) - Len(prefix) ELSE s.precision
           zeros == Rep("0", least - Len(digits))
           nd == Precision(s)
           least2 == IF LogZeros(nd, s.flags) THEN s.width - Len(sign) ELSE nd
<1>1. CText(s) = Spaced(sign \o prefix \o zeros \o digits, Width(s), Flags(s))
  BY Zenon DEF CText, Spaced
<1>2. /\ s.flags \subseteq {"LEFT", "ZEROPAD", "PLUS"} /\ s.width >= 0
      /\ s.precision = None \/ s.precision > 0
      /\ s.width \in Int /\ s.precision \in Int
  BY KindsAre DEF LogSpec
<1>3. Width(s) = s.width /\ ("LEFT" \in Flags(s) <=> "LEFT" \in s.flags)
  BY <1>2 DEF Width, Flags
<1>4. prefix = << >>
  BY <1>2
<1>5. digits = N
  BY <1>2 DEF None
<1>6. N \in Text /\ Len(N) \in Nat \ {0}
  BY NumberIs
<1>7. sign \in Text /\ Len(sign) \in Nat
  <2>1. \A b, f : Sign(b, f) \in Text
    BY SignIs
  <2>2. sign \in Text
    BY <2>1, NoText, Zenon
  <2> QED
    BY <2>2 DEF Text
<1>8. nd = (IF s.precision = None THEN 0 ELSE s.precision)
      /\ (nd = 0 <=> s.precision = None)
  BY <1>2 DEF Precision, Larger, None
<1> HIDE DEF N, sign, prefix, digits, nd
<1>9. least = (IF s.precision = None /\ "ZEROPAD" \in s.flags
                 /\ "LEFT" \notin s.flags
               THEN s.width - Len(sign) ELSE s.precision)
  <2>1. Width(s) - Len(sign) - Len(prefix) = s.width - Len(sign)
    BY <1>2, <1>3, <1>4, <1>7, NoText
  <2> QED
    BY <1>3, <2>1
<1>10. /\ least \in Int /\ least2 \in Int
       /\ least = least2 \/ (least <= 0 /\ least2 <= 0)
  BY <1>2, <1>7, <1>8, <1>9 DEF LogZeros, None
<1> HIDE DEF least, least2
<1>11. zeros \o digits = Filled(least2, N)
  <2>1. zeros \o digits = Filled(least, N)
    BY <1>5 DEF Filled
  <2>2. least = least2 \/ (least <= Len(N) /\ least2 <= Len(N))
    BY <1>6, <1>10
  <2>3. Filled(least, N) = Filled(least2, N)
    BY <1>6, <1>10, <2>2, FilledAlike
  <2> QED
    BY <2>1, <2>3
<1>12. sign \o prefix \o zeros \o digits = sign \o (zeros \o digits)
  <2>1. zeros \in Text /\ digits \in Text
    <3>1. least - Len(digits) \in Int
      BY <1>5, <1>6, <1>10
    <3> QED
      BY <1>5, <1>6, <3>1, ZeroText
  <2> HIDE DEF zeros
  <2>2. sign \o prefix = sign
    <3>1. 0 \in Int
      OBVIOUS
    <3> QED
      BY <1>4, <1>7, <3>1, SpaceText
  <2>3. (sign \o zeros) \o digits = sign \o (zeros \o digits)
    <3>1. /\ sign \in Seq(Char) /\ zeros \in Seq(Char)
          /\ digits \in Seq(Char)
      BY <1>7, <2>1 DEF Text
    <3> QED
      BY <3>1, JoinedInTurn, SMTT(60)
  <2> QED
    BY <2>2, <2>3
<1>13. CText(s) = Spaced(sign \o Filled(least2, N), s.width, s.flags)
  <2>1. CText(s) = Spaced(sign \o Filled(least2, N), s.width, Flags(s))
    BY <1>1, <1>3, <1>11, <1>12
  <2> QED
    BY <1>3, <2>1, Zenon DEF Spaced
<1>14. sign = IF s.kind = "d" THEN Sign(Value(s) < 0, s.flags) ELSE << >>
  BY KindsAre DEF sign
<1> QED
  BY <1>13, <1>14, Zenon DEF LogText, least2, N, nd

(* The log shows them as C does.                                          *)
LEMMA LoggedAsC ==
  ASSUME NEW s \in IntegerSpecs, LogSpec(s)
  PROVE  RttText(s) = CText(s)
<1> DEFINE base == Base(s.kind)
           chars == IF s.kind = "X" THEN UpperChars ELSE DigitChars
           n == Magnitude(s)
           nd == Precision(s)
           D == Digits(n, base, chars)
<1>1. /\ s.kind \in {"d", "u", "X"}
      /\ s.width \in Nat /\ s.precision \in Int
      /\ s.flags \subseteq {"LEFT", "ZEROPAD", "PLUS"}
      /\ Value(s) = SmallestInt => s.width = 0
      /\ s.precision = None \/
           (s.precision > 0 /\ Power(base, s.precision - 1) < 2 ^ IntBits)
  <2>1. /\ s.kind \in {"d", "u", "X"}
        /\ s.width >= 0 /\ s.flags \subseteq {"LEFT", "ZEROPAD", "PLUS"}
        /\ Value(s) = SmallestInt => s.width = 0
        /\ s.precision = None \/
             (s.precision > 0 /\ Power(base, s.precision - 1) < 2 ^ IntBits)
    BY Zenon DEF LogSpec, SmallestInt
  <2>2. s.width \in Int /\ s.precision \in Int
    BY KindsAre
  <2>3. s.width \in Nat
    <3> HIDE DEF base, chars, n, nd, D
    <3>1. s.width >= 0 /\ s.width \in Int
      BY <2>1, <2>2, Zenon
    <3> QED
      BY <3>1
  <2> QED
    BY <2>1, <2>2, <2>3
<1>2. base = (IF s.kind = "X" THEN 16 ELSE 10) /\ base \in LogBases
  <2>1. base = (IF s.kind = "X" THEN 16 ELSE 10)
    BY <1>1, KindsAre
  <2> QED
    BY <2>1 DEF LogBases
<1>3. chars \in Charts /\ Agrees(chars, base)
  BY <1>2, ChartsAre, UpperAgrees
<1>4. nd \in Nat /\ WordFits(base, nd)
  <2> DEFINE least == s.precision
  <2>1. nd = Larger(least, 0) /\ (least = None \/ least > 0) /\ least \in Int
        /\ (least > 0 => Power(base, least - 1) < 2 ^ IntBits)
    <3>1. nd = Larger(least, 0)
      BY DEF Precision
    <3>2. ~(None > 0)
      BY DEF None
    <3> HIDE DEF base, nd
    <3> QED
      BY <1>1, <3>1, <3>2
  <2> HIDE DEF nd, base, least
  <2>2. nd = (IF least = None THEN 0 ELSE least) /\ None = -1
    BY <2>1 DEF Larger, None
  <2>3. CASE nd = 0
    BY <2>3 DEF WordFits
  <2>4. CASE nd # 0
    <3>1. nd = least /\ nd \in Nat /\ nd > 0
      BY <2>1, <2>2, <2>4
    <3> QED
      BY <2>1, <3>1 DEF WordFits
  <2> QED
    BY <2>3, <2>4
<1>5. /\ n \in Nat /\ n < 2 ^ IntBits /\ Value(s) \in Int
      /\ n = (IF Value(s) < 0 THEN -Value(s) ELSE Value(s))
      /\ Value(s) = IF s.kind = "d" THEN Wrapped(s.arg, IntBits)
                    ELSE s.arg % 2 ^ IntBits
      /\ (s.kind # "d" => Value(s) >= 0)
  <2>1. n \in Nat /\ n < 2 ^ IntBits /\ Value(s) \in Int
        /\ Value(s) = IF s.kind = "d" THEN Wrapped(s.arg, IntBits)
                      ELSE s.arg % 2 ^ IntBits
    BY NumberIs, ArgumentIs, Zenon
  <2>2. s.kind # "d" => Value(s) >= 0
    BY NumberIs
  <2>3. n = (IF Value(s) < 0 THEN -Value(s) ELSE Value(s))
    BY DEF Magnitude
  <2> HIDE DEF n
  <2> QED
    BY <2>1, <2>2, <2>3
<1>6. Number(s) = D
  BY NumberIs
<1>7. CText(s) = LogText(IF s.kind = "d" THEN Sign(Value(s) < 0, s.flags)
                         ELSE << >>, D, nd, s.width, s.flags)
  BY <1>6, CTextIs
<1> HIDE DEF n, nd, D
<1>8. CASE s.kind = "d"
  <2>1. RttText(s) = PrintInt(Value(s), 10, nd, s.width, s.flags)
    BY <1>5, <1>8 DEF RttText, nd
  <2> DEFINE v == Value(s)
  <2>2. base = 10
    BY <1>2, <1>8
  <2>3. /\ v \in Int /\ n = (IF v < 0 THEN -v ELSE v) /\ n \in Nat
        /\ n < 2 ^ IntBits /\ (v = SmallestInt => s.width = 0)
    BY <1>1, <1>5
  <2> HIDE DEF v, base, chars
  <2>4. PrintInt(v, base, nd, s.width, s.flags)
          = LogText(Sign(v < 0, s.flags \cap {"PLUS"}), Digits(n, base, chars),
                    nd, s.width, s.flags)
    <3> DEFINE width == s.width
               flags == s.flags
    <3>1. /\ base \in LogBases /\ chars \in Charts /\ Agrees(chars, base)
          /\ v \in Int /\ n \in Nat /\ n = (IF v < 0 THEN -v ELSE v)
          /\ n < 2 ^ IntBits /\ nd \in Nat /\ WordFits(base, nd)
          /\ width \in Nat /\ (v = SmallestInt => width = 0)
      BY <1>1, <1>2, <1>3, <1>4, <2>3
    <3> HIDE DEF width, flags
    <3>2. PrintInt(v, base, nd, width, flags)
            = LogText(Sign(v < 0, flags \cap {"PLUS"}),
                      Digits(n, base, chars), nd, width, flags)
      <4>1. n = Absolute(v)
        BY <3>1 DEF Absolute
      <4>2. PrintInt(v, base, nd, width, flags)
              = LogText(LogSign(v, flags), Digits(n, base, chars), nd, width,
                        flags)
        BY <3>1, <4>1, PrintIntIs
      <4> QED
        BY <4>2, Zenon DEF LogSign
    <3> QED
      BY <3>2 DEF width, flags
  <2>5. Sign(v < 0, s.flags \cap {"PLUS"}) = Sign(v < 0, s.flags)
    BY <1>1 DEF Sign
  <2> QED
    BY <1>7, <1>8, <2>1, <2>2, <2>4, <2>5 DEF v, D
<1>9. CASE s.kind \in {"u", "X"}
  <2>1. n = s.arg % 2 ^ IntBits
    <3>1. s.kind # "d"
      BY <1>9
    <3>2. Value(s) = s.arg % 2 ^ IntBits
      BY <1>5, <3>1, Zenon
    <3>3. n = Value(s)
      BY <1>5, <3>1
    <3> QED
      BY <3>2, <3>3
  <2>2. RttText(s) = PrintUnsigned(n, base, nd, s.width, s.flags)
    <3>1. RttText(s) = PrintUnsigned(s.arg % 2 ^ IntBits, base, nd, s.width,
                                     s.flags)
      <4> HIDE DEF base
      <4> QED
        BY <1>2, <1>9 DEF RttText, nd
    <3> QED
      BY <2>1, <3>1
  <2> HIDE DEF base, chars
  <2>3. PrintUnsigned(n, base, nd, s.width, s.flags)
          = LogText(<< >>, Digits(n, base, chars), nd, s.width, s.flags)
    <3> DEFINE width == s.width
               flags == s.flags
    <3>1. /\ base \in LogBases /\ chars \in Charts /\ Agrees(chars, base)
          /\ n \in Nat /\ n < 2 ^ IntBits
          /\ nd \in Nat /\ WordFits(base, nd) /\ width \in Int
      BY <1>1, <1>2, <1>3, <1>4, <1>5
    <3> HIDE DEF width, flags
    <3>2. PrintUnsigned(n, base, nd, width, flags)
            = LogText(<< >>, Digits(n, base, chars), nd, width, flags)
      BY <3>1, PrintUnsignedIs
    <3> QED
      BY <3>2 DEF width, flags
  <2> QED
    BY <1>7, <1>9, <2>2, <2>3 DEF D
<1> QED
  BY <1>1, <1>8, <1>9

(* A log text shows an integer as ISO C has it: with any argument, width, *)
(* flags and precision that LogsAsC admits.                               *)
THEOREM LogsAreAsC == UsbSpec => []LogsAsC
<1>1. InitFormat => FormatInv
  BY FormatInit
<1>2. FormatInv /\ [NextFormat]_formatVars => FormatInv'
  BY FormatStep
<1>3. FormatInv => LogsAsC
  <2> SUFFICES ASSUME FormatInv, NEW k \in DOMAIN items, LogSpec(items[k])
               PROVE  RttText(items[k]) = CText(items[k])
    BY Zenon DEF LogsAsC, LogSpec
  <2>1. items[k] \in Conversions
    BY LenProperties, ElementOfSeq DEF FormatInv
  <2>2. items[k] \notin FloatSpecs /\ items[k] \notin PointerSpecs
        /\ items[k] \notin TextSpecs /\ items[k] \notin Plain
    BY DEF FloatSpecs, PointerSpecs, TextSpecs, Plain, LogSpec
  <2>3. items[k] \in IntegerSpecs
    BY <2>1, <2>2 DEF Conversions
  <2> QED
    BY <2>3, LoggedAsC
<1> QED
  BY <1>1, <1>2, <1>3, PTL DEF UsbSpec
=============================================================================
