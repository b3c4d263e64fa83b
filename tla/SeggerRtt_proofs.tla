-------------------------- MODULE SeggerRtt_proofs --------------------------
(***************************************************************************)
(* Proofs about SeggerRtt for every size of the up-buffer, every set of    *)
(* terminals, texts of every length and reads of every size.               *)
(***************************************************************************)
EXTENDS SeggerRtt, Lemmas

-----------------------------------------------------------------------------
(* What is still to be published, in order; where the probe reads next,    *)
(* once its store is done; the room a function of the target finds.        *)
Flat == FlattenSeq(todo)
Rd == IF hpc = "publish" THEN hRd ELSE rdOff
InRing == Used(Rd, wrOff)
Room == Size - 1 - Used(rdOff, wrOff)

(* A function under the lock: what it is about to publish fits, and once   *)
(* it is copied it is in the slots behind WrOff.                           *)
WriterInv ==
  /\ pc \in {"copy", "publish"} => chunk <= Room /\ chunk <= Len(Head(todo))
  /\ pc = "spin" => chunk = 1 /\ Len(Head(todo)) = 1
  /\ pc = "publish" =>
       \A s \in Slots : Used(wrOff, s) < chunk
                          => mem[s] = Head(todo)[Used(wrOff, s) + 1]

(* The probe: what it reads are published bytes.                           *)
ProbeInv ==
  /\ hpc = "copy" => Used(rdOff, hWr) <= Used(rdOff, wrOff)
  /\ hpc = "publish" => Used(rdOff, hRd) <= Used(rdOff, wrOff)

(* The bytes accepted are those the probe has, those in the slots from Rd  *)
(* to WrOff, and those to be published.                                    *)
BytesInv ==
  /\ Len(host) + InRing + Len(Flat) = Len(log)
  /\ \A k \in 1 .. Len(host) : host[k] = log[k]
  /\ \A s \in Slots : Used(Rd, s) < InRing
                        => mem[s] = log[Len(host) + 1 + Used(Rd, s)]
  /\ \A k \in 1 .. Len(Flat) : Flat[k] = log[Len(host) + InRing + k]

(* In the modes that do not block the room is there for all that is to be  *)
(* published, and each round takes some of it.                             *)
RoomInv ==
  flags # "block" =>
    /\ pc # "spin"
    /\ pc # "idle" => Len(Flat) <= Room
    /\ pc \in {"copy", "publish"} => chunk > 0 \/ Head(todo) = << >>

-----------------------------------------------------------------------------
(* Going round the ring by n, and the distance from b seen from a.         *)
LEMMA AdvanceInRing ==
  \A off \in Slots, n \in 0 .. Size : Advance(off, n) \in Slots
  BY RttAssumption DEF Advance, Slots

LEMMA UsedInRing == \A rd, wr \in Slots : Used(rd, wr) \in 0 .. Size - 1
  BY RttAssumption DEF Used, Slots

LEMMA Distances ==
  ASSUME NEW a \in Slots, NEW b \in Slots, NEW n \in 0 .. Size - 1
  PROVE  /\ Used(a, Advance(a, n)) = n
         /\ n <= Used(a, b) => Used(Advance(a, n), b) = Used(a, b) - n
         /\ Used(a, b) + n <= Size - 1
              => Used(a, Advance(b, n)) = Used(a, b) + n
  BY RttAssumption DEF Used, Advance, Slots

LEMMA Between ==
  ASSUME NEW a \in Slots, NEW b \in Slots, NEW s \in Slots
  PROVE  Used(b, s) = IF Used(a, b) <= Used(a, s)
                      THEN Used(a, s) - Used(a, b)
                      ELSE Size - Used(a, b) + Used(a, s)
  BY RttAssumption DEF Used, Slots

LEMMA RoomIsAvail ==
  rdOff \in Slots /\ wrOff \in Slots
    => /\ GetAvailWriteSpace = Room /\ Room \in 0 .. Size - 1
       /\ Advance(wrOff, 1) # rdOff => Room >= 1
  BY RttAssumption DEF GetAvailWriteSpace, Room, Used, Slots, Advance

-----------------------------------------------------------------------------
(* The new bytes of a call, numbered up to top.                            *)
Upto(top) == Kinds \X Terminals \X (0 .. top)

LEMMA TextType ==
  ASSUME NEW top \in Nat, NEW t \in Terminals, NEW n \in Nat, NEW m \in Nat,
         Len(log) \in Nat, Len(log) + m + n <= top
  PROVE  /\ TextFor(t, n, m) \in Seq(Upto(top)) /\ Len(TextFor(t, n, m)) = n
         /\ \A b \in 1 .. n : /\ TextFor(t, n, m)[b][1] = "text"
                              /\ TextFor(t, n, m)[b][2] = t
<1> DEFINE byte(b) == <<"text", t, Len(log) + m + b>>
<1>1. ASSUME NEW b \in 1 .. n PROVE byte(b) \in Upto(top)
  <2>1. Len(log) + m + b \in 0 .. top
    OBVIOUS
  <2> QED BY <2>1 DEF Upto, Kinds
<1>2. TextFor(t, n, m) = [b \in 1 .. n |-> byte(b)]
  BY DEF TextFor
<1>3. \A b \in 1 .. n : byte(b)[1] = "text" /\ byte(b)[2] = t
  OBVIOUS
<1> HIDE DEF byte
<1>4. TextFor(t, n, m) \in Seq(Upto(top)) /\ Len(TextFor(t, n, m)) = n
  BY <1>1, <1>2
<1>5. \A b \in 1 .. n : TextFor(t, n, m)[b] = byte(b)
  BY <1>2
<1> QED BY <1>3, <1>4, <1>5

LEMMA SwitchType ==
  ASSUME NEW top \in Nat, NEW t \in Terminals, NEW m \in Nat,
         Len(log) \in Nat, Len(log) + m + 2 <= top
  PROVE  /\ SwitchTo(t, m) \in Seq(Upto(top)) /\ Len(SwitchTo(t, m)) = 2
         /\ SwitchTo(t, m)[1][1] = "FF"
         /\ SwitchTo(t, m)[2][1] = "id" /\ SwitchTo(t, m)[2][2] = t
<1> DEFINE one == <<"FF", t, Len(log) + m + 1>>
           two == <<"id", t, Len(log) + m + 2>>
<1>1. one \in Upto(top) /\ two \in Upto(top)
  <2>1. Len(log) + m + 1 \in 0 .. top /\ Len(log) + m + 2 \in 0 .. top
    OBVIOUS
  <2> QED BY <2>1 DEF Upto, Kinds
<1>2. SwitchTo(t, m) = <<one, two>>
  BY DEF SwitchTo
<1>3. one[1] = "FF" /\ two[1] = "id" /\ two[2] = t
  OBVIOUS
<1> HIDE DEF one, two
<1> QED BY <1>1, <1>2, <1>3

(* The text between two switches.                                          *)
LEMMA WrappedType ==
  ASSUME NEW top \in Nat, NEW t \in Terminals, activeTerminal \in Terminals,
         NEW n \in Nat, Len(log) \in Nat, Len(log) + n + 4 <= top
  PROVE  /\ Wrapped(t, n) \in Seq(Seq(Upto(top))) /\ Wrapped(t, n) # << >>
         /\ FlattenSeq(Wrapped(t, n)) \in Seq(Upto(top))
         /\ Len(FlattenSeq(Wrapped(t, n))) = n + 4
         /\ FlattenSeq(Wrapped(t, n))
              = InRow(SwitchTo(t, 0), TextFor(t, n, 2),
                      SwitchTo(activeTerminal, n + 2))
<1> DEFINE a == SwitchTo(t, 0)
           b == TextFor(t, n, 2)
           c == SwitchTo(activeTerminal, n + 2)
           S == Upto(top)
<1>1. /\ a \in Seq(S) /\ Len(a) = 2 /\ b \in Seq(S) /\ Len(b) = n
      /\ c \in Seq(S) /\ Len(c) = 2
  <2>1. /\ Len(log) + 0 + 2 <= top /\ Len(log) + 2 + n <= top
        /\ Len(log) + (n + 2) + 2 <= top /\ n + 2 \in Nat
    OBVIOUS
  <2>2. a \in Seq(S) /\ Len(a) = 2
    BY <2>1, SwitchType
  <2>3. b \in Seq(S) /\ Len(b) = n
    BY <2>1, TextType
  <2>4. c \in Seq(S) /\ Len(c) = 2
    BY <2>1, SwitchType
  <2> QED BY <2>2, <2>3, <2>4
<1>2. Wrapped(t, n) = <<a, b, c>>
  BY DEF Wrapped
<1> HIDE DEF a, b, c, S
<1>3. a \in Seq(S) /\ b \in Seq(S) /\ c \in Seq(S)
  BY <1>1
<1>4. /\ <<a, b, c>> \in Seq(Seq(S)) /\ <<a, b, c>> # << >>
      /\ FlattenSeq(<<a, b, c>>) = InRow(a, b, c)
      /\ FlattenSeq(<<a, b, c>>) \in Seq(S)
      /\ Len(FlattenSeq(<<a, b, c>>)) = Len(a) + Len(b) + Len(c)
  BY <1>3, FlattenThree
<1>5. Len(a) + Len(b) + Len(c) = n + 4
  BY <1>1
<1> QED BY <1>2, <1>4, <1>5 DEF a, b, c, S

-----------------------------------------------------------------------------
(* What a call does once its bytes are accepted, whichever function it is. *)
Started(pieces) ==
  /\ pc = "idle" /\ todo = << >>
  /\ pieces \in Seq(Seq(Byte)) /\ pieces # << >>
  /\ FlattenSeq(pieces) \in Seq(Byte)
  /\ Len(log) + Len(FlattenSeq(pieces)) <= MaxLog
  /\ todo' = pieces /\ log' = log \o FlattenSeq(pieces)
  /\ \/ /\ pc' = "round" /\ chunk' = chunk
        /\ flags = "block" \/ Len(FlattenSeq(pieces)) <= Room
     \/ /\ pc' = "copy" /\ chunk' = Len(Head(pieces)) /\ chunk' \in 1 .. Room
        /\ Len(FlattenSeq(pieces)) = chunk'
     \/ /\ pc' = "spin" /\ flags = "block" /\ chunk' = 1
        /\ Len(Head(pieces)) = 1
  /\ flags' = flags /\ activeTerminal' \in Terminals
  /\ UNCHANGED <<mem, wrOff, rdOff, hpc, hWr, hRd, host>>

(* What a call does that prints nothing.                                   *)
Silent == /\ pc = "idle" /\ flags' \in Modes
          /\ UNCHANGED <<mem, wrOff, rdOff, activeTerminal, pc, todo, chunk,
                         hpc, hWr, hRd, host, log>>

LEMMA StartNoCheck ==
  ASSUME TypeOK, NEW X, NEW bytes, bytes \in Seq(X), bytes # << >>,
         Len(log) + Len(bytes) <= MaxLog => bytes \in Seq(Byte),
         Len(bytes) <= Room, pc = "idle", WriteNoCheck(bytes),
         UNCHANGED <<ring, flags, probe>>, activeTerminal' \in Terminals
  PROVE  Started(<<bytes>>)
<1>1. /\ <<bytes>> \in Seq(Seq(X)) /\ FlattenSeq(<<bytes>>) = bytes
  BY FlattenOne
<1>2. /\ Len(log) + Len(bytes) <= MaxLog /\ log' = log \o bytes
      /\ todo' = <<bytes>> /\ chunk' = Len(bytes) /\ pc' = "copy"
  BY <1>1 DEF WriteNoCheck, Accept
<1>3. bytes \in Seq(Byte) /\ <<bytes>> \in Seq(Seq(Byte))
  <2>1. bytes \in Seq(Byte)
    BY <1>2
  <2> QED BY <2>1, FlattenOne
<1>4. Head(<<bytes>>) = bytes /\ <<bytes>> # << >>
  OBVIOUS
<1>5. Len(bytes) \in 1 .. Room
  <2>1. Len(bytes) \in Nat /\ Len(bytes) # 0
    BY EmptySeq, LenProperties
  <2>2. Room \in Int
    BY RoomIsAvail DEF TypeOK
  <2> QED BY <2>1, <2>2
<1>6. todo = << >>
  BY DEF TypeOK
<1> QED BY <1>1, <1>2, <1>3, <1>4, <1>5, <1>6 DEF Started, ring, probe

LEMMA StartBlocking ==
  ASSUME TypeOK, NEW X, NEW pieces, pieces \in Seq(Seq(X)), pieces # << >>,
         Len(log) + Len(FlattenSeq(pieces)) <= MaxLog
           => pieces \in Seq(Seq(Byte)),
         flags = "block" \/ Len(FlattenSeq(pieces)) <= Room,
         pc = "idle", WriteBlocking(pieces),
         UNCHANGED <<ring, flags, probe>>, activeTerminal' \in Terminals
  PROVE  Started(pieces)
<1>1. /\ Len(log) + Len(FlattenSeq(pieces)) <= MaxLog
      /\ log' = log \o FlattenSeq(pieces)
      /\ todo' = pieces /\ chunk' = chunk /\ pc' = "round"
  BY DEF WriteBlocking, Accept
<1>2. pieces \in Seq(Seq(Byte)) /\ FlattenSeq(pieces) \in Seq(Byte)
  <2>1. pieces \in Seq(Seq(Byte))
    BY <1>1
  <2> QED BY <2>1, FlattenHead
<1>3. todo = << >>
  BY DEF TypeOK
<1> QED BY <1>1, <1>2, <1>3 DEF Started, ring, probe

(* Text for the terminal that is set, and a switch, as one piece.          *)
LEMMA TextBytes ==
  ASSUME TypeOK, NEW n \in Nat
  PROVE  LET bytes == TextFor(activeTerminal, n, 0)
         IN /\ bytes \in Seq(Upto(Len(log) + n)) /\ Len(bytes) = n
            /\ Len(log) + Len(bytes) <= MaxLog => bytes \in Seq(Byte)
            /\ <<bytes>> \in Seq(Seq(Upto(Len(log) + n)))
            /\ <<bytes>> # << >> /\ FlattenSeq(<<bytes>>) = bytes
            /\ Head(<<bytes>>) = bytes
            /\ Len(log) + Len(bytes) <= MaxLog => <<bytes>> \in Seq(Seq(Byte))
<1> DEFINE bytes == TextFor(activeTerminal, n, 0)
<1>1. Len(log) \in Nat /\ activeTerminal \in Terminals /\ MaxLog \in Nat
  BY RttAssumption DEF TypeOK
<1>2. bytes \in Seq(Upto(Len(log) + n)) /\ Len(bytes) = n
  <2>1. Len(log) + n \in Nat /\ Len(log) + 0 + n <= Len(log) + n
    BY <1>1
  <2> QED BY <1>1, <2>1, TextType
<1>3. Len(log) + Len(bytes) <= MaxLog => bytes \in Seq(Byte)
  <2>1. Len(log) + Len(bytes) <= MaxLog => Len(log) + 0 + n <= MaxLog
    BY <1>1, <1>2
  <2>2. Len(log) + 0 + n <= MaxLog => bytes \in Seq(Upto(MaxLog))
    BY <1>1, TextType
  <2> QED BY <2>1, <2>2 DEF Upto, Byte
<1> HIDE DEF bytes
<1>4. <<bytes>> # << >> /\ Head(<<bytes>>) = bytes
  OBVIOUS
<1>5. /\ <<bytes>> \in Seq(Seq(Upto(Len(log) + n)))
      /\ FlattenSeq(<<bytes>>) = bytes
      /\ Len(log) + Len(bytes) <= MaxLog => <<bytes>> \in Seq(Seq(Byte))
  BY <1>2, <1>3, FlattenOne
<1> QED BY <1>2, <1>3, <1>4, <1>5 DEF bytes

LEMMA SwitchBytes ==
  ASSUME TypeOK, NEW t \in Terminals
  PROVE  LET bytes == SwitchTo(t, 0)
         IN /\ bytes \in Seq(Upto(Len(log) + 2)) /\ Len(bytes) = 2
            /\ Len(log) + Len(bytes) <= MaxLog => bytes \in Seq(Byte)
            /\ <<bytes>> \in Seq(Seq(Upto(Len(log) + 2)))
            /\ <<bytes>> # << >> /\ FlattenSeq(<<bytes>>) = bytes
            /\ bytes # << >>
            /\ Len(log) + Len(bytes) <= MaxLog => <<bytes>> \in Seq(Seq(Byte))
<1> DEFINE bytes == SwitchTo(t, 0)
<1>1. Len(log) \in Nat /\ MaxLog \in Nat
  BY RttAssumption DEF TypeOK
<1>2. bytes \in Seq(Upto(Len(log) + 2)) /\ Len(bytes) = 2
  <2>1. Len(log) + 2 \in Nat /\ Len(log) + 0 + 2 <= Len(log) + 2
    BY <1>1
  <2> QED BY <1>1, <2>1, SwitchType
<1>3. Len(log) + Len(bytes) <= MaxLog => bytes \in Seq(Byte)
  <2>1. Len(log) + Len(bytes) <= MaxLog => Len(log) + 0 + 2 <= MaxLog
    <3> HIDE DEF bytes
    <3> QED BY <1>1, <1>2
  <2>2. Len(log) + 0 + 2 <= MaxLog => bytes \in Seq(Upto(MaxLog))
    BY <1>1, SwitchType
  <2> QED BY <2>1, <2>2 DEF Upto, Byte
<1>4. bytes # << >>
  BY DEF SwitchTo
<1> HIDE DEF bytes
<1>5. <<bytes>> # << >>
  OBVIOUS
<1>6. /\ <<bytes>> \in Seq(Seq(Upto(Len(log) + 2)))
      /\ FlattenSeq(<<bytes>>) = bytes
      /\ Len(log) + Len(bytes) <= MaxLog => <<bytes>> \in Seq(Seq(Byte))
  BY <1>2, <1>3, FlattenOne
<1> QED BY <1>2, <1>3, <1>4, <1>5, <1>6 DEF bytes

LEMMA WrappedBytes ==
  ASSUME TypeOK, NEW t \in Terminals, NEW n \in Nat
  PROVE  LET pieces == Wrapped(t, n)
         IN /\ pieces \in Seq(Seq(Upto(Len(log) + n + 4))) /\ pieces # << >>
            /\ Len(FlattenSeq(pieces)) = n + 4
            /\ Len(log) + Len(FlattenSeq(pieces)) <= MaxLog
                 => pieces \in Seq(Seq(Byte))
<1> DEFINE pieces == Wrapped(t, n)
<1>1. Len(log) \in Nat /\ activeTerminal \in Terminals /\ MaxLog \in Nat
  BY RttAssumption DEF TypeOK
<1>2. /\ pieces \in Seq(Seq(Upto(Len(log) + n + 4))) /\ pieces # << >>
      /\ Len(FlattenSeq(pieces)) = n + 4
  <2>1. /\ Len(log) + n + 4 \in Nat
        /\ Len(log) + n + 4 <= Len(log) + n + 4
    BY <1>1
  <2> QED BY <1>1, <2>1, WrappedType
<1>3. Len(log) + n + 4 <= MaxLog => pieces \in Seq(Seq(Upto(MaxLog)))
  BY <1>1, WrappedType
<1>4. Len(log) + Len(FlattenSeq(pieces)) = Len(log) + n + 4
  <2> HIDE DEF pieces
  <2> QED BY <1>1, <1>2
<1> QED BY <1>2, <1>3, <1>4 DEF Upto, Byte

LEMMA Calls ==
  TypeOK /\ Call => (\E pieces : Started(pieces)) \/ Silent
<1> SUFFICES ASSUME TypeOK, Call
             PROVE  (\E pieces : Started(pieces)) \/ Silent
  OBVIOUS
<1>a. /\ activeTerminal \in Terminals /\ MaxText \in Nat /\ flags \in Modes
      /\ GetAvailWriteSpace = Room /\ Room \in 0 .. Size - 1 /\ Size \in Nat
      /\ Advance(wrOff, 1) # rdOff => Room >= 1
  BY RoomIsAvail, RttAssumption DEF TypeOK
<1>1. ASSUME NEW n \in 1 .. MaxText, Write(n)
      PROVE  (\E pieces : Started(pieces)) \/ Silent
  <2>1. /\ pc = "idle"
        /\ UNCHANGED <<ring, flags, activeTerminal, probe>>
        /\ \/ \E k \in 0 .. n : /\ k <= Room
                               /\ WriteNoCheck(TextFor(activeTerminal, k, 0))
           \/ /\ flags = "block"
              /\ WriteBlocking(<<TextFor(activeTerminal, n, 0)>>)
    <3>1. /\ (IF Room < n THEN 0 ELSE n) \in 0 .. n
          /\ (IF Room < n THEN 0 ELSE n) <= Room
          /\ Least(Room, n) \in 0 .. n /\ Least(Room, n) <= Room
      BY <1>a DEF Least
    <3> QED BY <1>1, <1>a, <3>1 DEF Write
  <2>2. ASSUME NEW k \in 0 .. n, k <= Room,
               WriteNoCheck(TextFor(activeTerminal, k, 0))
        PROVE  (\E pieces : Started(pieces)) \/ Silent
    <3> DEFINE bytes == TextFor(activeTerminal, k, 0)
    <3>1. k \in Nat
      BY <1>a
    <3>2. /\ bytes \in Seq(Upto(Len(log) + k)) /\ Len(bytes) <= Room
          /\ Len(log) + Len(bytes) <= MaxLog => bytes \in Seq(Byte)
          /\ WriteNoCheck(bytes)
      BY <2>2, <3>1, TextBytes
    <3> HIDE DEF bytes
    <3>3. CASE bytes = << >>
      BY <1>a, <2>1, <3>2, <3>3 DEF WriteNoCheck, Silent, ring, probe
    <3>4. CASE bytes # << >>
      <4>1. Started(<<bytes>>)
        BY <1>a, <2>1, <3>2, <3>4, StartNoCheck
      <4> QED BY <4>1
    <3> QED BY <3>3, <3>4
  <2>3. ASSUME flags = "block",
               WriteBlocking(<<TextFor(activeTerminal, n, 0)>>)
        PROVE  \E pieces : Started(pieces)
    <3> DEFINE pieces == <<TextFor(activeTerminal, n, 0)>>
    <3>1. n \in Nat
      BY <1>a
    <3>2. /\ pieces \in Seq(Seq(Upto(Len(log) + n))) /\ pieces # << >>
          /\ Len(log) + Len(FlattenSeq(pieces)) <= MaxLog
               => pieces \in Seq(Seq(Byte))
      BY <3>1, TextBytes
    <3>3. WriteBlocking(pieces)
      BY <2>3
    <3> HIDE DEF pieces
    <3>4. Started(pieces)
      BY <1>a, <2>1, <2>3, <3>2, <3>3, StartBlocking
    <3> QED BY <3>4
  <2> QED BY <2>1, <2>2, <2>3
<1>2. ASSUME PutChar \/ PutCharSkip
      PROVE  \E pieces : Started(pieces)
  <2> DEFINE bytes == TextFor(activeTerminal, 1, 0)
  <2>1. /\ bytes \in Seq(Upto(Len(log) + 1)) /\ Len(bytes) = 1
        /\ Len(log) + Len(bytes) <= MaxLog => bytes \in Seq(Byte)
        /\ FlattenSeq(<<bytes>>) = bytes /\ Head(<<bytes>>) = bytes
        /\ Len(log) + Len(bytes) <= MaxLog => <<bytes>> \in Seq(Seq(Byte))
        /\ <<bytes>> # << >>
    BY TextBytes
  <2>2. /\ pc = "idle"
        /\ UNCHANGED <<ring, flags, activeTerminal, probe>>
        /\ \/ Room >= 1 /\ WriteNoCheck(bytes)
           \/ /\ flags = "block" /\ Accept(<<bytes>>)
              /\ pc' = "spin" /\ chunk' = 1
    BY <1>2, <1>a DEF PutChar, PutCharSkip
  <2> HIDE DEF bytes
  <2>3. CASE Room >= 1 /\ WriteNoCheck(bytes)
    <3>1. bytes # << >> /\ Len(bytes) <= Room
      BY <1>a, <2>1, <2>3
    <3>2. Started(<<bytes>>)
      BY <1>a, <2>1, <2>2, <2>3, <3>1, StartNoCheck
    <3> QED BY <3>2
  <2>4. CASE /\ flags = "block" /\ Accept(<<bytes>>)
             /\ pc' = "spin" /\ chunk' = 1
    <3>1. /\ Len(log) + Len(bytes) <= MaxLog /\ log' = log \o bytes
          /\ todo' = <<bytes>>
      BY <2>1, <2>4 DEF Accept
    <3>2. todo = << >>
      BY <2>2 DEF TypeOK
    <3>3. Started(<<bytes>>)
      BY <1>a, <2>1, <2>2, <2>4, <3>1, <3>2 DEF Started, ring, probe
    <3> QED BY <3>3
  <2> QED BY <2>2, <2>3, <2>4
<1>3. ASSUME NEW t \in Terminals, SetTerminal(t)
      PROVE  \E pieces : Started(pieces)
  <2> DEFINE bytes == SwitchTo(t, 0)
  <2>1. /\ bytes \in Seq(Upto(Len(log) + 2)) /\ Len(bytes) = 2
        /\ Len(log) + Len(bytes) <= MaxLog => bytes \in Seq(Byte)
        /\ <<bytes>> \in Seq(Seq(Upto(Len(log) + 2)))
        /\ <<bytes>> # << >> /\ FlattenSeq(<<bytes>>) = bytes
        /\ bytes # << >>
        /\ Len(log) + Len(bytes) <= MaxLog => <<bytes>> \in Seq(Seq(Byte))
    BY SwitchBytes
  <2>2. /\ pc = "idle" /\ UNCHANGED <<ring, flags, probe>>
        /\ activeTerminal' \in Terminals
        /\ \/ flags = "block" /\ WriteBlocking(<<bytes>>)
           \/ Room >= 2 /\ WriteNoCheck(bytes)
    BY <1>3, <1>a DEF SetTerminal
  <2> HIDE DEF bytes
  <2>3. CASE flags = "block" /\ WriteBlocking(<<bytes>>)
    <3>1. Len(log) + Len(FlattenSeq(<<bytes>>)) <= MaxLog
            => <<bytes>> \in Seq(Seq(Byte))
      BY <2>1
    <3>2. Started(<<bytes>>)
      BY <2>1, <2>2, <2>3, <3>1, StartBlocking
    <3> QED BY <3>2
  <2>4. CASE Room >= 2 /\ WriteNoCheck(bytes)
    <3>1. Len(bytes) <= Room
      BY <1>a, <2>1, <2>4
    <3>2. Started(<<bytes>>)
      BY <2>1, <2>2, <2>4, <3>1, StartNoCheck
    <3> QED BY <3>2
  <2> QED BY <2>2, <2>3, <2>4
<1>4. ASSUME NEW t \in Terminals, NEW n \in 0 .. MaxText, TerminalOut(t, n)
      PROVE  \E pieces : Started(pieces)
  <2>1. PICK k \in 0 .. n : /\ WriteBlocking(Wrapped(t, k))
                            /\ flags = "block" \/ k + 4 <= Room
    <3>1. /\ Room >= 4 => /\ Least(n, Room - 4) \in 0 .. n
                          /\ Least(n, Room - 4) + 4 <= Room
          /\ n \in 0 .. n /\ (Room >= n + 4 => n + 4 <= Room)
      BY <1>a DEF Least
    <3> QED BY <1>4, <1>a, <3>1 DEF TerminalOut
  <2>2. /\ pc = "idle" /\ UNCHANGED <<ring, flags, activeTerminal, probe>>
    BY <1>4 DEF TerminalOut
  <2> DEFINE pieces == Wrapped(t, k)
  <2>3. k \in Nat
    BY <1>a
  <2>4. /\ pieces \in Seq(Seq(Upto(Len(log) + k + 4))) /\ pieces # << >>
        /\ Len(FlattenSeq(pieces)) = k + 4
        /\ Len(log) + Len(FlattenSeq(pieces)) <= MaxLog
             => pieces \in Seq(Seq(Byte))
    BY <2>3, WrappedBytes
  <2>5. WriteBlocking(pieces) /\ (flags = "block" \/ k + 4 <= Room)
    BY <2>1
  <2> HIDE DEF pieces
  <2>6. flags = "block" \/ Len(FlattenSeq(pieces)) <= Room
    BY <2>4, <2>5
  <2>7. Started(pieces)
    BY <1>a, <2>2, <2>4, <2>5, <2>6, StartBlocking
  <2> QED BY <2>7
<1>5. ASSUME NEW mode \in Modes, SetFlagsUpBuffer(mode)
      PROVE  Silent
  BY <1>5 DEF SetFlagsUpBuffer, Silent, ring, probe
<1> QED BY <1>1, <1>2, <1>3, <1>4, <1>5 DEF Call
















-----------------------------------------------------------------------------
(* The inductive invariant, and what follows from it at once.              *)
IInv == TypeOK /\ WriterInv /\ ProbeInv /\ BytesInv /\ RoomInv

LEMMA Digest ==
  IInv => /\ wrOff \in Slots /\ rdOff \in Slots /\ Rd \in Slots
          /\ hWr \in Slots /\ hRd \in Slots
          /\ Size \in Nat /\ Size > 1 /\ MaxLog \in Nat /\ chunk \in 0 .. Size - 1
          /\ Used(rdOff, wrOff) \in 0 .. Size - 1
          /\ Room = Size - 1 - Used(rdOff, wrOff) /\ Room \in 0 .. Size - 1
          /\ InRing \in 0 .. Size - 1 /\ InRing <= Used(rdOff, wrOff)
          /\ Len(log) \in Nat /\ Len(host) \in Nat
          /\ Flat \in Seq(Byte) /\ Len(Flat) \in Nat
<1> SUFFICES ASSUME IInv
             PROVE  /\ wrOff \in Slots /\ rdOff \in Slots /\ Rd \in Slots
                    /\ hWr \in Slots /\ hRd \in Slots
                    /\ Size \in Nat /\ Size > 1 /\ MaxLog \in Nat
                    /\ chunk \in 0 .. Size - 1
                    /\ Used(rdOff, wrOff) \in 0 .. Size - 1
                    /\ Room = Size - 1 - Used(rdOff, wrOff)
                    /\ Room \in 0 .. Size - 1
                    /\ InRing \in 0 .. Size - 1
                    /\ InRing <= Used(rdOff, wrOff)
                    /\ Len(log) \in Nat /\ Len(host) \in Nat
                    /\ Flat \in Seq(Byte) /\ Len(Flat) \in Nat
  OBVIOUS
<1>1. /\ wrOff \in Slots /\ rdOff \in Slots /\ Rd \in Slots
      /\ hWr \in Slots /\ hRd \in Slots
      /\ Size \in Nat /\ Size > 1 /\ MaxLog \in Nat /\ chunk \in 0 .. Size - 1
  BY RttAssumption DEF IInv, TypeOK, Rd
<1>2. /\ Used(rdOff, wrOff) \in 0 .. Size - 1 /\ InRing \in 0 .. Size - 1
      /\ Used(rdOff, hRd) \in 0 .. Size - 1
  BY <1>1, UsedInRing DEF InRing
<1>3. InRing <= Used(rdOff, wrOff)
  <2>1. CASE hpc = "publish"
    <3>1. Used(rdOff, hRd) <= Used(rdOff, wrOff) /\ InRing = Used(hRd, wrOff)
      BY <2>1 DEF IInv, ProbeInv, InRing, Rd
    <3>2. Used(hRd, wrOff) = Used(rdOff, wrOff) - Used(rdOff, hRd)
      BY <1>1, <3>1, Between
    <3> QED BY <1>2, <3>1, <3>2
  <2>2. CASE hpc # "publish"
    BY <1>2, <2>2 DEF InRing, Rd
  <2> QED BY <2>1, <2>2
<1>4. Room = Size - 1 - Used(rdOff, wrOff) /\ Room \in 0 .. Size - 1
  BY <1>1, <1>2 DEF Room
<1>5. Len(log) \in Nat /\ Len(host) \in Nat
  <2>1. log \in Seq(Byte) /\ host \in Seq(Byte)
    BY DEF IInv, TypeOK
  <2> QED BY <2>1, LenProperties
<1>6. Flat \in Seq(Byte) /\ Len(Flat) \in Nat
  <2>1. todo \in Seq(Seq(Byte))
    BY DEF IInv, TypeOK
  <2>2. FlattenSeq(todo) \in Seq(Byte)
    <3>1. CASE todo = << >>
      <4>1. FlattenSeq(todo) = << >>
        BY <3>1, FlattenEmpty
      <4>2. << >> \in Seq(Byte)
        OBVIOUS
      <4> QED BY <4>1, <4>2
    <3>2. CASE todo # << >>
      BY <2>1, <3>2, FlattenHead
    <3> QED BY <3>1, <3>2
  <2>3. Len(FlattenSeq(todo)) \in Nat
    BY <2>2, LenProperties
  <2> QED BY <2>2, <2>3 DEF Flat
<1> QED BY <1>1, <1>2, <1>3, <1>4, <1>5, <1>6

(* A function that runs has something to publish.                          *)
LEMMA AtWork ==
  IInv /\ pc # "idle"
    => /\ todo \in Seq(Seq(Byte)) /\ todo # << >>
       /\ Head(todo) \in Seq(Byte) /\ Len(Head(todo)) \in Nat
       /\ Len(Head(todo)) <= Len(Flat)
       /\ \A k \in 1 .. Len(Head(todo)) : Flat[k] = Head(todo)[k]
<1> SUFFICES ASSUME IInv, pc # "idle"
             PROVE  /\ todo \in Seq(Seq(Byte)) /\ todo # << >>
                    /\ Head(todo) \in Seq(Byte) /\ Len(Head(todo)) \in Nat
                    /\ Len(Head(todo)) <= Len(Flat)
                    /\ \A k \in 1 .. Len(Head(todo)) :
                         Flat[k] = Head(todo)[k]
  OBVIOUS
<1>1. todo \in Seq(Seq(Byte)) /\ todo # << >>
  BY DEF IInv, TypeOK
<1>2. Head(todo) \in Seq(Byte)
  BY <1>1, HeadTailProperties
<1>3. Len(Head(todo)) \in Nat
  BY <1>2, LenProperties
<1>4. 0 \in 0 .. Len(Head(todo))
  BY <1>3
<1>5. Shorter(Head(todo), FlattenSeq(todo), FlattenSeq(Dropped(todo, 0)), 0)
  BY <1>1, <1>4, DropFront
<1> QED BY <1>1, <1>2, <1>3, <1>5 DEF Shorter, Flat

-----------------------------------------------------------------------------
LEMMA StepStarted ==
  ASSUME IInv, NEW pieces, Started(pieces)
  PROVE  IInv'
<1> DEFINE F == FlattenSeq(pieces)
<1>a. /\ Size \in Nat /\ Size > 1 /\ chunk \in 0 .. Size - 1
      /\ Room \in 0 .. Size - 1 /\ InRing \in 0 .. Size - 1
      /\ Len(log) \in Nat /\ Len(host) \in Nat /\ MaxLog \in Nat
  BY Digest
<1>b. /\ pieces \in Seq(Seq(Byte)) /\ pieces # << >> /\ F \in Seq(Byte)
      /\ Len(log) + Len(F) <= MaxLog
      /\ todo = << >> /\ todo' = pieces /\ log' = log \o F
      /\ flags' = flags /\ activeTerminal' \in Terminals
      /\ UNCHANGED <<mem, wrOff, rdOff, hpc, hWr, hRd, host>>
  BY DEF Started
<1>c. /\ \/ pc' = "round" /\ chunk' = chunk
         \/ /\ pc' = "copy" /\ chunk' \in 1 .. Room
            /\ chunk' = Len(Head(pieces)) /\ Len(F) = chunk'
         \/ /\ pc' = "spin" /\ chunk' = 1 /\ Len(Head(pieces)) = 1
            /\ flags = "block"
      /\ flags = "block" \/ Len(F) <= Room
  BY <1>a DEF Started
<1>d. Rd' = Rd /\ InRing' = InRing /\ Room' = Room /\ Flat' = F
  BY <1>b DEF Rd, InRing, Room, Flat
<1>e. /\ log \in Seq(Byte) /\ host \in Seq(Byte) /\ log' \in Seq(Byte)
      /\ Len(F) \in Nat /\ Len(log') = Len(log) + Len(F)
      /\ \A k \in 1 .. Len(log) : log'[k] = log[k]
      /\ \A k \in 1 .. Len(F) : log'[Len(log) + k] = F[k]
  <2>1. log \in Seq(Byte) /\ host \in Seq(Byte)
    BY DEF IInv, TypeOK
  <2>2. F \in Seq(Byte) /\ Joins(log', log, F)
    BY <1>b DEF Joins
  <2> HIDE DEF F
  <2>3. /\ log' \in Seq(Byte) /\ Len(log') = Len(log) + Len(F)
        /\ Len(F) \in Nat
        /\ \A k \in 1 .. Len(log) : log'[k] = log[k]
        /\ \A k \in 1 .. Len(F) : log'[Len(log) + k] = F[k]
    BY <2>1, <2>2, JoinFacts
  <2> QED BY <2>1, <2>3
<1>f. Len(host) + InRing = Len(log)
  <2>1. Len(Flat) = 0
    BY <1>b, FlattenEmpty DEF Flat
  <2> QED BY <1>a, <2>1 DEF IInv, BytesInv
<1> HIDE DEF F
<1>1. TypeOK'
  <2>1. /\ mem' \in [Slots -> Byte] /\ wrOff' \in Slots /\ rdOff' \in Slots
        /\ flags' \in Modes /\ activeTerminal' \in Terminals
        /\ hpc' \in {"idle", "copy", "publish"}
        /\ hWr' \in Slots /\ hRd' \in Slots /\ host' \in Seq(Byte)
    BY <1>b DEF IInv, TypeOK
  <2>2. /\ pc' \in {"idle", "spin", "round", "copy", "publish"}
        /\ chunk' \in 0 .. Size - 1 /\ pc' # "idle"
    BY <1>a, <1>c
  <2>3. Len(log') <= MaxLog /\ Len(host') <= Len(log')
    BY <1>a, <1>b, <1>e, <1>f
  <2>4. todo' \in Seq(Seq(Byte)) /\ (pc' = "idle" <=> todo' = << >>)
    BY <1>b, <2>2
  <2> QED BY <1>e, <2>1, <2>2, <2>3, <2>4 DEF TypeOK
<1>2. WriterInv'
  <2>1. /\ pc' # "publish"
        /\ pc' = "copy" => chunk' <= Room' /\ chunk' <= Len(Head(todo'))
        /\ pc' = "spin" => chunk' = 1 /\ Len(Head(todo')) = 1
    BY <1>a, <1>b, <1>c, <1>d
  <2> QED BY <2>1 DEF WriterInv
<1>3. ProbeInv'
  BY <1>b DEF IInv, ProbeInv
<1>4. BytesInv'
  <2>1. Len(host') + InRing' + Len(Flat') = Len(log')
    BY <1>a, <1>b, <1>d, <1>e, <1>f
  <2>2. ASSUME NEW k \in 1 .. Len(host') PROVE host'[k] = log'[k]
    <3>1. k \in 1 .. Len(host) /\ k \in 1 .. Len(log)
      BY <1>a, <1>b, <1>f
    <3> QED BY <1>b, <1>e, <3>1 DEF IInv, BytesInv
  <2>3. ASSUME NEW s \in Slots, Used(Rd', s) < InRing'
        PROVE  mem'[s] = log'[Len(host') + 1 + Used(Rd', s)]
    <3>1. mem[s] = log[Len(host) + 1 + Used(Rd, s)]
      BY <1>d, <2>3 DEF IInv, BytesInv
    <3>2. Used(Rd, s) \in 0 .. Size - 1
      BY Digest, UsedInRing
    <3>3. Len(host) + 1 + Used(Rd, s) \in 1 .. Len(log)
      BY <1>a, <1>d, <1>f, <2>3, <3>2
    <3> QED BY <1>b, <1>d, <1>e, <3>1, <3>3
  <2>4. ASSUME NEW k \in 1 .. Len(Flat')
        PROVE  Flat'[k] = log'[Len(host') + InRing' + k]
    BY <1>b, <1>d, <1>e, <1>f
  <2> QED BY <2>1, <2>2, <2>3, <2>4 DEF BytesInv, Used
<1>5. RoomInv'
  <2>1. flags # "block" => pc' # "spin" /\ Len(Flat') <= Room'
    BY <1>c, <1>d
  <2>2. pc' \in {"copy", "publish"} => chunk' > 0
    BY <1>a, <1>c
  <2> QED BY <1>b, <2>1, <2>2 DEF RoomInv
<1> QED BY <1>1, <1>2, <1>3, <1>4, <1>5 DEF IInv

LEMMA StepSilent == IInv /\ Silent => IInv'
<1> SUFFICES ASSUME IInv, Silent PROVE IInv'
  OBVIOUS
<1>1. TypeOK'
  BY DEF IInv, TypeOK, Silent
<1>2. WriterInv' /\ ProbeInv'
  BY DEF IInv, WriterInv, ProbeInv, Silent, Room
<1>3. BytesInv'
  BY DEF IInv, BytesInv, Silent, Rd, InRing, Flat
<1>4. RoomInv'
  BY DEF IInv, RoomInv, Silent
<1> QED BY <1>1, <1>2, <1>3, <1>4 DEF IInv

LEMMA StepSpinEnds == IInv /\ SpinEnds => IInv'
<1> SUFFICES ASSUME IInv, SpinEnds PROVE IInv'
  OBVIOUS
<1>1. /\ pc = "spin" /\ pc' = "copy" /\ Advance(wrOff, 1) # rdOff
      /\ UNCHANGED <<mem, wrOff, rdOff, flags, activeTerminal, todo, chunk,
                     hpc, hWr, hRd, host, log>>
  BY DEF SpinEnds, ring, probe
<1>2. Rd' = Rd /\ InRing' = InRing /\ Room' = Room /\ Flat' = Flat
  BY <1>1 DEF Rd, InRing, Room, Flat
<1>3. TypeOK'
  BY <1>1 DEF IInv, TypeOK
<1>4. WriterInv'
  <2>1. Room >= 1 /\ chunk = 1 /\ Len(Head(todo)) = 1
    BY <1>1, RoomIsAvail DEF IInv, WriterInv, TypeOK
  <2>2. chunk' <= Room' /\ chunk' <= Len(Head(todo'))
    BY <1>1, <1>2, <2>1
  <2> QED BY <1>1, <2>2 DEF WriterInv
<1>5. ProbeInv'
  BY <1>1 DEF IInv, ProbeInv
<1>6. BytesInv'
  BY <1>1, <1>2 DEF IInv, BytesInv
<1>7. RoomInv'
  BY <1>1 DEF IInv, RoomInv
<1> QED BY <1>3, <1>4, <1>5, <1>6, <1>7 DEF IInv

LEMMA StepRound == IInv /\ Round => IInv'
<1> SUFFICES ASSUME IInv, Round PROVE IInv'
  OBVIOUS
<1>1. /\ pc = "round" /\ pc' = "copy"
      /\ chunk' = Least(Least(GetAvailWriteSpace, Size - wrOff),
                        Len(Head(todo)))
      /\ UNCHANGED <<mem, wrOff, rdOff, flags, activeTerminal, todo,
                     hpc, hWr, hRd, host, log>>
  BY DEF Round, ring, probe
<1>2. Rd' = Rd /\ InRing' = InRing /\ Room' = Room /\ Flat' = Flat
  BY <1>1 DEF Rd, InRing, Room, Flat
<1>3. /\ Size \in Nat /\ Size > 1 /\ wrOff \in Nat /\ Size - wrOff >= 1
      /\ Room \in 0 .. Size - 1 /\ GetAvailWriteSpace = Room
      /\ Len(Head(todo)) \in Nat /\ Len(Flat) \in Nat
      /\ Len(Head(todo)) <= Len(Flat) /\ Head(todo) \in Seq(Byte)
  <2>1. wrOff \in Slots /\ rdOff \in Slots /\ Size \in Nat /\ Size > 1
    BY Digest
  <2>2. wrOff \in Nat /\ Size - wrOff >= 1
    BY <2>1 DEF Slots
  <2> QED BY <1>1, <2>1, <2>2, Digest, AtWork, RoomIsAvail
<1>4. /\ chunk' \in 0 .. Size - 1 /\ chunk' <= Room
      /\ chunk' <= Len(Head(todo))
      /\ Room >= 1 /\ Len(Head(todo)) >= 1 => chunk' > 0
  BY <1>1, <1>3 DEF Least
<1>5. TypeOK'
  BY <1>1, <1>4 DEF IInv, TypeOK
<1>6. WriterInv'
  <2>1. chunk' <= Room' /\ chunk' <= Len(Head(todo'))
    BY <1>1, <1>2, <1>4
  <2> QED BY <1>1, <2>1 DEF WriterInv
<1>7. ProbeInv'
  BY <1>1 DEF IInv, ProbeInv
<1>8. BytesInv'
  BY <1>1, <1>2 DEF IInv, BytesInv
<1>9. RoomInv'
  <2>1. ASSUME flags # "block" PROVE chunk' > 0 \/ Head(todo) = << >>
    <3>1. Len(Flat) <= Room
      BY <1>1, <2>1 DEF IInv, RoomInv
    <3>2. Head(todo) = << >> \/ Len(Head(todo)) # 0
      BY <1>3, EmptySeq
    <3> QED BY <1>3, <1>4, <3>1, <3>2
  <2> QED BY <1>1, <1>2, <2>1 DEF IInv, RoomInv
<1> QED BY <1>5, <1>6, <1>7, <1>8, <1>9 DEF IInv

(* The slots that the copy fills hold nothing that the probe has yet to    *)
(* read.                                                                   *)
LEMMA Apart ==
  ASSUME IInv, pc \in {"copy", "publish"}, NEW s \in Slots
  PROVE  Used(Rd, s) < InRing => ~(Used(wrOff, s) < chunk)
<1>1. /\ Rd \in Slots /\ wrOff \in Slots /\ Size \in Nat
      /\ InRing \in 0 .. Size - 1 /\ InRing <= Used(rdOff, wrOff)
      /\ Used(rdOff, wrOff) \in 0 .. Size - 1 /\ chunk \in 0 .. Size - 1
      /\ Room = Size - 1 - Used(rdOff, wrOff)
  BY Digest
<1>2. chunk <= Room
  BY DEF IInv, WriterInv
<1>3. Used(wrOff, s) = IF InRing <= Used(Rd, s) THEN Used(Rd, s) - InRing
                       ELSE Size - InRing + Used(Rd, s)
  BY <1>1, Between DEF InRing
<1>4. Used(Rd, s) \in 0 .. Size - 1
  BY <1>1, UsedInRing
<1> QED BY <1>1, <1>2, <1>3, <1>4

LEMMA StepCopy == IInv /\ Copy => IInv'
<1> SUFFICES ASSUME IInv, Copy PROVE IInv'
  OBVIOUS
<1>1. /\ pc = "copy" /\ pc' = "publish"
      /\ UNCHANGED <<wrOff, rdOff, flags, activeTerminal, todo, chunk,
                     hpc, hWr, hRd, host, log>>
  BY DEF Copy, probe
<1>2. Rd' = Rd /\ InRing' = InRing /\ Room' = Room /\ Flat' = Flat
  BY <1>1 DEF Rd, InRing, Room, Flat
<1>3. /\ chunk \in 0 .. Size - 1 /\ Size \in Nat /\ wrOff \in Slots
      /\ Rd \in Slots
      /\ Head(todo) \in Seq(Byte) /\ Len(Head(todo)) \in Nat
      /\ chunk <= Len(Head(todo)) /\ chunk <= Room
  BY <1>1, Digest, AtWork DEF IInv, WriterInv
<1>4. ASSUME NEW s \in Slots
      PROVE  /\ Used(wrOff, s) \in 0 .. Size - 1
             /\ mem'[s] = IF Used(wrOff, s) < chunk
                          THEN Head(todo)[Used(wrOff, s) + 1] ELSE mem[s]
  <2>1. Used(wrOff, s) \in 0 .. Size - 1
    BY <1>3, UsedInRing
  <2>2. mem'[s] = IF Used(wrOff, s) + 1 <= chunk
                  THEN Head(todo)[Used(wrOff, s) + 1] ELSE mem[s]
    BY DEF Copy
  <2>3. Used(wrOff, s) + 1 <= chunk <=> Used(wrOff, s) < chunk
    BY <1>3, <2>1
  <2> QED BY <2>1, <2>2, <2>3
<1>5. TypeOK'
  <2>1. ASSUME NEW s \in Slots PROVE mem'[s] \in Byte
    <3>1. CASE Used(wrOff, s) < chunk
      <4>1. Used(wrOff, s) + 1 \in 1 .. Len(Head(todo))
        BY <1>3, <1>4, <3>1
      <4>2. Head(todo)[Used(wrOff, s) + 1] \in Byte
        BY <1>3, <4>1, ElementOfSeq
      <4> QED BY <1>4, <3>1, <4>2
    <3>2. CASE ~(Used(wrOff, s) < chunk)
      BY <1>4, <3>2 DEF IInv, TypeOK
    <3> QED BY <3>1, <3>2
  <2>2. mem' \in [Slots -> Byte]
    <3>1. mem' = [s \in Slots |-> mem'[s]]
      BY DEF Copy
    <3> QED BY <2>1, <3>1
  <2> QED BY <1>1, <2>2 DEF IInv, TypeOK
<1>6. WriterInv'
  <2>1. \A s \in Slots : Used(wrOff', s) < chunk'
                         => mem'[s] = Head(todo')[Used(wrOff', s) + 1]
    BY <1>1, <1>4
  <2>2. chunk' <= Room' /\ chunk' <= Len(Head(todo'))
    BY <1>1, <1>2, <1>3
  <2> QED BY <1>1, <2>1, <2>2 DEF WriterInv, Used
<1>7. ProbeInv'
  BY <1>1 DEF IInv, ProbeInv
<1>8. BytesInv'
  <2>1. ASSUME NEW s \in Slots, Used(Rd, s) < InRing
        PROVE  mem'[s] = log[Len(host) + 1 + Used(Rd, s)]
    <3>1. ~(Used(wrOff, s) < chunk)
      BY <1>1, <2>1, Apart
    <3> QED BY <1>4, <2>1, <3>1 DEF IInv, BytesInv
  <2>2. \A s \in Slots : Used(Rd', s) < InRing'
                         => mem'[s] = log'[Len(host') + 1 + Used(Rd', s)]
    BY <1>1, <1>2, <2>1
  <2>3. /\ Len(host') + InRing' + Len(Flat') = Len(log')
        /\ \A k \in 1 .. Len(host') : host'[k] = log'[k]
        /\ \A k \in 1 .. Len(Flat') :
             Flat'[k] = log'[Len(host') + InRing' + k]
    BY <1>1, <1>2 DEF IInv, BytesInv
  <2> QED BY <2>2, <2>3 DEF BytesInv, Used
<1>9. RoomInv'
  BY <1>1, <1>2 DEF IInv, RoomInv
<1> QED BY <1>5, <1>6, <1>7, <1>8, <1>9 DEF IInv

LEMMA StepPublish == IInv /\ Publish => IInv'
<1> SUFFICES ASSUME IInv, Publish PROVE IInv'
  OBVIOUS
<1>1. /\ pc = "publish" /\ wrOff' = Advance(wrOff, chunk)
      /\ todo' = Dropped(todo, chunk) /\ chunk' = 0
      /\ pc' = IF todo' = << >> THEN "idle" ELSE "round"
      /\ UNCHANGED <<mem, rdOff, flags, activeTerminal, hpc, hWr, hRd, host,
                     log>>
  BY DEF Publish, Dropped, Rest, probe
<1>2. /\ wrOff \in Slots /\ rdOff \in Slots /\ Rd \in Slots
      /\ Size \in Nat /\ Size > 1
      /\ chunk \in 0 .. Size - 1 /\ chunk <= Room
      /\ Used(rdOff, wrOff) \in 0 .. Size - 1
      /\ Room = Size - 1 - Used(rdOff, wrOff)
      /\ InRing \in 0 .. Size - 1 /\ InRing <= Used(rdOff, wrOff)
      /\ Len(log) \in Nat /\ Len(host) \in Nat /\ Len(Flat) \in Nat
  BY <1>1, Digest DEF IInv, WriterInv
<1>3. /\ todo \in Seq(Seq(Byte)) /\ todo # << >>
      /\ Len(Head(todo)) \in Nat /\ chunk <= Len(Head(todo))
      /\ Len(Head(todo)) <= Len(Flat)
      /\ \A k \in 1 .. Len(Head(todo)) : Flat[k] = Head(todo)[k]
  BY <1>1, AtWork DEF IInv, WriterInv
<1>4. /\ todo' \in Seq(Seq(Byte)) /\ Len(Flat') = Len(Flat) - chunk
      /\ \A k \in 1 .. Len(Flat') : Flat'[k] = Flat[chunk + k]
  <2>1. chunk \in 0 .. Len(Head(todo))
    BY <1>2, <1>3
  <2>2. /\ Dropped(todo, chunk) \in Seq(Seq(Byte))
        /\ Shorter(Head(todo), FlattenSeq(todo),
                   FlattenSeq(Dropped(todo, chunk)), chunk)
    BY <1>3, <2>1, DropFront
  <2>3. Flat' = FlattenSeq(Dropped(todo, chunk))
    BY <1>1 DEF Flat
  <2> QED BY <1>1, <2>2, <2>3 DEF Shorter, Flat
<1>5. /\ wrOff' \in Slots /\ Rd' = Rd
      /\ Used(rdOff', wrOff') = Used(rdOff, wrOff) + chunk
      /\ InRing' = InRing + chunk /\ Room' = Room - chunk
  <2>1. wrOff' \in Slots
    BY <1>1, <1>2, AdvanceInRing
  <2>2. Rd' = Rd
    BY <1>1 DEF Rd
  <2>3. Used(rdOff, Advance(wrOff, chunk)) = Used(rdOff, wrOff) + chunk
    BY <1>2, Distances
  <2>4. Used(Rd, Advance(wrOff, chunk)) = Used(Rd, wrOff) + chunk
    <3>1. Used(Rd, wrOff) + chunk <= Size - 1
      BY <1>2 DEF InRing
    <3> QED BY <1>2, <3>1, Distances
  <2>5. Used(rdOff', wrOff') = Used(rdOff, wrOff) + chunk
    BY <1>1, <2>3
  <2>6. InRing' = InRing + chunk
    BY <1>1, <2>2, <2>4 DEF InRing
  <2>7. Room' = Size - 1 - Used(rdOff', wrOff')
    BY DEF Room
  <2> QED BY <1>2, <2>1, <2>2, <2>5, <2>6, <2>7
<1>6. TypeOK'
  BY <1>1, <1>2, <1>4, <1>5 DEF IInv, TypeOK
<1>7. WriterInv'
  BY <1>1 DEF WriterInv
<1>8. ProbeInv'
  <2>1. ASSUME hpc = "copy"
        PROVE  Used(rdOff, hWr) <= Used(rdOff, wrOff) + chunk
    <3>1. /\ Used(rdOff, hWr) <= Used(rdOff, wrOff)
          /\ Used(rdOff, hWr) \in 0 .. Size - 1
      BY <2>1, Digest, UsedInRing DEF IInv, ProbeInv
    <3> QED BY <1>2, <3>1
  <2>2. ASSUME hpc = "publish"
        PROVE  Used(rdOff, hRd) <= Used(rdOff, wrOff) + chunk
    <3>1. /\ Used(rdOff, hRd) <= Used(rdOff, wrOff)
          /\ Used(rdOff, hRd) \in 0 .. Size - 1
      BY <2>2, Digest, UsedInRing DEF IInv, ProbeInv
    <3> QED BY <1>2, <3>1
  <2> QED BY <1>1, <1>5, <2>1, <2>2 DEF ProbeInv
<1>9. BytesInv'
  <2>1. Len(host') + InRing' + Len(Flat') = Len(log')
    <3>1. Len(host) + InRing + Len(Flat) = Len(log)
      BY DEF IInv, BytesInv
    <3>2. /\ Len(Flat') = Len(Flat) - chunk /\ InRing' = InRing + chunk
          /\ Len(host') = Len(host) /\ Len(log') = Len(log)
      BY <1>1, <1>4, <1>5
    <3>3. /\ Len(Flat) \in Nat /\ chunk \in Nat /\ InRing \in Nat
          /\ Len(host) \in Nat
      BY <1>2
    <3> QED BY <3>1, <3>2, <3>3
  <2>2. \A k \in 1 .. Len(host') : host'[k] = log'[k]
    BY <1>1 DEF IInv, BytesInv
  <2>3. ASSUME NEW s \in Slots, Used(Rd, s) < InRing + chunk
        PROVE  mem[s] = log[Len(host) + 1 + Used(Rd, s)]
    <3>1. Used(Rd, s) \in 0 .. Size - 1
      BY <1>2, UsedInRing
    <3>2. CASE Used(Rd, s) < InRing
      BY <3>2 DEF IInv, BytesInv
    <3>3. CASE ~(Used(Rd, s) < InRing)
      <4>1. Used(wrOff, s) = Used(Rd, s) - InRing
        BY <1>2, <3>1, <3>3, Between DEF InRing
      <4>2. /\ Used(wrOff, s) < chunk
            /\ Used(wrOff, s) + 1 \in 1 .. Len(Head(todo))
            /\ Used(wrOff, s) + 1 \in 1 .. Len(Flat)
            /\ Len(host) + InRing + (Used(wrOff, s) + 1)
                 = Len(host) + 1 + Used(Rd, s)
        <5>1. /\ Used(Rd, s) \in Nat /\ InRing \in Nat /\ chunk \in Nat
              /\ Len(host) \in Nat /\ Len(Flat) \in Nat
              /\ Len(Head(todo)) \in Nat /\ chunk <= Len(Head(todo))
              /\ Len(Head(todo)) <= Len(Flat)
          BY <1>2, <1>3, <3>1
        <5> QED BY <2>3, <3>3, <4>1, <5>1
      <4>3. mem[s] = Head(todo)[Used(wrOff, s) + 1]
        BY <1>1, <4>2 DEF IInv, WriterInv
      <4>4. Flat[Used(wrOff, s) + 1]
              = log[Len(host) + InRing + (Used(wrOff, s) + 1)]
        BY <4>2 DEF IInv, BytesInv
      <4> QED BY <1>3, <4>2, <4>3, <4>4
    <3> QED BY <3>2, <3>3
  <2>4. ASSUME NEW k \in 1 .. Len(Flat')
        PROVE  Flat'[k] = log[Len(host) + (InRing + chunk) + k]
    <3>1. chunk + k \in 1 .. Len(Flat)
      BY <1>2, <1>3, <1>4
    <3>2. Flat[chunk + k] = log[Len(host) + InRing + (chunk + k)]
      BY <3>1 DEF IInv, BytesInv
    <3>3. Len(host) + InRing + (chunk + k) = Len(host) + (InRing + chunk) + k
      BY <1>2
    <3> QED BY <1>4, <3>2, <3>3
  <2>5. /\ \A s \in Slots : Used(Rd', s) < InRing'
                          => mem'[s] = log'[Len(host') + 1 + Used(Rd', s)]
        /\ \A k \in 1 .. Len(Flat') :
             Flat'[k] = log'[Len(host') + InRing' + k]
    BY <1>1, <1>5, <2>3, <2>4
  <2> QED BY <2>1, <2>2, <2>5 DEF BytesInv, Used
<1>10. RoomInv'
  <2>1. ASSUME flags # "block" PROVE Len(Flat') <= Room'
    <3>1. Len(Flat) <= Room
      BY <1>1, <2>1 DEF IInv, RoomInv
    <3> QED BY <1>2, <1>4, <1>5, <3>1
  <2> QED BY <1>1, <2>1 DEF RoomInv
<1> QED BY <1>6, <1>7, <1>8, <1>9, <1>10 DEF IInv

LEMMA StepLoadOffsets == IInv /\ LoadOffsets => IInv'
<1> SUFFICES ASSUME IInv, LoadOffsets PROVE IInv'
  OBVIOUS
<1>1. /\ hpc = "idle" /\ hpc' = "copy" /\ hWr' = wrOff
      /\ UNCHANGED <<mem, wrOff, rdOff, flags, activeTerminal, pc, todo,
                     chunk, hRd, log, host>>
  BY DEF LoadOffsets, ring
<1>2. Rd' = Rd /\ InRing' = InRing /\ Room' = Room /\ Flat' = Flat
  BY <1>1 DEF Rd, InRing, Room, Flat
<1>3. TypeOK'
  BY <1>1 DEF IInv, TypeOK
<1>4. WriterInv'
  BY <1>1, <1>2 DEF IInv, WriterInv
<1>5. ProbeInv'
  <2>1. Used(rdOff, wrOff) <= Used(rdOff, wrOff)
    BY Digest
  <2> QED BY <1>1, <2>1 DEF ProbeInv
<1>6. BytesInv'
  BY <1>1, <1>2 DEF IInv, BytesInv
<1>7. RoomInv'
  BY <1>1, <1>2 DEF IInv, RoomInv
<1> QED BY <1>3, <1>4, <1>5, <1>6, <1>7 DEF IInv

LEMMA StepCopyOut ==
  ASSUME IInv, NEW size \in BufferSizes, CopyOut(size)
  PROVE  IInv'
<1> DEFINE n == Least(Used(rdOff, hWr), size)
           B == BytesFrom(rdOff, n)
<1>1. /\ hpc = "copy" /\ hpc' = "publish" /\ hRd' = Advance(rdOff, n)
      /\ host' = host \o B
      /\ UNCHANGED <<mem, wrOff, rdOff, flags, activeTerminal, pc, todo,
                     chunk, hWr, log>>
  BY DEF CopyOut, ring
<1>2. B = [b \in 1 .. n |-> mem[Advance(rdOff, b - 1)]]
  BY DEF BytesFrom
<1>3. /\ wrOff \in Slots /\ rdOff \in Slots /\ hWr \in Slots
      /\ Size \in Nat /\ Size > 1 /\ InRing = Used(rdOff, wrOff)
      /\ Used(rdOff, wrOff) \in 0 .. Size - 1
      /\ Used(rdOff, hWr) <= Used(rdOff, wrOff)
      /\ Used(rdOff, hWr) \in 0 .. Size - 1
      /\ Len(log) \in Nat /\ Len(host) \in Nat /\ Len(Flat) \in Nat
      /\ Rd = rdOff
  BY <1>1, Digest, UsedInRing DEF IInv, ProbeInv, InRing, Rd
<1>4. n \in 0 .. Size - 1 /\ n <= InRing
  <2>1. size \in Nat
    BY RttAssumption
  <2> QED BY <1>3, <2>1 DEF Least
<1> HIDE DEF n, B
<1>5. /\ hRd' \in Slots /\ Rd' = hRd' /\ Used(rdOff, hRd') = n
      /\ InRing' = InRing - n /\ Room' = Room /\ Flat' = Flat
  <2>1. hRd' \in Slots
    BY <1>1, <1>3, <1>4, AdvanceInRing
  <2>2. /\ Used(rdOff, Advance(rdOff, n)) = n
        /\ Used(Advance(rdOff, n), wrOff) = Used(rdOff, wrOff) - n
    BY <1>3, <1>4, Distances
  <2>3. Rd' = hRd'
    BY <1>1 DEF Rd
  <2>4. InRing' = Used(hRd', wrOff)
    BY <1>1, <2>3 DEF InRing
  <2>5. Room' = Room /\ Flat' = Flat
    BY <1>1 DEF Room, Flat
  <2> QED BY <1>1, <1>3, <2>1, <2>2, <2>3, <2>4, <2>5
<1>6. /\ B \in Seq(Byte) /\ Len(B) = n
      /\ \A k \in 1 .. n : B[k] = log[Len(host) + k]
  <2>1. ASSUME NEW k \in 1 .. n
        PROVE  /\ mem[Advance(rdOff, k - 1)] \in Byte
               /\ mem[Advance(rdOff, k - 1)] = log[Len(host) + k]
    <3>1. k - 1 \in 0 .. Size - 1 /\ k - 1 < InRing
      BY <1>3, <1>4
    <3>2. /\ Advance(rdOff, k - 1) \in Slots
          /\ Used(rdOff, Advance(rdOff, k - 1)) = k - 1
      BY <1>3, <3>1, AdvanceInRing, Distances
    <3>3. mem[Advance(rdOff, k - 1)] = log[Len(host) + 1 + (k - 1)]
      BY <1>3, <3>1, <3>2 DEF IInv, BytesInv
    <3>4. Len(host) + 1 + (k - 1) = Len(host) + k
      BY <1>3
    <3>5. mem[Advance(rdOff, k - 1)] \in Byte
      BY <3>2 DEF IInv, TypeOK
    <3> QED BY <3>3, <3>4, <3>5
  <2> DEFINE at(k) == mem[Advance(rdOff, k - 1)]
  <2>2. B = [k \in 1 .. n |-> at(k)]
    BY <1>2
  <2>3. \A k \in 1 .. n : at(k) \in Byte /\ at(k) = log[Len(host) + k]
    BY <2>1
  <2>4. n \in Nat
    BY <1>4
  <2> HIDE DEF at
  <2>5. B \in Seq(Byte) /\ Len(B) = n
    BY <2>2, <2>3, <2>4
  <2> QED BY <2>2, <2>3, <2>5
<1>7. /\ host' \in Seq(Byte) /\ Len(host') = Len(host) + n
      /\ \A k \in 1 .. Len(host) : host'[k] = host[k]
      /\ \A k \in 1 .. n : host'[Len(host) + k] = B[k]
  <2>1. host \in Seq(Byte) /\ Joins(host', host, B)
    BY <1>1 DEF IInv, TypeOK, Joins
  <2>2. B \in Seq(Byte)
    BY <1>6
  <2>3. /\ host' \in Seq(Byte) /\ Len(host') = Len(host) + Len(B)
        /\ \A k \in 1 .. Len(host) : host'[k] = host[k]
        /\ \A k \in 1 .. Len(B) : host'[Len(host) + k] = B[k]
    BY <2>1, <2>2, JoinFacts
  <2> QED BY <1>6, <2>3
<1>8. Len(host') + InRing' + Len(Flat') = Len(log')
  <2>1. Len(host) + InRing + Len(Flat) = Len(log)
    BY DEF IInv, BytesInv
  <2> QED BY <1>1, <1>3, <1>4, <1>5, <1>7, <2>1, SMTT(30)
<1>9. TypeOK'
  <2>1. Len(host') <= Len(log')
    BY <1>1, <1>3, <1>4, <1>5, <1>7, <1>8
  <2> QED BY <1>1, <1>5, <1>7, <2>1 DEF IInv, TypeOK
<1>10. WriterInv'
  BY <1>1, <1>5 DEF IInv, WriterInv
<1>11. ProbeInv'
  BY <1>1, <1>3, <1>4, <1>5 DEF ProbeInv
<1>12. BytesInv'
  <2>1. ASSUME NEW k \in 1 .. Len(host') PROVE host'[k] = log[k]
    <3>1. CASE k <= Len(host)
      <4>1. k \in 1 .. Len(host)
        BY <1>3, <1>4, <1>7, <3>1
      <4> QED BY <1>7, <4>1 DEF IInv, BytesInv
    <3>2. CASE k > Len(host)
      <4>1. PICK j \in 1 .. n : k = Len(host) + j
        <5>1. /\ k - Len(host) \in 1 .. n
              /\ k = Len(host) + (k - Len(host))
          BY <1>3, <1>4, <1>7, <3>2
        <5> QED BY <5>1
      <4> QED BY <1>6, <1>7, <4>1
    <3> QED BY <1>3, <1>4, <1>7, <3>1, <3>2
  <2>2. ASSUME NEW s \in Slots, Used(hRd', s) < InRing - n
        PROVE  mem[s] = log[Len(host') + 1 + Used(hRd', s)]
    <3>1. Used(rdOff, s) \in 0 .. Size - 1 /\ Used(hRd', s) \in 0 .. Size - 1
      BY <1>3, <1>5, UsedInRing
    <3>2. Used(hRd', s) = IF n <= Used(rdOff, s) THEN Used(rdOff, s) - n
                          ELSE Size - n + Used(rdOff, s)
      BY <1>3, <1>5, Between
    <3>3. /\ Used(rdOff, s) < InRing
          /\ Len(host') + 1 + Used(hRd', s) = Len(host) + 1 + Used(rdOff, s)
      BY <1>3, <1>4, <1>7, <2>2, <3>1, <3>2
    <3>4. mem[s] = log[Len(host) + 1 + Used(rdOff, s)]
      BY <1>3, <3>3 DEF IInv, BytesInv
    <3> QED BY <3>3, <3>4
  <2>3. ASSUME NEW k \in 1 .. Len(Flat)
        PROVE  Flat[k] = log[Len(host') + InRing' + k]
    <3>1. Flat[k] = log[Len(host) + InRing + k]
      BY DEF IInv, BytesInv
    <3>2. Len(host') + InRing' + k = Len(host) + InRing + k
      BY <1>3, <1>4, <1>5, <1>7
    <3> QED BY <3>1, <3>2
  <2>4. /\ \A k \in 1 .. Len(host') : host'[k] = log'[k]
        /\ \A s \in Slots : Used(Rd', s) < InRing'
                          => mem'[s] = log'[Len(host') + 1 + Used(Rd', s)]
        /\ \A k \in 1 .. Len(Flat') :
             Flat'[k] = log'[Len(host') + InRing' + k]
    BY <1>1, <1>5, <2>1, <2>2, <2>3
  <2> QED BY <1>8, <2>4 DEF BytesInv, Used
<1>13. RoomInv'
  BY <1>1, <1>5 DEF IInv, RoomInv
<1> QED BY <1>9, <1>10, <1>11, <1>12, <1>13 DEF IInv

LEMMA StepStoreRdOff == IInv /\ StoreRdOff => IInv'
<1> SUFFICES ASSUME IInv, StoreRdOff PROVE IInv'
  OBVIOUS
<1>1. /\ hpc = "publish" /\ hpc' = "idle" /\ rdOff' = hRd
      /\ hWr' = 0 /\ hRd' = 0
      /\ UNCHANGED <<mem, wrOff, flags, activeTerminal, pc, todo, chunk, log,
                     host>>
  BY DEF StoreRdOff
<1>2. /\ Rd' = Rd /\ InRing' = InRing /\ Flat' = Flat
      /\ Room' = Size - 1 - InRing
  <2>1. Rd' = hRd /\ Rd = hRd
    BY <1>1 DEF Rd
  <2>2. InRing' = InRing /\ InRing = Used(hRd, wrOff)
    BY <1>1, <2>1 DEF InRing
  <2>3. Room' = Size - 1 - Used(rdOff', wrOff') /\ Flat' = Flat
    BY <1>1 DEF Room, Flat
  <2> QED BY <1>1, <2>1, <2>2, <2>3
<1>3. /\ 0 \in Slots /\ hRd \in Slots /\ Room' >= Room /\ Room \in Nat
      /\ Room' \in Nat /\ chunk \in Nat /\ Len(Flat) \in Nat
  <2>1. 0 \in Slots
    BY RttAssumption DEF Slots
  <2> QED BY <1>2, <2>1, Digest
<1>4. TypeOK'
  BY <1>1, <1>3 DEF IInv, TypeOK
<1>5. WriterInv'
  <2>1. pc \in {"copy", "publish"} => chunk <= Room'
    <3>1. pc \in {"copy", "publish"} => chunk <= Room
      BY DEF IInv, WriterInv
    <3> QED BY <1>3, <3>1
  <2> QED BY <1>1, <2>1 DEF IInv, WriterInv
<1>6. ProbeInv'
  BY <1>1 DEF ProbeInv
<1>7. BytesInv'
  BY <1>1, <1>2 DEF IInv, BytesInv
<1>8. RoomInv'
  <2>1. flags # "block" /\ pc # "idle" => Len(Flat) <= Room'
    <3>1. flags # "block" /\ pc # "idle" => Len(Flat) <= Room
      BY DEF IInv, RoomInv
    <3> QED BY <1>3, <3>1
  <2> QED BY <1>1, <1>2, <2>1 DEF IInv, RoomInv
<1> QED BY <1>4, <1>5, <1>6, <1>7, <1>8 DEF IInv

-----------------------------------------------------------------------------
LEMMA IInvInit == Init => IInv
<1> SUFFICES ASSUME Init PROVE IInv
  OBVIOUS
<1>1. /\ mem = [s \in Slots |-> NoByte] /\ wrOff = 0 /\ rdOff = 0
      /\ flags = "skip" /\ activeTerminal = 0
      /\ pc = "idle" /\ todo = << >> /\ chunk = 0
      /\ hpc = "idle" /\ hWr = 0 /\ hRd = 0 /\ log = << >> /\ host = << >>
  BY DEF Init
<1>2. 0 \in Slots /\ 0 \in 0 .. Size - 1 /\ Used(0, 0) = 0 /\ Size \in Nat
  BY RttAssumption DEF Slots, Used
<1>3. Rd = 0 /\ InRing = 0 /\ Flat = << >>
  BY <1>1, <1>2, FlattenEmpty DEF Rd, InRing, Flat
<1>4. TypeOK
  <2>1. NoByte \in Byte
    <3>1. 0 \in Terminals /\ 0 \in 0 .. MaxLog
      BY RttAssumption
    <3> QED BY <3>1 DEF NoByte, Byte, Kinds
  <2>2. mem \in [Slots -> Byte]
    BY <1>1, <2>1
  <2>3. /\ << >> \in Seq(Seq(Byte)) /\ << >> \in Seq(Byte)
        /\ Len(<< >>) <= MaxLog /\ Len(<< >>) <= Len(<< >>)
    BY RttAssumption
  <2>4. /\ flags \in Modes /\ activeTerminal \in Terminals
        /\ pc \in {"idle", "spin", "round", "copy", "publish"}
        /\ hpc \in {"idle", "copy", "publish"}
    BY <1>1, RttAssumption DEF Modes
  <2> QED BY <1>1, <1>2, <2>2, <2>3, <2>4 DEF TypeOK
<1>5. WriterInv /\ ProbeInv /\ RoomInv
  BY <1>1 DEF WriterInv, ProbeInv, RoomInv
<1>6. BytesInv
  <2>1. Len(host) = 0 /\ Len(log) = 0 /\ Len(Flat) = 0
    BY <1>1, <1>3
  <2>2. \A s \in Slots : ~(Used(Rd, s) < InRing)
    <3>1. \A s \in Slots : Used(0, s) \in 0 .. Size - 1
      BY <1>2, UsedInRing
    <3> QED BY <1>2, <1>3, <3>1
  <2> QED BY <1>3, <2>1, <2>2 DEF BytesInv
<1> QED BY <1>4, <1>5, <1>6 DEF IInv

LEMMA IInvStep == IInv /\ [Next]_vars => IInv'
<1> SUFFICES ASSUME IInv, [Next]_vars PROVE IInv'
  OBVIOUS
<1>1. CASE Call
  <2>1. (\E pieces : Started(pieces)) \/ Silent
    BY <1>1, Calls DEF IInv
  <2> QED BY <2>1, StepStarted, StepSilent
<1>2. CASE SpinEnds \/ Round \/ Copy \/ Publish
  BY <1>2, StepSpinEnds, StepRound, StepCopy, StepPublish
<1>3. CASE LoadOffsets \/ StoreRdOff
  BY <1>3, StepLoadOffsets, StepStoreRdOff
<1>4. ASSUME NEW size \in BufferSizes, CopyOut(size) PROVE IInv'
  BY <1>4, StepCopyOut
<1>5. CASE UNCHANGED vars
  <2>1. UNCHANGED <<mem, wrOff, rdOff, flags, activeTerminal, pc, todo,
                    chunk, hpc, hWr, hRd, log, host>>
    BY <1>5 DEF vars
  <2>2. TypeOK'
    BY <2>1 DEF IInv, TypeOK
  <2>3. WriterInv' /\ ProbeInv'
    BY <2>1 DEF IInv, WriterInv, ProbeInv, Room
  <2>4. BytesInv' /\ RoomInv'
    BY <2>1 DEF IInv, BytesInv, RoomInv, Rd, InRing, Flat, Room
  <2> QED BY <2>2, <2>3, <2>4 DEF IInv
<1> QED BY <1>1, <1>2, <1>3, <1>4, <1>5 DEF Next, Work, Probe

LEMMA Inductive == Spec => []IInv
<1> QED BY IInvInit, IInvStep, PTL DEF Spec

(* Every variable keeps its type: the offsets of both sides stay in the    *)
(* buffer, what is accepted and received are bytes, numbered up to MaxLog, *)
(* and the probe never has more than was accepted.                         *)
THEOREM TypeCorrect == Spec => []TypeOK
<1>1. IInv => TypeOK
  BY DEF IInv
<1> QED BY <1>1, Inductive, PTL

(* Whatever the probe does between the steps of a function under the lock, *)
(* the bytes the probe has, those in the buffer and those still to be      *)
(* published are the accepted ones, each once and in order: for every size *)
(* of the buffer and every number of turns around it.                      *)
THEOREM NothingIsLost == Spec => []Conserved
<1>1. ASSUME IInv PROVE Conserved
  <2> DEFINE B == BytesFrom(Rd, InRing)
             front == host \o B
             all == front \o Flat
  <2>1. /\ Rd \in Slots /\ InRing \in 0 .. Size - 1 /\ Size \in Nat
        /\ Len(host) \in Nat /\ Flat \in Seq(Byte) /\ Len(Flat) \in Nat
    BY <1>1, Digest
  <2>2. B = [b \in 1 .. InRing |-> mem[Advance(Rd, b - 1)]]
    BY DEF BytesFrom
  <2>3. Joins(front, host, B) /\ Joins(all, front, Flat)
    BY DEF Joins
  <2> HIDE DEF B, front, all
  <2>4. ASSUME NEW k \in 1 .. InRing
        PROVE  /\ mem[Advance(Rd, k - 1)] \in Byte
               /\ mem[Advance(Rd, k - 1)] = log[Len(host) + k]
    <3>1. k - 1 \in 0 .. Size - 1 /\ k - 1 < InRing
      BY <2>1
    <3>2. /\ Advance(Rd, k - 1) \in Slots
          /\ Used(Rd, Advance(Rd, k - 1)) = k - 1
      BY <2>1, <3>1, AdvanceInRing, Distances
    <3>3. mem[Advance(Rd, k - 1)] = log[Len(host) + 1 + (k - 1)]
      BY <1>1, <3>1, <3>2 DEF IInv, BytesInv
    <3>4. Len(host) + 1 + (k - 1) = Len(host) + k
      BY <2>1
    <3>5. mem[Advance(Rd, k - 1)] \in Byte
      BY <1>1, <3>2 DEF IInv, TypeOK
    <3> QED BY <3>3, <3>4, <3>5
  <2> DEFINE at(k) == mem[Advance(Rd, k - 1)]
  <2>5. /\ B = [k \in 1 .. InRing |-> at(k)] /\ InRing \in Nat
        /\ \A k \in 1 .. InRing : at(k) \in Byte /\ at(k) = log[Len(host) + k]
    BY <2>1, <2>2, <2>4
  <2> HIDE DEF at
  <2>6. /\ B \in Seq(Byte) /\ Len(B) = InRing
        /\ \A k \in 1 .. InRing : B[k] = log[Len(host) + k]
    BY <2>5
  <2>7. host \in Seq(Byte) /\ log \in Seq(Byte) /\ B \in Seq(Byte)
    BY <1>1, <2>6 DEF IInv, TypeOK
  <2>8. /\ front \in Seq(Byte) /\ Len(front) = Len(host) + Len(B)
        /\ \A k \in 1 .. Len(host) : front[k] = host[k]
        /\ \A k \in 1 .. Len(B) : front[Len(host) + k] = B[k]
    BY <2>3, <2>7, JoinFacts
  <2>9. front \in Seq(Byte) /\ Flat \in Seq(Byte)
    BY <2>1, <2>8
  <2>10. /\ all \in Seq(Byte) /\ Len(all) = Len(front) + Len(Flat)
         /\ \A k \in 1 .. Len(front) : all[k] = front[k]
         /\ \A k \in 1 .. Len(Flat) : all[Len(front) + k] = Flat[k]
    BY <2>3, <2>9, JoinFacts
  <2>11. /\ Len(host) + InRing + Len(Flat) = Len(log)
         /\ \A k \in 1 .. Len(host) : host[k] = log[k]
         /\ \A k \in 1 .. Len(Flat) : Flat[k] = log[Len(host) + InRing + k]
    BY <1>1 DEF IInv, BytesInv
  <2>12. Len(front) = Len(host) + InRing /\ Len(all) = Len(log)
    BY <2>1, <2>6, <2>8, <2>10, <2>11
  <2>13. ASSUME NEW k \in 1 .. Len(all) PROVE all[k] = log[k]
    <3>1. CASE k <= Len(host)
      <4>1. k \in 1 .. Len(host) /\ k \in 1 .. Len(front)
        BY <2>1, <2>12, <3>1
      <4> QED BY <2>8, <2>10, <2>11, <4>1
    <3>2. CASE Len(host) < k /\ k <= Len(front)
      <4>1. PICK j \in 1 .. InRing : k = Len(host) + j
        <5>1. /\ k - Len(host) \in 1 .. InRing
              /\ k = Len(host) + (k - Len(host))
          BY <2>1, <2>12, <3>2
        <5> QED BY <5>1
      <4>2. k \in 1 .. Len(front)
        BY <2>1, <2>12, <3>2
      <4> QED BY <2>6, <2>8, <2>10, <4>1, <4>2
    <3>3. CASE Len(front) < k
      <4>1. PICK j \in 1 .. Len(Flat) : k = Len(front) + j
        <5>1. /\ k - Len(front) \in 1 .. Len(Flat)
              /\ k = Len(front) + (k - Len(front))
          BY <2>1, <2>10, <2>12, <3>3
        <5> QED BY <5>1
      <4> QED BY <2>10, <2>11, <2>12, <4>1
    <3> QED BY <2>1, <2>12, <3>1, <3>2, <3>3
  <2>14. all = log
    BY <2>7, <2>10, <2>12, <2>13, SeqEqual
  <2> QED BY <2>14 DEF Conserved, all, front, B, InRing, Rd, Flat
<1> QED BY <1>1, Inductive, PTL

(* In the two modes that do not block no function ever waits for the       *)
(* probe, though SEGGER_RTT_TerminalOut goes through _WriteBlocking: the   *)
(* room that it measured first does not get less.                          *)
THEOREM NoWaiting == Spec => []NeverWaits
<1>1. IInv => NeverWaits
  BY DEF IInv, RoomInv, NeverWaits
<1> QED BY <1>1, Inductive, PTL

-----------------------------------------------------------------------------
(* Where the probe shows the texts.  After the first n bytes of s, begun   *)
(* at terminal from, the probe is at terminal t; s is sound if each of its *)
(* texts is shown where it was meant and s ends at terminal t.             *)
At(s, n, from, t) ==
  \/ t = from /\ \A c \in 1 .. n : s[c][1] # "id"
  \/ \E a \in 1 .. n : /\ s[a][1] = "id" /\ s[a][2] = t
                       /\ \A c \in a + 1 .. n : s[c][1] # "id"
Sound(s, from, t) ==
  /\ \A b \in 1 .. Len(s) : s[b][1] = "text" => At(s, b, from, s[b][2])
  /\ At(s, Len(s), from, t)
ShownInv == Sound(log, 0, activeTerminal)

(* From byte m on, u is F for n bytes.                                     *)
Holds(u, m, F, n) == \A k \in 1 .. n : u[m + k] = F[k]

(* What is shown depends on the bytes alone.                               *)
LEMMA AtPrefix ==
  ASSUME NEW u, NEW s, NEW n \in Nat, NEW from, NEW t,
         Holds(u, 0, s, n), At(s, n, from, t)
  PROVE  At(u, n, from, t)
<1>1. \A k \in 1 .. n : u[k] = s[k]
  <2>1. \A k \in 1 .. n : 0 + k = k
    OBVIOUS
  <2> QED BY <2>1 DEF Holds
<1>2. CASE t = from /\ \A c \in 1 .. n : s[c][1] # "id"
  BY <1>1, <1>2 DEF At
<1>3. ASSUME NEW a \in 1 .. n, s[a][1] = "id", s[a][2] = t,
             \A c \in a + 1 .. n : s[c][1] # "id"
      PROVE  At(u, n, from, t)
  <2>1. \A c \in a + 1 .. n : c \in 1 .. n
    OBVIOUS
  <2>2. /\ u[a][1] = "id" /\ u[a][2] = t
        /\ \A c \in a + 1 .. n : u[c][1] # "id"
    BY <1>1, <1>3, <2>1
  <2> QED BY <2>2 DEF At
<1> QED BY <1>2, <1>3 DEF At

(* What s leads to, followed by what F does from there.                    *)
LEMMA AtJoin ==
  ASSUME NEW u, NEW s, NEW m \in Nat, NEW F, NEW n \in Nat,
         NEW from, NEW mid, NEW t,
         Holds(u, 0, s, m), Holds(u, m, F, n),
         At(s, m, from, mid), At(F, n, mid, t)
  PROVE  At(u, m + n, from, t)
<1>0. /\ \A k \in 1 .. m : u[k] = s[k]
      /\ \A k \in 1 .. n : u[m + k] = F[k]
  <2>1. \A k \in 1 .. m : 0 + k = k
    OBVIOUS
  <2> QED BY <2>1 DEF Holds
<1>1. ASSUME NEW c \in m + 1 .. m + n
      PROVE  \E k \in 1 .. n : c = m + k /\ u[c] = F[k]
  <2>1. c - m \in 1 .. n /\ c = m + (c - m)
    OBVIOUS
  <2> QED BY <1>0, <2>1
<1>2. ASSUME NEW a \in 1 .. n, F[a][1] = "id", F[a][2] = t,
             \A c \in a + 1 .. n : F[c][1] # "id"
      PROVE  At(u, m + n, from, t)
  <2>1. m + a \in 1 .. m + n /\ u[m + a] = F[a]
    BY <1>0
  <2>2. ASSUME NEW c \in (m + a) + 1 .. m + n PROVE u[c][1] # "id"
    <3>1. c \in m + 1 .. m + n
      OBVIOUS
    <3>2. PICK k \in 1 .. n : c = m + k /\ u[c] = F[k]
      BY <1>1, <3>1
    <3>3. k \in a + 1 .. n
      BY <3>2
    <3> QED BY <1>2, <3>2, <3>3
  <2> QED BY <1>2, <2>1, <2>2 DEF At
<1>3. CASE t = mid /\ \A c \in 1 .. n : F[c][1] # "id"
  <2>1. \A c \in m + 1 .. m + n : u[c][1] # "id"
    BY <1>1, <1>3
  <2>2. CASE t = from /\ \A c \in 1 .. m : s[c][1] # "id"
    <3>1. ASSUME NEW c \in 1 .. m + n PROVE u[c][1] # "id"
      <4>1. c \in 1 .. m \/ c \in m + 1 .. m + n
        OBVIOUS
      <4> QED BY <1>0, <2>1, <2>2, <4>1
    <3> QED BY <2>2, <3>1 DEF At
  <2>3. ASSUME NEW a \in 1 .. m, s[a][1] = "id", s[a][2] = t,
               \A c \in a + 1 .. m : s[c][1] # "id"
        PROVE  At(u, m + n, from, t)
    <3>1. a \in 1 .. m + n /\ u[a] = s[a]
      BY <1>0
    <3>2. ASSUME NEW c \in a + 1 .. m + n PROVE u[c][1] # "id"
      <4>1. (c \in 1 .. m /\ c \in a + 1 .. m) \/ c \in m + 1 .. m + n
        OBVIOUS
      <4> QED BY <1>0, <2>1, <2>3, <4>1
    <3> QED BY <2>3, <3>1, <3>2 DEF At
  <2> QED BY <1>3, <2>2, <2>3 DEF At
<1> QED BY <1>2, <1>3 DEF At

LEMMA SoundJoin ==
  ASSUME NEW S, NEW s, NEW F, NEW u, s \in Seq(S), F \in Seq(S),
         Joins(u, s, F), NEW from, NEW mid, NEW t,
         Sound(s, from, mid), Sound(F, mid, t)
  PROVE  Sound(u, from, t)
<1>1. /\ Len(u) = Len(s) + Len(F) /\ Len(s) \in Nat /\ Len(F) \in Nat
      /\ \A k \in 1 .. Len(s) : u[k] = s[k]
      /\ \A k \in 1 .. Len(F) : u[Len(s) + k] = F[k]
  BY JoinFacts
<1>2. \A k \in 1 .. Len(s) : Holds(u, 0, s, k)
  <2>1. \A k \in 1 .. Len(s) : \A j \in 1 .. k : j \in 1 .. Len(s) /\ 0 + j = j
    BY <1>1
  <2> QED BY <1>1, <2>1 DEF Holds
<1>3. \A k \in 1 .. Len(F) : Holds(u, Len(s), F, k)
  <2>1. \A k \in 1 .. Len(F) : \A j \in 1 .. k : j \in 1 .. Len(F)
    BY <1>1
  <2> QED BY <1>1, <2>1 DEF Holds
<1>4. Holds(u, 0, s, Len(s)) /\ Holds(u, Len(s), F, Len(F))
  <2>1. \A j \in 1 .. Len(s) : 0 + j = j
    BY <1>1
  <2> QED BY <1>1, <2>1 DEF Holds
<1>5. At(s, Len(s), from, mid) /\ At(F, Len(F), mid, t)
  BY DEF Sound
<1>6. At(u, Len(u), from, t)
  <2>1. Len(s) \in Nat /\ Len(F) \in Nat
    BY <1>1
  <2>2. At(u, Len(s) + Len(F), from, t)
    BY <1>4, <1>5, <2>1, AtJoin
  <2> QED BY <1>1, <2>2
<1>7. ASSUME NEW b \in 1 .. Len(u), u[b][1] = "text"
      PROVE  At(u, b, from, u[b][2])
  <2>1. CASE b <= Len(s)
    <3>1. b \in 1 .. Len(s) /\ b \in Nat
      BY <1>1, <2>1
    <3>2. At(s, b, from, s[b][2]) /\ u[b] = s[b]
      BY <1>1, <1>7, <3>1 DEF Sound
    <3>3. Holds(u, 0, s, b)
      BY <1>2, <3>1
    <3>4. At(u, b, from, s[b][2])
      BY <3>1, <3>2, <3>3, AtPrefix
    <3> QED BY <3>2, <3>4
  <2>2. CASE b > Len(s)
    <3>1. PICK k \in 1 .. Len(F) : b = Len(s) + k
      <4>1. b - Len(s) \in 1 .. Len(F) /\ b = Len(s) + (b - Len(s))
        BY <1>1, <2>2
      <4> QED BY <4>1
    <3>2. u[b] = F[k]
      BY <1>1, <3>1
    <3>3. At(F, k, mid, F[k][2])
      BY <1>7, <3>2 DEF Sound
    <3>4. k \in Nat /\ Len(s) \in Nat /\ Holds(u, Len(s), F, k)
      BY <1>1, <1>3
    <3>5. At(u, Len(s) + k, from, F[k][2])
      BY <1>4, <1>5, <3>3, <3>4, AtJoin
    <3> QED BY <3>1, <3>2, <3>5
  <2> QED BY <1>1, <2>1, <2>2
<1> QED BY <1>6, <1>7 DEF Sound

(* A text for the terminal that is set, a switch, and a text between a     *)
(* switch to its terminal and one back are sound.                          *)
LEMMA TextSound ==
  ASSUME Len(log) \in Nat, NEW t \in Terminals, NEW n \in Nat, NEW m \in Nat
  PROVE  Sound(TextFor(t, n, m), t, t)
<1> DEFINE s == TextFor(t, n, m)
<1>1. /\ Len(s) = n
      /\ \A b \in 1 .. n : s[b][1] = "text" /\ s[b][2] = t
  <2>1. Len(log) + m + n \in Nat /\ Len(log) + m + n <= Len(log) + m + n
    OBVIOUS
  <2> QED BY <2>1, TextType
<1> HIDE DEF s
<1>2. ASSUME NEW b \in 0 .. n PROVE At(s, b, t, t)
  <2>1. \A c \in 1 .. b : c \in 1 .. n
    OBVIOUS
  <2>2. \A c \in 1 .. b : s[c][1] # "id"
    BY <1>1, <2>1
  <2> QED BY <2>2 DEF At
<1>3. n \in 0 .. n /\ \A b \in 1 .. n : b \in 0 .. n
  OBVIOUS
<1>4. Sound(s, t, t)
  BY <1>1, <1>2, <1>3 DEF Sound
<1> QED BY <1>4 DEF s

LEMMA SwitchSound ==
  ASSUME Len(log) \in Nat, NEW t \in Terminals, NEW m \in Nat, NEW from
  PROVE  Sound(SwitchTo(t, m), from, t)
<1> DEFINE s == SwitchTo(t, m)
<1>1. /\ Len(s) = 2 /\ s[1][1] = "FF"
      /\ s[2][1] = "id" /\ s[2][2] = t
  <2>1. Len(log) + m + 2 \in Nat /\ Len(log) + m + 2 <= Len(log) + m + 2
    OBVIOUS
  <2> QED BY <2>1, SwitchType
<1> HIDE DEF s
<1>2. At(s, 2, from, t)
  <2>1. 2 \in 1 .. 2 /\ \A c \in 2 + 1 .. 2 : s[c][1] # "id"
    OBVIOUS
  <2> QED BY <1>1, <2>1 DEF At
<1>3. \A b \in 1 .. 2 : s[b][1] # "text"
  <2>1. \A b \in 1 .. 2 : b = 1 \/ b = 2
    OBVIOUS
  <2> QED BY <1>1, <2>1
<1>4. Sound(s, from, t)
  BY <1>1, <1>2, <1>3 DEF Sound
<1> QED BY <1>4 DEF s

LEMMA WrappedSound ==
  ASSUME Len(log) \in Nat, NEW t \in Terminals, activeTerminal \in Terminals,
         NEW n \in Nat
  PROVE  Sound(FlattenSeq(Wrapped(t, n)), activeTerminal, activeTerminal)
<1> DEFINE a == SwitchTo(t, 0)
           b == TextFor(t, n, 2)
           c == SwitchTo(activeTerminal, n + 2)
           S == Upto(Len(log) + n + 4)
           bc == b \o c
           all == a \o bc
<1>1. a \in Seq(S) /\ b \in Seq(S) /\ c \in Seq(S)
  <2>1. /\ Len(log) + n + 4 \in Nat /\ Len(log) + 0 + 2 <= Len(log) + n + 4
        /\ Len(log) + 2 + n <= Len(log) + n + 4
        /\ Len(log) + (n + 2) + 2 <= Len(log) + n + 4 /\ n + 2 \in Nat
    OBVIOUS
  <2>2. a \in Seq(S)
    BY <2>1, SwitchType
  <2>3. b \in Seq(S)
    BY <2>1, TextType
  <2>4. c \in Seq(S)
    BY <2>1, SwitchType
  <2> QED BY <2>2, <2>3, <2>4
<1>2. FlattenSeq(Wrapped(t, n)) = InRow(a, b, c)
  <2>1. Len(log) + n + 4 \in Nat /\ Len(log) + n + 4 <= Len(log) + n + 4
    OBVIOUS
  <2> QED BY <2>1, WrappedType
<1>3. /\ Sound(a, activeTerminal, t) /\ Sound(b, t, t)
      /\ Sound(c, t, activeTerminal)
  <2>1. n + 2 \in Nat
    OBVIOUS
  <2> QED BY <2>1, TextSound, SwitchSound
<1>4. Joins(bc, b, c) /\ Joins(all, a, bc) /\ InRow(a, b, c) = all
  BY DEF Joins, InRow
<1> HIDE DEF a, b, c, S, bc, all
<1>5. Sound(bc, t, activeTerminal)
  BY <1>1, <1>3, <1>4, SoundJoin
<1>6. bc \in Seq(S)
  BY <1>1, <1>4, JoinFacts
<1>7. Sound(all, activeTerminal, activeTerminal)
  BY <1>1, <1>3, <1>4, <1>5, <1>6, SoundJoin
<1> QED BY <1>2, <1>4, <1>7

(* What a call prints leads from the terminal set before it to the one set *)
(* after it.                                                               *)
Prints(F) == /\ F \in Seq(Byte) /\ Joins(log', log, F)
             /\ Sound(F, activeTerminal, activeTerminal')

LEMMA NoCheckPrints ==
  ASSUME NEW bytes, NEW X, bytes \in Seq(X),
         Len(log) + Len(bytes) <= MaxLog => bytes \in Seq(Byte),
         Sound(bytes, activeTerminal, activeTerminal'), WriteNoCheck(bytes)
  PROVE  (bytes = << >> /\ log' = log) \/ Prints(bytes)
<1>1. FlattenSeq(<<bytes>>) = bytes
  BY FlattenOne
<1>2. CASE bytes # << >>
  <2>1. Len(log) + Len(bytes) <= MaxLog /\ log' = log \o bytes
    BY <1>1, <1>2 DEF WriteNoCheck, Accept
  <2> QED BY <2>1 DEF Prints, Joins
<1>3. CASE bytes = << >>
  BY <1>3 DEF WriteNoCheck
<1> QED BY <1>2, <1>3

LEMMA BlockingPrints ==
  ASSUME NEW pieces, pieces # << >>,
         Len(log) + Len(FlattenSeq(pieces)) <= MaxLog
           => pieces \in Seq(Seq(Byte)),
         Sound(FlattenSeq(pieces), activeTerminal, activeTerminal'),
         Accept(pieces)
  PROVE  Prints(FlattenSeq(pieces))
<1>1. /\ Len(log) + Len(FlattenSeq(pieces)) <= MaxLog
      /\ log' = log \o FlattenSeq(pieces)
  BY DEF Accept
<1>2. FlattenSeq(pieces) \in Seq(Byte)
  <2>1. pieces \in Seq(Seq(Byte))
    BY <1>1
  <2> QED BY <2>1, FlattenHead
<1> QED BY <1>1, <1>2 DEF Prints, Joins

LEMMA CallPrints ==
  ASSUME TypeOK, Call
  PROVE  \/ \E F : Prints(F)
         \/ log' = log /\ activeTerminal' = activeTerminal
<1> DEFINE Goal == \/ \E F : Prints(F)
                   \/ log' = log /\ activeTerminal' = activeTerminal
<1>a. /\ Len(log) \in Nat /\ activeTerminal \in Terminals /\ MaxText \in Nat
      /\ GetAvailWriteSpace = Room /\ Room \in 0 .. Size - 1
  BY RoomIsAvail, LenProperties, RttAssumption DEF TypeOK
<1>b. ASSUME NEW k \in Nat, activeTerminal' = activeTerminal,
             \/ WriteNoCheck(TextFor(activeTerminal, k, 0))
             \/ Accept(<<TextFor(activeTerminal, k, 0)>>)
      PROVE  Goal
  <2> DEFINE bytes == TextFor(activeTerminal, k, 0)
  <2>1. /\ bytes \in Seq(Upto(Len(log) + k))
        /\ Len(log) + Len(bytes) <= MaxLog => bytes \in Seq(Byte)
        /\ <<bytes>> # << >> /\ FlattenSeq(<<bytes>>) = bytes
        /\ Len(log) + Len(bytes) <= MaxLog => <<bytes>> \in Seq(Seq(Byte))
    BY TextBytes
  <2>2. Sound(bytes, activeTerminal, activeTerminal)
    BY <1>a, TextSound
  <2>3. WriteNoCheck(bytes) \/ Accept(<<bytes>>)
    BY <1>b
  <2> HIDE DEF bytes
  <2>4. Sound(bytes, activeTerminal, activeTerminal')
    BY <1>b, <2>2
  <2>5. CASE WriteNoCheck(bytes)
    BY <1>b, <2>1, <2>4, <2>5, NoCheckPrints
  <2>6. CASE Accept(<<bytes>>)
    <3>1. /\ Len(log) + Len(FlattenSeq(<<bytes>>)) <= MaxLog
               => <<bytes>> \in Seq(Seq(Byte))
          /\ Sound(FlattenSeq(<<bytes>>), activeTerminal, activeTerminal')
      BY <2>1, <2>4
    <3>2. Prints(FlattenSeq(<<bytes>>))
      BY <2>1, <2>6, <3>1, BlockingPrints
    <3> QED BY <3>2
  <2> QED BY <2>3, <2>5, <2>6
<1>1. ASSUME NEW n \in 1 .. MaxText, Write(n) PROVE Goal
  <2>1. /\ activeTerminal' = activeTerminal
        /\ \E k \in Nat :
             \/ WriteNoCheck(TextFor(activeTerminal, k, 0))
             \/ Accept(<<TextFor(activeTerminal, k, 0)>>)
    <3>1. /\ (IF Room < n THEN 0 ELSE n) \in Nat /\ Least(Room, n) \in Nat
          /\ n \in Nat
      BY <1>a DEF Least
    <3> QED BY <1>1, <1>a, <3>1 DEF Write, WriteBlocking
  <2> QED BY <1>b, <2>1
<1>2. ASSUME PutChar \/ PutCharSkip PROVE Goal
  <2>1. /\ activeTerminal' = activeTerminal /\ 1 \in Nat
        /\ \/ WriteNoCheck(TextFor(activeTerminal, 1, 0))
           \/ Accept(<<TextFor(activeTerminal, 1, 0)>>)
    BY <1>2 DEF PutChar, PutCharSkip
  <2> QED BY <1>b, <2>1
<1>3. ASSUME NEW t \in Terminals, SetTerminal(t) PROVE Goal
  <2> DEFINE bytes == SwitchTo(t, 0)
  <2>1. /\ bytes \in Seq(Upto(Len(log) + 2)) /\ bytes # << >>
        /\ Len(log) + Len(bytes) <= MaxLog => bytes \in Seq(Byte)
        /\ <<bytes>> # << >> /\ FlattenSeq(<<bytes>>) = bytes
        /\ Len(log) + Len(bytes) <= MaxLog => <<bytes>> \in Seq(Seq(Byte))
    BY SwitchBytes
  <2>2. Sound(bytes, activeTerminal, t)
    BY <1>a, SwitchSound
  <2>3. /\ activeTerminal' = t
        /\ WriteNoCheck(bytes) \/ Accept(<<bytes>>)
    BY <1>3 DEF SetTerminal, WriteBlocking
  <2> HIDE DEF bytes
  <2>4. Sound(bytes, activeTerminal, activeTerminal')
    BY <2>2, <2>3
  <2>5. CASE WriteNoCheck(bytes)
    <3>1. Prints(bytes)
      BY <2>1, <2>4, <2>5, NoCheckPrints
    <3> QED BY <3>1
  <2>6. CASE Accept(<<bytes>>)
    <3>1. /\ Len(log) + Len(FlattenSeq(<<bytes>>)) <= MaxLog
               => <<bytes>> \in Seq(Seq(Byte))
          /\ Sound(FlattenSeq(<<bytes>>), activeTerminal, activeTerminal')
      BY <2>1, <2>4
    <3>2. Prints(FlattenSeq(<<bytes>>))
      BY <2>1, <2>6, <3>1, BlockingPrints
    <3> QED BY <3>2
  <2> QED BY <2>3, <2>5, <2>6
<1>4. ASSUME NEW t \in Terminals, NEW n \in 0 .. MaxText, TerminalOut(t, n)
      PROVE  Goal
  <2>1. PICK k \in Nat : WriteBlocking(Wrapped(t, k))
    <3>1. n \in Nat /\ (Room >= 4 => Least(n, Room - 4) \in Nat)
      BY <1>a DEF Least
    <3> QED BY <1>4, <1>a, <3>1 DEF TerminalOut
  <2>2. activeTerminal' = activeTerminal
    BY <1>4 DEF TerminalOut
  <2> DEFINE pieces == Wrapped(t, k)
  <2>3. /\ pieces # << >> /\ Accept(pieces)
        /\ Len(log) + Len(FlattenSeq(pieces)) <= MaxLog
             => pieces \in Seq(Seq(Byte))
    BY <2>1, WrappedBytes DEF WriteBlocking
  <2>4. Sound(FlattenSeq(pieces), activeTerminal, activeTerminal)
    BY <1>a, WrappedSound
  <2> HIDE DEF pieces
  <2>5. Sound(FlattenSeq(pieces), activeTerminal, activeTerminal')
    BY <2>2, <2>4
  <2>6. Prints(FlattenSeq(pieces))
    BY <2>3, <2>5, BlockingPrints
  <2> QED BY <2>6
<1>5. ASSUME NEW mode \in Modes, SetFlagsUpBuffer(mode) PROVE Goal
  BY <1>5 DEF SetFlagsUpBuffer
<1> QED BY <1>1, <1>2, <1>3, <1>4, <1>5 DEF Call

LEMMA ShownStep == TypeOK /\ ShownInv /\ [Next]_vars => ShownInv'
<1> SUFFICES ASSUME TypeOK, ShownInv, [Next]_vars PROVE ShownInv'
  OBVIOUS
<1>1. CASE Call
  <2>1. CASE \E F : Prints(F)
    <3>1. PICK F : Prints(F)
      BY <2>1
    <3>2. /\ log \in Seq(Byte) /\ F \in Seq(Byte) /\ Joins(log', log, F)
          /\ Sound(F, activeTerminal, activeTerminal')
          /\ Sound(log, 0, activeTerminal)
      BY <3>1 DEF Prints, TypeOK, ShownInv
    <3>3. Sound(log', 0, activeTerminal')
      BY <3>2, SoundJoin
    <3> QED BY <3>3 DEF ShownInv, Sound, At
  <2>2. CASE log' = log /\ activeTerminal' = activeTerminal
    BY <2>2 DEF ShownInv, Sound, At
  <2> QED BY <1>1, <2>1, <2>2, CallPrints
<1>2. CASE Work \/ Probe \/ UNCHANGED vars
  <2>1. log' = log /\ activeTerminal' = activeTerminal
    BY <1>2 DEF Work, Probe, vars, SpinEnds, Round, Copy, Publish,
                LoadOffsets, StoreRdOff, CopyOut
  <2> QED BY <2>1 DEF ShownInv, Sound, At
<1> QED BY <1>1, <1>2 DEF Next

(* Every text is shown at the terminal it was meant for: a switch and the  *)
(* text it is for are accepted in one go, so _ActiveTerminal is always the *)
(* terminal that the bytes accepted so far lead to, and what the probe has *)
(* is the beginning of those bytes.                                        *)
THEOREM TextsAreShownWhereMeant == Spec => []ShownWhereMeant
<1>1. Init => ShownInv
  <2>1. ASSUME Init PROVE Sound(<< >>, 0, 0)
    <3>1. Len(<< >>) = 0 /\ \A c \in 1 .. 0 : FALSE
      OBVIOUS
    <3> QED BY <3>1 DEF Sound, At
  <2> QED BY <2>1 DEF Init, ShownInv
<1>2. Spec => []ShownInv
  <2>1. IInv => TypeOK
    BY DEF IInv
  <2> QED BY <1>1, <2>1, ShownStep, Inductive, PTL DEF Spec
<1>3. ASSUME IInv, ShownInv PROVE ShownWhereMeant
  <2> SUFFICES ASSUME NEW b \in 1 .. Len(host), host[b][1] = "text"
               PROVE  LET switches == {a \in 1 .. b : host[a][1] = "id"}
                      IN IF switches = {} THEN host[b][2] = 0
                         ELSE host[CHOOSE a \in switches :
                                     \A c \in switches : c <= a][2]
                                = host[b][2]
    BY DEF ShownWhereMeant
  <2> DEFINE switches == {a \in 1 .. b : host[a][1] = "id"}
             last == CHOOSE a \in switches : \A c \in switches : c <= a
  <2>1. /\ Len(host) \in Nat /\ Len(log) \in Nat
        /\ Len(host) <= Len(log) /\ \A k \in 1 .. Len(host) : host[k] = log[k]
    BY <1>3, Digest DEF IInv, TypeOK, BytesInv
  <2>2. At(log, b, 0, log[b][2]) /\ host[b] = log[b]
    <3>1. b \in 1 .. Len(log)
      BY <2>1
    <3> QED BY <1>3, <2>1, <3>1 DEF ShownInv, Sound
  <2>3. b \in Nat /\ Holds(host, 0, log, b)
    <3>1. \A k \in 1 .. b : k \in 1 .. Len(host) /\ 0 + k = k
      BY <2>1
    <3> QED BY <2>1, <3>1 DEF Holds
  <2>4. At(host, b, 0, host[b][2])
    BY <2>2, <2>3, AtPrefix
  <2>5. CASE host[b][2] = 0 /\ \A c \in 1 .. b : host[c][1] # "id"
    <3>1. switches = {}
      BY <2>5
    <3> QED BY <2>5, <3>1
  <2>6. ASSUME NEW a \in 1 .. b, host[a][1] = "id", host[a][2] = host[b][2],
               \A c \in a + 1 .. b : host[c][1] # "id"
        PROVE  switches # {} /\ host[last][2] = host[b][2]
    <3>1. a \in switches /\ switches \subseteq 1 .. b
      BY <2>6
    <3>2. ASSUME NEW c \in switches PROVE c <= a
      <4>1. c \in 1 .. b /\ c \notin a + 1 .. b
        BY <2>6
      <4> QED BY <2>3, <4>1
    <3>3. last \in switches /\ \A c \in switches : c <= last
      <4> HIDE DEF switches
      <4> QED BY <3>1, <3>2
    <3>4. last = a
      <4>1. last <= a /\ a <= last
        BY <3>1, <3>2, <3>3
      <4>2. last \in Int /\ a \in Int
        <5>1. last \in 1 .. b
          BY <3>1, <3>3
        <5> HIDE DEF last, switches
        <5> QED BY <5>1
      <4> HIDE DEF last
      <4> QED BY <4>1, <4>2
    <3> QED BY <2>6, <3>1, <3>4
  <2>7. \/ switches = {} /\ host[b][2] = 0
        \/ switches # {} /\ host[last][2] = host[b][2]
    BY <2>4, <2>5, <2>6 DEF At
  <2> QED BY <2>7
<1> QED BY <1>2, <1>3, Inductive, PTL

-----------------------------------------------------------------------------
(* SEGGER_RTT_WriteWithOverwriteNoLock without the modulo: both offsets    *)
(* move round the ring, and the new byte b goes b - 1 slots behind WrOff.  *)
NewSlot(b) == Advance(wrOff, b - 1)
Ow(n) == IF n > Room THEN n - Room ELSE 0

LEMMA OverwriteIs ==
  ASSUME wrOff \in Slots, rdOff \in Slots, NEW n \in 1 .. 2 * Size - 2 - wrOff
  PROVE  LET to(s) == {b \in 1 .. n : NewSlot(b) = s}
         IN WriteWithOverwriteNoLock(n)
              = [rdOff |-> Advance(rdOff, Ow(n)), wrOff |-> Advance(wrOff, n),
                 mem |-> [s \in Slots |->
                            IF to(s) = {} THEN mem[s]
                            ELSE TextFor(0, n, 0)[Max(to(s))]]]
<1> DEFINE toEnd == Size - wrOff
           slot(b) == IF b <= toEnd THEN wrOff + b - 1
                      ELSE (b - toEnd - 1) % (Size - 1)
           to(s) == {b \in 1 .. n : slot(b) = s}
           new(s) == {b \in 1 .. n : NewSlot(b) = s}
<1>1. /\ Size \in Nat /\ Size > 1 /\ wrOff \in Nat /\ rdOff \in Nat
      /\ wrOff <= Size - 1 /\ rdOff <= Size - 1
      /\ n \in Nat /\ 1 <= n /\ n <= 2 * Size - 2 - wrOff
      /\ Room \in 0 .. Size - 1 /\ GetAvailWriteSpace = Room
      /\ Room = IF rdOff <= wrOff THEN Size - 1 - wrOff + rdOff
                ELSE rdOff - wrOff - 1
  <2>1. Size \in Nat /\ Size > 1
    BY RttAssumption
  <2> QED BY <2>1, RoomIsAvail DEF Slots, GetAvailWriteSpace
<1>2. ASSUME NEW b \in 1 .. n PROVE slot(b) = NewSlot(b)
  <2>1. CASE b <= toEnd
    BY <1>1, <2>1 DEF NewSlot, Advance
  <2>2. CASE b > toEnd
    <3>1. b - toEnd - 1 \in 0 .. 2 * (Size - 1) - 1 /\ Size - 1 \in Nat
          /\ Size - 1 >= 1 /\ b - toEnd - 1 < Size - 1
      BY <1>1, <2>2
    <3>2. (b - toEnd - 1) % (Size - 1) = b - toEnd - 1
      BY <3>1, Wraps
    <3> QED BY <1>1, <2>2, <3>2 DEF NewSlot, Advance
  <2> QED BY <1>1, <2>1, <2>2
<1>3. ASSUME NEW s PROVE to(s) = new(s)
  <2> HIDE DEF slot
  <2> QED BY <1>2
<1>4. (IF n < toEnd THEN wrOff + n ELSE (n - toEnd) % (Size - 1))
        = Advance(wrOff, n)
  <2>1. CASE n < toEnd
    BY <1>1, <2>1 DEF Advance
  <2>2. CASE ~(n < toEnd)
    <3>1. n - toEnd \in 0 .. 2 * (Size - 1) - 1 /\ Size - 1 \in Nat
          /\ Size - 1 >= 1 /\ n - toEnd < Size - 1
      BY <1>1, <2>2
    <3>2. (n - toEnd) % (Size - 1) = n - toEnd
      BY <3>1, Wraps
    <3> QED BY <1>1, <2>2, <3>2 DEF Advance
  <2> QED BY <2>1, <2>2
<1>5. (rdOff + Overwritten(n)) % Size = Advance(rdOff, Ow(n))
  <2>1. Overwritten(n) = Ow(n)
    BY <1>1 DEF Overwritten, Ow
  <2>2. rdOff + Ow(n) \in 0 .. 2 * Size - 1 /\ Size >= 1
    BY <1>1 DEF Ow
  <2> DEFINE x == rdOff + Ow(n)
  <2>3. x \in 0 .. 2 * Size - 1 /\ Size >= 1 /\ Size \in Nat
    BY <1>1, <2>2
  <2> HIDE DEF x
  <2>4. x % Size = IF x >= Size THEN x - Size ELSE x
    BY <2>3, Wraps
  <2>5. rdOff + Overwritten(n) = x
    BY <2>1 DEF x
  <2>6. Advance(rdOff, Ow(n)) = IF x >= Size THEN x - Size ELSE x
    <3>1. Ow(n) \in Int /\ rdOff \in Int /\ Size \in Int
      BY <1>1 DEF Ow
    <3> QED BY <3>1 DEF x, Advance
  <2> QED BY <2>3, <2>4, <2>5, <2>6
<1>6. WriteWithOverwriteNoLock(n)
        = [rdOff |-> (rdOff + Overwritten(n)) % Size,
           wrOff |-> IF n < toEnd THEN wrOff + n
                     ELSE (n - toEnd) % (Size - 1),
           mem |-> [s \in Slots |-> IF to(s) = {} THEN mem[s]
                                    ELSE TextFor(0, n, 0)[Max(to(s))]]]
  BY DEF WriteWithOverwriteNoLock
<1> HIDE DEF to, slot, new
<1>7. WriteWithOverwriteNoLock(n)
        = [rdOff |-> Advance(rdOff, Ow(n)), wrOff |-> Advance(wrOff, n),
           mem |-> [s \in Slots |-> IF new(s) = {} THEN mem[s]
                                    ELSE TextFor(0, n, 0)[Max(new(s))]]]
  BY <1>3, <1>4, <1>5, <1>6
<1> QED BY <1>7 DEF new

(* Seen from RdOff as it is afterwards, slot k - 1 holds byte Ow(n) + k of *)
(* what was in the buffer and the new bytes behind it.                     *)
LEMMA OverwriteSlots ==
  ASSUME wrOff \in Slots, rdOff \in Slots, NEW n \in 1 .. 2 * Size - 2 - wrOff,
         NEW k \in 1 .. Least(Size - 1, Used(rdOff, wrOff) + n)
  PROVE  LET u == Used(rdOff, wrOff)
             s == Advance(Advance(rdOff, Ow(n)), k - 1)
         IN /\ s \in Slots
            /\ Ow(n) + k <= u =>
                 /\ s = Advance(rdOff, Ow(n) + k - 1)
                 /\ \A b \in 1 .. n : NewSlot(b) # s
            /\ Ow(n) + k > u =>
                 /\ Ow(n) + k - u \in 1 .. n
                 /\ \A b \in 1 .. n : NewSlot(b) = s => b <= Ow(n) + k - u
                 /\ NewSlot(Ow(n) + k - u) = s
<1> DEFINE u == Used(rdOff, wrOff)
           s == Advance(Advance(rdOff, Ow(n)), k - 1)
<1>1. /\ Size \in Nat /\ Size > 1 /\ wrOff \in Nat /\ rdOff \in Nat
      /\ wrOff <= Size - 1 /\ rdOff <= Size - 1
      /\ n \in Nat /\ 1 <= n /\ n <= 2 * Size - 2 - wrOff
      /\ Room = Size - 1 - u
      /\ u = IF rdOff <= wrOff THEN wrOff - rdOff ELSE Size + wrOff - rdOff
  BY RttAssumption DEF Slots, Room, Used
<1>2. Ow(n) = IF n + u > Size - 1 THEN n + u - (Size - 1) ELSE 0
  BY <1>1 DEF Ow
<1>3. k \in Nat /\ 1 <= k /\ k <= Size - 1 /\ k <= u + n
  BY <1>1 DEF Least
<1> DEFINE o == Ow(n)
<1>4. o \in Nat /\ rdOff + o <= 2 * Size - 1 /\ u \in 0 .. Size - 1
  BY <1>1, <1>2
<1>5. s = IF rdOff + o + k - 1 >= 2 * Size THEN rdOff + o + k - 1 - 2 * Size
          ELSE IF rdOff + o + k - 1 >= Size THEN rdOff + o + k - 1 - Size
          ELSE rdOff + o + k - 1
  BY <1>1, <1>3, <1>4 DEF Advance
<1>6. s \in 0 .. Size - 1
  BY <1>1, <1>3, <1>4, <1>5
<1>7. ASSUME o + k <= u
      PROVE  /\ s = Advance(rdOff, o + k - 1)
             /\ \A b \in 1 .. n : NewSlot(b) # s
  <2>1. s = Advance(rdOff, o + k - 1)
    BY <1>1, <1>3, <1>4, <1>5, <1>7 DEF Advance
  <2>2. ASSUME NEW b \in 1 .. n PROVE NewSlot(b) # s
    <3> HIDE DEF s, u, o
    <3> QED BY <1>1, <1>2, <1>3, <1>4, <1>5, <1>7 DEF NewSlot, Advance, o
  <2> QED BY <2>1, <2>2
<1>8. ASSUME o + k > u
      PROVE  /\ o + k - u \in 1 .. n
             /\ NewSlot(o + k - u) = s
             /\ \A b \in 1 .. n : NewSlot(b) = s => b <= o + k - u
  <2>1. o + k - u \in 1 .. n
    <3> HIDE DEF s, u, o
    <3> QED BY <1>1, <1>2, <1>3, <1>4, <1>8 DEF o
  <2>2. NewSlot(o + k - u) = s
    <3> HIDE DEF s, u, o
    <3> QED BY <1>1, <1>2, <1>3, <1>4, <1>5, <1>8, <2>1 DEF NewSlot, Advance, o
  <2>3. ASSUME NEW b \in 1 .. n, NewSlot(b) = s PROVE b <= o + k - u
    <3> HIDE DEF s, u, o
    <3> QED BY <1>1, <1>2, <1>3, <1>4, <1>5, <1>8, <2>3
            DEF NewSlot, Advance, o
  <2> QED BY <2>1, <2>2, <2>3
<1> QED BY <1>6, <1>7, <1>8 DEF Slots

(* Without a probe the overwriting write keeps the newest bytes, whatever  *)
(* the buffer held and wherever its offsets are.                           *)
THEOREM OverwriteIsCorrect == Spec => []OverwriteKeepsNewest
<1>1. ASSUME TypeOK PROVE OverwriteKeepsNewest
  <2> SUFFICES ASSUME NEW n \in 1 .. 2 * Size - 2 - wrOff
      PROVE  LET after == WriteWithOverwriteNoLock(n)
                 all == BytesFrom(rdOff, Used(rdOff, wrOff))
                          \o TextFor(0, n, 0)
                 kept == Least(Size - 1, Len(all))
             IN /\ Used(after.rdOff, after.wrOff) = kept
                /\ \A k \in 1 .. kept :
                     after.mem[Advance(after.rdOff, k - 1)]
                       = all[Len(all) - kept + k]
    BY DEF OverwriteKeepsNewest
  <2> DEFINE u == Used(rdOff, wrOff)
             o == Ow(n)
             old == BytesFrom(rdOff, u)
             new == TextFor(0, n, 0)
             all == old \o new
             kept == Least(Size - 1, Len(all))
             to(s) == {b \in 1 .. n : NewSlot(b) = s}
             cell(s) == IF to(s) = {} THEN mem[s] ELSE new[Max(to(s))]
             after == WriteWithOverwriteNoLock(n)
  <2>1. /\ wrOff \in Slots /\ rdOff \in Slots /\ Size \in Nat /\ Size > 1
        /\ n \in Nat /\ wrOff \in Nat /\ rdOff \in Nat
        /\ wrOff <= Size - 1 /\ rdOff <= Size - 1 /\ 1 <= n
        /\ n <= 2 * Size - 2 - wrOff /\ u \in 0 .. Size - 1
        /\ Room = Size - 1 - u /\ Len(log) \in Nat /\ 0 \in Terminals
    <3>1. /\ wrOff \in Slots /\ rdOff \in Slots /\ Size \in Nat /\ Size > 1
          /\ 0 \in Terminals /\ log \in Seq(Byte)
      BY <1>1, RttAssumption DEF TypeOK
    <3>2. u \in 0 .. Size - 1 /\ Len(log) \in Nat
      BY <3>1, UsedInRing, LenProperties
    <3>3. Room = Size - 1 - u
      BY DEF Room
    <3>4. /\ wrOff \in Nat /\ rdOff \in Nat
          /\ wrOff <= Size - 1 /\ rdOff <= Size - 1
      BY <3>1 DEF Slots
    <3>5. n \in Nat /\ 1 <= n /\ n <= 2 * Size - 2 - wrOff
      BY <3>1, <3>4
    <3> QED BY <3>1, <3>2, <3>3, <3>4, <3>5
  <2>2. o = IF n + u > Size - 1 THEN n + u - (Size - 1) ELSE 0
    BY <2>1 DEF Ow
  <2>3. after = [rdOff |-> Advance(rdOff, o), wrOff |-> Advance(wrOff, n),
                 mem |-> [s \in Slots |-> cell(s)]]
    BY <2>1, OverwriteIs
  <2>4. /\ old \in Seq(Byte) /\ Len(old) = u
        /\ \A k \in 1 .. u : old[k] = mem[Advance(rdOff, k - 1)]
    <3> DEFINE at(k) == mem[Advance(rdOff, k - 1)]
    <3>1. \A k \in 1 .. u : at(k) \in Byte
      <4>1. \A k \in 1 .. u : k - 1 \in 0 .. Size
        BY <2>1
      <4> QED BY <1>1, <2>1, <4>1, AdvanceInRing DEF TypeOK
    <3>2. old = [k \in 1 .. u |-> at(k)] /\ u \in Nat
      BY <2>1 DEF BytesFrom
    <3> HIDE DEF at, u, old
    <3>3. /\ old \in Seq(Byte) /\ Len(old) = u
          /\ \A k \in 1 .. u : old[k] = at(k)
      BY <3>1, <3>2
    <3> QED BY <3>3 DEF at
  <2>5. new \in Seq(Upto(Len(log) + n)) /\ Len(new) = n
    <3>1. Len(log) + n \in Nat /\ Len(log) + 0 + n <= Len(log) + n
      BY <2>1
    <3> QED BY <2>1, <3>1, TextType
  <2>6. /\ Len(all) = u + n
        /\ \A k \in 1 .. u : all[k] = old[k]
        /\ \A k \in 1 .. n : all[u + k] = new[k]
    <3> DEFINE X == Byte \cup Upto(Len(log) + n)
    <3>1. old \in Seq(X) /\ new \in Seq(X) /\ Joins(all, old, new)
      <4>1. Joins(all, old, new)
        BY DEF Joins
      <4> HIDE DEF old, new, all
      <4> QED BY <2>4, <2>5, <4>1
    <3> HIDE DEF X, old, new, all
    <3>2. /\ Len(all) = Len(old) + Len(new)
          /\ \A k \in 1 .. Len(old) : all[k] = old[k]
          /\ \A k \in 1 .. Len(new) : all[Len(old) + k] = new[k]
      BY <3>1, JoinFacts
    <3> QED BY <2>4, <2>5, <3>2
  <2>7. /\ kept = Least(Size - 1, u + n) /\ kept \in Nat
        /\ Len(all) - kept = o
    <3> HIDE DEF all, u, o
    <3> QED BY <2>1, <2>2, <2>6 DEF Least
  <2>8. Used(Advance(rdOff, o), Advance(wrOff, n)) = kept
    <3>1. u = IF rdOff <= wrOff THEN wrOff - rdOff ELSE Size + wrOff - rdOff
      BY DEF Used
    <3>2. kept = IF n + u > Size - 1 THEN Size - 1 ELSE u + n
      BY <2>1, <2>7 DEF Least
    <3> HIDE DEF u, o, kept
    <3> QED BY <2>1, <2>2, <3>1, <3>2 DEF Used, Advance
  <2>9. ASSUME NEW k \in 1 .. kept
        PROVE  cell(Advance(Advance(rdOff, o), k - 1)) = all[o + k]
    <3> DEFINE s == Advance(Advance(rdOff, o), k - 1)
    <3>1. /\ s \in Slots
          /\ o + k <= u => /\ s = Advance(rdOff, o + k - 1)
                           /\ \A b \in 1 .. n : NewSlot(b) # s
          /\ o + k > u =>
               /\ o + k - u \in 1 .. n
               /\ \A b \in 1 .. n : NewSlot(b) = s => b <= o + k - u
               /\ NewSlot(o + k - u) = s
      <4>1. k \in 1 .. Least(Size - 1, u + n)
        BY <2>7
      <4> QED BY <2>1, <4>1, OverwriteSlots
    <3>2. o \in Nat /\ k \in Nat /\ k >= 1 /\ u \in Nat
      BY <2>1, <2>2, <2>7
    <3> HIDE DEF s, o, u, old, new, all, kept
    <3>3. ASSUME o + k <= u PROVE cell(s) = all[o + k]
      <4>1. to(s) = {}
        BY <3>1, <3>3
      <4>2. o + k \in 1 .. u
        BY <3>2, <3>3
      <4>3. all[o + k] = mem[Advance(rdOff, o + k - 1)]
        <5> DEFINE j == o + k
        <5>1. j \in 1 .. u
          BY <4>2
        <5> HIDE DEF j
        <5>2. all[j] = old[j]
          BY <2>6, <5>1
        <5>3. old[j] = mem[Advance(rdOff, j - 1)]
          BY <2>4, <5>1
        <5>4. o + k = j
          BY DEF j
        <5> QED BY <3>2, <5>1, <5>2, <5>3, <5>4
      <4>4. cell(s) = mem[s]
        BY <4>1
      <4> QED BY <3>1, <3>3, <4>3, <4>4
    <3>4. ASSUME o + k > u PROVE cell(s) = all[o + k]
      <4> DEFINE b == o + k - u
      <4>1. b \in 1 .. n /\ b \in to(s) /\ u + b = o + k
        BY <3>1, <3>2, <3>4
      <4>2. \A c \in to(s) : b >= c /\ c \in 1 .. n
        BY <3>1, <3>2, <3>4
      <4> HIDE DEF b, to
      <4>3. Max(to(s)) = b
        <5> DEFINE T == to(s)
                   m == Max(T)
        <5>1. /\ b \in T /\ b \in 1 .. n
              /\ \A c \in T : b >= c /\ c \in 1 .. n
          BY <4>1, <4>2
        <5> HIDE DEF T
        <5>2. m \in T /\ \A c \in T : m >= c
          BY <5>1 DEF Max
        <5> HIDE DEF m
        <5>3. m >= b /\ b >= m /\ m \in 1 .. n
          BY <5>1, <5>2
        <5>4. m = b
          BY <5>1, <5>3
        <5> QED BY <5>4 DEF m, T
      <4>4. to(s) # {}
        BY <4>1
      <4>5. cell(s) = new[b]
        BY <4>3, <4>4
      <4> QED BY <2>6, <4>1, <4>5
    <3>5. cell(s) = all[o + k]
      BY <3>2, <3>3, <3>4
    <3> QED BY <3>5 DEF s
  <2>10. ASSUME NEW k \in 1 .. kept
         PROVE  after.mem[Advance(after.rdOff, k - 1)]
                  = all[Len(all) - kept + k]
    <3>1. Advance(Advance(rdOff, o), k - 1) \in Slots
      <4>1. k \in 1 .. Least(Size - 1, u + n)
        BY <2>7
      <4> QED BY <2>1, <4>1, OverwriteSlots
    <3> HIDE DEF after, o, kept, all, cell
    <3> QED BY <2>3, <2>7, <2>9, <3>1
  <2>11. Used(after.rdOff, after.wrOff) = kept
    <3> HIDE DEF after, o, kept, cell
    <3> QED BY <2>3, <2>8
  <2> QED BY <2>10, <2>11
<1> QED BY <1>1, TypeCorrect, PTL
=============================================================================
