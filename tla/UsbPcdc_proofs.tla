--------------------------- MODULE UsbPcdc_proofs ---------------------------
(***************************************************************************)
(* Proofs about UsbPcdc for every number of messages, every size of the    *)
(* ring buffer and of the command queue, every length of the answers and   *)
(* every number of bus failures.                                           *)
(***************************************************************************)
EXTENDS UsbPcdc, Lemmas

-----------------------------------------------------------------------------
(* parseData: what Commands makes of a text.                               *)
(* What parseData reads is the drained text up to its first NUL.           *)
LEMMA TextFacts ==
  ASSUME NEW s \in Seq(Halves)
  PROVE  /\ Text(s) \in Seq(Halves) /\ Len(Text(s)) <= Len(s)
         /\ \A n \in 1 .. Len(Text(s)) : Text(s)[n] = s[n] /\ s[n].id # 0
<1> DEFINE nul == {n \in 1 .. Len(s) : s[n].id = 0}
           first == CHOOSE n \in nul : \A m \in nul : n <= m
<1>1. CASE nul = {}
  BY <1>1 DEF Text
<1>2. CASE nul # {}
  <2>1. /\ first \in 1 .. Len(s)
        /\ \A n \in 1 .. first - 1 : n \in 1 .. Len(s) /\ s[n].id # 0
    <3>1. first \in nul /\ \A m \in nul : first <= m
      <4>1. nul \subseteq Nat
        OBVIOUS
      <4> HIDE DEF nul
      <4> QED BY <4>1, <1>2, LeastElement
    <3>2. first \in 1 .. Len(s) /\ \A m \in 1 .. Len(s) : s[m].id = 0 => first <= m
      BY <3>1
    <3> HIDE DEF first
    <3> QED BY <3>2
  <2>2. Text(s) = SubSeq(s, 1, first - 1)
    BY <1>2 DEF Text
  <2> HIDE DEF first
  <2>3. \A n \in 1 .. first - 1 : s[n] \in Halves
    BY <2>1, ElementOfSeq
  <2>4. /\ SubSeq(s, 1, first - 1) \in Seq(Halves)
        /\ Len(SubSeq(s, 1, first - 1)) = first - 1
        /\ \A n \in 1 .. first - 1 : SubSeq(s, 1, first - 1)[n] = s[n]
    <3>1. first - 1 \in Int /\ (1 <= first - 1 \/ first - 1 = 0)
      BY <2>1
    <3> QED BY <2>3, <3>1, SubSeqProperties
  <2> QED BY <2>1, <2>2, <2>4
<1> QED BY <1>1, <1>2

(* Where command c of the text s ends and begins.                          *)
EndOf(s, c) == Nth(Ends(s), c)
StartOf(s, c) == Start(s, EndOf(s, c))

(* The ends are counted from the left.                                     *)
LEMMA EndFacts ==
  ASSUME NEW s \in Seq(Halves)
  PROVE  /\ Cardinality(Ends(s)) \in Nat
         /\ \A c \in 1 .. Cardinality(Ends(s)) : EndOf(s, c) \in Ends(s)
         /\ \A a, b \in 1 .. Cardinality(Ends(s)) :
              a < b => EndOf(s, a) < EndOf(s, b)
<1> DEFINE S == Ends(s)
           top == Len(s)
<1>1. S \subseteq 1 .. top /\ top \in Nat
  <2>1. \A n \in 2 .. Len(s) : n \in 1 .. Len(s)
    OBVIOUS
  <2> QED BY <2>1 DEF Ends
<1>2. \A c : EndOf(s, c) = CHOOSE n \in S : Cardinality(UpTo(S, n)) = c
  BY Zenon DEF EndOf, Nth, UpTo
<1> HIDE DEF S, top
<1>3. \A c \in 1 .. Cardinality(S) :
        EndOf(s, c) \in S /\ Cardinality(UpTo(S, EndOf(s, c))) = c
  BY <1>1, <1>2, CountThrough, ZenonT(60)
<1>4. Cardinality(S) \in Nat
  BY <1>1, UpToFinite
<1>5. ASSUME NEW a \in 1 .. Cardinality(S), NEW b \in 1 .. Cardinality(S),
             a < b
      PROVE  EndOf(s, a) < EndOf(s, b)
  <2>1. EndOf(s, a) \in S /\ EndOf(s, b) \in S
    BY <1>3
  <2>2. Cardinality(UpTo(S, EndOf(s, a))) < Cardinality(UpTo(S, EndOf(s, b)))
    BY <1>3, <1>5
  <2> QED BY <1>1, <2>1, <2>2, CountsGrow
<1> QED BY <1>3, <1>4, <1>5 DEF S

(* A command begins with a run of first halves that goes up to its end.    *)
LEMMA StartFacts ==
  ASSUME NEW s \in Seq(Halves), NEW n \in Ends(s)
  PROVE  /\ Start(s, n) \in 1 .. n - 1
         /\ \A m \in Start(s, n) .. n - 1 : s[m].half = 1
<1>0. n \in 2 .. Len(s) /\ s[n - 1].half = 1
  BY DEF Ends
<1> DEFINE run == {q \in 1 .. n - 1 : \A m \in q .. n - 1 : s[m].half = 1}
<1>1. n - 1 \in run
  <2>1. n - 1 \in 1 .. n - 1 /\ \A m \in n - 1 .. n - 1 : m = n - 1
    BY <1>0
  <2> QED BY <2>1, <1>0
<1>2. \E q \in run : \A r \in run : q <= r
  <2>1. \A q \in 1 .. n - 1 : q \in Nat
    OBVIOUS
  <2>2. run \subseteq Nat
    BY <2>1
  <2> HIDE DEF run
  <2> QED BY <2>2, <1>1, LeastElement
<1>3. PICK q \in 1 .. n - 1 : /\ \A m \in q .. n - 1 : s[m].half = 1
                              /\ \A r \in run : q <= r
  BY <1>2
<1>4. q = 1 \/ s[q - 1].half = 2
  <2>1. SUFFICES ASSUME q # 1, s[q - 1].half # 2 PROVE FALSE
    OBVIOUS
  <2>2. q - 1 \in 1 .. n - 1 /\ q - 1 \in 1 .. Len(s)
    <3>1. Len(s) \in Nat /\ n \in Int /\ n <= Len(s) /\ q \in Int
          /\ 1 <= q /\ q <= n - 1
      BY <1>0
    <3> HIDE DEF run
    <3> QED BY <2>1, <3>1
  <2>3. s[q - 1].half = 1
    <3>1. s[q - 1] \in Halves
      BY <2>2, ElementOfSeq
    <3> QED BY <2>1, <3>1 DEF Halves
  <2>4. \A m \in q - 1 .. n - 1 : m = q - 1 \/ m \in q .. n - 1
    BY <2>2
  <2>5. q - 1 \in run
    BY <2>2, <2>3, <2>4, <1>3
  <2> HIDE DEF run
  <2>6. q <= q - 1
    BY <2>5, <1>3
  <2> QED BY <2>6
<1> QED BY <1>3, <1>4, <1>0 DEF Start

(* What the parser hands out: commands in the order of the text, each of   *)
(* bytes that stand together, none of them NUL.                            *)
LEMMA CommandFacts ==
  ASSUME NEW s \in Seq(Halves), \A n \in 1 .. Len(s) : s[n].id # 0
  PROVE  /\ Commands(s) \in Seq(Command)
         /\ \A c \in 1 .. Len(Commands(s)) :
              /\ StartOf(s, c) \in 1 .. Len(s) /\ EndOf(s, c) \in 1 .. Len(s)
              /\ s[EndOf(s, c)].half = 2
              /\ Head(Commands(s)[c]) = s[StartOf(s, c)].id
              /\ Last(Commands(s)[c]) = s[EndOf(s, c)].id
         /\ \A a, b \in 1 .. Len(Commands(s)) :
              a < b => EndOf(s, a) < StartOf(s, b)
<1> DEFINE N == Cardinality(Ends(s))
<1>1. N \in Nat /\ \A c \in 1 .. N : EndOf(s, c) \in Ends(s)
  BY EndFacts
<1>2. \A c \in 1 .. N : /\ StartOf(s, c) \in 1 .. EndOf(s, c) - 1
                        /\ EndOf(s, c) \in 2 .. Len(s)
                        /\ s[EndOf(s, c)].half = 2
                        /\ \A m \in StartOf(s, c) .. EndOf(s, c) - 1 :
                             s[m].half = 1
  BY <1>1, StartFacts DEF StartOf, Ends
<1>3. ASSUME NEW c \in 1 .. N
      PROVE  /\ CommandAt(s, EndOf(s, c)) \in Command
             /\ Head(CommandAt(s, EndOf(s, c))) = s[StartOf(s, c)].id
             /\ Last(CommandAt(s, EndOf(s, c))) = s[EndOf(s, c)].id
  <2> DEFINE q == StartOf(s, c)
             n == EndOf(s, c)
             word == CommandAt(s, EndOf(s, c))
  <2>1. q \in 1 .. n - 1 /\ n \in 2 .. Len(s)
    BY <1>2
  <2>2. word = [m \in 1 .. n - q + 1 |-> s[q + m - 1].id]
    BY DEF CommandAt, StartOf
  <2> HIDE DEF q, n, word
  <2>3. \A m \in 1 .. n - q + 1 : s[q + m - 1].id \in Msgs
    <3>1. \A m \in 1 .. n - q + 1 : q + m - 1 \in 1 .. Len(s)
      BY <2>1
    <3>2. \A k \in 1 .. Len(s) : s[k].id \in Ids /\ s[k].id # 0
      <4>1. \A k \in 1 .. Len(s) : s[k] \in Halves
        BY ElementOfSeq
      <4> QED BY <4>1 DEF Halves
    <3>3. \A k \in Ids : k # 0 => k \in Msgs
      BY PipelineAssumption DEF Ids, Msgs
    <3> QED BY <3>1, <3>2, <3>3
  <2>4. word \in Seq(Msgs) /\ Len(word) = n - q + 1
    <3>1. n - q + 1 \in Nat
      BY <2>1
    <3> QED BY <2>2, <2>3, <3>1
  <2>5. Head(word) = s[q].id /\ word[n - q + 1] = s[n].id
    BY <2>1, <2>2, <2>4
  <2>6. word # << >>
    BY <2>1, <2>4
  <2> QED BY <2>4, <2>5, <2>6 DEF Command, Last, word, q, n
<1>4. Commands(s) = [c \in 1 .. N |-> CommandAt(s, EndOf(s, c))]
  BY DEF Commands, EndOf
<1>5. Commands(s) \in Seq(Command) /\ Len(Commands(s)) = N
  BY <1>1, <1>3, <1>4
<1>6. ASSUME NEW a \in 1 .. N, NEW b \in 1 .. N, a < b
      PROVE  EndOf(s, a) < StartOf(s, b)
  <2>1. EndOf(s, a) < EndOf(s, b)
    BY <1>6, EndFacts
  <2> QED BY <2>1, <1>2, SMTT(30)
<1>7. \A c \in 1 .. N : /\ StartOf(s, c) \in 1 .. Len(s)
                        /\ EndOf(s, c) \in 1 .. Len(s)
  BY <1>2
<1>8. \A c \in 1 .. N : Commands(s)[c] = CommandAt(s, EndOf(s, c))
  BY <1>4
<1> HIDE DEF N<1> QED BY <1>2, <1>3, <1>5, <1>6, <1>7, <1>8

-----------------------------------------------------------------------------
(* The steps of the system, one by one.                                    *)
LEMMA Cases ==
  [Next]_vars =>
    \/ Configured \/ Request \/ RequestComplete \/ ReadComplete \/ SendPacket
    \/ Detach \/ Suspend \/ Resume
    \/ OpenUsb \/ TakeRead \/ PostRead \/ WriteData \/ StoreHalf \/ CheckFull
    \/ DropOldest \/ GiveData \/ CleanBuf
    \/ TakeData \/ CopyHalf \/ AdvanceRead \/ ParseData \/ QueueCommand
    \/ ReceiveCommand \/ FormatAnswer \/ Transmit \/ Return
    \/ UNCHANGED vars
  BY DEF Next, Callback, UsbThread, ReadBufferThread, ProcessDataThread, Stopped

(* A ring that is no FIFO any more never is one again.                     *)
LEMMA BrokenStays == [Next]_vars /\ ~Broken' => ~Broken
<1> SUFFICES ASSUME [Next]_vars
             PROVE  (dropped => dropped') /\ (met => met')
  BY DEF Broken
<1> USE DEF driver, usbThread, ring
<1>1. CASE CheckFull \/ WriteData \/ TakeData
  <2>1. CheckFull => UNCHANGED met /\ (dropped' = TRUE \/ UNCHANGED dropped)
    BY DEF CheckFull
  <2>2. /\ WriteData => UNCHANGED dropped /\ (met => met')
        /\ TakeData => UNCHANGED dropped /\ (met => met')
    BY Zenon DEF WriteData, TakeData
  <2> QED BY <1>1, <2>1, <2>2
<1>2. CASE UNCHANGED <<dropped, met>>
  BY <1>2
<1>3. \/ CheckFull \/ WriteData \/ TakeData
      \/ UNCHANGED <<dropped, met>>
  BY Cases DEF Configured, Request, RequestComplete, ReadComplete, SendPacket,
     Detach, Suspend, Resume, OpenUsb, TakeRead, PostRead, StoreHalf,
     DropOldest, GiveData, CleanBuf, CopyHalf, AdvanceRead, ParseData,
     QueueCommand, ReceiveCommand, FormatAnswer, Transmit, Return, vars
<1> QED BY <1>1, <1>2, <1>3

(* The threads that do not use the ring leave it, and where its two users  *)
(* are in it, alone.                                                       *)
ringUsers == <<upc, left, ring, dataAvailSem, rpc, drained, rtmp>>
LEMMA RingAlone ==
  \/ Configured \/ Request \/ RequestComplete \/ ReadComplete \/ SendPacket
  \/ Detach \/ Suspend \/ Resume
  \/ ReceiveCommand \/ FormatAnswer \/ Transmit \/ Return
  \/ UNCHANGED vars
  => UNCHANGED ringUsers
  BY DEF ringUsers, driver, usbThread, reader, ring, vars,
     Configured, Request, RequestComplete, ReadComplete, SendPacket,
     Detach, Suspend, Resume, ReceiveCommand, FormatAnswer, Transmit, Return

-----------------------------------------------------------------------------
(* The ring of slots: the modulo of ringBuf.c is a wrap to 0.              *)
Place(r, j) == IF r + j < RingSize THEN r + j ELSE r + j - RingSize

LEMMA NextSlotWraps ==
  \A s \in Slots : NextSlot(s) = IF s = RingSize - 1 THEN 0 ELSE s + 1
<1> SUFFICES ASSUME NEW s \in Slots
             PROVE  NextSlot(s) = IF s = RingSize - 1 THEN 0 ELSE s + 1
  OBVIOUS
<1>1. s \in Nat /\ RingSize \in Nat /\ RingSize >= 2 /\ s <= RingSize - 1
  BY PipelineAssumption DEF Slots
<1>2. CASE s = RingSize - 1
  <2>1. s + 1 = RingSize /\ RingSize % RingSize = 0
    BY <1>1, <1>2
  <2> QED BY <1>2, <2>1 DEF NextSlot
<1>3. CASE s # RingSize - 1
  <2>1. s + 1 \in 0 .. RingSize - 1
    BY <1>1, <1>3
  <2>2. (s + 1) % RingSize = s + 1
    BY <1>1, <2>1
  <2> QED BY <1>3, <2>2 DEF NextSlot
<1> QED BY <1>2, <1>3

LEMMA NextSlotInRing == \A s \in Slots : NextSlot(s) \in Slots
  BY NextSlotWraps, PipelineAssumption DEF Slots

LEMMA PlaceInRing == \A r \in Slots, j \in 0 .. RingSize : Place(r, j) \in Slots
  BY PipelineAssumption DEF Place, Slots

LEMMA PlaceAfter == \A r \in Slots, j \in 0 .. RingSize - 1 :
                       NextSlot(Place(r, j)) = Place(r, j + 1)
  BY PipelineAssumption, NextSlotWraps DEF Place, Slots

LEMMA PlaceShift == \A r \in Slots, j \in 0 .. RingSize - 1 :
                       Place(NextSlot(r), j) = Place(r, j + 1)
  BY PipelineAssumption, NextSlotWraps DEF Place, Slots

LEMMA PlaceDistinct == \A r \in Slots, j \in Slots, k \in Slots :
                          j # k => Place(r, j) # Place(r, k)
  BY PipelineAssumption DEF Place, Slots

LEMMA PlaceMeets == \A r \in Slots, d \in 0 .. RingSize :
                       Place(r, d) = r <=> d = 0 \/ d = RingSize
  BY PipelineAssumption DEF Place, Slots

(* While the ring is a FIFO it holds what the FIFO holds but for what      *)
(* readData has copied out of it, fifo[1 .. Taken].                        *)
Taken == IF rpc = "advance" THEN Len(drained) - 1 ELSE Len(drained)
Held == Len(fifo) - Taken
Reading == rpc \in {"drain", "advance"}
Stored == upc \in {"check", "drop"}

(* Where the two threads can be.                                           *)
PlaceInv == /\ ~Reading => drained = << >>
            /\ rpc = "advance" => Len(drained) >= 1
            /\ upc = "open" => rpc = "take" /\ ~dataAvailSem /\ fifo = << >>
            /\ upc = "drop" => dropped
            /\ Stored => left < 2
            /\ ~met /\ Reading => ~Writing

(* Equal indexes are an empty ring or a full one: Held tells which.        *)
HeldInv == /\ Held \in 0 .. RingSize
           /\ Held = RingSize => upc \in {"check", "drop"}
           /\ upc = "drop" => Held = RingSize
           /\ ~met /\ upc = "check" => Held > 0
           /\ rpc = "advance" => rtmp = readIndex /\ Held > 0

FifoInv == /\ writeIndex = Place(readIndex, Held)
           /\ \A j \in 1 .. Held :
                buffer[Place(readIndex, j - 1)] = fifo[Taken + j]
           /\ \A k \in 1 .. Len(drained) : drained[k] = fifo[k]

RingInv == PlaceInv /\ (~Broken => HeldInv /\ FifoInv)

-----------------------------------------------------------------------------
(* What is left behind.  Bytes in g_usb_buf are announced by the semaphore *)
(* until usb_pcdc_task takes it, and then cleared before it waits again;   *)
(* whatever the ring holds, however its indexes came to be where they are, *)
(* is announced by the other one or will be copied before read_buffer_task *)
(* waits.                                                                  *)
Behind == IF readIndex <= writeIndex THEN writeIndex - readIndex
          ELSE writeIndex + RingSize - readIndex
Wakes == /\ ~Reading => readIndex = writeIndex
         /\ Reading => Taken + Behind <= RingSize - 1
         /\ rpc = "advance" => rtmp = readIndex /\ Behind > 0
Announced == upc \in {"open", "take"} /\ usbBuf # NoBytes => readCptSem
StrandInv ==
  /\ Announced
  /\ ~Writing /\ upc # "give" /\ ~dataAvailSem => Wakes

-----------------------------------------------------------------------------
(* The order of the messages.  Line is every command the parser has handed *)
(* out and the full queue has not dropped, the oldest first: what          *)
(* process_data_task has worked on, what is queued, what is to be queued.  *)
Line == processed \o cmdQueue \o parsed

InOrder(line) == \A a, b \in 1 .. Len(line) :
                   a < b => Last(line[a]) < Head(line[b])

(* Every command of the line ended before message id.                      *)
EndedBefore(line, id) == \A a \in 1 .. Len(line) : Last(line[a]) < id

(* The halves in the FIFO come from newer and newer messages, and what     *)
(* follows a second half belongs to a later message; 0 are NUL bytes.      *)
RingInOrder(r) ==
  \A m, n \in 1 .. Len(r) :
    m < n /\ r[m].id # 0 /\ r[n].id # 0
      => r[m].id <= r[n].id /\ (r[m].half = 2 => r[m].id < r[n].id)

(* How far usb_pcdc_task has copied g_usb_buf.                             *)
Done == upc \in {"give", "clean"} \/ (Stored /\ left = 0)
HalfDone == upc \in {"store", "check", "drop"} /\ left = 1

(* The message in g_usb_buf, if its copy has not been completed, is newer  *)
(* than all that was copied before it.                                     *)
FreshBytes ==
  usbBuf[1] # 0 /\ ~Done =>
    /\ EndedBefore(Line, usbBuf[1])
    /\ \A n \in 1 .. Len(fifo) :
         /\ fifo[n].id <= usbBuf[1]
         /\ ~HalfDone \/ fifo[n].half = 2 => fifo[n].id < usbBuf[1]

(* The halves in the FIFO, and the commands before them.                   *)
FifoOrder == /\ \A n \in 1 .. Len(fifo) :
                  /\ fifo[n].id <= sent
                  /\ fifo[n].id # 0 => EndedBefore(Line, fifo[n].id)
             /\ RingInOrder(fifo)
             /\ FreshBytes

LineInv == InOrder(Line) /\ EndedBefore(Line, sent + 1) /\ FifoOrder

OrderInv ==
  /\ usbBuf[1] = usbBuf[2] /\ usbBuf[1] <= sent
  /\ ~Broken => LineInv

-----------------------------------------------------------------------------
(* The types: TypeOK in four parts, the driver and the three threads.      *)
DriverOK == /\ bus \in {"off", "on", "suspended"}
            /\ readPending \in BOOLEAN
            /\ trap \in {"none", "open", "control", "read"}
            /\ control \in {"none", "coding", "state", "other"}
            /\ usbStatus \in {"none", "configured", "request_complete"}
            /\ usbBuf \in Ids \X Ids
            /\ readCptSem \in BOOLEAN
            /\ sent \in Ids /\ unplugs \in 0 .. MaxUnplug
IndexOK == /\ buffer \in [Slots -> Halves]
           /\ writeIndex \in Slots /\ readIndex \in Slots
HistoryOK == dropped \in BOOLEAN /\ met \in BOOLEAN /\ fifo \in Seq(Halves)
UsbOK == /\ upc \in {"open", "take", "read", "write", "store", "check",
                     "drop", "give", "clean"}
         /\ left \in 0 .. 2 /\ (upc = "store" => left > 0)
         /\ IndexOK /\ HistoryOK
         /\ dataAvailSem \in BOOLEAN
ReaderOK == /\ rpc \in {"take", "drain", "advance", "send"}
            /\ drained \in Seq(Halves) /\ Len(drained) <= RingSize - 1
            /\ rtmp \in Slots
            /\ parsed \in Seq(Command) /\ (rpc = "send" <=> parsed # << >>)
            /\ cmdQueue \in Seq(Command) /\ Len(cmdQueue) <= QueueLen
Texts == Command \cup {<< >>}
Tx == [src: {"none", "welcome", "reply"}, left: 0 .. 2, seen: Seq(Texts)]
ProcessOK == /\ ppc \in {"receive", "format", "transmit", "return"}
             /\ cmdStr \in Texts /\ (ppc # "receive" => cmdStr # << >>)
             /\ printfBuf \in Texts
             /\ tx \in Tx
             /\ processed \in Seq(Command) /\ replies \in Seq(Seq(Texts))

LEMMA TypeParts == TypeOK <=> DriverOK /\ UsbOK /\ ReaderOK /\ ProcessOK
<1>1. TypeOK => DriverOK /\ UsbOK
  BY DEF TypeOK, DriverOK, UsbOK, IndexOK, HistoryOK
<1>2. TypeOK => ReaderOK /\ ProcessOK
  BY DEF TypeOK, ReaderOK, ProcessOK, Tx, Texts
<1>3. DriverOK /\ UsbOK /\ ReaderOK /\ ProcessOK => TypeOK
  BY DEF TypeOK, DriverOK, UsbOK, IndexOK, HistoryOK, ReaderOK, ProcessOK, Tx,
     Texts
<1> QED BY <1>1, <1>2, <1>3

LEMMA TypePartsNext ==
  DriverOK' /\ UsbOK' /\ ReaderOK' /\ ProcessOK' => TypeOK'
  BY DEF TypeOK, DriverOK, UsbOK, IndexOK, HistoryOK, ReaderOK, ProcessOK, Tx,
     Texts

(* A step that leaves the variables of a part alone keeps its types.       *)
LEMMA TypesKept ==
  /\ DriverOK /\ UNCHANGED <<driver, trap, usbBuf, readCptSem, sent>>
       => DriverOK'
  /\ UsbOK /\ UNCHANGED usbThread => UsbOK'
  /\ HistoryOK /\ UNCHANGED <<dropped, met, fifo>> => HistoryOK'
  /\ ReaderOK /\ UNCHANGED <<reader, cmdQueue>> => ReaderOK'
  /\ ProcessOK /\ UNCHANGED <<process, tx, replies>> => ProcessOK'
<1>1. DriverOK /\ UNCHANGED <<driver, trap, usbBuf, readCptSem, sent>>
        => DriverOK'
  BY DEF DriverOK, driver
<1>2. UsbOK /\ UNCHANGED usbThread => UsbOK'
  BY DEF UsbOK, IndexOK, HistoryOK, usbThread, ring
<1>3. HistoryOK /\ UNCHANGED <<dropped, met, fifo>> => HistoryOK'
  BY DEF HistoryOK
<1>4. ReaderOK /\ UNCHANGED <<reader, cmdQueue>> => ReaderOK'
  BY DEF ReaderOK, reader
<1>5. ProcessOK /\ UNCHANGED <<process, tx, replies>> => ProcessOK'
  BY DEF ProcessOK, process
<1> QED BY <1>1, <1>2, <1>3, <1>4, <1>5

LEMMA NoBytesType == NoBytes \in Ids \X Ids
  BY PipelineAssumption DEF NoBytes, Ids

LEMMA NothingType ==
  \A S : /\ << >> \in Seq(S) /\ Len(<< >>) = 0
         /\ \A s \in Seq(S) : Len(s) \in Nat
  BY EmptySeq, LenProperties

LEMMA TypeInit == Init => TypeOK
<1> SUFFICES ASSUME Init PROVE TypeOK
  OBVIOUS
<1>0. 0 \in Ids /\ 0 \in 0 .. MaxUnplug /\ 0 \in Slots /\ 0 <= RingSize - 1
  BY PipelineAssumption DEF Ids, Slots
<1>1. DriverOK
  BY <1>0, NoBytesType DEF Init, DriverOK
<1>2. UsbOK
  <2>1. buffer \in [Slots -> Halves]
    BY <1>0 DEF Init, Half, Halves
  <2> QED BY <1>0, <2>1, NothingType DEF Init, UsbOK, IndexOK, HistoryOK
<1>3. ReaderOK
  BY <1>0, PipelineAssumption, NothingType DEF Init, ReaderOK
<1>4. ProcessOK
  BY NothingType DEF Init, ProcessOK, Tx, Texts, NoTx
<1> QED BY <1>1, <1>2, <1>3, <1>4, TypeParts

(* What is left of a sequence after its first n elements.                  *)
LEMMA RestOf ==
  \A S : \A s \in Seq(S), n \in Nat :
    n <= Len(s) =>
      /\ SubSeq(s, n + 1, Len(s)) \in Seq(S)
      /\ Len(SubSeq(s, n + 1, Len(s))) = Len(s) - n
      /\ \A j \in 1 .. Len(s) - n : SubSeq(s, n + 1, Len(s))[j] = s[n + j]
<1> SUFFICES ASSUME NEW S, NEW s \in Seq(S), NEW n \in Nat, n <= Len(s)
             PROVE  /\ SubSeq(s, n + 1, Len(s)) \in Seq(S)
                    /\ Len(SubSeq(s, n + 1, Len(s))) = Len(s) - n
                    /\ \A j \in 1 .. Len(s) - n :
                         SubSeq(s, n + 1, Len(s))[j] = s[n + j]
  OBVIOUS
<1>1. Len(s) \in Nat
  OBVIOUS
<1>2. \A i \in n + 1 .. Len(s) : s[i] \in S
  <2>1. \A i \in n + 1 .. Len(s) : i \in 1 .. Len(s)
    BY <1>1
  <2> QED BY <2>1, ElementOfSeq
<1>3. n + 1 \in Int /\ n + 1 <= Len(s) + 1
  BY <1>1
<1> QED BY <1>1, <1>2, <1>3, SubSeqProperties

(* The driver's buffer holds two ids, so what is copied are halves.        *)
LEMMA BytesType ==
  ASSUME DriverOK
  PROVE  Half(usbBuf[1], 1) \in Halves /\ Half(usbBuf[2], 2) \in Halves
  BY DEF DriverOK, Half, Halves

(* What the drop branch and the parser take from the FIFO is there.        *)
LEMMA FifoHolds ==
  ASSUME UsbOK, ReaderOK, RingInv, ~Broken
  PROVE  /\ Len(drained) \in Nat /\ Len(fifo) \in Nat /\ Len(drained) <= Len(fifo) + 1
         /\ rpc # "advance" => Len(drained) <= Len(fifo)
         /\ upc = "drop" => ~Reading /\ Len(fifo) = RingSize /\ fifo # << >>
<1>1. Len(drained) \in Nat /\ Len(fifo) \in Nat /\ RingSize \in Nat /\ RingSize >= 2
  BY PipelineAssumption DEF UsbOK, HistoryOK, ReaderOK
<1>2. Held \in 0 .. RingSize
  BY DEF RingInv, HeldInv
<1>3. upc = "drop" => ~Reading /\ drained = << >> /\ Held = RingSize
  BY DEF RingInv, PlaceInv, HeldInv, Broken, Writing
<1>4. Len(fifo) - Taken \in 0 .. RingSize
  BY <1>2 DEF Held
<1>5. upc = "drop" => Len(fifo) = RingSize
  BY <1>1, <1>3, <1>4 DEF Held, Taken, Reading
<1> QED BY <1>1, <1>3, <1>4, <1>5 DEF Taken

(* Remember: what a FIFO holds are halves.                                 *)
LEMMA RememberType ==
  ASSUME NEW s, Remember(s), ~Broken => s \in Seq(Halves)
  PROVE  fifo' \in Seq(Halves)
  BY NothingType DEF Remember

(* Every step keeps the types.                                             *)
LEMMA TypeStep == TypeOK /\ RingInv /\ [Next]_vars => TypeOK'
<1> SUFFICES ASSUME TypeOK, RingInv, [Next]_vars
             PROVE  TypeOK'
  OBVIOUS
<1>0. DriverOK /\ UsbOK /\ ReaderOK /\ ProcessOK
  BY TypeParts
<1>a. /\ IndexOK /\ HistoryOK /\ RingSize \in Nat /\ RingSize >= 2
      /\ Len(drained) \in Nat
  BY <1>0, PipelineAssumption DEF UsbOK, ReaderOK
<1>1. CASE Configured
  <2>1. DriverOK'
    BY <1>0, <1>1 DEF Configured, DriverOK, driver
  <2>2. UsbOK' /\ ReaderOK' /\ ProcessOK'
    BY <1>0, <1>1, TypesKept DEF Configured, usbThread, ring, driver, reader, process
  <2> QED BY <2>1, <2>2, TypePartsNext
<1>2. CASE Request
  <2>1. DriverOK'
    BY <1>0, <1>2 DEF Request, DriverOK, driver
  <2>2. ProcessOK'
    <3>1. tx' \in Tx
      <4>1. [src |-> "welcome", left |-> 1, seen |-> << >>] \in Tx
        BY NothingType DEF Tx
      <4>2. tx' = tx \/ tx' = [src |-> "welcome", left |-> 1, seen |-> << >>]
        BY <1>2 DEF Request, R_USB_Write
      <4> QED BY <1>0, <4>1, <4>2 DEF ProcessOK
    <3> QED BY <1>0, <1>2, <3>1 DEF Request, ProcessOK, process
  <2>3. UsbOK' /\ ReaderOK'
    BY <1>0, <1>2, TypesKept DEF Request, usbThread, ring, driver, reader, process
  <2> QED BY <2>1, <2>2, <2>3, TypePartsNext
<1>3. CASE RequestComplete
  <2>1. DriverOK'
    BY <1>0, <1>3 DEF RequestComplete, DriverOK, driver, R_USB_Read, ReadAccepted
  <2>2. UsbOK' /\ ReaderOK' /\ ProcessOK'
    BY <1>0, <1>3, TypesKept DEF RequestComplete, usbThread, ring, driver, reader, process
  <2> QED BY <2>1, <2>2, TypePartsNext
<1>4. CASE ReadComplete
  <2>1. DriverOK'
    <3>1. sent' \in Ids /\ usbBuf' \in Ids \X Ids
      BY <1>0, <1>4, PipelineAssumption DEF ReadComplete, DriverOK, Ids
    <3> QED BY <1>0, <1>4, <3>1 DEF ReadComplete, DriverOK, driver
  <2>2. UsbOK' /\ ReaderOK' /\ ProcessOK'
    BY <1>0, <1>4, TypesKept DEF ReadComplete, usbThread, ring, driver, reader, process
  <2> QED BY <2>1, <2>2, TypePartsNext
<1>5. CASE SendPacket
  <2>1. ProcessOK'
    <3>1. tx \in Tx /\ NoTx \in Tx /\ tx.seen \in Seq(Texts)
      BY <1>0, NothingType DEF ProcessOK, Tx, NoTx
    <3>2. Append(tx.seen, printfBuf) \in Seq(Texts)
      BY <1>0, <3>1, AppendProperties DEF ProcessOK
    <3>3. \A seen \in Seq(Texts) :
            tx.left > 1 => [tx EXCEPT !.left = @ - 1, !.seen = seen] \in Tx
      <4>1. tx.left > 1 => tx.left - 1 \in 0 .. 2
        BY <3>1 DEF Tx
      <4> QED BY <3>1, <4>1 DEF Tx
    <3>4. \A seen \in Seq(Texts) : Append(replies, seen) \in Seq(Seq(Texts))
      BY <1>0, AppendProperties DEF ProcessOK
    <3>5. tx' \in Tx /\ replies' \in Seq(Seq(Texts))
      BY <1>0, <1>5, <3>1, <3>2, <3>3, <3>4 DEF SendPacket, ProcessOK
    <3> QED BY <1>0, <1>5, <3>5 DEF SendPacket, ProcessOK, process
  <2>2. DriverOK' /\ UsbOK' /\ ReaderOK'
    BY <1>0, <1>5, TypesKept DEF SendPacket, usbThread, ring, driver, reader, process
  <2> QED BY <2>1, <2>2, TypePartsNext
<1>6. CASE Detach
  <2>1. DriverOK'
    <3>1. unplugs' \in 0 .. MaxUnplug
      BY <1>0, <1>6, PipelineAssumption DEF Detach, DriverOK
    <3> QED BY <1>0, <1>6, <3>1, NoBytesType DEF Detach, DriverOK
  <2>2. ProcessOK'
    BY <1>0, <1>6, NothingType DEF Detach, ProcessOK, process, Tx, NoTx
  <2>3. UsbOK' /\ ReaderOK'
    BY <1>0, <1>6, TypesKept DEF Detach, usbThread, ring, driver, reader, process
  <2> QED BY <2>1, <2>2, <2>3, TypePartsNext
<1>7. CASE Suspend
  <2>1. DriverOK'
    <3>1. unplugs' \in 0 .. MaxUnplug
      BY <1>0, <1>7, PipelineAssumption DEF Suspend, DriverOK
    <3> QED BY <1>0, <1>7, <3>1, NoBytesType DEF Suspend, DriverOK
  <2>2. UsbOK' /\ ReaderOK' /\ ProcessOK'
    BY <1>0, <1>7, TypesKept DEF Suspend, usbThread, ring, driver, reader, process
  <2> QED BY <2>1, <2>2, TypePartsNext
<1>8. CASE Resume
  <2>1. DriverOK'
    BY <1>0, <1>8 DEF Resume, DriverOK, driver
  <2>2. UsbOK' /\ ReaderOK' /\ ProcessOK'
    BY <1>0, <1>8, TypesKept DEF Resume, usbThread, ring, driver, reader, process
  <2> QED BY <2>1, <2>2, TypePartsNext
<1>9. CASE OpenUsb
  <2>1. DriverOK'
    BY <1>0, <1>9 DEF OpenUsb, DriverOK, driver
  <2>2. UsbOK'
    <3>1. 0 \in Slots
      BY <1>a DEF Slots
    <3> QED BY <1>0, <1>9, <3>1 DEF OpenUsb, UsbOK, IndexOK, HistoryOK
  <2>3. ReaderOK' /\ ProcessOK'
    BY <1>0, <1>9, TypesKept DEF OpenUsb, usbThread, ring, driver, reader, process
  <2> QED BY <2>1, <2>2, <2>3, TypePartsNext
<1>10. CASE TakeRead
  <2>1. DriverOK'
    BY <1>0, <1>10 DEF TakeRead, DriverOK, driver
  <2>2. UsbOK'
    BY <1>0, <1>10 DEF TakeRead, UsbOK, IndexOK, HistoryOK, usbThread, ring
  <2>3. ReaderOK' /\ ProcessOK'
    BY <1>0, <1>10, TypesKept DEF TakeRead, usbThread, ring, driver, reader, process
  <2> QED BY <2>1, <2>2, <2>3, TypePartsNext
<1>11. CASE PostRead
  <2>1. DriverOK'
    BY <1>0, <1>11 DEF PostRead, DriverOK, driver, R_USB_Read, ReadAccepted
  <2>2. UsbOK'
    BY <1>0, <1>11 DEF PostRead, UsbOK, IndexOK, HistoryOK, usbThread, ring
  <2>3. ReaderOK' /\ ProcessOK'
    BY <1>0, <1>11, TypesKept DEF PostRead, usbThread, ring, driver, reader, process
  <2> QED BY <2>1, <2>2, <2>3, TypePartsNext
<1>12. CASE WriteData
  <2>1. UsbOK'
    BY <1>0, <1>12 DEF WriteData, UsbOK, IndexOK, HistoryOK, usbThread, ring, NextHalf
  <2>2. DriverOK' /\ ReaderOK' /\ ProcessOK'
    BY <1>0, <1>12, TypesKept DEF WriteData, usbThread, ring, driver, reader, process
  <2> QED BY <2>1, <2>2, TypePartsNext
<1>13. CASE StoreHalf
  <2>1. UsbOK'
    <3>1. /\ left \in 1 .. 2 /\ left' = left - 1 /\ upc' = "check"
          /\ UNCHANGED <<readIndex, dropped, met, dataAvailSem>>
      BY <1>0, <1>13 DEF StoreHalf, UsbOK
    <3>2. PICK h \in Halves : /\ buffer' = [buffer EXCEPT ![writeIndex] = h]
                              /\ Remember(Append(fifo, h))
      <4>1. 3 - left \in {1, 2}
        BY <3>1
      <4>2. Half(usbBuf[3 - left], 3 - left) \in Halves
        BY <1>0, <4>1, BytesType
      <4> QED BY <1>13, <4>2 DEF StoreHalf
    <3>3. IndexOK'
      <4>1. writeIndex' \in Slots
        BY <1>a, <1>13, NextSlotInRing DEF StoreHalf, IndexOK
      <4> QED BY <1>a, <3>1, <3>2, <4>1 DEF IndexOK
    <3>4. HistoryOK'
      <4>1. Append(fifo, h) \in Seq(Halves)
        BY <1>a, AppendProperties DEF HistoryOK
      <4>2. fifo' \in Seq(Halves)
        BY <3>2, <4>1, RememberType
      <4> QED BY <1>a, <3>1, <4>2 DEF HistoryOK
    <3>5. left' \in 0 .. 2
      BY <3>1
    <3> QED BY <1>0, <3>1, <3>3, <3>4, <3>5 DEF UsbOK
  <2>2. DriverOK' /\ ReaderOK' /\ ProcessOK'
    BY <1>0, <1>13, TypesKept DEF StoreHalf, usbThread, ring, driver, reader, process
  <2> QED BY <2>1, <2>2, TypePartsNext
<1>14. CASE CheckFull
  <2>1. UsbOK'
    <3>1. dropped' \in BOOLEAN
      BY <1>a, <1>14 DEF CheckFull, HistoryOK
    <3>2. upc' \in {"drop", "give", "store"} /\ (upc' = "store" => left > 0)
      BY <1>0, <1>14 DEF CheckFull, NextHalf, UsbOK
    <3> QED BY <1>0, <1>14, <3>1, <3>2 DEF CheckFull, UsbOK, IndexOK, HistoryOK
  <2>2. DriverOK' /\ ReaderOK' /\ ProcessOK'
    BY <1>0, <1>14, TypesKept DEF CheckFull, usbThread, ring, driver, reader, process
  <2> QED BY <2>1, <2>2, TypePartsNext
<1>15. CASE DropOldest
  <2>1. UsbOK'
    <3>1. readIndex' \in Slots
      BY <1>a, <1>15, NextSlotInRing DEF DropOldest, IndexOK
    <3>2. IndexOK'
      BY <1>a, <1>15, <3>1 DEF DropOldest, IndexOK
    <3>3. HistoryOK'
      <4>1. ~Broken => fifo # << >>
        BY <1>0, <1>15, FifoHolds DEF DropOldest
      <4>2. ~Broken => Tail(fifo) \in Seq(Halves)
        BY <1>a, <4>1, HeadTailProperties DEF HistoryOK
      <4>3. Remember(Tail(fifo))
        BY <1>15 DEF DropOldest
      <4>4. fifo' \in Seq(Halves)
        BY <4>2, <4>3, RememberType
      <4> QED BY <1>a, <1>15, <4>4 DEF DropOldest, HistoryOK
    <3>4. upc' = NextHalf(left) /\ UNCHANGED <<left, dataAvailSem>>
      BY <1>15 DEF DropOldest
    <3> QED BY <1>0, <3>2, <3>3, <3>4 DEF UsbOK, NextHalf
  <2>2. DriverOK' /\ ReaderOK' /\ ProcessOK'
    BY <1>0, <1>15, TypesKept DEF DropOldest, usbThread, ring, driver, reader, process
  <2> QED BY <2>1, <2>2, TypePartsNext
<1>16. CASE GiveData
  <2>1. UsbOK'
    BY <1>0, <1>16 DEF GiveData, UsbOK, IndexOK, HistoryOK, usbThread, ring
  <2>2. DriverOK' /\ ReaderOK' /\ ProcessOK'
    BY <1>0, <1>16, TypesKept DEF GiveData, usbThread, ring, driver, reader, process
  <2> QED BY <2>1, <2>2, TypePartsNext
<1>17. CASE CleanBuf
  <2>1. DriverOK'
    BY <1>0, <1>17, NoBytesType DEF CleanBuf, DriverOK, driver
  <2>2. UsbOK'
    BY <1>0, <1>17 DEF CleanBuf, UsbOK, IndexOK, HistoryOK, usbThread, ring
  <2>3. ReaderOK' /\ ProcessOK'
    BY <1>0, <1>17, TypesKept DEF CleanBuf, usbThread, ring, driver, reader, process
  <2> QED BY <2>1, <2>2, <2>3, TypePartsNext
<1>18. CASE TakeData
  <2>1. UsbOK'
    BY <1>0, <1>18 DEF TakeData, UsbOK, IndexOK, HistoryOK, usbThread, ring
  <2>2. ReaderOK'
    BY <1>0, <1>18 DEF TakeData, ReaderOK, reader
  <2>3. DriverOK' /\ ProcessOK'
    BY <1>0, <1>18, TypesKept DEF TakeData, usbThread, ring, driver, reader, process
  <2> QED BY <2>1, <2>2, <2>3, TypePartsNext
<1>19. CASE CopyHalf
  <2>1. ReaderOK'
    <3>1. buffer[readIndex] \in Halves /\ readIndex \in Slots
      BY <1>a DEF IndexOK
    <3>2. drained' \in Seq(Halves) /\ Len(drained') <= RingSize - 1
      <4>1. /\ Append(drained, buffer[readIndex]) \in Seq(Halves)
            /\ Len(Append(drained, buffer[readIndex])) = Len(drained) + 1
        BY <1>0, <3>1, AppendProperties DEF ReaderOK
      <4>2. Len(drained) < RingSize - 1 /\ drained' = Append(drained, buffer[readIndex])
        BY <1>19 DEF CopyHalf, GoesOn
      <4> QED BY <1>a, <4>1, <4>2
    <3> QED BY <1>0, <1>19, <3>1, <3>2 DEF CopyHalf, ReaderOK
  <2>2. DriverOK' /\ UsbOK' /\ ProcessOK'
    BY <1>0, <1>19, TypesKept DEF CopyHalf, usbThread, ring, driver, reader, process
  <2> QED BY <2>1, <2>2, TypePartsNext
<1>20. CASE AdvanceRead
  <2>1. UsbOK'
    <3>1. readIndex' \in Slots
      BY <1>0, <1>a, <1>20, NextSlotInRing DEF AdvanceRead, IndexOK, ReaderOK
    <3> QED BY <1>0, <1>20, <3>1 DEF AdvanceRead, UsbOK, IndexOK, HistoryOK
  <2>2. ReaderOK'
    BY <1>0, <1>20 DEF AdvanceRead, ReaderOK
  <2>3. DriverOK' /\ ProcessOK'
    BY <1>0, <1>20, TypesKept DEF AdvanceRead, usbThread, ring, driver, reader, process
  <2> QED BY <2>1, <2>2, <2>3, TypePartsNext
<1>21. CASE ParseData
  <2>1. UsbOK'
    <3>1. ~Broken => SubSeq(fifo, Len(drained) + 1, Len(fifo)) \in Seq(Halves)
      <4> SUFFICES ASSUME ~Broken
                   PROVE  SubSeq(fifo, Len(drained) + 1, Len(fifo)) \in Seq(Halves)
        OBVIOUS
      <4>1. Len(drained) <= Len(fifo)
        BY <1>0, <1>21, FifoHolds DEF ParseData
      <4> QED BY <1>a, <4>1, RestOf DEF HistoryOK
    <3>2. fifo' \in Seq(Halves)
      <4>1. Remember(SubSeq(fifo, Len(drained) + 1, Len(fifo)))
        BY <1>21 DEF ParseData
      <4> QED BY <3>1, <4>1, RememberType
    <3> QED BY <1>0, <1>21, <3>2 DEF ParseData, UsbOK, IndexOK, HistoryOK
  <2>2. ReaderOK'
    <3>1. Commands(Text(drained)) \in Seq(Command)
      <4>1. drained \in Seq(Halves)
        BY <1>0 DEF ReaderOK
      <4>2. /\ Text(drained) \in Seq(Halves)
            /\ \A n \in 1 .. Len(Text(drained)) : Text(drained)[n].id # 0
        BY <4>1, TextFacts
      <4> QED BY <4>2, CommandFacts
    <3>2. << >> \in Seq(Halves) /\ Len(<< >>) <= RingSize - 1
      BY <1>a, NothingType
    <3> QED BY <1>0, <1>21, <3>1, <3>2 DEF ParseData, ReaderOK
  <2>3. DriverOK' /\ ProcessOK'
    BY <1>0, <1>21, TypesKept DEF ParseData, usbThread, ring, driver, reader, process
  <2> QED BY <2>1, <2>2, <2>3, TypePartsNext
<1>22. CASE QueueCommand
  <2>1. ReaderOK'
    <3>1. parsed # << >> /\ parsed \in Seq(Command)
      BY <1>0, <1>22 DEF QueueCommand, ReaderOK
    <3>2. Head(parsed) \in Command /\ Tail(parsed) \in Seq(Command)
      BY <3>1, HeadTailProperties
    <3>3. cmdQueue' \in Seq(Command) /\ Len(cmdQueue') <= QueueLen
      BY <1>0, <1>22, <3>2, AppendProperties, PipelineAssumption
         DEF QueueCommand, ReaderOK
    <3> QED BY <1>0, <1>22, <3>2, <3>3 DEF QueueCommand, ReaderOK
  <2>2. DriverOK' /\ UsbOK' /\ ProcessOK'
    BY <1>0, <1>22, TypesKept DEF QueueCommand, usbThread, ring, driver, reader, process
  <2> QED BY <2>1, <2>2, TypePartsNext
<1>23. CASE ReceiveCommand
  <2>1. ReaderOK'
    <3>1. cmdQueue # << >> /\ cmdQueue \in Seq(Command)
      BY <1>0, <1>23 DEF ReceiveCommand, ReaderOK
    <3>2. Tail(cmdQueue) \in Seq(Command) /\ Len(Tail(cmdQueue)) <= QueueLen
      BY <1>0, <3>1, HeadTailProperties, PipelineAssumption DEF ReaderOK
    <3> QED BY <1>0, <1>23, <3>2 DEF ReceiveCommand, ReaderOK, reader
  <2>2. ProcessOK'
    <3>1. Head(cmdQueue) \in Command
      BY <1>0, <1>23, HeadTailProperties DEF ReceiveCommand, ReaderOK
    <3>2. cmdStr' \in Texts /\ cmdStr' # << >>
      BY <1>23, <3>1 DEF ReceiveCommand, Command, Texts
    <3>3. processed' \in Seq(Command)
      BY <1>0, <1>23, <3>1, AppendProperties DEF ReceiveCommand, ProcessOK
    <3>4. printfBuf' \in Texts
      BY <1>0, <1>23 DEF ReceiveCommand, StackUsed, ProcessOK, Texts
    <3> QED BY <1>0, <1>23, <3>2, <3>3, <3>4 DEF ReceiveCommand, ProcessOK
  <2>3. DriverOK' /\ UsbOK'
    BY <1>0, <1>23, TypesKept DEF ReceiveCommand, usbThread, ring, driver, reader, process
  <2> QED BY <2>1, <2>2, <2>3, TypePartsNext
<1>24. CASE FormatAnswer
  <2>1. ProcessOK'
    BY <1>0, <1>24 DEF FormatAnswer, ProcessOK, process
  <2>2. DriverOK' /\ UsbOK' /\ ReaderOK'
    BY <1>0, <1>24, TypesKept DEF FormatAnswer, usbThread, ring, driver, reader, process
  <2> QED BY <2>1, <2>2, TypePartsNext
<1>25. CASE Transmit
  <2>1. ProcessOK'
    <3>1. ReplyPackets[Head(cmdStr)] \in 0 .. 2
      <4>1. cmdStr \in Command
        BY <1>0, <1>25 DEF Transmit, ProcessOK, Texts
      <4>2. Head(cmdStr) \in Msgs
        BY <4>1, HeadTailProperties DEF Command
      <4> QED BY <4>2, PipelineAssumption
    <3>2. tx' \in Tx
      BY <1>0, <1>25, <3>1, NothingType
         DEF Transmit, ProcessOK, R_USB_Write, Tx
    <3> QED BY <1>0, <1>25, <3>2 DEF Transmit, ProcessOK
  <2>2. DriverOK' /\ UsbOK' /\ ReaderOK'
    BY <1>0, <1>25, TypesKept DEF Transmit, usbThread, ring, driver, reader, process
  <2> QED BY <2>1, <2>2, TypePartsNext
<1>26. CASE Return
  <2>1. ProcessOK'
    <3>1. printfBuf' \in Texts
      BY <1>0, <1>26 DEF Return, StackUsed, ProcessOK, Texts
    <3> QED BY <1>0, <1>26, <3>1 DEF Return, ProcessOK
  <2>2. DriverOK' /\ UsbOK' /\ ReaderOK'
    BY <1>0, <1>26, TypesKept DEF Return, usbThread, ring, driver, reader, process
  <2> QED BY <2>1, <2>2, TypePartsNext
<1>27. CASE UNCHANGED vars
  BY <1>0, <1>27, TypesKept, TypePartsNext
     DEF vars, usbThread, ring, driver, reader, process
<1> QED
  BY <1>1, <1>2, <1>3, <1>4, <1>5, <1>6, <1>7, <1>8, <1>9, <1>10, <1>11,
     <1>12, <1>13, <1>14, <1>15, <1>16, <1>17, <1>18, <1>19, <1>20,
     <1>21, <1>22, <1>23, <1>24, <1>25, <1>26, <1>27, Cases

-----------------------------------------------------------------------------
(* The ring is the FIFO until the drop branch and the other thread have    *)
(* both been in it.                                                        *)
LEMMA RingAlike ==
  ASSUME UNCHANGED ringUsers
  PROVE  /\ RingInv => RingInv'
         /\ Taken' = Taken /\ Behind' = Behind /\ Writing' = Writing
         /\ Reading' = Reading
<1> USE DEF ringUsers, ring
<1>1. /\ Taken' = Taken /\ Behind' = Behind /\ Writing' = Writing
      /\ Reading' = Reading /\ Held' = Held /\ Broken' = Broken
      /\ Stored' = Stored
  BY DEF Taken, Behind, Writing, Reading, Held, Broken, Stored
<1>2. PlaceInv => PlaceInv'
  BY <1>1 DEF PlaceInv
<1>3. HeldInv => HeldInv'
  BY <1>1 DEF HeldInv
<1>4. FifoInv => FifoInv'
  BY <1>1 DEF FifoInv, Place
<1> QED BY <1>1, <1>2, <1>3, <1>4 DEF RingInv

LEMMA PlaceStep == TypeOK /\ RingInv /\ [Next]_vars => PlaceInv'
<1> SUFFICES ASSUME TypeOK, RingInv, [Next]_vars
             PROVE  PlaceInv'
  OBVIOUS
<1>0. PlaceInv /\ UsbOK /\ ReaderOK
  BY TypeParts DEF RingInv
<1>a. Len(drained) \in Nat /\ left \in 0 .. 2
  BY <1>0 DEF ReaderOK, UsbOK
<1> USE DEF PlaceInv, Reading, Stored, Writing, driver, usbThread, ring, reader
<1>1. CASE UNCHANGED ringUsers
  BY <1>1, RingAlike DEF RingInv
<1>2. CASE OpenUsb
  BY <1>0, <1>2 DEF OpenUsb
<1>3. CASE TakeRead \/ PostRead \/ GiveData \/ CleanBuf
  BY <1>0, <1>3 DEF TakeRead, PostRead, GiveData, CleanBuf
<1>4. CASE WriteData
  <2>1. /\ upc' \in {"give", "store"} /\ (met' <=> met \/ Reading)
        /\ UNCHANGED <<rpc, drained, dropped, dataAvailSem, fifo>>
    BY <1>4 DEF WriteData, NextHalf
  <2> QED BY <1>0, <2>1
<1>5. CASE StoreHalf
  <2>1. /\ upc = "store" /\ upc' = "check" /\ left' = left - 1
        /\ UNCHANGED <<rpc, drained, dropped, met, dataAvailSem>>
    BY <1>5 DEF StoreHalf
  <2> QED BY <1>0, <1>a, <2>1
<1>6. CASE CheckFull
  <2>1. /\ upc = "check" /\ upc' \in {"drop", "give", "store"} /\ left' = left
        /\ (upc' = "drop" => dropped')
        /\ UNCHANGED <<rpc, drained, met, dataAvailSem, fifo>>
    BY <1>6 DEF CheckFull, NextHalf
  <2> QED BY <1>0, <2>1
<1>7. CASE DropOldest
  <2>1. /\ upc = "drop" /\ upc' \in {"give", "store"}
        /\ UNCHANGED <<rpc, drained, met, dataAvailSem>>
    BY <1>7 DEF DropOldest, NextHalf
  <2> QED BY <1>0, <2>1
<1>8. CASE TakeData
  <2>1. /\ rpc = "take" /\ rpc' = "drain" /\ (met' <=> met \/ Writing)
        /\ dataAvailSem /\ UNCHANGED <<upc, drained, dropped, left>>
    BY <1>8 DEF TakeData
  <2> QED BY <1>0, <2>1
<1>9. CASE CopyHalf
  <2>1. /\ rpc = "drain" /\ rpc' = "advance"
        /\ drained' = Append(drained, buffer[readIndex])
        /\ UNCHANGED <<upc, met, dropped, left>>
    BY <1>9 DEF CopyHalf
  <2>2. Len(drained') >= 1
    BY <1>0, <1>a, <2>1, AppendProperties DEF ReaderOK, UsbOK, IndexOK
  <2> QED BY <1>0, <2>1, <2>2
<1>10. CASE AdvanceRead
  BY <1>0, <1>10 DEF AdvanceRead
<1>11. CASE ParseData
  BY <1>0, <1>11 DEF ParseData
<1>12. CASE QueueCommand
  BY <1>0, <1>12 DEF QueueCommand
<1> QED BY <1>1, <1>2, <1>3, <1>4, <1>5, <1>6, <1>7, <1>8, <1>9, <1>10, <1>11,
           <1>12, Cases, RingAlone

(* A step that leaves the slots, the indexes and the FIFO alone.           *)
LEMMA FifoKept ==
  ASSUME HeldInv, FifoInv,
         UNCHANGED <<buffer, writeIndex, readIndex, fifo, drained, rtmp>>,
         rpc' = rpc \/ (rpc # "advance" /\ rpc' # "advance"),
         \/ upc' = upc /\ (~met' => ~met)
         \/ ~Stored /\ ~Stored'
  PROVE  HeldInv' /\ FifoInv'
<1>1. Taken' = Taken /\ Held' = Held
  BY DEF Taken, Held
<1>2. HeldInv'
  BY <1>1 DEF HeldInv, Stored
<1> QED BY <1>1, <1>2 DEF FifoInv, Place

LEMMA RingNumbers ==
  ASSUME TypeOK
  PROVE  /\ RingSize \in Nat /\ RingSize >= 2 /\ writeIndex \in Slots
         /\ readIndex \in Slots /\ buffer \in [Slots -> Halves]
         /\ fifo \in Seq(Halves) /\ Len(fifo) \in Nat
         /\ drained \in Seq(Halves) /\ Len(drained) \in Nat
         /\ Len(drained) <= RingSize - 1 /\ Taken \in Int /\ Held \in Int
<1>1. UsbOK /\ ReaderOK /\ RingSize \in Nat /\ RingSize >= 2
  BY TypeParts, PipelineAssumption
<1>2. Len(drained) \in Nat /\ Len(fifo) \in Nat
  BY <1>1 DEF UsbOK, HistoryOK, ReaderOK
<1>3. Taken \in Int /\ Held \in Int
  BY <1>2 DEF Taken, Held
<1> QED BY <1>1, <1>2, <1>3 DEF UsbOK, IndexOK, HistoryOK, ReaderOK

LEMMA FifoStep ==
  TypeOK /\ RingInv /\ [Next]_vars /\ ~Broken' => HeldInv' /\ FifoInv'
<1> SUFFICES ASSUME TypeOK, RingInv, [Next]_vars, ~Broken'
             PROVE  HeldInv' /\ FifoInv'
  OBVIOUS
<1>0. ~Broken /\ PlaceInv /\ HeldInv /\ FifoInv
  BY BrokenStays DEF RingInv
<1>a. /\ RingSize \in Nat /\ RingSize >= 2 /\ writeIndex \in Slots
      /\ readIndex \in Slots /\ buffer \in [Slots -> Halves]
      /\ fifo \in Seq(Halves) /\ Len(fifo) \in Nat
      /\ drained \in Seq(Halves) /\ Len(drained) \in Nat
      /\ Len(drained) <= RingSize - 1 /\ Taken \in Int /\ Held \in Int
  BY RingNumbers
<1>b. /\ Held \in 0 .. RingSize /\ Len(fifo) = Taken + Held
      /\ writeIndex = Place(readIndex, Held)
  BY <1>0, <1>a DEF HeldInv, FifoInv, Held
<1>c. writeIndex = readIndex <=> Held = 0 \/ Held = RingSize
  BY <1>a, <1>b, PlaceMeets
<1> USE DEF driver, usbThread, ring, reader
<1>1. CASE UNCHANGED ringUsers
  BY <1>0, <1>1, RingAlike DEF RingInv
<1>2. CASE OpenUsb
  <2>1. /\ rpc = "take" /\ drained = << >> /\ fifo = << >> /\ upc = "open"
        /\ upc' \in {"open", "take"} /\ readIndex' = 0 /\ writeIndex' = 0
        /\ UNCHANGED <<rpc, drained, fifo>>
    BY <1>0, <1>2 DEF OpenUsb, PlaceInv, Reading
  <2>2. Len(<< >>) = 0
    BY NothingType
  <2>3. Taken' = 0 /\ Held' = 0
    BY <2>1, <2>2 DEF Taken, Held
  <2> QED BY <1>a, <2>1, <2>3, <2>2 DEF HeldInv, FifoInv, Place
<1>3. CASE TakeRead \/ PostRead \/ WriteData \/ GiveData \/ CleanBuf
  <2>1. /\ UNCHANGED <<buffer, writeIndex, readIndex, fifo, drained, rtmp, rpc>>
        /\ ~Stored /\ ~Stored'
    BY <1>3 DEF TakeRead, PostRead, WriteData, GiveData, CleanBuf, NextHalf,
       Stored
  <2> QED BY <1>0, <2>1, FifoKept
<1>4. CASE TakeData \/ QueueCommand
  <2>1. /\ UNCHANGED <<buffer, writeIndex, readIndex, fifo, drained, rtmp, upc>>
        /\ rpc # "advance" /\ rpc' # "advance"
    BY <1>4 DEF TakeData, QueueCommand
  <2>2. ~met' => ~met
    BY <1>4, Zenon DEF TakeData, QueueCommand
  <2> QED BY <1>0, <2>1, <2>2, FifoKept
<1>5. CASE StoreHalf
  <2>1. /\ upc = "store" /\ upc' = "check"
        /\ UNCHANGED <<rpc, drained, rtmp, readIndex, met>>
        /\ writeIndex' = NextSlot(writeIndex)
    BY <1>5 DEF StoreHalf
  <2>2. PICK h : /\ buffer' = [buffer EXCEPT ![writeIndex] = h]
                 /\ fifo' = Append(fifo, h)
    BY <1>0, <1>5 DEF StoreHalf, Remember
  <2>3. Held \in 0 .. RingSize - 1
    BY <1>0, <1>a, <1>b, <2>1 DEF HeldInv
  <2>4. fifo' \in Seq(Halves \cup {h}) /\ Len(fifo') = Len(fifo) + 1
        /\ fifo'[Len(fifo) + 1] = h
        /\ \A k \in 1 .. Len(fifo) : fifo'[k] = fifo[k]
    <3>1. fifo \in Seq(Halves \cup {h}) /\ h \in Halves \cup {h}
      <4>1. \A k \in 1 .. Len(fifo) : fifo[k] \in Halves \cup {h}
        BY <1>a, ElementOfSeq
      <4> QED BY <1>a, <4>1
    <3> QED BY <2>2, <3>1, AppendProperties
  <2>5. Taken' = Taken /\ Held' = Held + 1
    BY <1>a, <2>1, <2>4 DEF Taken, Held
  <2>6. writeIndex' = Place(readIndex, Held + 1)
    BY <1>a, <1>b, <2>1, <2>3, PlaceAfter
  <2>7. ASSUME NEW j \in 1 .. Held + 1
        PROVE  buffer'[Place(readIndex, j - 1)] = fifo'[Taken + j]
    <3>1. CASE j = Held + 1
      <4>1. Place(readIndex, j - 1) = writeIndex
        BY <1>a, <1>b, <3>1
      <4>2. Taken + j = Len(fifo) + 1
        BY <1>a, <1>b, <3>1
      <4> QED BY <1>a, <2>2, <2>4, <4>1, <4>2
    <3>2. CASE j # Held + 1
      <4>1. j \in 1 .. Held /\ j - 1 \in Slots /\ Held \in Slots /\ j - 1 # Held
        BY <1>a, <2>3, <3>2 DEF Slots
      <4>2. Place(readIndex, j - 1) # writeIndex /\ Place(readIndex, j - 1) \in Slots
        <5>1. Place(readIndex, j - 1) # Place(readIndex, Held)
          BY <1>a, <4>1, PlaceDistinct, Zenon
        <5>2. j - 1 \in 0 .. RingSize
          BY <1>a, <4>1 DEF Slots
        <5> QED BY <1>a, <1>b, <5>1, <5>2, PlaceInRing, Zenon
      <4>3. Taken + j \in 1 .. Len(fifo)
        <5>1. Taken >= 0
          BY <1>0, <1>a DEF Taken, PlaceInv
        <5> QED BY <1>a, <1>b, <4>1, <5>1
      <4>4. buffer[Place(readIndex, j - 1)] = fifo[Taken + j]
        BY <1>0, <4>1 DEF FifoInv
      <4> QED BY <1>a, <2>2, <2>4, <4>2, <4>3, <4>4
    <3> QED BY <3>1, <3>2
  <2>8. HeldInv'
    BY <1>0, <1>a, <2>1, <2>3, <2>5 DEF HeldInv
  <2>9. \A k \in 1 .. Len(drained) : drained[k] = fifo'[k]
    <3>1. \A k \in 1 .. Len(drained) : drained[k] = fifo[k]
      BY <1>0 DEF FifoInv
    <3>2. Len(drained) <= Len(fifo)
      BY <1>0, <1>a, <1>b DEF Taken, HeldInv
    <3>3. \A k \in 1 .. Len(drained) : k \in 1 .. Len(fifo)
      BY <1>a, <3>2
    <3> QED BY <2>4, <3>1, <3>3
  <2>10. /\ writeIndex' = Place(readIndex', Held')
         /\ \A j \in 1 .. Held' :
              buffer'[Place(readIndex', j - 1)] = fifo'[Taken' + j]
         /\ \A k \in 1 .. Len(drained') : drained'[k] = fifo'[k]
    BY <2>1, <2>5, <2>6, <2>7, <2>9
  <2> QED BY <2>8, <2>10 DEF FifoInv, Place
<1>6. CASE CheckFull
  <2>1. /\ upc = "check" /\ (~met' => ~met) /\ (upc' = "drop" => dropped')
        /\ UNCHANGED <<buffer, writeIndex, readIndex, fifo, drained, rtmp, rpc, met>>
        /\ \/ writeIndex = readIndex /\ upc' = "drop"
           \/ writeIndex # readIndex /\ upc' \in {"give", "store"}
    BY <1>6 DEF CheckFull, NextHalf
  <2>2. Taken' = Taken /\ Held' = Held
    BY <2>1 DEF Taken, Held
  <2>3. upc' = "drop" => Held = RingSize
    <3> SUFFICES ASSUME upc' = "drop"
                 PROVE  Held = RingSize
      OBVIOUS
    <3>1. ~met /\ writeIndex = readIndex
      BY <2>1 DEF Broken
    <3>2. Held > 0
      BY <1>0, <2>1, <3>1 DEF HeldInv
    <3> QED BY <1>a, <1>c, <3>1, <3>2
  <2>4. HeldInv'
    BY <1>0, <1>c, <2>1, <2>2, <2>3 DEF HeldInv
  <2> QED BY <1>0, <2>1, <2>2, <2>4 DEF FifoInv, Place
<1>7. CASE DropOldest
  <2>1. /\ upc = "drop" /\ upc' \in {"give", "store"}
        /\ UNCHANGED <<rpc, drained, rtmp, buffer, writeIndex, met, dropped>>
        /\ readIndex' \in {NextSlot(writeIndex), NextSlot(readIndex)}
        /\ fifo' = Tail(fifo)
    BY <1>0, <1>7 DEF DropOldest, NextHalf, Remember
  <2>2. Held = RingSize /\ ~Reading /\ drained = << >>
    BY <1>0, <2>1 DEF HeldInv, PlaceInv, Broken, Writing
  <2>3. Taken = 0 /\ Taken' = 0 /\ Len(drained) = 0 /\ Len(fifo) = RingSize
    BY <1>a, <1>b, <2>1, <2>2, NothingType DEF Taken, Reading
  <2>4. readIndex' = NextSlot(readIndex)
    BY <1>c, <2>1, <2>2
  <2>5. /\ Len(fifo') = RingSize - 1
        /\ \A k \in 1 .. RingSize - 1 : fifo'[k] = fifo[k + 1]
    <3>1. fifo # << >>
      BY <1>a, <2>3
    <3> QED BY <1>a, <2>1, <2>3, <3>1, HeadTailProperties
  <2>6. Held' = RingSize - 1
    BY <2>3, <2>5 DEF Held
  <2>7. writeIndex' = Place(readIndex', RingSize - 1)
    BY <1>a, <1>b, <2>1, <2>2, <2>4, PlaceShift
  <2>8. ASSUME NEW j \in 1 .. RingSize - 1
        PROVE  buffer'[Place(readIndex', j - 1)] = fifo'[0 + j]
    <3>1. Place(readIndex', j - 1) = Place(readIndex, (j + 1) - 1)
      BY <1>a, <2>4, PlaceShift
    <3>2. j + 1 \in 1 .. Held
      BY <1>a, <2>2
    <3>3. buffer[Place(readIndex, (j + 1) - 1)] = fifo[Taken + (j + 1)]
      BY <1>0, <3>2 DEF FifoInv
    <3>4. fifo'[0 + j] = fifo[j + 1] /\ Taken + (j + 1) = j + 1
      BY <1>a, <2>3, <2>5
    <3> QED BY <2>1, <3>1, <3>3, <3>4
  <2>9. HeldInv'
    BY <1>a, <2>1, <2>2, <2>6 DEF HeldInv, Reading
  <2>10. Len(drained') = 0
    BY <2>1, <2>3
  <2> QED BY <2>3, <2>6, <2>7, <2>8, <2>9, <2>10 DEF FifoInv, Place
<1>8. CASE CopyHalf
  <2>1. /\ rpc = "drain" /\ rpc' = "advance" /\ rtmp' = readIndex
        /\ drained' = Append(drained, buffer[readIndex])
        /\ readIndex # writeIndex
        /\ UNCHANGED <<buffer, writeIndex, readIndex, fifo, upc, met>>
    BY <1>8 DEF CopyHalf, GoesOn
  <2>2. /\ drained' \in Seq(Halves) /\ Len(drained') = Len(drained) + 1
        /\ drained'[Len(drained) + 1] = buffer[readIndex]
        /\ \A k \in 1 .. Len(drained) : drained'[k] = drained[k]
    <3>1. buffer[readIndex] \in Halves
      BY <1>a
    <3> QED BY <1>a, <2>1, <3>1, AppendProperties
  <2>3. Taken = Len(drained) /\ Taken' = Taken /\ Held' = Held
    BY <1>a, <2>1, <2>2 DEF Taken, Held
  <2>4. Held > 0
    BY <1>a, <1>b, <1>c, <2>1
  <2>5. HeldInv'
    BY <1>0, <2>1, <2>3, <2>4 DEF HeldInv
  <2>6. buffer[readIndex] = fifo[Taken + 1]
    <3>1. 1 \in 1 .. Held
      BY <1>a, <2>4
    <3>2. Place(readIndex, 1 - 1) = readIndex
      BY <1>a DEF Place, Slots
    <3> QED BY <1>0, <3>1, <3>2 DEF FifoInv
  <2>7. \A k \in 1 .. Len(drained') : drained'[k] = fifo[k]
    <3>1. \A k \in 1 .. Len(drained) : drained[k] = fifo[k]
      BY <1>0 DEF FifoInv
    <3>2. \A k \in 1 .. Len(drained) + 1 : k = Len(drained) + 1 \/ k \in 1 .. Len(drained)
      BY <1>a
    <3> QED BY <2>2, <2>3, <2>6, <3>1, <3>2
  <2> QED BY <1>0, <2>1, <2>3, <2>5, <2>7 DEF FifoInv, Place
<1>9. CASE AdvanceRead
  <2>1. /\ rpc = "advance" /\ rpc' = "drain" /\ rtmp = readIndex /\ Held > 0
        /\ readIndex' = NextSlot(readIndex) /\ Reading
        /\ UNCHANGED <<buffer, writeIndex, fifo, drained, upc, met>>
    BY <1>0, <1>9 DEF AdvanceRead, HeldInv, Reading
  <2>2. Taken' = Taken + 1 /\ Held' = Held - 1
    BY <1>a, <2>1 DEF Taken, Held
  <2>3. writeIndex' = Place(readIndex', Held - 1)
    <3>1. Held - 1 \in 0 .. RingSize - 1 /\ (Held - 1) + 1 = Held
      BY <1>a, <1>b, <2>1
    <3> QED BY <1>a, <1>b, <2>1, <3>1, PlaceShift
  <2>4. ASSUME NEW j \in 1 .. Held - 1
        PROVE  buffer'[Place(readIndex', j - 1)] = fifo'[Taken + 1 + j]
    <3>1. Place(readIndex', j - 1) = Place(readIndex, (j + 1) - 1)
      BY <1>a, <1>b, <2>1, PlaceShift
    <3>2. j + 1 \in 1 .. Held /\ Taken + 1 + j = Taken + (j + 1)
      BY <1>a, <1>b
    <3>3. buffer[Place(readIndex, (j + 1) - 1)] = fifo[Taken + (j + 1)]
      BY <1>0, <3>2 DEF FifoInv
    <3> QED BY <2>1, <3>1, <3>2, <3>3
  <2>5. HeldInv'
    <3>1. ~met => ~Writing
      BY <1>0, <2>1 DEF PlaceInv
    <3>2. upc = "drop" => FALSE
      BY <1>0, <3>1 DEF PlaceInv, Broken, Writing
    <3> QED BY <1>a, <1>b, <2>1, <2>2, <3>1, <3>2 DEF HeldInv, Writing
  <2>6. \A k \in 1 .. Len(drained') : drained'[k] = fifo'[k]
    BY <1>0, <2>1 DEF FifoInv
  <2> QED BY <2>1, <2>2, <2>3, <2>4, <2>5, <2>6 DEF FifoInv, Place
<1>10. CASE ParseData
  <2>1. /\ rpc = "drain" /\ rpc' # "advance" /\ drained' = << >>
        /\ UNCHANGED <<buffer, writeIndex, readIndex, upc, met, rtmp>>
        /\ fifo' = SubSeq(fifo, Len(drained) + 1, Len(fifo))
    BY <1>0, <1>10 DEF ParseData, Remember
  <2>2. Taken = Len(drained) /\ Len(drained') = 0 /\ Taken' = 0
    BY <2>1, NothingType DEF Taken
  <2>3. /\ Len(fifo') = Len(fifo) - Len(drained)
        /\ \A j \in 1 .. Len(fifo) - Len(drained) : fifo'[j] = fifo[Len(drained) + j]
    <3>1. Len(drained) <= Len(fifo)
      BY <1>a, <1>b, <2>2
    <3> QED BY <1>a, <2>1, <3>1, RestOf
  <2>4. Held' = Held /\ Held = Len(fifo) - Len(drained)
    BY <1>a, <2>2, <2>3 DEF Held
  <2>5. HeldInv'
    BY <1>0, <2>1, <2>4 DEF HeldInv
  <2>6. ASSUME NEW j \in 1 .. Held
        PROVE  buffer[Place(readIndex, j - 1)] = fifo'[0 + j]
    <3>1. fifo'[0 + j] = fifo[Taken + j]
      BY <1>a, <2>2, <2>3, <2>4
    <3> QED BY <1>0, <3>1 DEF FifoInv
  <2> QED BY <1>0, <2>1, <2>2, <2>4, <2>5, <2>6 DEF FifoInv, Place
<1> QED BY <1>1, <1>2, <1>3, <1>4, <1>5, <1>6, <1>7, <1>8, <1>9, <1>10,
           Cases, RingAlone

LEMMA RingInit == Init => RingInv
<1> SUFFICES ASSUME Init PROVE RingInv
  OBVIOUS
<1>0. /\ drained = << >> /\ fifo = << >> /\ rpc = "take" /\ upc = "open"
      /\ ~dataAvailSem /\ readIndex = 0 /\ writeIndex = 0
      /\ RingSize \in Nat /\ RingSize >= 2
  BY PipelineAssumption DEF Init
<1>1. Len(drained) = 0 /\ Len(fifo) = 0 /\ Taken = 0 /\ Held = 0
  BY <1>0, NothingType DEF Taken, Held
<1>2. PlaceInv
  BY <1>0 DEF PlaceInv, Reading, Stored
<1>3. HeldInv /\ FifoInv
  BY <1>0, <1>1 DEF HeldInv, FifoInv, Place
<1> QED BY <1>2, <1>3 DEF RingInv

LEMMA RingStep == TypeOK /\ RingInv /\ [Next]_vars => RingInv'
  BY PlaceStep, FifoStep DEF RingInv

(* Types hold in every reachable state: what parseData makes of the bytes  *)
(* is always a sequence of commands without NULs, the indexes of the ring  *)
(* and the length of the queue stay within their sizes whatever the race   *)
(* in writeData does to readIndex, and no thread formats an answer to      *)
(* nothing.                                                                *)
THEOREM TypeCorrect == Spec => []TypeOK
<1> QED BY TypeInit, TypeStep, RingInit, RingStep, PTL DEF Spec

LEMMA RingCorrect == Spec => []RingInv
<1> QED BY RingInit, RingStep, TypeCorrect, PTL DEF Spec

-----------------------------------------------------------------------------
(* The reception.  While the bus has not failed it is up from the          *)
(* configuration on, and from the first completed request on the one read  *)
(* of the device is pending, complete or about to be posted again.         *)
Parked == ~readPending /\ ~readCptSem /\ upc # "read"
InTurn == \/ readPending /\ ~readCptSem /\ upc # "read"
          \/ ~readPending /\ readCptSem /\ upc # "read"
          \/ ~readPending /\ ~readCptSem /\ upc = "read"
ReadInv ==
  unplugs = 0 =>
    /\ trap # "read"
    /\ bus = IF usbStatus = "none" THEN "off" ELSE "on"
    /\ usbStatus = "request_complete" => InTurn
    /\ usbStatus # "request_complete" => Parked

(* Only what the driver and usb_pcdc_task do bears on the reception.       *)
LEMMA ReadKept ==
  ASSUME ReadInv, UNCHANGED <<driver, trap, readCptSem>>,
         upc' = upc \/ (upc # "read" /\ upc' # "read")
  PROVE  ReadInv'
  BY DEF ReadInv, InTurn, Parked, driver

LEMMA ReadStep == TypeOK /\ ReadInv /\ [Next]_vars => ReadInv'
<1> SUFFICES ASSUME TypeOK, ReadInv, [Next]_vars
             PROVE  ReadInv'
  OBVIOUS
<1>0. DriverOK
  BY TypeParts
<1> USE DEF driver, usbThread, ring
<1>1. CASE Configured \/ Request
  BY <1>0, <1>1 DEF Configured, Request, ReadInv, InTurn, Parked, DriverOK
<1>2. CASE RequestComplete
  BY <1>0, <1>2 DEF RequestComplete, ReadInv, InTurn, Parked, DriverOK,
     R_USB_Read, ReadAccepted
<1>3. CASE ReadComplete
  BY <1>0, <1>3 DEF ReadComplete, ReadInv, InTurn, Parked, DriverOK
<1>4. CASE Detach \/ Suspend \/ Resume
  BY <1>0, <1>4 DEF Detach, Suspend, Resume, ReadInv, InTurn, Parked, DriverOK
<1>5. CASE OpenUsb
  BY <1>0, <1>5 DEF OpenUsb, ReadInv, InTurn, Parked, DriverOK
<1>6. CASE TakeRead
  BY <1>0, <1>6 DEF TakeRead, ReadInv, InTurn, Parked, DriverOK
<1>7. CASE PostRead
  BY <1>0, <1>7 DEF PostRead, ReadInv, InTurn, Parked, DriverOK,
     R_USB_Read, ReadAccepted
<1>8. CASE WriteData \/ StoreHalf \/ CheckFull \/ DropOldest \/ GiveData
           \/ CleanBuf
  BY <1>8, ReadKept DEF WriteData, StoreHalf, CheckFull, DropOldest, GiveData,
     CleanBuf, NextHalf
<1>9. CASE TakeData \/ CopyHalf \/ AdvanceRead \/ ParseData \/ QueueCommand
  BY <1>9, ReadKept DEF TakeData, CopyHalf, AdvanceRead, ParseData, QueueCommand
<1>10. CASE \/ SendPacket \/ ReceiveCommand \/ FormatAnswer \/ Transmit \/ Return
            \/ UNCHANGED vars
  BY <1>10, ReadKept DEF SendPacket, ReceiveCommand, FormatAnswer, Transmit,
     Return, vars
<1> QED BY <1>1, <1>2, <1>3, <1>4, <1>5, <1>6, <1>7, <1>8, <1>9, <1>10, Cases

LEMMA ReadCorrect == Spec => []ReadInv
<1>1. Init => ReadInv
  BY DEF Init, ReadInv, Parked
<1> QED BY <1>1, ReadStep, TypeCorrect, PTL DEF Spec

(* As long as the bus does not fail no R_USB_Read is refused, so the       *)
(* reception never runs into USB_PCDC_ERR_TRAP.  (R_USB_Open and the calls *)
(* that answer a class request may still fail and trap.)                   *)
THEOREM NoTrapWithoutUnplug == Spec => []TrapOnlyAfterUnplug
<1>1. TypeOK /\ ReadInv => TrapOnlyAfterUnplug
  <2> SUFFICES ASSUME TypeOK, ReadInv, trap = "read"
               PROVE  unplugs > 0
    BY DEF TrapOnlyAfterUnplug
  <2>1. unplugs \in 0 .. MaxUnplug /\ MaxUnplug \in Nat
    BY PipelineAssumption DEF TypeOK
  <2> QED BY <2>1 DEF ReadInv
<1> QED BY <1>1, ReadCorrect, TypeCorrect, PTL

(* Once it has started, the reception goes round: one read is pending, or  *)
(* one semaphore is to be taken, or one read is to be posted.              *)
THEOREM OneReadAtATime == Spec => []OneReadInTurn
<1>1. ReadInv => OneReadInTurn
  <2> DEFINE held == <<readPending, readCptSem, upc = "read">>
             set == {n \in 1 .. 3 : held[n]}
  <2> SUFFICES ASSUME ReadInv, unplugs = 0
               PROVE  Cardinality(set)
                        = IF usbStatus = "request_complete" THEN 1 ELSE 0
    BY DEF OneReadInTurn
  <2>1. /\ held[1] = readPending /\ held[2] = readCptSem
        /\ held[3] = (upc = "read")
    OBVIOUS
  <2>2. \A n : n \in 1 .. 3 <=> n = 1 \/ n = 2 \/ n = 3
    OBVIOUS
  <2> HIDE DEF held
  <2>3. CASE usbStatus = "request_complete"
    <3>1. set = {1} \/ set = {2} \/ set = {3}
      BY <2>1, <2>2, <2>3 DEF ReadInv, InTurn
    <3> QED BY <2>3, <3>1, FS_Singleton
  <2>4. CASE usbStatus # "request_complete"
    <3>1. set = {}
      BY <2>1, <2>2, <2>4 DEF ReadInv, Parked
    <3> QED BY <2>4, <3>1, FS_EmptySet
  <2> QED BY <2>3, <2>4
<1> QED BY <1>1, ReadCorrect, PTL

-----------------------------------------------------------------------------
(* What is left behind.                                                    *)
LEMMA BehindCounts ==
  ASSUME TypeOK
  PROVE  /\ Behind \in 0 .. RingSize - 1
         /\ Behind = 0 <=> readIndex = writeIndex
  BY RingNumbers DEF Slots, Behind

LEMMA BehindFalls ==
  ASSUME TypeOK, Behind > 0, writeIndex' = writeIndex,
         readIndex' = NextSlot(readIndex)
  PROVE  Behind' = Behind - 1
<1>1. /\ writeIndex \in Slots /\ readIndex \in Slots
      /\ RingSize \in Nat /\ RingSize >= 2
  BY RingNumbers
<1>2. readIndex' = IF readIndex = RingSize - 1 THEN 0 ELSE readIndex + 1
  BY <1>1, NextSlotWraps
<1> QED BY <1>1, <1>2 DEF Behind, Slots

(* The indexes stay, and read_buffer_task where it is.                     *)
LEMMA WakesKept ==
  ASSUME Wakes, UNCHANGED <<writeIndex, readIndex, drained, rtmp>>,
         rpc' = rpc \/ (rpc \in {"take", "send"} /\ rpc' \in {"take", "send"})
  PROVE  Wakes'
  BY DEF Wakes, Taken, Behind, Reading

LEMMA WakesStep ==
  ASSUME TypeOK, RingInv, StrandInv, [Next]_vars,
         (~Writing /\ upc # "give" /\ ~dataAvailSem)'
  PROVE  Wakes'
<1>0. /\ Behind \in 0 .. RingSize - 1
      /\ Behind = 0 <=> readIndex = writeIndex
      /\ RingSize \in Nat /\ RingSize >= 2 /\ Len(drained) \in Nat
      /\ drained \in Seq(Halves) /\ buffer \in [Slots -> Halves]
      /\ readIndex \in Slots
  BY BehindCounts, RingNumbers
<1>a. PlaceInv /\ UsbOK /\ ReaderOK
  BY TypeParts DEF RingInv
<1>b. ~Writing /\ upc # "give" /\ ~dataAvailSem => Wakes
  BY DEF StrandInv
<1> USE DEF driver, usbThread, ring, reader, Writing
<1>1. CASE UNCHANGED ringUsers
  BY <1>1, <1>b, WakesKept DEF ringUsers
<1>2. CASE OpenUsb
  <2>1. /\ rpc' = "take" /\ readIndex' = 0 /\ writeIndex' = 0
    BY <1>2, <1>a DEF OpenUsb, PlaceInv
  <2> QED BY <2>1 DEF Wakes, Reading
<1>3. CASE TakeRead \/ PostRead \/ CleanBuf
  BY <1>3, <1>b, WakesKept DEF TakeRead, PostRead, CleanBuf
<1>4. CASE WriteData \/ StoreHalf \/ CheckFull \/ DropOldest \/ GiveData
  BY <1>4 DEF WriteData, StoreHalf, CheckFull, DropOldest, GiveData, NextHalf
<1>5. CASE TakeData
  <2>1. /\ rpc = "take" /\ rpc' = "drain"
        /\ UNCHANGED <<readIndex, writeIndex, drained>>
    BY <1>5 DEF TakeData
  <2>2. Behind' = Behind
    BY <2>1 DEF Behind
  <2>3. Taken' = 0
    BY <2>1, <1>a, NothingType DEF PlaceInv, Reading, Taken
  <2> QED BY <1>0, <2>1, <2>2, <2>3 DEF Wakes, Reading
<1>6. CASE CopyHalf
  <2>1. /\ rpc = "drain" /\ rpc' = "advance" /\ rtmp' = readIndex
        /\ UNCHANGED <<readIndex, writeIndex, upc, dataAvailSem>>
        /\ drained' = Append(drained, buffer[readIndex])
        /\ readIndex # writeIndex
    BY <1>6 DEF CopyHalf, GoesOn
  <2>2. Behind' = Behind /\ Wakes
    BY <1>b, <2>1 DEF Behind
  <2>3. Len(drained') = Len(drained) + 1
    BY <1>0, <2>1, AppendProperties
  <2>4. Taken' = Taken
    BY <1>0, <2>1, <2>3 DEF Taken
  <2> QED BY <1>0, <2>1, <2>2, <2>4 DEF Wakes, Reading
<1>7. CASE AdvanceRead
  <2>1. /\ rpc = "advance" /\ rpc' = "drain"
        /\ UNCHANGED <<drained, writeIndex, upc, dataAvailSem>>
        /\ readIndex' \in {NextSlot(rtmp), NextSlot(readIndex)}
    BY <1>7 DEF AdvanceRead
  <2>2. Wakes /\ readIndex' = NextSlot(readIndex) /\ Behind > 0
    BY <1>b, <2>1 DEF Wakes
  <2>3. Behind' = Behind - 1
    BY <2>1, <2>2, BehindFalls
  <2>4. Taken' = Taken + 1 /\ Taken \in Int
    BY <1>0, <2>1 DEF Taken
  <2> QED BY <1>0, <2>1, <2>2, <2>3, <2>4 DEF Wakes, Reading
<1>8. CASE ParseData
  <2>1. /\ rpc = "drain" /\ ~GoesOn /\ rpc' \in {"take", "send"}
        /\ UNCHANGED <<readIndex, writeIndex, upc, dataAvailSem>>
    BY <1>8 DEF ParseData
  <2>2. Wakes
    BY <1>b, <2>1
  <2>3. readIndex = writeIndex
    <3>1. Len(drained) + Behind <= RingSize - 1
      BY <2>1, <2>2 DEF Wakes, Taken, Reading
    <3> QED BY <1>0, <2>1, <3>1 DEF GoesOn
  <2> QED BY <2>1, <2>3 DEF Wakes, Reading
<1>9. CASE QueueCommand
  <2>1. /\ rpc = "send" /\ rpc' \in {"take", "send"}
        /\ UNCHANGED <<writeIndex, readIndex, drained, rtmp, upc, dataAvailSem>>
    BY <1>9 DEF QueueCommand
  <2> QED BY <1>b, <2>1, WakesKept
<1> QED BY <1>1, <1>2, <1>3, <1>4, <1>5, <1>6, <1>7, <1>8, <1>9, Cases, RingAlone

LEMMA AnnouncedStep == Announced /\ [Next]_vars => Announced'
<1> SUFFICES ASSUME Announced, [Next]_vars
             PROVE  Announced'
  OBVIOUS
<1> USE DEF Announced, driver, usbThread, ring
<1>1. CASE Configured \/ Request \/ RequestComplete \/ SendPacket \/ Resume
  BY <1>1 DEF Configured, Request, RequestComplete, SendPacket, Resume
<1>2. CASE ReadComplete \/ Detach \/ Suspend \/ CleanBuf
  BY <1>2 DEF ReadComplete, Detach, Suspend, CleanBuf, NoBytes
<1>3. CASE OpenUsb \/ TakeRead \/ PostRead
  BY <1>3 DEF OpenUsb, TakeRead, PostRead
<1>4. CASE WriteData \/ StoreHalf \/ CheckFull \/ DropOldest \/ GiveData
  BY <1>4 DEF WriteData, StoreHalf, CheckFull, DropOldest, GiveData, NextHalf
<1>5. CASE TakeData \/ CopyHalf \/ AdvanceRead \/ ParseData \/ QueueCommand
  BY <1>5 DEF TakeData, CopyHalf, AdvanceRead, ParseData, QueueCommand
<1>6. CASE ReceiveCommand \/ FormatAnswer \/ Transmit \/ Return \/ UNCHANGED vars
  BY <1>6 DEF ReceiveCommand, FormatAnswer, Transmit, Return, vars
<1> QED BY <1>1, <1>2, <1>3, <1>4, <1>5, <1>6, Cases

LEMMA StrandStep == TypeOK /\ RingInv /\ StrandInv /\ [Next]_vars => StrandInv'
  BY AnnouncedStep, WakesStep DEF StrandInv

(* When the three threads wait, nothing received is left in g_usb_buf or   *)
(* in the ring buffer, however the messages and the bus failures fell and  *)
(* wherever the race of ringBuf.c has left the indexes.                    *)
THEOREM NothingIsStranded == Spec => []NothingStranded
<1>1. Init => StrandInv
  BY DEF Init, StrandInv, Announced, Wakes, Reading
<1>2. StrandInv => NothingStranded
  BY DEF StrandInv, Announced, Wakes, Reading, Writing, NothingStranded, ThreadsWait
<1> QED BY <1>1, <1>2, StrandStep, TypeCorrect, RingCorrect, PTL DEF Spec

-----------------------------------------------------------------------------
(* The order of the messages.                                              *)

(* Commands begin and end with numbers of messages.                    *)
LEMMA CommandEnds ==
  \A c \in Command : Head(c) \in Msgs /\ Last(c) \in Msgs /\ Msgs \subseteq Nat
<1> SUFFICES ASSUME NEW c \in Command
             PROVE  Head(c) \in Msgs /\ Last(c) \in Msgs /\ Msgs \subseteq Nat
  OBVIOUS
<1>1. c \in Seq(Msgs) /\ c # << >>
  BY DEF Command
<1>2. Len(c) \in 1 .. Len(c)
  BY <1>1
<1>3. Last(c) \in Msgs
  BY <1>1, <1>2, ElementOfSeq DEF Last
<1>4. Msgs \subseteq Nat
  <2>1. \A k \in 1 .. MaxMsg : k \in Nat
    BY PipelineAssumption
  <2> QED BY <2>1 DEF Msgs
<1> QED BY <1>1, <1>3, <1>4, HeadTailProperties

LEMMA LineEnds ==
  ASSUME NEW line \in Seq(Command)
  PROVE  /\ Len(line) \in Nat
         /\ \A a \in 1 .. Len(line) : /\ Head(line[a]) \in Nat
                                      /\ Last(line[a]) \in Nat
  BY CommandEnds, ElementOfSeq

LEMMA EndedLater ==
  ASSUME NEW line \in Seq(Command), NEW x \in Nat, NEW y \in Nat, x <= y,
         EndedBefore(line, x)
  PROVE  EndedBefore(line, y)
  BY LineEnds DEF EndedBefore

(* A command that is dropped leaves the others in order.                   *)
LEMMA DroppedInOrder ==
  ASSUME NEW s \in Seq(Command), NEW t \in Seq(Command), t # << >>
  PROVE  /\ InOrder(s \o t) => InOrder(s \o Tail(t))
         /\ \A x : EndedBefore(s \o t, x) => EndedBefore(s \o Tail(t), x)
<1> DEFINE new == s \o Tail(t)
           old == s \o t
           was(i) == IF i <= Len(s) THEN i ELSE i + 1
<1>1. Len(new) = Len(old) - 1 /\ \A i \in 1 .. Len(new) : new[i] = old[was(i)]
  BY DropHead
<1>2. Len(old) \in Nat /\ Len(s) \in Nat
  BY ConcatProperties
<1>3. \A i \in 1 .. Len(new) : was(i) \in 1 .. Len(old)
  BY <1>1, <1>2
<1>4. \A i, j \in 1 .. Len(new) : i < j => was(i) < was(j)
  BY <1>1, <1>2
<1> HIDE DEF new, old, was
<1>5. InOrder(old) => InOrder(new)
  BY <1>1, <1>3, <1>4 DEF InOrder
<1>6. \A x : EndedBefore(old, x) => EndedBefore(new, x)
  BY <1>1, <1>3 DEF EndedBefore
<1> QED BY <1>5, <1>6 DEF new, old

(* Two lines in order, one after the other.                                *)
LEMMA JoinedInOrder ==
  ASSUME NEW s \in Seq(Command), NEW t \in Seq(Command)
  PROVE  /\ /\ InOrder(s) /\ InOrder(t)
            /\ \A b \in 1 .. Len(t) : EndedBefore(s, Head(t[b]))
            => InOrder(s \o t)
         /\ \A x : EndedBefore(s, x) /\ EndedBefore(t, x)
                     => EndedBefore(s \o t, x)
<1> DEFINE new == s \o t
<1>1. /\ Len(new) = Len(s) + Len(t)
      /\ \A i \in 1 .. Len(new) :
           new[i] = IF i <= Len(s) THEN s[i] ELSE t[i - Len(s)]
  BY ConcatProperties
<1>2. Len(s) \in Nat /\ Len(t) \in Nat
  OBVIOUS
<1> HIDE DEF new
<1>3. \A i \in 1 .. Len(new) :
        \/ i \in 1 .. Len(s) /\ new[i] = s[i]
        \/ ~(i <= Len(s)) /\ i - Len(s) \in 1 .. Len(t) /\ new[i] = t[i - Len(s)]
  BY <1>1, <1>2
<1>4. ASSUME InOrder(s), InOrder(t),
             \A b \in 1 .. Len(t) : EndedBefore(s, Head(t[b])),
             NEW i \in 1 .. Len(new), NEW j \in 1 .. Len(new), i < j
      PROVE  Last(new[i]) < Head(new[j])
  <2>1. CASE j \in 1 .. Len(s)
    <3>1. i \in 1 .. Len(s)
      BY <1>2, <1>4, <2>1
    <3>2. new[i] = s[i] /\ new[j] = s[j]
      BY <1>1, <2>1, <3>1
    <3> QED BY <3>1, <3>2, <2>1, <1>4 DEF InOrder
  <2>2. CASE i \in 1 .. Len(s) /\ ~(j <= Len(s))
    <3>1. /\ j - Len(s) \in 1 .. Len(t) /\ new[j] = t[j - Len(s)]
          /\ new[i] = s[i]
      BY <1>1, <1>3, <2>2
    <3> QED BY <3>1, <2>2, <1>4 DEF EndedBefore
  <2>3. CASE ~(i <= Len(s)) /\ ~(j <= Len(s))
    <3>1. /\ i - Len(s) \in 1 .. Len(t) /\ new[i] = t[i - Len(s)]
          /\ j - Len(s) \in 1 .. Len(t) /\ new[j] = t[j - Len(s)]
      BY <1>3, <2>3
    <3>2. i - Len(s) < j - Len(s)
      BY <1>2, <1>4
    <3> QED BY <3>1, <3>2, <1>4 DEF InOrder
  <2> QED BY <2>1, <2>2, <2>3, <1>2, <1>4
<1>5. ASSUME NEW x, EndedBefore(s, x), EndedBefore(t, x)
      PROVE  EndedBefore(new, x)
  BY <1>3, <1>5 DEF EndedBefore
<1>6. /\ InOrder(s) /\ InOrder(t)
      /\ \A b \in 1 .. Len(t) : EndedBefore(s, Head(t[b]))
      => InOrder(new)
  BY <1>4 DEF InOrder
<1> QED BY <1>5, <1>6 DEF new

(* The commands of a ring in order: each begins and ends with a half of    *)
(* the ring, its end a second half, and they are in order.                 *)
LEMMA ParsedInOrder ==
  ASSUME NEW r \in Seq(Halves), RingInOrder(r)
  PROVE  /\ Commands(Text(r)) \in Seq(Command)
         /\ InOrder(Commands(Text(r)))
         /\ \A c \in 1 .. Len(Commands(Text(r))) :
              /\ \E n \in 1 .. Len(r) : r[n].id # 0
                                        /\ Head(Commands(Text(r))[c]) = r[n].id
              /\ \E n \in 1 .. Len(r) : /\ r[n].id # 0 /\ r[n].half = 2
                                        /\ Last(Commands(Text(r))[c]) = r[n].id
<1> DEFINE s == Text(r)
           t == Commands(s)
<1>1. /\ s \in Seq(Halves) /\ Len(s) <= Len(r)
      /\ \A n \in 1 .. Len(s) : s[n] = r[n] /\ r[n].id # 0
  BY TextFacts
<1>2. Len(s) \in Nat /\ Len(r) \in Nat
  BY <1>1
<1> HIDE DEF s
<1>3. /\ t \in Seq(Command)
      /\ \A c \in 1 .. Len(t) :
           /\ StartOf(s, c) \in 1 .. Len(s) /\ EndOf(s, c) \in 1 .. Len(s)
           /\ s[EndOf(s, c)].half = 2
           /\ Head(t[c]) = s[StartOf(s, c)].id
           /\ Last(t[c]) = s[EndOf(s, c)].id
      /\ \A a, b \in 1 .. Len(t) : a < b => EndOf(s, a) < StartOf(s, b)
  <2>1. \A n \in 1 .. Len(s) : s[n].id # 0
    BY <1>1
  <2> QED BY <1>1, <2>1, CommandFacts
<1> HIDE DEF t
<1>4. \A n \in 1 .. Len(s) : n \in 1 .. Len(r)
  BY <1>1, <1>2
<1>5. ASSUME NEW a \in 1 .. Len(t), NEW b \in 1 .. Len(t), a < b
      PROVE  Last(t[a]) < Head(t[b])
  <2> DEFINE n == EndOf(s, a)
             q == StartOf(s, b)
  <2>1. n \in 1 .. Len(r) /\ q \in 1 .. Len(r) /\ n < q
    BY <1>3, <1>4, <1>5
  <2>2. /\ r[n].id # 0 /\ r[q].id # 0 /\ r[n].half = 2
        /\ Last(t[a]) = r[n].id /\ Head(t[b]) = r[q].id
    BY <1>1, <1>3
  <2> HIDE DEF n, q
  <2> QED BY <2>1, <2>2 DEF RingInOrder
<1>6. ASSUME NEW c \in 1 .. Len(t)
      PROVE  /\ \E n \in 1 .. Len(r) : r[n].id # 0 /\ Head(t[c]) = r[n].id
             /\ \E n \in 1 .. Len(r) : /\ r[n].id # 0 /\ r[n].half = 2
                                       /\ Last(t[c]) = r[n].id
  BY <1>1, <1>3, <1>4
<1>7. InOrder(t)
  BY <1>5 DEF InOrder
<1> QED BY <1>3, <1>6, <1>7 DEF t, s

LEMMA LineType ==
  ASSUME TypeOK
  PROVE  /\ processed \in Seq(Command) /\ cmdQueue \in Seq(Command)
         /\ parsed \in Seq(Command)
         /\ processed \o cmdQueue \in Seq(Command) /\ Line \in Seq(Command)
<1>1. /\ processed \in Seq(Command) /\ cmdQueue \in Seq(Command)
      /\ parsed \in Seq(Command)
  BY DEF TypeOK
<1>2. processed \o cmdQueue \in Seq(Command)
  BY <1>1, ConcatProperties
<1> QED BY <1>1, <1>2, ConcatProperties DEF Line

LEMMA IdsType ==
  ASSUME TypeOK
  PROVE  /\ fifo \in Seq(Halves) /\ Len(fifo) \in Nat
         /\ \A n \in 1 .. Len(fifo) : fifo[n].id \in Nat /\ fifo[n].half \in {1, 2}
         /\ sent \in Nat /\ usbBuf[1] \in Nat /\ usbBuf[2] \in Nat
<1>1. Ids \subseteq Nat
  <2>1. \A k \in 0 .. MaxMsg : k \in Nat
    BY PipelineAssumption
  <2> QED BY <2>1 DEF Ids
<1>2. fifo \in Seq(Halves) /\ Len(fifo) \in Nat
  BY RingNumbers
<1>3. \A n \in 1 .. Len(fifo) : fifo[n] \in Halves
  BY <1>2, ElementOfSeq
<1>4. \A n \in 1 .. Len(fifo) : fifo[n].id \in Nat /\ fifo[n].half \in {1, 2}
  BY <1>1, <1>3 DEF Halves
<1>5. sent \in Nat /\ usbBuf[1] \in Nat /\ usbBuf[2] \in Nat
  BY <1>1 DEF TypeOK
<1> QED BY <1>2, <1>4, <1>5

(* The line and the FIFO stay, and usb_pcdc_task goes on without copying.  *)
LEMMA OrderKept ==
  ASSUME LineInv, Line' = Line, UNCHANGED <<fifo, usbBuf, sent>>,
         Done' \/ (~Done /\ (HalfDone => HalfDone'))
  PROVE  LineInv'
<1>1. FreshBytes'
  BY DEF LineInv, FifoOrder, FreshBytes, EndedBefore
<1> QED BY <1>1 DEF LineInv, FifoOrder, InOrder, EndedBefore, RingInOrder

(* The line and the FIFO stay, and g_usb_buf is cleared.                   *)
LEMMA OrderCleared ==
  ASSUME LineInv, Line' = Line, UNCHANGED <<fifo, sent>>, usbBuf' = NoBytes
  PROVE  LineInv'
<1>1. FreshBytes'
  BY DEF FreshBytes, NoBytes
<1> QED BY <1>1 DEF LineInv, FifoOrder, InOrder, EndedBefore, RingInOrder

(* What a FIFO holds without its first d halves is in the same order.      *)
LEMMA ShorterInOrder ==
  ASSUME NEW r \in Seq(Halves), NEW s \in Seq(Halves), NEW d \in Nat,
         Len(s) = Len(r) - d, \A k \in 1 .. Len(s) : s[k] = r[d + k],
         RingInOrder(r)
  PROVE  RingInOrder(s) /\ \A k \in 1 .. Len(s) : d + k \in 1 .. Len(r)
<1>1. Len(r) \in Nat /\ Len(s) \in Nat
  OBVIOUS
<1>2. \A k \in 1 .. Len(s) : d + k \in 1 .. Len(r)
  BY <1>1
<1>3. \A m, n \in 1 .. Len(s) : m < n => d + m < d + n
  BY <1>1
<1>4. RingInOrder(s)
  BY <1>2, <1>3 DEF RingInOrder
<1> QED BY <1>2, <1>4

(* The oldest half is dropped, and usb_pcdc_task goes on.                  *)
LEMMA OrderDropped ==
  ASSUME TypeOK, LineInv, Line' = Line, UNCHANGED <<usbBuf, sent>>,
         fifo # << >>, fifo' = Tail(fifo),
         Done' \/ (~Done /\ (HalfDone => HalfDone'))
  PROVE  LineInv'
<1>1. /\ fifo' \in Seq(Halves) /\ Len(fifo') = Len(fifo) - 1
      /\ \A k \in 1 .. Len(fifo') : fifo'[k] = fifo[1 + k]
  <2>1. fifo \in Seq(Halves) /\ Len(fifo) \in Nat
    BY IdsType
  <2>2. /\ Tail(fifo) \in Seq(Halves) /\ Len(Tail(fifo)) = Len(fifo) - 1
        /\ \A k \in 1 .. Len(Tail(fifo)) : Tail(fifo)[k] = fifo[k + 1]
    BY <2>1, HeadTailProperties
  <2>3. \A k \in 1 .. Len(Tail(fifo)) : k + 1 = 1 + k
    BY <2>1, <2>2
  <2> QED BY <2>2, <2>3
<1>2. RingInOrder(fifo') /\ \A k \in 1 .. Len(fifo') : 1 + k \in 1 .. Len(fifo)
  BY <1>1, IdsType, ShorterInOrder DEF LineInv, FifoOrder
<1>3. FreshBytes'
  BY <1>1, <1>2 DEF LineInv, FifoOrder, FreshBytes, EndedBefore
<1>4. \A n \in 1 .. Len(fifo') :
        /\ fifo'[n].id <= sent
        /\ fifo'[n].id # 0 => EndedBefore(Line, fifo'[n].id)
  BY <1>1, <1>2 DEF LineInv, FifoOrder
<1> QED BY <1>2, <1>3, <1>4 DEF LineInv, FifoOrder, InOrder, EndedBefore, RingInOrder

(* The line and g_usb_buf stay, and a half of the message in g_usb_buf is  *)
(* written to the FIFO: the first before the second one.                   *)
LEMMA OrderWritten ==
  ASSUME TypeOK, LineInv, usbBuf[1] = usbBuf[2], usbBuf[1] <= sent,
         Line' = Line, UNCHANGED <<usbBuf, sent>>,
         NEW part \in {1, 2}, fifo' = Append(fifo, Half(usbBuf[part], part)),
         upc = "store", upc' = "check", left = 3 - part, left' = left - 1
  PROVE  LineInv'
<1> DEFINE u == usbBuf[1]
           h == Half(usbBuf[part], part)
           N == Len(fifo')
<1>0. u = usbBuf[2] /\ u <= sent /\ u \in Nat /\ sent \in Nat
  BY IdsType
<1>1. h.id = u /\ h.half = part /\ h \in Halves
  BY <1>0, BytesType, TypeParts DEF Half
<1>2. /\ N = Len(fifo) + 1 /\ fifo'[N] = h /\ fifo' \in Seq(Halves)
      /\ \A n \in 1 .. Len(fifo) : fifo'[n] = fifo[n]
  BY <1>1, IdsType, AppendProperties
<1>3. /\ Len(fifo) \in Nat /\ N \in Nat
      /\ \A n \in 1 .. N : n = N \/ n \in 1 .. Len(fifo)
  BY <1>2, IdsType
<1>a. /\ ~Done /\ (HalfDone <=> part = 2)
      /\ part = 1 => ~Done' /\ HalfDone'
      /\ part = 2 => Done'
  BY DEF Done, HalfDone, Stored
<1> HIDE DEF N, h, u
<1>4. u # 0 =>
        /\ EndedBefore(Line, u)
        /\ \A n \in 1 .. Len(fifo) :
             /\ fifo[n].id <= u
             /\ part = 1 \/ fifo[n].half = 2 => fifo[n].id < u
  BY <1>0, <1>a DEF LineInv, FifoOrder, FreshBytes, u
<1>5. RingInOrder(fifo)'
  <2> SUFFICES ASSUME NEW m \in 1 .. N, NEW n \in 1 .. N, m < n,
                      fifo'[m].id # 0, fifo'[n].id # 0
               PROVE  /\ fifo'[m].id <= fifo'[n].id
                      /\ fifo'[m].half = 2 => fifo'[m].id < fifo'[n].id
    BY DEF RingInOrder, N
  <2>1. m \in 1 .. Len(fifo) /\ fifo'[m] = fifo[m]
    BY <1>2, <1>3
  <2>2. CASE n = N
    BY <2>1, <2>2, <1>1, <1>2, <1>4
  <2>3. CASE n # N
    <3>1. n \in 1 .. Len(fifo) /\ fifo'[n] = fifo[n]
      BY <2>3, <1>2, <1>3
    <3> QED BY <2>1, <3>1 DEF LineInv, FifoOrder, RingInOrder
  <2> QED BY <2>2, <2>3
<1>6. ASSUME NEW n \in 1 .. N
      PROVE  /\ fifo'[n].id <= sent
             /\ fifo'[n].id # 0 => EndedBefore(Line, fifo'[n].id)
  <2>1. CASE n = N
    BY <2>1, <1>0, <1>1, <1>2, <1>4
  <2>2. CASE n # N
    <3>1. n \in 1 .. Len(fifo) /\ fifo'[n] = fifo[n]
      BY <2>2, <1>2, <1>3
    <3> QED BY <3>1 DEF LineInv, FifoOrder
  <2> QED BY <2>1, <2>2
<1>7. FreshBytes'
  <2> SUFFICES ASSUME u # 0, part = 1
               PROVE  /\ EndedBefore(Line, u)
                      /\ \A n \in 1 .. N :
                           /\ fifo'[n].id <= u
                           /\ fifo'[n].half = 2 => fifo'[n].id < u
    BY <1>a DEF FreshBytes, EndedBefore, u, N
  <2>1. ASSUME NEW n \in 1 .. N
        PROVE  /\ fifo'[n].id <= u
               /\ fifo'[n].half = 2 => fifo'[n].id < u
    <3>1. CASE n = N
      BY <3>1, <1>0, <1>1, <1>2
    <3>2. CASE n # N
      <4>1. n \in 1 .. Len(fifo) /\ fifo'[n] = fifo[n]
        BY <3>2, <1>2, <1>3
      <4> QED BY <4>1, <1>4
    <3> QED BY <3>1, <3>2
  <2> QED BY <2>1, <1>4
<1> QED BY <1>5, <1>6, <1>7 DEF LineInv, FifoOrder, InOrder, EndedBefore, N

(* A packet arrives: its number is newer than everything before it.        *)
LEMMA OrderReceived ==
  ASSUME TypeOK, LineInv, Line' = Line, UNCHANGED <<fifo, upc, left>>,
         sent' = sent + 1, usbBuf' = <<sent + 1, sent + 1>>
  PROVE  LineInv'
<1>1. sent \in Nat /\ sent' + 1 = sent + 2 /\ usbBuf'[1] = sent + 1
  BY IdsType
<1>2. EndedBefore(Line, sent + 2)
  <2>1. sent + 1 \in Nat /\ sent + 2 \in Nat /\ sent + 1 <= sent + 2
    BY <1>1
  <2> QED BY <2>1, LineType, EndedLater DEF LineInv
<1>3. ASSUME NEW n \in 1 .. Len(fifo)
      PROVE  fifo[n].id <= sent + 1 /\ fifo[n].id < sent + 1
  <2>1. fifo[n].id \in Nat /\ fifo[n].id <= sent
    BY IdsType DEF LineInv, FifoOrder
  <2> QED BY <2>1, <1>1
<1>4. FreshBytes'
  BY <1>1, <1>3 DEF LineInv, FreshBytes, EndedBefore
<1>5. \A n \in 1 .. Len(fifo') :
        /\ fifo'[n].id <= sent'
        /\ fifo'[n].id # 0 => EndedBefore(Line, fifo'[n].id)
  BY <1>3 DEF LineInv, FifoOrder
<1>6. InOrder(Line) /\ RingInOrder(fifo)
  BY DEF LineInv, FifoOrder
<1> QED BY <1>1, <1>2, <1>4, <1>5, <1>6
        DEF LineInv, FifoOrder, InOrder, EndedBefore, RingInOrder

(* parseData: what was drained leaves the FIFO, its commands join the line. *)
LEMMA OrderParsed ==
  ASSUME TypeOK, LineInv, FifoInv, Len(drained) <= Len(fifo), parsed = << >>,
         parsed' = Commands(Text(drained)),
         fifo' = SubSeq(fifo, Len(drained) + 1, Len(fifo)),
         UNCHANGED <<processed, cmdQueue, usbBuf, sent, upc, left>>
  PROVE  LineInv'
<1> DEFINE t == Commands(Text(drained))
           old == processed \o cmdQueue
           D == Len(drained)
<1>1. Line = old /\ Line' = old \o t /\ old \in Seq(Command)
  BY LineType, ConcatEmptySeq DEF Line
<1>2. /\ drained \in Seq(Halves) /\ D \in Nat /\ Len(fifo) \in Nat
      /\ fifo \in Seq(Halves)
      /\ \A k \in 1 .. D : k \in 1 .. Len(fifo) /\ drained[k] = fifo[k]
  <2>1. drained \in Seq(Halves) /\ D \in Nat /\ Len(fifo) \in Nat
        /\ fifo \in Seq(Halves)
    BY RingNumbers
  <2>2. \A k \in 1 .. D : k \in 1 .. Len(fifo)
    BY <2>1
  <2> QED BY <2>1, <2>2 DEF FifoInv
<1>3. /\ fifo' \in Seq(Halves) /\ Len(fifo') = Len(fifo) - D
      /\ \A k \in 1 .. Len(fifo') : fifo'[k] = fifo[D + k]
  BY <1>2, RestOf
<1>4. RingInOrder(fifo') /\ \A k \in 1 .. Len(fifo') : D + k \in 1 .. Len(fifo)
  <2>1. RingInOrder(fifo)
    BY DEF LineInv, FifoOrder
  <2> HIDE DEF D
  <2>2. \A s \in Seq(Halves) :
          Len(s) = Len(fifo) - D /\ (\A k \in 1 .. Len(s) : s[k] = fifo[D + k])
            => RingInOrder(s) /\ \A k \in 1 .. Len(s) : D + k \in 1 .. Len(fifo)
    BY <1>2, <2>1, ShorterInOrder
  <2> QED BY <1>3, <2>2
<1>5. RingInOrder(drained)
  BY <1>2 DEF LineInv, FifoOrder, RingInOrder
<1>6. /\ t \in Seq(Command) /\ InOrder(t)
      /\ \A c \in 1 .. Len(t) :
           /\ \E n \in 1 .. D : fifo[n].id # 0 /\ Head(t[c]) = fifo[n].id
           /\ \E n \in 1 .. D : /\ fifo[n].id # 0 /\ fifo[n].half = 2
                               /\ Last(t[c]) = fifo[n].id
  <2>1. /\ t \in Seq(Command) /\ InOrder(t)
        /\ \A c \in 1 .. Len(t) :
             /\ \E n \in 1 .. D : drained[n].id # 0 /\ Head(t[c]) = drained[n].id
             /\ \E n \in 1 .. D : /\ drained[n].id # 0 /\ drained[n].half = 2
                                 /\ Last(t[c]) = drained[n].id
    BY <1>2, <1>5, ParsedInOrder
  <2>2. \A n \in 1 .. D : drained[n] = fifo[n]
    BY <1>2
  <2> HIDE DEF t, D
  <2> QED BY <2>1, <2>2, Zenon
<1> HIDE DEF t, old
<1>7. InOrder(old \o t)
  <2>1. InOrder(old) /\ \A b \in 1 .. Len(t) : EndedBefore(old, Head(t[b]))
    BY <1>1, <1>2, <1>6 DEF LineInv, FifoOrder
  <2> QED BY <1>1, <1>6, <2>1, JoinedInOrder
<1>8. EndedBefore(old \o t, sent + 1)
  <2>1. EndedBefore(old, sent + 1)
    BY <1>1 DEF LineInv
  <2>2. \A n \in 1 .. D : fifo[n].id < sent + 1
    BY <1>2, IdsType DEF LineInv, FifoOrder
  <2>3. EndedBefore(t, sent + 1)
    BY <1>6, <2>2 DEF EndedBefore
  <2> QED BY <1>1, <1>6, <2>1, <2>3, JoinedInOrder
<1>9. ASSUME usbBuf[1] # 0, ~Done
      PROVE  /\ EndedBefore(old \o t, usbBuf[1])
             /\ \A n \in 1 .. Len(fifo') :
                  /\ fifo'[n].id <= usbBuf[1]
                  /\ ~HalfDone \/ fifo'[n].half = 2 => fifo'[n].id < usbBuf[1]
  <2>1. EndedBefore(old, usbBuf[1])
    BY <1>1, <1>9 DEF LineInv, FifoOrder, FreshBytes
  <2>2. EndedBefore(t, usbBuf[1])
    BY <1>2, <1>6, <1>9 DEF LineInv, FifoOrder, FreshBytes, EndedBefore
  <2>3. \A n \in 1 .. Len(fifo') :
          /\ fifo'[n].id <= usbBuf[1]
          /\ ~HalfDone \/ fifo'[n].half = 2 => fifo'[n].id < usbBuf[1]
    BY <1>3, <1>4, <1>9 DEF LineInv, FifoOrder, FreshBytes
  <2> QED BY <1>1, <1>6, <2>1, <2>2, <2>3, JoinedInOrder
<1>10. FreshBytes'
  <2>1. Done' = Done /\ HalfDone' = HalfDone
    BY DEF Done, HalfDone, Stored
  <2> QED BY <1>1, <1>9, <2>1 DEF FreshBytes, EndedBefore
<1>11. ASSUME NEW n \in 1 .. Len(fifo')
       PROVE  /\ fifo'[n].id <= sent
              /\ fifo'[n].id # 0 => EndedBefore(old \o t, fifo'[n].id)
  <2>1. fifo'[n] = fifo[D + n] /\ D + n \in 1 .. Len(fifo)
    BY <1>3, <1>4
  <2>2. fifo'[n].id <= sent
    BY <2>1 DEF LineInv, FifoOrder
  <2>3. ASSUME fifo'[n].id # 0
        PROVE  EndedBefore(old \o t, fifo'[n].id)
    <3>1. EndedBefore(old, fifo'[n].id)
      BY <1>1, <2>1, <2>3 DEF LineInv, FifoOrder
    <3>2. \A m \in 1 .. D : m < D + n
      BY <1>2
    <3>3. \A m \in 1 .. D : fifo[m].id # 0 /\ fifo[m].half = 2
                            => fifo[m].id < fifo'[n].id
      BY <1>2, <2>1, <2>3, <3>2 DEF LineInv, FifoOrder, RingInOrder
    <3>4. EndedBefore(t, fifo'[n].id)
      BY <1>6, <3>3 DEF EndedBefore
    <3> QED BY <1>1, <1>6, <3>1, <3>4, JoinedInOrder
  <2> QED BY <2>2, <2>3
<1>12. UNCHANGED sent
  OBVIOUS
<1> QED BY <1>1, <1>4, <1>7, <1>8, <1>10, <1>11, <1>12
        DEF LineInv, FifoOrder, InOrder, EndedBefore, RingInOrder

(* A command that finds the queue full leaves the line.                    *)
LEMMA OrderQueued ==
  ASSUME TypeOK, LineInv, parsed # << >>, parsed' = Tail(parsed),
         cmdQueue' \in {cmdQueue, Append(cmdQueue, Head(parsed))},
         UNCHANGED <<processed, fifo, usbBuf, sent, upc, left>>
  PROVE  LineInv'
<1>0. Done' = Done /\ HalfDone' = HalfDone
  BY DEF Done, HalfDone, Stored
<1>1. Head(parsed) \in Command /\ Tail(parsed) \in Seq(Command)
  BY LineType, HeadTailProperties
<1>2. CASE cmdQueue' = Append(cmdQueue, Head(parsed))
  <2>1. processed \o Append(cmdQueue, Head(parsed))
          = Append(processed \o cmdQueue, Head(parsed))
    <3>1. <<Head(parsed)>> \in Seq(Command)
      BY <1>1
    <3>2. Append(cmdQueue, Head(parsed)) = cmdQueue \o <<Head(parsed)>>
      BY <1>1, LineType, AppendIsConcat
    <3>3. Append(processed \o cmdQueue, Head(parsed))
            = (processed \o cmdQueue) \o <<Head(parsed)>>
      BY <1>1, LineType, AppendIsConcat
    <3>4. processed \o (cmdQueue \o <<Head(parsed)>>)
            = (processed \o cmdQueue) \o <<Head(parsed)>>
      BY <3>1, LineType, ConcatAssociative
    <3> QED BY <3>2, <3>3, <3>4, Zenon
  <2>2. Append(processed \o cmdQueue, Head(parsed)) \o Tail(parsed) = Line
    BY LineType, AppendHead DEF Line
  <2>3. Line' = Line
    BY <1>2, <2>1, <2>2 DEF Line
  <2> QED BY <1>0, <2>3, OrderKept
<1>3. CASE cmdQueue' = cmdQueue
  <2>1. Line' = (processed \o cmdQueue) \o Tail(parsed)
    BY <1>3 DEF Line
  <2>2. /\ InOrder(Line) => InOrder(Line')
        /\ \A x : EndedBefore(Line, x) => EndedBefore(Line', x)
    BY <2>1, LineType, DroppedInOrder DEF Line
  <2>3. FreshBytes'
    BY <1>0, <2>2 DEF LineInv, FifoOrder, FreshBytes, EndedBefore
  <2> QED BY <2>2, <2>3
          DEF LineInv, FifoOrder, InOrder, EndedBefore, RingInOrder
<1> QED BY <1>2, <1>3

LEMMA LineStep ==
  TypeOK /\ RingInv /\ OrderInv /\ [Next]_vars /\ ~Broken' => LineInv'
<1> SUFFICES ASSUME TypeOK, RingInv, OrderInv, [Next]_vars, ~Broken'
             PROVE  LineInv'
  OBVIOUS
<1>0. ~Broken /\ LineInv /\ FifoInv /\ UsbOK /\ ReaderOK
  BY BrokenStays, TypeParts DEF OrderInv, RingInv
<1>a. \/ UNCHANGED <<upc, left>> => Done' \/ (~Done /\ (HalfDone => HalfDone'))
  BY DEF Done, HalfDone, Stored
<1> USE DEF driver, usbThread, ring, reader, process
<1>1. CASE \/ Configured \/ Request \/ RequestComplete \/ SendPacket \/ Resume
           \/ TakeData \/ CopyHalf \/ AdvanceRead
           \/ FormatAnswer \/ Transmit \/ Return \/ UNCHANGED vars
  <2>1. UNCHANGED <<upc, left, fifo, usbBuf, sent, processed, cmdQueue, parsed>>
    BY <1>1 DEF Configured, Request, RequestComplete, SendPacket, Resume,
       TakeData, CopyHalf, AdvanceRead, FormatAnswer, Transmit, Return, vars
  <2> QED BY <1>0, <1>a, <2>1, OrderKept DEF Line
<1>2. CASE ReadComplete
  <2>1. /\ sent' = sent + 1 /\ usbBuf' = <<sent + 1, sent + 1>>
        /\ UNCHANGED <<fifo, upc, left>> /\ Line' = Line
    BY <1>2 DEF ReadComplete, Line
  <2> QED BY <1>0, <2>1, OrderReceived
<1>3. CASE Detach \/ Suspend \/ CleanBuf
  <2>1. Line' = Line /\ UNCHANGED <<fifo, sent>> /\ usbBuf' = NoBytes
    BY <1>3 DEF Detach, Suspend, CleanBuf, Line
  <2> QED BY <1>0, <2>1, OrderCleared
<1>4. CASE \/ OpenUsb \/ TakeRead \/ PostRead \/ WriteData \/ CheckFull
           \/ GiveData
  <2>1. Line' = Line /\ UNCHANGED <<fifo, usbBuf, sent>>
    BY <1>4 DEF OpenUsb, TakeRead, PostRead, WriteData, CheckFull, GiveData, Line
  <2>2. Done' \/ (~Done /\ (HalfDone => HalfDone'))
    <3>1. left \in 0 .. 2 /\ (Stored => left < 2)
      BY <1>0 DEF UsbOK, RingInv, PlaceInv
    <3> QED BY <1>4, <3>1 DEF OpenUsb, TakeRead, PostRead, WriteData, CheckFull,
            GiveData, NextHalf, Done, HalfDone, Stored
  <2> QED BY <1>0, <2>1, <2>2, OrderKept
<1>5. CASE StoreHalf
  <2>1. /\ upc = "store" /\ upc' = "check" /\ left' = left - 1
        /\ fifo' = Append(fifo, Half(usbBuf[3 - left], 3 - left))
        /\ Line' = Line /\ UNCHANGED <<usbBuf, sent>>
    BY <1>0, <1>5 DEF StoreHalf, Remember, Line
  <2>2. PICK part \in {1, 2} : part = 3 - left /\ left = 3 - part
    BY <1>0, <2>1 DEF UsbOK
  <2>3. usbBuf[1] = usbBuf[2] /\ usbBuf[1] <= sent
    BY DEF OrderInv
  <2> QED BY <1>0, <2>1, <2>2, <2>3, OrderWritten
<1>6. CASE DropOldest
  <2>1. fifo' = Tail(fifo) /\ Line' = Line /\ UNCHANGED <<usbBuf, sent>>
    BY <1>0, <1>6 DEF DropOldest, Remember, Line
  <2>2. fifo # << >>
    BY <1>0, <1>6, FifoHolds DEF DropOldest
  <2>3. Done' \/ (~Done /\ (HalfDone => HalfDone'))
    <3>1. left \in 0 .. 2 /\ (Stored => left < 2)
      BY <1>0 DEF UsbOK, RingInv, PlaceInv
    <3> QED BY <1>6, <3>1 DEF DropOldest, NextHalf, Done, HalfDone, Stored
  <2> QED BY <1>0, <2>1, <2>2, <2>3, OrderDropped
<1>7. CASE ParseData
  <2>1. /\ rpc = "drain" /\ parsed' = Commands(Text(drained))
        /\ fifo' = SubSeq(fifo, Len(drained) + 1, Len(fifo))
        /\ UNCHANGED <<processed, cmdQueue, usbBuf, sent, upc, left>>
    BY <1>0, <1>7 DEF ParseData, Remember
  <2>2. parsed = << >> /\ Len(drained) <= Len(fifo)
    BY <1>0, <2>1, FifoHolds DEF ReaderOK
  <2> QED BY <1>0, <2>1, <2>2, OrderParsed
<1>8. CASE QueueCommand
  <2>1. /\ parsed # << >> /\ parsed' = Tail(parsed)
        /\ cmdQueue' \in {cmdQueue, Append(cmdQueue, Head(parsed))}
        /\ UNCHANGED <<processed, fifo, usbBuf, sent, upc, left>>
    BY <1>0, <1>8 DEF QueueCommand, ReaderOK
  <2> QED BY <1>0, <2>1, OrderQueued
<1>9. CASE ReceiveCommand
  <2>1. /\ cmdQueue # << >> /\ cmdQueue' = Tail(cmdQueue)
        /\ processed' = Append(processed, Head(cmdQueue))
        /\ UNCHANGED <<parsed, fifo, usbBuf, sent, upc, left>>
    BY <1>9 DEF ReceiveCommand
  <2>2. Append(processed, Head(cmdQueue)) \o Tail(cmdQueue)
          = processed \o cmdQueue
    BY <2>1, LineType, AppendHead
  <2>3. Line' = Line
    BY <2>1, <2>2 DEF Line
  <2> QED BY <1>0, <1>a, <2>1, <2>3, OrderKept
<1> QED BY <1>1, <1>2, <1>3, <1>4, <1>5, <1>6, <1>7, <1>8, <1>9, Cases

LEMMA BytesStep == TypeOK /\ OrderInv /\ [Next]_vars
                     => usbBuf'[1] = usbBuf'[2] /\ usbBuf'[1] <= sent'
<1> SUFFICES ASSUME TypeOK, OrderInv, [Next]_vars
             PROVE  usbBuf'[1] = usbBuf'[2] /\ usbBuf'[1] <= sent'
  OBVIOUS
<1>0. usbBuf[1] = usbBuf[2] /\ usbBuf[1] <= sent /\ sent \in Nat
  BY IdsType DEF OrderInv
<1>1. CASE UNCHANGED <<usbBuf, sent>>
  BY <1>0, <1>1
<1>2. CASE Detach \/ Suspend \/ CleanBuf
  BY <1>0, <1>2 DEF Detach, Suspend, CleanBuf, NoBytes
<1>3. CASE ReadComplete
  BY <1>0, <1>3 DEF ReadComplete
<1>4. \/ Detach \/ Suspend \/ CleanBuf \/ ReadComplete
      \/ UNCHANGED <<usbBuf, sent>>
  BY Cases DEF Configured, Request, RequestComplete, SendPacket, Resume,
     OpenUsb, TakeRead, PostRead, WriteData, StoreHalf, CheckFull, DropOldest,
     GiveData, TakeData, CopyHalf, AdvanceRead, ParseData, QueueCommand,
     ReceiveCommand, FormatAnswer, Transmit, Return, vars
<1> QED BY <1>1, <1>2, <1>3, <1>4

LEMMA OrderStep == TypeOK /\ RingInv /\ OrderInv /\ [Next]_vars => OrderInv'
  BY BytesStep, LineStep DEF OrderInv

LEMMA OrderInit == Init => OrderInv
<1> SUFFICES ASSUME Init PROVE OrderInv
  OBVIOUS
<1>1. Line = << >> /\ Len(Line) = 0
  BY DEF Init, Line
<1>2. fifo = << >> /\ Len(fifo) = 0 /\ usbBuf = <<0, 0>> /\ sent = 0
  BY DEF Init, NoBytes
<1> QED BY <1>1, <1>2
        DEF OrderInv, LineInv, FifoOrder, InOrder, EndedBefore, RingInOrder, FreshBytes

(* Torn, merged and lost messages are possible, one that is worked on      *)
(* twice or after a later one is not, as long as the ring is a FIFO: that  *)
(* is until writeData drops the oldest half while readData is, or has      *)
(* been, in the ring with it.                                              *)
THEOREM NeverProcessedTwice == Spec => []NeverTwice
<1>1. TypeOK /\ OrderInv => NeverTwice
  <2> SUFFICES ASSUME TypeOK, OrderInv, ~Broken,
                      NEW a \in 1 .. Len(processed),
                      NEW b \in 1 .. Len(processed), a < b
               PROVE  Last(processed[a]) < Head(processed[b])
    BY DEF NeverTwice
  <2>1. \A n \in 1 .. Len(processed) :
          n \in 1 .. Len(Line) /\ Line[n] = processed[n]
    <3>1. /\ Len(processed \o cmdQueue) = Len(processed) + Len(cmdQueue)
          /\ \A n \in 1 .. Len(processed) :
               (processed \o cmdQueue)[n] = processed[n]
      BY LineType, ConcatProperties
    <3>2. /\ Len(Line) = Len(processed \o cmdQueue) + Len(parsed)
          /\ \A n \in 1 .. Len(processed \o cmdQueue) :
               Line[n] = (processed \o cmdQueue)[n]
      BY LineType, ConcatProperties DEF Line
    <3>3. Len(processed) \in Nat /\ Len(cmdQueue) \in Nat /\ Len(parsed) \in Nat
      BY LineType
    <3> QED BY <3>1, <3>2, <3>3
  <2> QED BY <2>1 DEF OrderInv, LineInv, InOrder
<1> QED BY <1>1, OrderInit, OrderStep, TypeCorrect, RingCorrect, PTL DEF Spec

-----------------------------------------------------------------------------
(* A host that waits until the device is at rest.  Its last message is in  *)
(* one place at a time, and nothing else is on its way.                    *)
Message(k) == <<k, k>>
Whole(n) == [k \in 1 .. n |-> Message(k)]
BothHalves == <<Half(sent, 1), Half(sent, 2)>>

(* In g_usb_buf, and as far as usb_pcdc_task has copied it in the ring.    *)
InUsbThread ==
  /\ bus = "on" /\ sent > 0 /\ NoRequest /\ usbBuf = Message(sent)
  /\ \/ upc = "take" /\ readCptSem /\ fifo = << >>
     \/ upc \in {"read", "write"} /\ ~readCptSem /\ fifo = << >>
     \/ upc = "store" /\ left = 2 /\ ~readCptSem /\ fifo = << >>
     \/ /\ upc \in {"check", "store"} /\ left = 1 /\ ~readCptSem
        /\ fifo = <<Half(sent, 1)>>
     \/ /\ (upc = "check" /\ left = 0) \/ upc = "give"
        /\ ~readCptSem /\ fifo = BothHalves
  /\ ~dropped /\ ~dataAvailSem /\ rpc = "take" /\ cmdQueue = << >>
  /\ ppc = "receive" /\ tx = NoTx /\ processed = Whole(sent - 1)

(* Copied: usb_pcdc_task has only g_usb_buf to clear.                      *)
Copied == /\ bus = "on" /\ sent > 0 /\ NoRequest /\ ~readCptSem
          /\ upc = "clean" \/ (upc = "take" /\ usbBuf = NoBytes)

(* In the ring, in the parser or in the queue.                             *)
InReadBuffer ==
  /\ Copied /\ ~dropped
  /\ \/ dataAvailSem /\ rpc = "take" /\ fifo = BothHalves /\ cmdQueue = << >>
     \/ ~dataAvailSem /\ Reading /\ fifo = BothHalves /\ cmdQueue = << >>
     \/ /\ ~dataAvailSem /\ rpc = "send" /\ fifo = << >> /\ cmdQueue = << >>
        /\ parsed = <<Message(sent)>>
     \/ /\ ~dataAvailSem /\ rpc = "take" /\ fifo = << >>
        /\ cmdQueue = <<Message(sent)>>
  /\ ppc = "receive" /\ tx = NoTx /\ processed = Whole(sent - 1)

Drained == /\ ~dropped /\ ~dataAvailSem /\ fifo = << >> /\ rpc = "take"
           /\ cmdQueue = << >> /\ processed = Whole(sent)

InProcess == /\ Copied /\ Drained /\ ppc \in {"format", "transmit"}
             /\ cmdStr = Message(sent) /\ tx = NoTx

(* Its answer, if there is one, is on its way.                             *)
InAnswer == /\ Copied /\ Drained /\ ppc \in {"return", "receive"}
            /\ tx.src # "welcome"

Quiet == /\ Drained /\ ppc = "receive" /\ tx.src # "reply"
         /\ upc \in {"open", "take"} /\ ~readCptSem /\ usbBuf = NoBytes

RestInv == unplugs = 0 =>
             InUsbThread \/ InReadBuffer \/ InProcess \/ InAnswer \/ Quiet

(* How far the answer to the last message is.                              *)
AnswerDue == \/ Len(processed) < sent \/ ppc \in {"format", "transmit"}
             \/ tx.src = "reply"
TurnInv ==
  unplugs = 0 =>
    /\ Len(replies) = IF AnswerDue THEN sent - 1 ELSE sent
    /\ tx.src = "reply" =>
         /\ tx.left \in 1 .. ReplyPackets[sent]
         /\ Len(tx.seen) = ReplyPackets[sent] - tx.left

(* One more message.                                                       *)
LEMMA WholeGrows ==
  ASSUME NEW n \in Nat, n > 0
  PROVE  Whole(n) = Append(Whole(n - 1), Message(n))
<1>1. \A k \in 1 .. n : Message(k) \in Nat \X Nat
  BY DEF Message
<1>2. /\ Whole(n) \in Seq(Nat \X Nat) /\ Len(Whole(n)) = n
      /\ \A k \in 1 .. n : Whole(n)[k] = Message(k)
  BY <1>1 DEF Whole
<1>3. /\ Whole(n - 1) \in Seq(Nat \X Nat) /\ Len(Whole(n - 1)) = n - 1
      /\ \A k \in 1 .. n - 1 : Whole(n - 1)[k] = Message(k)
  BY <1>1 DEF Whole
<1> DEFINE longer == Append(Whole(n - 1), Message(n))
<1>4. /\ longer \in Seq(Nat \X Nat) /\ Len(longer) = n
      /\ longer[n] = Message(n)
      /\ \A k \in 1 .. n - 1 : longer[k] = Message(k)
  BY <1>1, <1>3, AppendProperties
<1> HIDE DEF longer
<1>5. \A k \in 1 .. n : Whole(n)[k] = longer[k]
  <2>1. \A k \in 1 .. n : k = n \/ k \in 1 .. n - 1
    OBVIOUS
  <2> QED BY <2>1, <1>2, <1>4
<1>6. Whole(n) = longer
  BY <1>2, <1>4, <1>5, SeqEqual
<1> QED BY <1>6 DEF longer

LEMMA OneMore ==
  ASSUME NEW S, NEW one \in Seq(S), NEW two \in Seq(S), NEW b \in S
  PROVE  Len(one) = 1 /\ Len(two) = 2 /\ two[1] = one[1] /\ two[2] = b
           => Append(one, b) = two
<1>1. /\ Append(one, b) \in Seq(S)
      /\ Len(Append(one, b)) = Len(one) + 1
      /\ \A i \in 1 .. Len(one) : Append(one, b)[i] = one[i]
      /\ Append(one, b)[Len(one) + 1] = b
  BY AppendProperties
<1>2. ASSUME Len(one) = 1, Len(two) = 2, two[1] = one[1], two[2] = b
      PROVE  Append(one, b) = two
  <2>1. Len(one) + 1 = 2 /\ 1 \in 1 .. Len(one)
    BY <1>2
  <2>2. \A k \in 1 .. 2 : k = 1 \/ k = 2
    OBVIOUS
  <2> QED BY <1>1, <1>2, <2>1, <2>2, SeqEqual
<1> QED BY <1>2

LEMMA OneThenTwo ==
  ASSUME NEW S, NEW a \in S, NEW b \in S
  PROVE  Append(<<a>>, b) = <<a, b>>
<1>1. /\ <<a>> \in Seq(S) /\ Len(<<a>>) = 1 /\ <<a>>[1] = a
      /\ <<a, b>> \in Seq(S) /\ Len(<<a, b>>) = 2
      /\ <<a, b>>[1] = a /\ <<a, b>>[2] = b
  OBVIOUS
<1>2. \A one, two \in Seq(S) :
        Len(one) = 1 /\ Len(two) = 2 /\ two[1] = one[1] /\ two[2] = b
          => Append(one, b) = two
  BY OneMore
<1> QED BY <1>1, <1>2, Zenon

LEMMA WholeLength == \A n \in Nat : Len(Whole(n)) = n
  BY DEF Whole

(* The two halves of one message are one command.                          *)
LEMMA ParsedWhole ==
  ASSUME TypeOK, sent > 0
  PROVE  Commands(Text(BothHalves)) = <<Message(sent)>>
<1> DEFINE r == BothHalves
<1>1. /\ r \in Seq(Halves) /\ Len(r) = 2 /\ sent \in Nat
      /\ r[1].id = sent /\ r[2].id = sent /\ r[1].half = 1 /\ r[2].half = 2
  BY IdsType DEF BothHalves, Half, Halves, TypeOK
<1> HIDE DEF r
<1>2. Text(r) = r
  <2>1. {n \in 1 .. Len(r) : r[n].id = 0} = {}
    BY <1>1
  <2> QED BY <2>1 DEF Text
<1>3. Ends(r) = {2}
  <2>1. \A n : n \in 2 .. Len(r) <=> n = 2
    BY <1>1
  <2>2. \A n : n \in Ends(r) <=> n = 2
    BY <1>1, <2>1 DEF Ends
  <2> QED BY <2>2
<1>4. Cardinality(Ends(r)) = 1
  BY <1>3, FS_Singleton
<1>5. EndOf(r, 1) = 2
  <2>1. EndOf(r, 1) \in Ends(r)
    BY <1>1, <1>4, EndFacts
  <2> QED BY <2>1, <1>3
<1>6. Start(r, 2) = 1
  <2>1. Start(r, 2) \in 1 .. 2 - 1
    BY <1>1, <1>3, StartFacts
  <2> QED BY <2>1
<1>7. CommandAt(r, 2) = Message(sent)
  <2>1. CommandAt(r, 2) = [k \in 1 .. 2 |-> r[1 + k - 1].id]
    BY <1>6 DEF CommandAt
  <2>2. \A k \in 1 .. 2 : r[1 + k - 1].id = sent
    <3>1. \A k \in 1 .. 2 : 1 + k - 1 = 1 \/ 1 + k - 1 = 2
      OBVIOUS
    <3> QED BY <3>1, <1>1
  <2>3. CommandAt(r, 2) = [k \in 1 .. 2 |-> sent]
    BY <2>1, <2>2
  <2> QED BY <2>3 DEF Message
<1>8. Commands(r) = [c \in 1 .. 1 |-> CommandAt(r, EndOf(r, c))]
  BY <1>4 DEF Commands, EndOf
<1>9. Commands(r) = [c \in 1 .. 1 |-> Message(sent)]
  <2>1. \A c \in 1 .. 1 : c = 1
    OBVIOUS
  <2> QED BY <2>1, <1>5, <1>7, <1>8
<1>10. [c \in 1 .. 1 |-> Message(sent)] = <<Message(sent)>>
  OBVIOUS
<1> QED BY <1>2, <1>9, <1>10 DEF r

LEMMA RestStep ==
  ASSUME Patience = "rest", RingSize >= 3
  PROVE  TypeOK /\ RingInv /\ RestInv /\ [Next]_vars => RestInv'
<1> SUFFICES ASSUME TypeOK, RingInv, RestInv, [Next]_vars, unplugs' = 0
             PROVE  (InUsbThread \/ InReadBuffer \/ InProcess \/ InAnswer
                       \/ Quiet)'
  BY DEF RestInv
<1> USE DEF driver, usbThread, ring, reader, process, NoRequest, Reading
<1>a. sent \in Nat /\ unplugs \in Nat /\ tx \in Tx
  <2>1. sent \in Nat /\ unplugs \in 0 .. MaxUnplug /\ MaxUnplug \in Nat
    BY IdsType, PipelineAssumption DEF TypeOK
  <2> QED BY <2>1, TypeParts DEF ProcessOK
<1>b. NoTx.src = "none" /\ NoBytes = Message(0)
  BY DEF NoTx, NoBytes, Message
<1>c. unplugs = 0 => InUsbThread \/ InReadBuffer \/ InProcess \/ InAnswer \/ Quiet
  BY DEF RestInv
<1>d. HostReady => AtRest
  BY PipelineAssumption DEF HostReady
<1>e. UNCHANGED BothHalves \/ sent' # sent
  BY DEF BothHalves
<1>1. CASE Configured
  <2>1. Quiet
    BY <1>1, <1>c DEF Configured, InUsbThread, InReadBuffer,
       InProcess, InAnswer, Quiet, Copied, Drained
  <2> QED BY <1>1, <2>1 DEF Configured, Quiet, Drained
<1>2. CASE Request
  <2>1. Quiet
    BY <1>2, <1>a, <1>b, <1>c, <1>d
       DEF Request, AtRest, ThreadsWait, InUsbThread, InReadBuffer,
       InProcess, InAnswer, Quiet, Copied, Drained
  <2>2. tx'.src # "reply"
    BY <1>2, <2>1 DEF Request, R_USB_Write, Quiet
  <2> QED BY <1>2, <2>1, <2>2 DEF Request, Quiet, Drained
<1>3. CASE RequestComplete
  <2>1. Quiet
    BY <1>3, <1>c DEF RequestComplete, InUsbThread, InReadBuffer,
       InProcess, InAnswer, Quiet, Copied, Drained
  <2> QED BY <1>3, <2>1 DEF RequestComplete, Quiet, Drained
<1>4. CASE ReadComplete
  <2>1. Quiet /\ upc = "take" /\ tx = NoTx /\ NoRequest
    BY <1>4, <1>a, <1>b, <1>c, <1>d
       DEF ReadComplete, AtRest, ThreadsWait, InUsbThread, InReadBuffer,
       InProcess, InAnswer, Quiet, Copied, Drained
  <2>2. sent' = sent + 1 /\ sent' > 0 /\ sent' - 1 = sent
    BY <1>4, <1>a DEF ReadComplete
  <2>3. processed' = Whole(sent' - 1)
    BY <1>4, <2>1, <2>2 DEF ReadComplete, Quiet, Drained
  <2>4. usbBuf' = Message(sent')
    BY <1>4 DEF ReadComplete, Message
  <2>5. InUsbThread'
    BY <1>4, <2>1, <2>2, <2>3, <2>4
       DEF ReadComplete, Quiet, Drained, InUsbThread
  <2> QED BY <2>5
<1>5. CASE SendPacket
  <2>1. InAnswer \/ Quiet
    BY <1>5, <1>c DEF SendPacket, InUsbThread, InReadBuffer,
       InProcess, InAnswer, Quiet, Copied, Drained
  <2>2. tx'.src = tx.src \/ tx' = NoTx
    BY <1>5, <1>a DEF SendPacket, Tx
  <2> QED BY <1>5, <1>b, <2>1, <2>2
          DEF SendPacket, InAnswer, Quiet, Copied, Drained
<1>6. CASE Detach
  BY <1>6, <1>a DEF Detach
<1>7. CASE Suspend
  BY <1>7, <1>a DEF Suspend
<1>8. CASE Resume
  <2>1. Quiet
    BY <1>8, <1>c DEF Resume, InUsbThread, InReadBuffer,
       InProcess, InAnswer, Quiet, Copied, Drained
  <2> QED BY <1>8, <2>1 DEF Resume, Quiet, Drained
<1>9. CASE OpenUsb
  <2>1. Quiet
    BY <1>9, <1>c DEF OpenUsb, InUsbThread, InReadBuffer,
       InProcess, InAnswer, Quiet, Copied, Drained
  <2> QED BY <1>9, <2>1 DEF OpenUsb, Quiet, Drained
<1>10. CASE TakeRead
  <2>1. InUsbThread
    BY <1>10, <1>c DEF TakeRead, InUsbThread, InReadBuffer,
       InProcess, InAnswer, Quiet, Copied, Drained
  <2> QED BY <1>10, <2>1 DEF TakeRead, InUsbThread
<1>11. CASE PostRead
  <2>1. InUsbThread
    BY <1>11, <1>c DEF PostRead, InUsbThread, InReadBuffer,
       InProcess, InAnswer, Quiet, Copied, Drained
  <2> QED BY <1>11, <2>1 DEF PostRead, InUsbThread
<1>12. CASE WriteData
  <2>1. InUsbThread /\ upc = "write" /\ fifo = << >>
    BY <1>12, <1>c DEF WriteData, InUsbThread, InReadBuffer,
       InProcess, InAnswer, Quiet, Copied, Drained
  <2>2. usbBuf[1] # 0
    BY <2>1, <1>a DEF InUsbThread, Message
  <2>3. upc' = "store" /\ left' = 2
    BY <1>12, <2>2 DEF WriteData, NextHalf
  <2> QED BY <1>12, <2>1, <2>3 DEF WriteData, InUsbThread
<1>13. CASE StoreHalf
  <2>1. InUsbThread /\ upc = "store" /\ ~Broken
    BY <1>13, <1>c DEF StoreHalf, InUsbThread, InReadBuffer,
       InProcess, InAnswer, Quiet, Copied, Drained, Broken
  <2>2. /\ fifo' = Append(fifo, Half(usbBuf[3 - left], 3 - left))
        /\ upc' = "check" /\ left' = left - 1
    BY <1>13, <2>1 DEF StoreHalf, Remember
  <2>3. usbBuf[1] = sent /\ usbBuf[2] = sent
    BY <2>1 DEF InUsbThread, Message
  <2>4. CASE left = 2
    <3>1. fifo = << >> /\ 3 - left = 1 /\ left' = 1
      BY <2>1, <2>2, <2>4 DEF InUsbThread
    <3>2. fifo' = <<Half(sent, 1)>>
      BY <2>2, <2>3, <3>1
    <3>3. fifo' = <<Half(sent, 1)>>'
      BY <1>13, <3>2 DEF StoreHalf, Half
    <3> QED BY <1>13, <2>1, <2>2, <2>4, <3>1, <3>3 DEF StoreHalf, InUsbThread
  <2>5. CASE left # 2
    <3>1. fifo = <<Half(sent, 1)>> /\ left = 1 /\ 3 - left = 2 /\ left' = 0
      BY <2>1, <2>2, <2>5 DEF InUsbThread
    <3>2. Append(fifo, Half(sent, 2)) = BothHalves
      <4>1. /\ Half(sent, 1) \in [id: Nat, half: {1, 2}]
            /\ Half(sent, 2) \in [id: Nat, half: {1, 2}]
        BY <1>a DEF Half
      <4> QED BY <3>1, <4>1, OneThenTwo DEF BothHalves
    <3>3. fifo' = BothHalves'
      BY <1>13, <1>e, <2>2, <2>3, <3>1, <3>2 DEF StoreHalf
    <3> QED BY <1>13, <2>1, <2>2, <3>1, <3>3 DEF StoreHalf, InUsbThread
  <2> QED BY <2>4, <2>5
<1>14. CASE CheckFull
  <2>1. /\ InUsbThread /\ upc = "check" /\ ~dropped /\ rpc = "take"
        /\ \/ left = 1 /\ fifo = <<Half(sent, 1)>>
           \/ left = 0 /\ fifo = BothHalves
    BY <1>14, <1>c DEF CheckFull, InUsbThread, InReadBuffer,
       InProcess, InAnswer, Quiet, Copied, Drained
  <2>2. Len(fifo) \in {1, 2}
    BY <2>1 DEF BothHalves
  <2>3. writeIndex # readIndex
    <3>1. drained = << >> /\ FifoInv
      BY <2>1 DEF RingInv, PlaceInv, Broken
    <3>2. Held = Len(fifo)
      BY <2>1, <2>2, <3>1, NothingType DEF Held, Taken
    <3>3. /\ writeIndex = Place(readIndex, Held) /\ readIndex \in Slots
          /\ RingSize \in Nat
      BY <3>1, RingNumbers DEF FifoInv
    <3>4. Held \in 0 .. RingSize /\ Held # 0 /\ Held # RingSize
      BY <2>2, <3>2, <3>3
    <3> QED BY <3>3, <3>4, PlaceMeets
  <2>4. upc' = NextHalf(left) /\ UNCHANGED <<left, fifo, dropped, sent>>
    BY <1>14, <2>3 DEF CheckFull
  <2>5. CASE left = 1
    <3>1. upc' = "store" /\ fifo' = <<Half(sent, 1)>>'
      BY <2>1, <2>4, <2>5 DEF NextHalf, Half, BothHalves
    <3> QED BY <1>14, <2>1, <2>4, <2>5, <3>1 DEF CheckFull, InUsbThread
  <2>6. CASE left # 1
    <3>1. upc' = "give" /\ fifo' = BothHalves'
      BY <2>1, <2>4, <2>6, <1>e DEF NextHalf
    <3> QED BY <1>14, <2>1, <2>4, <3>1 DEF CheckFull, InUsbThread
  <2> QED BY <2>5, <2>6
<1>15. CASE DropOldest
  BY <1>15, <1>c DEF DropOldest, InUsbThread, InReadBuffer,
     InProcess, InAnswer, Quiet, Copied, Drained
<1>16. CASE GiveData
  <2>1. InUsbThread /\ upc = "give" /\ fifo = BothHalves
    BY <1>16, <1>c DEF GiveData, InUsbThread, InReadBuffer,
       InProcess, InAnswer, Quiet, Copied, Drained
  <2>2. fifo' = BothHalves'
    BY <1>16, <2>1, <1>e DEF GiveData
  <2> QED BY <1>16, <2>1, <2>2 DEF GiveData, InUsbThread, InReadBuffer, Copied
<1>17. CASE CleanBuf
  <2>1. Copied /\ upc = "clean" /\ (InReadBuffer \/ InProcess \/ InAnswer)
    BY <1>17, <1>c DEF CleanBuf, InUsbThread, InReadBuffer,
       InProcess, InAnswer, Quiet, Copied, Drained
  <2>2. Copied' /\ UNCHANGED BothHalves
    BY <1>17, <2>1, <1>e DEF CleanBuf, Copied
  <2> QED BY <1>17, <2>1, <2>2
          DEF CleanBuf, InReadBuffer, InProcess, InAnswer, Drained
<1>18. CASE TakeData
  <2>1. InReadBuffer /\ fifo = BothHalves /\ cmdQueue = << >>
    BY <1>18, <1>c DEF TakeData, InUsbThread, InReadBuffer,
       InProcess, InAnswer, Quiet, Copied, Drained
  <2>2. fifo' = BothHalves'
    BY <1>18, <2>1, <1>e DEF TakeData
  <2> QED BY <1>18, <2>1, <2>2 DEF TakeData, InReadBuffer, Copied
<1>19. CASE CopyHalf \/ AdvanceRead
  <2>1. InReadBuffer /\ Reading /\ fifo = BothHalves /\ cmdQueue = << >>
        /\ ~dataAvailSem
    BY <1>19, <1>c DEF CopyHalf, AdvanceRead, InUsbThread, InReadBuffer,
       InProcess, InAnswer, Quiet, Copied, Drained
  <2>2. fifo' = BothHalves' /\ Reading'
    BY <1>19, <2>1, <1>e DEF CopyHalf, AdvanceRead
  <2> QED BY <1>19, <2>1, <2>2
          DEF CopyHalf, AdvanceRead, InReadBuffer, Copied
<1>20. CASE ParseData
  <2>1. /\ InReadBuffer /\ fifo = BothHalves /\ cmdQueue = << >> /\ ~dataAvailSem
        /\ upc \in {"clean", "take"} /\ ~Broken /\ rpc = "drain" /\ sent > 0
    BY <1>20, <1>c DEF ParseData, InUsbThread, InReadBuffer,
       InProcess, InAnswer, Quiet, Copied, Drained, Broken
  <2>2. Len(fifo) = 2
    BY <2>1 DEF BothHalves
  <2>3. drained = BothHalves
    <3>1. /\ HeldInv /\ FifoInv /\ readIndex \in Slots /\ RingSize \in Nat
          /\ Len(drained) \in Nat /\ drained \in Seq(Halves)
          /\ fifo \in Seq(Halves) /\ Len(fifo) \in Nat
      BY <2>1, RingNumbers DEF RingInv
    <3>2. /\ Held = 2 - Len(drained) /\ Held \in 0 .. RingSize
          /\ Held # RingSize
      BY <2>1, <2>2, <3>1 DEF Held, Taken, HeldInv
    <3>3. Len(drained) = 2
      <4>1. CASE readIndex = writeIndex
        <5>1. Held = 0
          BY <3>1, <3>2, <4>1, PlaceMeets DEF FifoInv
        <5> QED BY <3>1, <3>2, <5>1
      <4>2. CASE readIndex # writeIndex
        <5>1. ~(Len(drained) < RingSize - 1)
          BY <1>20, <4>2 DEF ParseData, GoesOn
        <5>2. RingSize >= 3 /\ Held = 2 - Len(drained) /\ Held \in 0 .. RingSize
          BY <3>2
        <5>3. \A d, z \in Nat, h \in 0 .. RingSize :
                ~(d < z - 1) /\ z >= 3 /\ h = 2 - d => d = 2
          BY <3>1
        <5> QED BY <3>1, <5>1, <5>2, <5>3
      <4> QED BY <4>1, <4>2
    <3>4. \A n \in 1 .. 2 : drained[n] = fifo[n]
      BY <3>1, <3>3 DEF FifoInv
    <3>5. drained = fifo
      BY <2>2, <3>1, <3>3, <3>4, SeqEqual
    <3> QED BY <2>1, <3>5
  <2>4. fifo' = << >>
    <3>1. fifo' = SubSeq(fifo, 2 + 1, 2)
      BY <1>20, <2>1, <2>2, <2>3 DEF ParseData, Remember
    <3> QED BY <3>1
  <2>5. parsed' = <<Message(sent)>> /\ rpc' = "send"
    BY <1>20, <2>1, <2>3, ParsedWhole DEF ParseData
  <2> QED BY <1>20, <2>1, <2>4, <2>5 DEF ParseData, InReadBuffer, Copied
<1>21. CASE QueueCommand
  <2>1. /\ InReadBuffer /\ fifo = << >> /\ cmdQueue = << >> /\ ~dataAvailSem
        /\ parsed = <<Message(sent)>>
    BY <1>21, <1>c DEF QueueCommand, InUsbThread, InReadBuffer,
       InProcess, InAnswer, Quiet, Copied, Drained
  <2>2. cmdQueue' = <<Message(sent)>> /\ parsed' = << >>
    <3>1. /\ Len(cmdQueue) < QueueLen /\ Head(parsed) = Message(sent)
          /\ Tail(parsed) = << >>
          /\ Append(cmdQueue, Message(sent)) = <<Message(sent)>>
      BY <2>1, PipelineAssumption
    <3> QED BY <1>21, <3>1 DEF QueueCommand
  <2> QED BY <1>21, <2>1, <2>2 DEF QueueCommand, InReadBuffer, Copied
<1>22. CASE ReceiveCommand
  <2>1. /\ InReadBuffer /\ fifo = << >> /\ ~dataAvailSem /\ rpc = "take"
        /\ cmdQueue = <<Message(sent)>>
    BY <1>22, <1>c DEF ReceiveCommand, InUsbThread, InReadBuffer,
       InProcess, InAnswer, Quiet, Copied, Drained
  <2>2. cmdStr' = Message(sent) /\ cmdQueue' = << >>
    <3>1. Head(cmdQueue) = Message(sent) /\ Tail(cmdQueue) = << >>
      BY <2>1
    <3> QED BY <1>22, <3>1 DEF ReceiveCommand
  <2>3. processed' = Whole(sent)
    <3>1. sent > 0 /\ processed = Whole(sent - 1)
      BY <2>1 DEF InReadBuffer, Copied
    <3>2. processed' = Append(processed, Message(sent))
      BY <1>22, <2>2 DEF ReceiveCommand
    <3> QED BY <3>1, <3>2, <1>a, WholeGrows
  <2> QED BY <1>22, <2>1, <2>2, <2>3
          DEF ReceiveCommand, InReadBuffer, InProcess, Copied, Drained
<1>23. CASE FormatAnswer
  <2>1. InProcess
    BY <1>23, <1>c DEF FormatAnswer, InUsbThread, InReadBuffer,
       InProcess, InAnswer, Quiet, Copied, Drained
  <2> QED BY <1>23, <1>b, <2>1
          DEF FormatAnswer, InProcess, InAnswer, Copied, Drained
<1>24. CASE Transmit
  <2>1. InProcess
    BY <1>24, <1>c DEF Transmit, InUsbThread, InReadBuffer,
       InProcess, InAnswer, Quiet, Copied, Drained
  <2>2. tx'.src # "welcome"
    BY <1>24, <1>b, <2>1 DEF Transmit, InProcess, R_USB_Write
  <2> QED BY <1>24, <2>1, <2>2
          DEF Transmit, InProcess, InAnswer, Copied, Drained
<1>25. CASE Return
  <2>1. InAnswer
    BY <1>25, <1>c DEF Return, InUsbThread, InReadBuffer,
       InProcess, InAnswer, Quiet, Copied, Drained
  <2> QED BY <1>25, <2>1 DEF Return, InAnswer, Copied, Drained
<1>26. CASE UNCHANGED vars
  <2>1. UNCHANGED BothHalves
    BY <1>26 DEF vars, BothHalves
  <2> QED BY <1>26, <2>1, <1>c
          DEF vars, InUsbThread, InReadBuffer, InProcess, InAnswer, Quiet,
              Copied, Drained
<1> QED
  BY <1>1, <1>2, <1>3, <1>4, <1>5, <1>6, <1>7, <1>8, <1>9, <1>10, <1>11, <1>12,
     <1>13, <1>14, <1>15, <1>16, <1>17, <1>18, <1>19, <1>20, <1>21, <1>22,
     <1>23, <1>24, <1>25, <1>26, Cases

LEMMA RestInit == Init => RestInv
<1> SUFFICES ASSUME Init PROVE Quiet
  BY DEF RestInv
<1>1. Whole(0) = << >>
  BY DEF Whole
<1> QED BY <1>1 DEF Init, Quiet, Drained, NoTx

LEMMA RestCorrect ==
  ASSUME Patience = "rest", RingSize >= 3
  PROVE  Spec => []RestInv
<1> QED BY RestInit, RestStep, TypeCorrect, RingCorrect, PTL DEF Spec

(* A host that sends when the device is at rest loses nothing: when the    *)
(* device is at rest again every message has been worked on, whole and in  *)
(* order.  The ring has to hold one message, which takes a slot more; the  *)
(* answers may be of any length, or not fit at all.                        *)
THEOREM RestLosesNothing ==
  ASSUME Patience = "rest", RingSize >= 3
  PROVE  Spec => []NothingLost
<1>1. RestInv => NothingLost
  <2> SUFFICES ASSUME RestInv, AtRest, unplugs = 0
               PROVE  processed = Whole(sent)
    BY DEF NothingLost, Whole, Message
  <2>1. InUsbThread \/ InReadBuffer \/ InProcess \/ InAnswer \/ Quiet
    BY DEF RestInv
  <2> QED BY <2>1 DEF AtRest, ThreadsWait, InUsbThread, InReadBuffer, Reading,
                      InProcess, InAnswer, Quiet, Copied, Drained
<1> QED BY <1>1, RestCorrect, PTL


(* A step that touches nothing of the turns.                               *)
LEMMA TurnKept ==
  TurnInv /\ UNCHANGED <<sent, processed, ppc, tx, replies, unplugs>>
    => TurnInv'
  BY DEF TurnInv, AnswerDue

LEMMA TurnStep ==
  ASSUME Patience = "rest", \A k \in Msgs : ReplyPackets[k] >= 1
  PROVE  TypeOK /\ RestInv /\ TurnInv /\ [Next]_vars => TurnInv'
<1> SUFFICES ASSUME TypeOK, RestInv, TurnInv, [Next]_vars PROVE TurnInv'
  OBVIOUS
<1> USE DEF driver, usbThread, ring, reader, process, NoRequest, Reading
<1>a. /\ sent \in Nat /\ unplugs \in Nat /\ tx \in Tx
      /\ (sent > 0 => sent \in Msgs)
  <2>1. sent \in 0 .. MaxMsg /\ unplugs \in 0 .. MaxUnplug /\ MaxUnplug \in Nat
        /\ MaxMsg \in Nat
    BY PipelineAssumption DEF TypeOK, Ids
  <2> QED BY <2>1, TypeParts DEF ProcessOK, Msgs
<1>b. NoTx.src = "none"
  BY DEF NoTx
<1>c. unplugs = 0 => InUsbThread \/ InReadBuffer \/ InProcess \/ InAnswer \/ Quiet
  BY DEF RestInv
<1>d. HostReady => AtRest
  BY PipelineAssumption DEF HostReady
<1>e. \A k \in Msgs : ReplyPackets[k] \in Nat /\ ReplyPackets[k] >= 1
  BY PipelineAssumption
<1>2. CASE Request
  <2>1. /\ tx.src # "reply" /\ tx = NoTx
        /\ UNCHANGED <<sent, processed, ppc, replies, unplugs>>
    BY <1>2, <1>b, <1>d DEF Request, AtRest, ThreadsWait
  <2>2. tx'.src # "reply"
    BY <1>2, <1>b, <2>1 DEF Request, R_USB_Write
  <2> QED BY <1>b, <2>1, <2>2 DEF TurnInv, AnswerDue
<1>4. CASE ReadComplete
  <2>1. /\ tx = NoTx /\ ppc = "receive" /\ sent' = sent + 1
        /\ UNCHANGED <<processed, ppc, tx, replies, unplugs>>
        /\ AtRest
    BY <1>4, <1>d DEF ReadComplete, AtRest, ThreadsWait
  <2> SUFFICES ASSUME unplugs = 0 PROVE TurnInv'
    BY <2>1 DEF TurnInv
  <2>2. processed = Whole(sent)
    BY <2>1, <1>c DEF AtRest, ThreadsWait, InUsbThread, InReadBuffer,
       InProcess, InAnswer, Quiet, Copied, Drained
  <2>3. Len(processed) = sent
    BY <2>2, <1>a, WholeLength
  <2>4. Len(replies) = sent
    BY <2>1, <2>3, <1>a, <1>b DEF TurnInv, AnswerDue
  <2>5. AnswerDue' /\ sent' - 1 = sent
    BY <2>1, <2>3, <1>a DEF AnswerDue
  <2> QED BY <2>1, <2>4, <2>5, <1>b DEF TurnInv
<1>5. CASE SendPacket
  <2>1. /\ tx # NoTx /\ UNCHANGED <<sent, processed, ppc, unplugs>>
    BY <1>5 DEF SendPacket
  <2> SUFFICES ASSUME unplugs = 0 PROVE TurnInv'
    BY <2>1 DEF TurnInv
  <2>2. CASE tx.src # "reply"
    <3>1. tx'.src # "reply" /\ replies' = replies
      BY <1>5, <1>a, <1>b, <2>2 DEF SendPacket, Tx
    <3> QED BY <2>1, <2>2, <3>1 DEF TurnInv, AnswerDue
  <2>3. CASE tx.src = "reply"
    <3>1. InAnswer
      BY <1>b, <1>c, <2>1, <2>3 DEF InUsbThread, InReadBuffer,
         InProcess, InAnswer, Quiet, Copied, Drained
    <3>2. /\ ppc \in {"return", "receive"} /\ processed = Whole(sent)
          /\ sent \in Msgs
      BY <3>1, <1>a DEF InAnswer, Drained, Copied
    <3> DEFINE R == ReplyPackets[sent]
    <3>3. /\ R \in Nat /\ tx.left \in 1 .. R
          /\ Len(tx.seen) = R - tx.left
          /\ Len(replies) = sent - 1
      BY <1>e, <2>1, <2>3, <3>2 DEF TurnInv, AnswerDue
    <3>4. Len(Append(tx.seen, printfBuf)) = R - tx.left + 1
      <4>1. Len(Append(tx.seen, printfBuf)) = Len(tx.seen) + 1
        BY <1>a DEF Tx
      <4> QED BY <3>3, <4>1
    <3>5. CASE tx.left > 1
      <4>1. /\ tx' = [tx EXCEPT !.left = tx.left - 1,
                                !.seen = Append(tx.seen, printfBuf)]
            /\ replies' = replies
        BY <1>5, <2>3, <3>5 DEF SendPacket
      <4>2. /\ tx'.src = "reply" /\ tx'.left = tx.left - 1
            /\ tx'.seen = Append(tx.seen, printfBuf)
        BY <4>1, <2>3, <1>a DEF Tx
      <4>3. /\ tx.left - 1 \in 1 .. R
            /\ R - (tx.left - 1) = R - tx.left + 1
        BY <3>3, <3>5
      <4> HIDE DEF R
      <4>4. tx'.left \in 1 .. R /\ Len(tx'.seen) = R - tx'.left
        BY <4>2, <4>3, <3>4
      <4>5. AnswerDue /\ AnswerDue' /\ R = ReplyPackets[sent]
        BY <2>3, <4>2 DEF AnswerDue, R
      <4> QED BY <2>1, <4>1, <4>2, <4>4, <4>5, <3>3 DEF TurnInv
    <3>6. CASE ~(tx.left > 1)
      <4>1. tx' = NoTx /\ replies' = Append(replies, Append(tx.seen, printfBuf))
        BY <1>5, <2>3, <3>6 DEF SendPacket
      <4>2. Len(replies') = sent
        <5>1. Len(replies') = Len(replies) + 1
          BY <4>1 DEF TypeOK
        <5> QED BY <5>1, <3>3, <1>a
      <4>3. ~AnswerDue'
        BY <2>1, <3>2, <4>1, <1>a, <1>b, WholeLength DEF AnswerDue
      <4> QED BY <2>1, <4>1, <4>2, <4>3, <1>b DEF TurnInv
    <3> QED BY <3>3, <3>5, <3>6
  <2> QED BY <2>2, <2>3
<1>6. CASE Detach \/ Suspend
  <2>1. unplugs' # 0
    BY <1>6, <1>a DEF Detach, Suspend
  <2> QED BY <2>1 DEF TurnInv
<1>8. CASE \/ Configured \/ RequestComplete \/ Resume \/ OpenUsb \/ TakeRead
           \/ PostRead
  BY <1>8, TurnKept DEF Configured, RequestComplete, Resume, OpenUsb, TakeRead,
     PostRead
<1>9. CASE WriteData \/ StoreHalf \/ CheckFull \/ DropOldest
  BY <1>9, TurnKept DEF WriteData, StoreHalf, CheckFull, DropOldest
<1>10. CASE GiveData \/ CleanBuf \/ TakeData \/ CopyHalf
  BY <1>10, TurnKept DEF GiveData, CleanBuf, TakeData, CopyHalf
<1>11. CASE AdvanceRead \/ ParseData \/ QueueCommand
  BY <1>11, TurnKept DEF AdvanceRead, ParseData, QueueCommand
<1>19. CASE ReceiveCommand
  <2>1. /\ ppc = "receive" /\ ppc' = "format"
        /\ UNCHANGED <<sent, tx, replies, unplugs>>
    BY <1>19 DEF ReceiveCommand
  <2> SUFFICES ASSUME unplugs = 0 PROVE TurnInv'
    BY <2>1 DEF TurnInv
  <2>2. tx = NoTx /\ processed = Whole(sent - 1) /\ sent > 0
    BY <1>19, <1>c, <2>1 DEF ReceiveCommand, InUsbThread, InReadBuffer,
       InProcess, InAnswer, Quiet, Copied, Drained
  <2>3. AnswerDue /\ AnswerDue'
    BY <2>1, <2>2, <1>a, WholeLength DEF AnswerDue
  <2> QED BY <2>1, <2>2, <2>3, <1>b DEF TurnInv
<1>20. CASE FormatAnswer
  <2>1. /\ ppc = "format" /\ UNCHANGED <<sent, tx, replies, processed, unplugs>>
    BY <1>20 DEF FormatAnswer
  <2> SUFFICES ASSUME unplugs = 0 PROVE TurnInv'
    BY <2>1 DEF TurnInv
  <2>2. tx = NoTx /\ cmdStr = Message(sent) /\ sent \in Msgs
    BY <1>a, <1>c, <2>1 DEF InUsbThread, InReadBuffer,
       InProcess, InAnswer, Quiet, Copied, Drained
  <2>3. Head(cmdStr) = sent
    BY <2>2 DEF Message
  <2>4. ppc' = "transmit"
    BY <1>20, <1>e, <2>2, <2>3 DEF FormatAnswer
  <2>6. AnswerDue /\ AnswerDue'
    BY <2>1, <2>4 DEF AnswerDue
  <2> QED BY <2>1, <2>2, <2>6, <1>b DEF TurnInv
<1>21. CASE Transmit
  <2>1. /\ ppc = "transmit" /\ ppc' = "return"
        /\ UNCHANGED <<sent, replies, processed, unplugs>>
    BY <1>21 DEF Transmit
  <2> SUFFICES ASSUME unplugs = 0 PROVE TurnInv'
    BY <2>1 DEF TurnInv
  <2>2. tx = NoTx /\ cmdStr = Message(sent) /\ sent \in Msgs /\ bus = "on"
    BY <1>a, <1>c, <2>1 DEF InUsbThread, InReadBuffer,
       InProcess, InAnswer, Quiet, Copied, Drained
  <2>3. Head(cmdStr) = sent
    BY <2>2 DEF Message
  <2>4. tx' = [src |-> "reply", left |-> ReplyPackets[sent], seen |-> << >>]
    BY <1>21, <2>2, <2>3 DEF Transmit, R_USB_Write
  <2>5. /\ tx'.left \in 1 .. ReplyPackets[sent] /\ tx'.src = "reply"
        /\ Len(tx'.seen) = ReplyPackets[sent] - tx'.left
    <3>1. tx'.left = ReplyPackets[sent] /\ tx'.src = "reply" /\ tx'.seen = << >>
      BY <2>4
    <3> QED BY <3>1, <1>e, <2>2
  <2>7. AnswerDue /\ AnswerDue'
    BY <2>1, <2>5 DEF AnswerDue
  <2> QED BY <2>1, <2>5, <2>7 DEF TurnInv
<1>22. CASE Return
  <2>1. /\ ppc = "return" /\ ppc' = "receive"
        /\ UNCHANGED <<sent, tx, replies, processed, unplugs>>
    BY <1>22 DEF Return
  <2> QED BY <2>1 DEF TurnInv, AnswerDue
<1>23. CASE UNCHANGED vars
  BY <1>23, TurnKept DEF vars
<1> QED
  BY <1>2, <1>4, <1>5, <1>6, <1>8, <1>9, <1>10, <1>11, <1>19, <1>20, <1>21,
     <1>22, <1>23, Cases

LEMMA TurnInit == Init => TurnInv
<1> SUFFICES ASSUME Init PROVE TurnInv
  OBVIOUS
<1>1. Len(processed) = 0 /\ Len(replies) = 0 /\ sent = 0 /\ ppc = "receive"
      /\ tx.src = "none"
  BY DEF Init, NoTx
<1> QED BY <1>1 DEF TurnInv, AnswerDue

(* The packets of each answer.                                             *)
Lengths(s) == [k \in 1 .. Len(s) |-> Len(s[k])]

LEMMA OneLengthMore ==
  ASSUME NEW S, NEW s \in Seq(Seq(S)), NEW a \in Seq(S)
  PROVE  Lengths(Append(s, a)) = Append(Lengths(s), Len(a))
<1> DEFINE one == Lengths(Append(s, a))
           two == Append(Lengths(s), Len(a))
           t == Append(s, a)
<1>1. /\ t \in Seq(Seq(S)) /\ Len(t) = Len(s) + 1
      /\ \A k \in 1 .. Len(s) : t[k] = s[k]
      /\ t[Len(s) + 1] = a
      /\ Len(s) \in Nat /\ Len(a) \in Nat
  BY AppendProperties
<1> HIDE DEF t
<1>2. /\ Lengths(t) \in Seq(Nat) /\ Len(Lengths(t)) = Len(t)
      /\ \A k \in 1 .. Len(t) : Lengths(t)[k] = Len(t[k])
  <2>1. \A k \in 1 .. Len(t) : Len(t[k]) \in Nat
    BY <1>1
  <2> QED BY <1>1, <2>1 DEF Lengths
<1>3. /\ Lengths(s) \in Seq(Nat) /\ Len(Lengths(s)) = Len(s)
      /\ \A k \in 1 .. Len(s) : Lengths(s)[k] = Len(s[k])
  <2>1. \A k \in 1 .. Len(s) : Len(s[k]) \in Nat
    OBVIOUS
  <2> QED BY <1>1, <2>1 DEF Lengths
<1>4. /\ two \in Seq(Nat) /\ Len(two) = Len(s) + 1
      /\ \A k \in 1 .. Len(s) : two[k] = Lengths(s)[k]
      /\ two[Len(s) + 1] = Len(a)
  BY <1>1, <1>3, AppendProperties
<1>5. /\ one \in Seq(Nat) /\ Len(one) = Len(s) + 1
      /\ \A k \in 1 .. Len(t) : one[k] = Len(t[k])
  BY <1>1, <1>2 DEF t
<1> HIDE DEF one, two
<1>6. \A k \in 1 .. Len(s) + 1 : one[k] = two[k]
  <2>1. \A k \in 1 .. Len(s) + 1 : k = Len(s) + 1 \/ k \in 1 .. Len(s)
    BY <1>1
  <2> QED BY <2>1, <1>1, <1>3, <1>4, <1>5
<1>7. one = two
  BY <1>4, <1>5, <1>6, SeqEqual
<1> QED BY <1>7 DEF one, two

(* What a step does to the variables of the turns: nothing, but for the    *)
(* packet that arrives, the command taken from usb_cmd_queue and the       *)
(* packets of an answer.                                                   *)
LEMMA TurnsAlone ==
  [Next]_vars => \/ ReadComplete \/ ReceiveCommand \/ SendPacket
                 \/ UNCHANGED <<sent, processed, replies>>
<1> SUFFICES ASSUME [Next]_vars
             PROVE  \/ ReadComplete \/ ReceiveCommand \/ SendPacket
                    \/ UNCHANGED <<sent, processed, replies>>
  OBVIOUS
<1> USE DEF driver, usbThread, ring, reader, process
<1>1. CASE \/ Configured \/ Request \/ RequestComplete \/ Detach \/ Suspend
           \/ Resume \/ OpenUsb \/ TakeRead \/ PostRead
  BY <1>1 DEF Configured, Request, RequestComplete, Detach, Suspend, Resume,
     OpenUsb, TakeRead, PostRead
<1>2. CASE WriteData \/ StoreHalf \/ CheckFull \/ DropOldest \/ GiveData
  BY <1>2 DEF WriteData, StoreHalf, CheckFull, DropOldest, GiveData
<1>3. CASE CleanBuf \/ TakeData \/ CopyHalf \/ AdvanceRead \/ ParseData
  BY <1>3 DEF CleanBuf, TakeData, CopyHalf, AdvanceRead, ParseData
<1>4. CASE \/ QueueCommand \/ FormatAnswer \/ Transmit \/ Return
           \/ UNCHANGED vars
  BY <1>4 DEF QueueCommand, FormatAnswer, Transmit, Return, vars
<1> QED BY <1>1, <1>2, <1>3, <1>4, Cases

(* Every step of the firmware is a step of the turns or leaves them as     *)
(* they are: the packet that arrives is Ask, the command taken from        *)
(* usb_cmd_queue is Process, the last packet of the answer is Answer.      *)
LEMMA TurnsStep ==
  ASSUME Patience = "rest", MaxUnplug = 0,
         \A k \in Msgs : ReplyPackets[k] >= 1
  PROVE  TypeOK /\ RestInv /\ TurnInv /\ [Next]_vars
           => [Turns!Next]_(Turns!vars)
<1> SUFFICES ASSUME TypeOK, RestInv, TurnInv, [Next]_vars
             PROVE  Turns!Next \/ UNCHANGED <<sent, processed, Lengths(replies)>>
  BY DEF Turns!vars, Lengths
<1> USE DEF driver, usbThread, ring, reader, process, NoRequest, Reading
<1>a. /\ sent \in Nat /\ tx \in Tx /\ (sent > 0 => sent \in Msgs)
      /\ unplugs = 0
  <2>1. sent \in 0 .. MaxMsg /\ unplugs \in 0 .. MaxUnplug /\ MaxMsg \in Nat
    BY PipelineAssumption DEF TypeOK, Ids
  <2> QED BY <2>1, TypeParts DEF ProcessOK, Msgs
<1>b. NoTx.src = "none"
  BY DEF NoTx
<1>c. InUsbThread \/ InReadBuffer \/ InProcess \/ InAnswer \/ Quiet
  BY <1>a DEF RestInv
<1>d. HostReady => AtRest
  BY PipelineAssumption DEF HostReady
<1>e. \A k \in Msgs : ReplyPackets[k] \in Nat /\ ReplyPackets[k] >= 1
  BY PipelineAssumption
<1>f. Len(Lengths(replies)) = Len(replies)
  BY DEF Lengths, TypeOK
<1>1. CASE ReadComplete
  <2>1. /\ tx = NoTx /\ ppc = "receive" /\ sent' = sent + 1 /\ AtRest
        /\ UNCHANGED <<processed, replies>>
    BY <1>1, <1>d DEF ReadComplete, AtRest, ThreadsWait
  <2>2. processed = Whole(sent)
    BY <2>1, <1>c DEF AtRest, ThreadsWait, InUsbThread, InReadBuffer,
       InProcess, InAnswer, Quiet, Copied, Drained
  <2>3. Len(replies) = sent
    BY <2>1, <2>2, <1>a, <1>b, WholeLength DEF TurnInv, AnswerDue
  <2>4. UNCHANGED Lengths(replies)
    BY <2>1 DEF Lengths
  <2> QED BY <1>f, <2>1, <2>3, <2>4 DEF Turns!Next, Turns!Ask, Lengths
<1>2. CASE ReceiveCommand
  <2>1. /\ processed = Whole(sent - 1) /\ sent > 0
        /\ cmdQueue = <<Message(sent)>>
    BY <1>2, <1>c DEF ReceiveCommand, InUsbThread, InReadBuffer,
       InProcess, InAnswer, Quiet, Copied, Drained
  <2>2. processed' = Append(processed, Message(sent))
    <3>1. Head(cmdQueue) = Message(sent)
      BY <2>1
    <3> QED BY <1>2, <3>1 DEF ReceiveCommand
  <2>3. Len(processed) < sent
    BY <2>1, <1>a, WholeLength
  <2>4. UNCHANGED <<sent, Lengths(replies)>>
    BY <1>2 DEF ReceiveCommand, Lengths
  <2> QED BY <2>2, <2>3, <2>4
          DEF Turns!Next, Turns!Process, Turns!Command, Message, Lengths
<1>3. CASE SendPacket /\ tx.src = "reply" /\ ~(tx.left > 1)
  <2>1. UNCHANGED <<sent, processed>>
        /\ replies' = Append(replies, Append(tx.seen, printfBuf))
    BY <1>3 DEF SendPacket
  <2>2. /\ processed = Whole(sent) /\ sent \in Msgs
    BY <1>a, <1>b, <1>c, <1>3 DEF SendPacket, InUsbThread, InReadBuffer,
       InProcess, InAnswer, Quiet, Copied, Drained
  <2> DEFINE R == ReplyPackets[sent]
             answer == Append(tx.seen, printfBuf)
             S == Command \cup {<< >>}
  <2>3. /\ R \in Nat /\ tx.left \in 1 .. R
        /\ Len(tx.seen) = R - tx.left /\ Len(replies) = sent - 1
    BY <1>a, <1>e, <1>3, <2>2 DEF TurnInv, AnswerDue
  <2>4. answer \in Seq(S) /\ Len(answer) = Len(tx.seen) + 1
        /\ replies \in Seq(Seq(S))
    <3> HIDE DEF S
    <3>1. tx.seen \in Seq(S) /\ printfBuf \in S /\ replies \in Seq(Seq(S))
      BY <1>a DEF TypeOK, Tx, S
    <3> QED BY <3>1
  <2>5. Len(answer) = R
    <3> HIDE DEF R, answer
    <3> QED BY <1>3, <2>3, <2>4
  <2>6. Lengths(replies') = Append(Lengths(replies), R)
    <3> HIDE DEF R, answer, S
    <3>1. Lengths(Append(replies, answer)) = Append(Lengths(replies), Len(answer))
      BY <2>4, OneLengthMore
    <3> QED BY <2>1, <2>5, <3>1 DEF answer
  <2>7. Len(Lengths(replies)) < Len(processed)
    BY <1>a, <1>f, <2>2, <2>3, WholeLength
  <2> QED BY <2>1, <2>6, <2>7 DEF Turns!Next, Turns!Answer, Lengths
<1>4. CASE SendPacket /\ ~(tx.src = "reply" /\ ~(tx.left > 1))
  BY <1>4 DEF SendPacket, Lengths
<1>5. CASE UNCHANGED <<sent, processed, replies>>
  BY <1>5 DEF Lengths
<1> QED BY <1>1, <1>2, <1>3, <1>4, <1>5, TurnsAlone

(* For a host that waits until the device is at rest, on a bus that does   *)
(* not fail, the three threads, their two semaphores, the ring buffer, the *)
(* queue and the driver together are nothing but turns of command and      *)
(* answer: each command is processed once, as it was sent, and answered by *)
(* as many packets as its answer has before the next one comes.  The ring  *)
(* has to hold a message, each answer has to fit the buffer of             *)
(* USB_CDC_printf.  Nothing is said of what the packets hold.              *)
THEOREM TakesTurns ==
  ASSUME Patience = "rest", RingSize >= 3, MaxUnplug = 0,
         \A k \in Msgs : ReplyPackets[k] >= 1
  PROVE  Spec => ImplementsTurns
<1>1. Init => Turns!Init
  <2> SUFFICES ASSUME Init PROVE Turns!Init
    OBVIOUS
  <2>1. Len(replies) = 0
    BY DEF Init
  <2>2. [k \in 1 .. Len(replies) |-> Len(replies[k])] = << >>
    BY <2>1
  <2> QED BY <2>2 DEF Init, Turns!Init
<1>2. Spec => []TurnInv
  BY TurnInit, TurnStep, RestCorrect, TypeCorrect, PTL DEF Spec
<1> QED BY <1>1, <1>2, TurnsStep, RestCorrect, TypeCorrect, PTL
        DEF Spec, ImplementsTurns, Turns!Spec
=============================================================================
