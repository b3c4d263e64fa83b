--------------------------- MODULE RingBuf_proofs ---------------------------
(***************************************************************************)
(* Proofs about RingBuf for every ring size, every chunk length and every  *)
(* set of read lengths.                                                    *)
(***************************************************************************)
EXTENDS RingBuf, Lemmas, TLAPS

-----------------------------------------------------------------------------
(* The modulo in ringBuf.c is a wrap to 0 at the last slot.                *)
LEMMA NextSlotWraps ==
  \A s \in Slots : NextSlot(s) = IF s = Size - 1 THEN 0 ELSE s + 1
<1> SUFFICES ASSUME NEW s \in Slots
             PROVE  NextSlot(s) = IF s = Size - 1 THEN 0 ELSE s + 1
  OBVIOUS
<1>1. s \in Nat /\ Size \in Nat /\ Size >= 2 /\ s <= Size - 1
  BY SizeAssumption DEF Slots
<1>2. CASE s = Size - 1
  <2>1. s + 1 = Size
    BY <1>1, <1>2
  <2>2. Size % Size = 0
    BY <1>1
  <2> QED
    BY <1>2, <2>1, <2>2 DEF NextSlot
<1>3. CASE s # Size - 1
  <2>1. s + 1 \in 0 .. Size - 1
    BY <1>1, <1>3
  <2>2. (s + 1) % Size = s + 1
    BY <1>1, <2>1
  <2> QED
    BY <1>3, <2>2 DEF NextSlot
<1> QED
  BY <1>2, <1>3

(* An index that was advanced still names a slot.                          *)
LEMMA NextSlotInRing == \A s \in Slots : NextSlot(s) \in Slots
  BY NextSlotWraps, SizeAssumption DEF Slots

-----------------------------------------------------------------------------
(* The types, with the count of bytes still to write.                      *)
TypeInv == TypeOK /\ WriterInv

(* The types hold after initRingBuffer.                                    *)
LEMMA TypeInit == Init => TypeInv
<1> SUFFICES ASSUME Init
             PROVE  TypeInv
  OBVIOUS
<1> USE SizeAssumption, BoundsAssumption DEF Slots, Bytes
<1>1. buffer \in [Slots -> Bytes]
  BY DEF Init
<1>2. out \in Seq(Bytes)
  BY DEF Init
<1>3. 0 \in Slots /\ 0 \in Bytes /\ 0 + 0 <= MaxBytes
  OBVIOUS
<1>4. WriterInv
  BY <1>3 DEF Init, WriterInv
<1> QED
  BY <1>1, <1>2, <1>3, <1>4 DEF Init, TypeInv, TypeOK, WPcs, RPcs

(* Every load and store of the two threads keeps the types.                *)
LEMMA TypeStep == TypeInv /\ [Next]_vars => TypeInv'
<1> SUFFICES ASSUME TypeInv, [Next]_vars
             PROVE  TypeInv'
  OBVIOUS
<1> USE SizeAssumption, BoundsAssumption
    DEF TypeInv, TypeOK, WriterInv, Bytes, WPcs, RPcs
<1>1. CASE WriteData
  BY <1>1 DEF WriteData, NextByte, shared, reader
<1>2. CASE StoreByte
  <2>1. written + 1 \in 0 .. MaxBytes
    BY <1>2 DEF StoreByte
  <2>2. buffer' \in [Slots -> 0 .. MaxBytes]
    BY <1>2, <2>1 DEF StoreByte
  <2> QED
    BY <1>2, <2>2 DEF StoreByte, reader
<1>3. CASE AdvanceWrite
  <2>1. writeIndex' \in Slots
    BY <1>3, NextSlotInRing DEF AdvanceWrite
  <2>2. /\ left' \in Nat /\ written' \in 0 .. MaxBytes
        /\ written' + left' <= MaxBytes
    BY <1>3 DEF AdvanceWrite
  <2> QED
    BY <1>3, <2>1, <2>2 DEF AdvanceWrite, reader
<1>4. CASE CheckFull
  <2>1. CASE writeIndex = readIndex
    BY <1>4, <2>1 DEF CheckFull, shared, reader
  <2>2. CASE writeIndex # readIndex
    BY <1>4, <2>2 DEF CheckFull, NextByte, shared, reader
  <2> QED
    BY <2>1, <2>2
<1>5. CASE ReloadRead
  BY <1>5 DEF ReloadRead, shared, reader
<1>6. CASE DropOldest
  BY <1>6, NextSlotInRing DEF DropOldest, NextByte, reader
<1>7. CASE GiveSem
  BY <1>7 DEF GiveSem, shared, reader
<1>8. CASE ReadData
  BY <1>8 DEF ReadData, shared, writer
<1>9. CASE TestRoom
  BY <1>9 DEF TestRoom, shared, writer
<1>10. CASE TestEmpty
  BY <1>10 DEF TestEmpty, shared, writer
<1>11. CASE CopyByte
  <2>1. rtmp' \in Slots
    BY <1>11 DEF CopyByte
  <2>2. buffer[rtmp'] \in 0 .. MaxBytes
    BY <2>1
  <2>3. out' \in Seq(0 .. MaxBytes)
    BY <1>11, <2>2 DEF CopyByte
  <2> QED
    BY <1>11, <2>1, <2>3 DEF CopyByte, shared, writer
<1>12. CASE LoadRead
  BY <1>12 DEF LoadRead, shared, writer
<1>13. CASE AdvanceRead
  BY <1>13, NextSlotInRing DEF AdvanceRead, writer
<1>14. CASE UNCHANGED vars
  BY <1>14 DEF vars
<1> QED
  BY <1>1, <1>2, <1>3, <1>4, <1>5, <1>6, <1>7, <1>8, <1>9, <1>10,
     <1>11, <1>12, <1>13, <1>14 DEF Next, WriterStep, ReaderStep

(* Whatever the two threads do to readIndex, both indexes name a slot of   *)
(* ring_buffer.buffer: no access of ringBuf.c is outside the array.        *)
THEOREM TypeCorrect == Spec => []TypeOK
<1>1. TypeInv => TypeOK
  BY DEF TypeInv
<1> QED
  BY <1>1, TypeInit, TypeStep, PTL DEF Spec

-----------------------------------------------------------------------------
(* Arithmetic of the ring without a modulo: what Place does.               *)
LEMMA PlaceInRing == \A r \in Slots, j \in 0 .. Size : Place(r, j) \in Slots
  BY SizeAssumption DEF Place, Slots

(* One slot on from a place is the next place.                             *)
LEMMA PlaceAfter == \A r \in Slots, j \in 0 .. Size - 1 :
                       NextSlot(Place(r, j)) = Place(r, j + 1)
  BY SizeAssumption, NextSlotWraps DEF Place, Slots

(* Places counted from the next slot are one further on.                   *)
LEMMA PlaceShift == \A r \in Slots, j \in 0 .. Size - 1 :
                       Place(NextSlot(r), j) = Place(r, j + 1)
  BY SizeAssumption, NextSlotWraps DEF Place, Slots

(* Two places less than a turn apart are two slots.                        *)
LEMMA PlaceDistinct == \A r \in Slots, j \in Slots, k \in Slots :
                          j # k => Place(r, j) # Place(r, k)
  BY SizeAssumption DEF Place, Slots

(* The indexes meet when the ring holds nothing or all its slots.          *)
LEMMA PlaceMeets == \A r \in Slots, d \in 0 .. Size :
                       Place(r, d) = r <=> d = 0 \/ d = Size
  BY SizeAssumption DEF Place, Slots

-----------------------------------------------------------------------------
(* The inductive invariant.  The indexes alone do not say how many bytes   *)
(* the ring holds (equal indexes are an empty ring or a full one): the     *)
(* invariant adds Held, the distance from readIndex to writeIndex counted  *)
(* in bytes, and says what each slot between the two holds.                *)
LEMMA IndInit == Init => IInv
<1> SUFFICES ASSUME Init
             PROVE  IInv
  OBVIOUS
<1>1. TypeOK /\ WriterInv
  BY TypeInit DEF TypeInv
<1>2. Taken = 0 /\ Held = 0 /\ Stored = 0
  <2>1. Len(out) = 0 /\ written = 0 /\ wpc = "idle" /\ rpc = "wait"
    BY DEF Init
  <2>2. Taken = 0
    BY <2>1 DEF Taken
  <2>3. Held = 0
    BY <2>1, <2>2 DEF Held
  <2>4. Stored = 0
    BY <2>1 DEF Stored
  <2> QED
    BY <2>2, <2>3, <2>4
<1>3. OrderInv
  BY <1>2, SizeAssumption DEF OrderInv, Init, Place, Slots
<1>4. ReaderInv
  BY DEF ReaderInv, Init
<1>5. SlotInv
  BY <1>2 DEF SlotInv, Init, Slots
<1> QED
  BY <1>1, <1>3, <1>4, <1>5 DEF IInv

(* Every slot holds 0 or the number of a byte that was stored.             *)
LEMMA SlotStep == TypeInv /\ TypeInv' /\ SlotInv /\ [Next]_vars => SlotInv'
<1> SUFFICES ASSUME TypeInv, TypeInv', SlotInv, [Next]_vars
             PROVE  SlotInv'
  OBVIOUS
<1>0. written \in Nat /\ buffer \in [Slots -> Bytes] /\ writeIndex \in Slots
  BY BoundsAssumption DEF TypeInv, TypeOK, Bytes
<1>1. CASE StoreByte
  <2>1. Stored = written /\ Stored' = written + 1
    BY <1>1 DEF StoreByte, Stored
  <2>2. ASSUME NEW s \in Slots
        PROVE  buffer'[s] \in 0 .. written + 1
    BY <1>0, <1>1, <2>1, <2>2 DEF StoreByte, SlotInv
  <2> QED
    BY <2>1, <2>2 DEF SlotInv
<1>2. CASE AdvanceWrite
  <2>1. Stored' = Stored /\ buffer' = buffer
    BY <1>2 DEF AdvanceWrite, Stored
  <2> QED
    BY <2>1 DEF SlotInv
<1>3. CASE WriteData \/ CheckFull \/ ReloadRead \/ DropOldest \/ GiveSem
  <2>1. buffer' = buffer /\ written' = written
    BY <1>3 DEF WriteData, CheckFull, ReloadRead, DropOldest, GiveSem, shared
  <2>2. wpc # "advance" /\ wpc' # "advance"
    BY <1>3 DEF WriteData, CheckFull, ReloadRead, DropOldest, GiveSem,
                NextByte
  <2> QED
    BY <2>1, <2>2 DEF SlotInv, Stored
<1>4. CASE ReaderStep \/ UNCHANGED vars
  <2>1. buffer' = buffer /\ written' = written /\ wpc' = wpc
    BY <1>4 DEF ReaderStep, ReadData, TestRoom, TestEmpty, CopyByte,
                LoadRead, AdvanceRead, shared, writer, vars
  <2> QED
    BY <2>1 DEF SlotInv, Stored
<1> QED
  BY <1>1, <1>2, <1>3, <1>4 DEF Next, WriterStep

(* What the types say of the numbers the order is about.                   *)
LEMMA Ranges ==
  TypeOK => /\ writeIndex \in Slots /\ readIndex \in Slots /\ rtmp \in Slots
            /\ buffer \in [Slots -> Bytes] /\ out \in Seq(Bytes)
            /\ written \in Nat /\ Len(out) \in Nat /\ Taken \in Int
            /\ Size \in Nat /\ Size >= 2
<1> SUFFICES ASSUME TypeOK
             PROVE  /\ writeIndex \in Slots /\ readIndex \in Slots
                    /\ rtmp \in Slots
                    /\ buffer \in [Slots -> Bytes] /\ out \in Seq(Bytes)
                    /\ written \in Nat /\ Len(out) \in Nat /\ Taken \in Int
                    /\ Size \in Nat /\ Size >= 2
  OBVIOUS
<1>1. /\ writeIndex \in Slots /\ readIndex \in Slots /\ rtmp \in Slots
      /\ buffer \in [Slots -> Bytes] /\ out \in Seq(Bytes)
      /\ written \in Bytes
  BY DEF TypeOK
<1>2. written \in Nat
  BY <1>1, BoundsAssumption DEF Bytes
<1>3. Len(out) \in Nat
  BY <1>1
<1>4. Taken \in Int
  BY <1>3 DEF Taken
<1> QED
  BY <1>1, <1>2, <1>3, <1>4, SizeAssumption

(* The order part: one step per action, with dropped' = FALSE.             *)
LEMMA OrderStep ==
  TypeInv /\ TypeInv' /\ OrderInv /\ ReaderInv /\ [Next]_vars
    => OrderInv' /\ ReaderInv'
<1> SUFFICES ASSUME TypeInv, TypeInv', OrderInv, ReaderInv, [Next]_vars,
                    ~dropped'
             PROVE  OrderInv' /\ ReaderInv'
  BY DEF OrderInv, ReaderInv
<1>0. ~dropped
  BY DEF Next, WriterStep, ReaderStep, WriteData, StoreByte, AdvanceWrite,
         CheckFull, ReloadRead, DropOldest, GiveSem, ReadData, TestRoom,
         TestEmpty, CopyByte, LoadRead, AdvanceRead, vars
<1>1. /\ writeIndex \in Slots /\ readIndex \in Slots /\ rtmp \in Slots
      /\ buffer \in [Slots -> Bytes] /\ out \in Seq(Bytes)
      /\ written \in Nat /\ Len(out) \in Nat /\ Taken \in Int
      /\ Size \in Nat /\ Size >= 2
  BY Ranges DEF TypeInv
<1>2. /\ wpc \notin {"reload", "bump"}
      /\ Taken >= 0 /\ Held \in 0 .. Size
      /\ Held = Size => wpc = "check"
      /\ writeIndex = Place(readIndex, Held)
      /\ \A j \in Slots : j < Stored - Taken
                            => buffer[Place(readIndex, j)] = Taken + j + 1
      /\ \A k \in 1 .. Len(out) : out[k] = k
  BY <1>0 DEF OrderInv
<1>3. /\ rpc \in {"cmpWrite", "get", "reload", "advance"} => rtmp = readIndex
      /\ rpc \in {"get", "reload", "advance"} => Held > 0
      /\ rpc = "cmpRead" /\ rtmp # readIndex => Held > 0
  BY <1>0 DEF ReaderInv
(* The counters are unchanged by a step that leaves these alone.           *)
<1>4. ASSUME UNCHANGED <<buffer, writeIndex, readIndex, written, out, rpc,
                         rtmp>>,
             wpc # "advance" <=> wpc' # "advance",
             wpc' \notin {"reload", "bump"}, Held # Size
      PROVE  OrderInv' /\ ReaderInv'
  <2>1. Taken' = Taken /\ Held' = Held /\ Stored' = Stored
    BY <1>4 DEF Taken, Held, Stored
  <2> QED
    BY <1>2, <1>3, <1>4, <2>1 DEF OrderInv, ReaderInv, Place
<1>5. CASE WriteData
  BY <1>2, <1>4, <1>5 DEF WriteData, NextByte, shared, reader
<1>6. CASE GiveSem
  BY <1>2, <1>4, <1>6 DEF GiveSem, shared, reader
<1>7. CASE CheckFull
  <2>1. writeIndex # readIndex /\ Held # Size
    BY <1>0, <1>1, <1>2, <1>7, PlaceMeets DEF CheckFull
  <2> QED
    BY <1>4, <1>7, <2>1 DEF CheckFull, NextByte, shared, reader
<1>8. CASE ReloadRead \/ DropOldest
  BY <1>2, <1>8 DEF ReloadRead, DropOldest
<1>9. CASE UNCHANGED vars
  <2>1. UNCHANGED <<Taken, Held, Stored>>
    BY <1>9 DEF vars, Taken, Held, Stored
  <2> QED
    BY <1>2, <1>3, <1>9, <2>1 DEF vars, OrderInv, ReaderInv, Place
<1>10. CASE StoreByte
  <2>1. /\ UNCHANGED <<writeIndex, readIndex, rpc, rtmp, out, written>>
        /\ buffer' = [buffer EXCEPT ![writeIndex] = written + 1]
        /\ wpc = "store" /\ wpc' = "advance"
    BY <1>10 DEF StoreByte, reader
  <2>2. Taken' = Taken /\ Held' = Held /\ Stored' = Stored + 1
    BY <1>1, <2>1 DEF Taken, Held, Stored
  <2>3. Held \in Slots /\ Stored - Taken = Held
    BY <1>1, <1>2, <2>1 DEF Slots, Held, Stored
  <2>4. ASSUME NEW j \in Slots, j < Held + 1
        PROVE  buffer'[Place(readIndex, j)] = Taken + j + 1
    <3>1. CASE j = Held
      BY <1>1, <1>2, <2>1, <3>1 DEF Held
    <3>2. CASE j # Held
      <4>1. Place(readIndex, j) # writeIndex
        BY <1>1, <1>2, <2>3, <3>2, PlaceDistinct
      <4>2. buffer'[Place(readIndex, j)] = buffer[Place(readIndex, j)]
        BY <1>1, <2>1, <4>1, PlaceInRing DEF Slots
      <4>3. j < Held
        BY <2>3, <2>4, <3>2 DEF Slots
      <4> QED
        BY <1>2, <2>3, <4>2, <4>3
    <3> QED
      BY <3>1, <3>2
  <2>5. OrderInv'
    <3>1. (Stored - Taken)' = Held + 1
      BY <1>1, <2>2, <2>3 DEF Stored
    <3>2. Place(readIndex, Held)' = Place(readIndex, Held)
      BY <2>1, <2>2 DEF Place
    <3>3. \A j \in Slots : j < Held + 1
             => buffer'[Place(readIndex, j)'] = Taken' + j + 1
      BY <2>1, <2>2, <2>4 DEF Place
    <3> QED
      BY <1>1, <1>2, <2>1, <2>2, <2>3, <3>1, <3>2, <3>3 DEF OrderInv, Slots
  <2> QED
    BY <1>3, <2>1, <2>2, <2>5 DEF ReaderInv
<1>11. CASE AdvanceWrite
  <2>1. /\ UNCHANGED <<buffer, readIndex, rpc, rtmp, out>>
        /\ writeIndex' = NextSlot(writeIndex) /\ written' = written + 1
        /\ wpc = "advance" /\ wpc' = "check"
    BY <1>11 DEF AdvanceWrite, reader
  <2>2. Taken' = Taken /\ Held' = Held + 1 /\ Stored' = Stored
    BY <1>1, <2>1 DEF Taken, Held, Stored
  <2>3. Held \in 0 .. Size - 1
    BY <1>1, <1>2, <2>1
  <2>4. writeIndex' = Place(readIndex, Held + 1)
    BY <1>1, <1>2, <2>1, <2>3, PlaceAfter
  <2>5. OrderInv'
    BY <1>1, <1>2, <2>1, <2>2, <2>3, <2>4 DEF OrderInv, Place
  <2> QED
    BY <1>3, <2>1, <2>2, <2>3, <2>5 DEF ReaderInv
(* A step of the reader that moves no byte and no index of the ring.       *)
<1>12. ASSUME UNCHANGED <<buffer, writeIndex, readIndex, written, out, wpc>>,
              Taken' = Taken
       PROVE  OrderInv' /\ Held' = Held
  <2>1. Held' = Held /\ Stored' = Stored
    BY <1>12 DEF Held, Stored
  <2> QED
    BY <1>2, <1>12, <2>1 DEF OrderInv, Place
<1>13. CASE ReadData
  <2>1. Taken' = Taken
    BY <1>13 DEF ReadData, Taken
  <2> QED
    BY <1>12, <1>13, <2>1 DEF ReadData, ReaderInv, shared, writer
<1>14. CASE TestRoom
  <2>1. Taken' = Taken
    BY <1>14 DEF TestRoom, Taken
  <2>2. OrderInv' /\ Held' = Held /\ readIndex' = readIndex
    BY <1>12, <1>14, <2>1 DEF TestRoom, shared, writer
  <2>3. writeIndex # readIndex => Held > 0
    BY <1>1, <1>2, PlaceMeets
  <2> QED
    BY <1>14, <2>2, <2>3 DEF TestRoom, ReaderInv
<1>15. CASE TestEmpty
  <2>1. Taken' = Taken
    BY <1>15 DEF TestEmpty, Taken
  <2>2. OrderInv' /\ Held' = Held /\ readIndex' = readIndex
    BY <1>12, <1>15, <2>1 DEF TestEmpty, shared, writer
  <2>3. writeIndex # readIndex => Held > 0
    BY <1>1, <1>2, PlaceMeets
  <2>4. CASE rpc = "cmpWrite"
    BY <1>3, <1>15, <2>2, <2>3, <2>4 DEF TestEmpty, ReaderInv
  <2>5. CASE rpc = "cmpRead"
    BY <1>3, <1>15, <2>2, <2>5 DEF TestEmpty, ReaderInv
  <2> QED
    BY <1>15, <2>4, <2>5 DEF TestEmpty
<1>16. CASE LoadRead
  <2>1. Taken' = Taken /\ rtmp' = readIndex
    BY <1>3, <1>16 DEF LoadRead, Taken
  <2> QED
    BY <1>3, <1>12, <1>16, <2>1 DEF LoadRead, ReaderInv, shared, writer
<1>17. CASE CopyByte
  <2>1. /\ UNCHANGED <<buffer, writeIndex, readIndex, written, wpc>>
        /\ rpc = "get" /\ rpc' = "reload" /\ rtmp' = readIndex
        /\ out' = Append(out, buffer[readIndex])
    BY <1>3, <1>17 DEF CopyByte, shared, writer
  <2>2. Held > 0 /\ Taken = Len(out)
    BY <1>3, <2>1 DEF Taken
  <2>3. buffer[readIndex] = Len(out) + 1
    <3>1. Place(readIndex, 0) = readIndex /\ 0 \in Slots
      BY <1>1 DEF Place, Slots
    <3>2. 0 < Stored - Taken
      BY <1>1, <2>2 DEF Stored, Held
    <3> QED
      BY <1>1, <1>2, <2>2, <3>1, <3>2
  <2>4. Len(out') = Len(out) + 1 /\ \A k \in 1 .. Len(out') : out'[k] = k
    BY <1>1, <1>2, <2>1, <2>3
  <2>5. Taken' = Taken /\ Held' = Held /\ Stored' = Stored
    BY <1>1, <2>1, <2>2, <2>4 DEF Taken, Held, Stored
  <2>6. OrderInv'
    BY <1>2, <2>1, <2>4, <2>5 DEF OrderInv, Place
  <2> QED
    BY <2>1, <2>2, <2>5, <2>6 DEF ReaderInv
<1>18. CASE AdvanceRead
  <2>1. /\ UNCHANGED <<buffer, writeIndex, written, wpc, out>>
        /\ rpc = "advance" /\ rpc' = "test"
        /\ readIndex' = NextSlot(readIndex)
    BY <1>3, <1>18 DEF AdvanceRead, writer
  <2>2. Taken' = Taken + 1 /\ Held' = Held - 1 /\ Stored' = Stored
    BY <1>1, <2>1 DEF Taken, Held, Stored
  <2>3. Held > 0
    BY <1>3, <2>1
  <2>4. Place(readIndex', Held - 1) = Place(readIndex, Held)
    BY <1>1, <1>2, <2>1, <2>3, PlaceShift
  <2>5. ASSUME NEW j \in Slots, j < Stored - (Taken + 1)
        PROVE  buffer[Place(readIndex', j)] = (Taken + 1) + j + 1
    <3>1. Stored - Taken <= Size
      BY <1>1, <1>2, <2>1 DEF Stored, Held
    <3>2. j + 1 \in Slots /\ j + 1 < Stored - Taken
      BY <1>1, <2>5, <3>1 DEF Slots, Stored
    <3>3. Place(readIndex', j) = Place(readIndex, j + 1)
      BY <1>1, <2>1, PlaceShift DEF Slots
    <3> QED
      BY <1>1, <1>2, <3>2, <3>3 DEF Slots
  <2>6. OrderInv'
    <3>1. writeIndex' = Place(readIndex', Held')
      BY <1>2, <2>1, <2>2, <2>4
    <3>2. Place(readIndex', Held') = Place(readIndex, Held)'
      BY DEF Place
    <3> QED
      BY <1>1, <1>2, <2>1, <2>2, <2>3, <2>5, <3>1, <3>2 DEF OrderInv, Place
  <2> QED
    BY <2>1, <2>6 DEF ReaderInv
<1> QED
  BY <1>5, <1>6, <1>7, <1>8, <1>9, <1>10, <1>11, <1>13, <1>14, <1>15, <1>16,
     <1>17, <1>18 DEF Next, WriterStep, ReaderStep

(* IInv is inductive: whatever step each thread is at, until the first     *)
(* drop the slots from readIndex on hold exactly the undelivered bytes, in *)
(* order, and the reader's copy of readIndex is the current one.           *)
THEOREM IndInvariant == Spec => []IInv
<1>1. IInv /\ [Next]_vars => IInv'
  <2>1. IInv => TypeInv /\ OrderInv /\ ReaderInv /\ SlotInv
    BY DEF IInv, TypeInv
  <2>2. TypeInv' /\ OrderInv' /\ ReaderInv' /\ SlotInv' => IInv'
    BY DEF IInv, TypeInv
  <2> QED
    BY <2>1, <2>2, TypeStep, SlotStep, OrderStep
<1> QED
  BY <1>1, IndInit, PTL DEF Spec

(* Two threads, no lock, one index stored by both: readData still returns  *)
(* the bytes in the order they were written, until writeData drops one.    *)
THEOREM FifoCorrect == Spec => []FifoUntilDrop
<1>1. IInv => FifoUntilDrop
  BY DEF IInv, OrderInv, FifoUntilDrop
<1> QED
  BY <1>1, IndInvariant, PTL

-----------------------------------------------------------------------------
(* RingBuf implements ByteFifo: every step is a step of the FIFO or leaves *)
(* it alone.                                                               *)
LEMMA FifoStep ==
  IInv /\ IInv' /\ [Next]_vars => [Fifo!Next]_Fifo!vars
<1> SUFFICES ASSUME IInv, IInv', [Next]_vars
             PROVE  Fifo!Next \/ UNCHANGED Fifo!vars
  OBVIOUS
<1>1. /\ TypeOK /\ Len(out) \in Nat /\ written \in Nat
      /\ readIndex \in Slots /\ rtmp \in Slots /\ out \in Seq(Bytes)
      /\ Size \in Nat /\ Size >= 2
  BY Ranges DEF IInv
<1>2. CASE StoreByte
  <2>1. Stored' = Stored + 1 /\ out' = out /\ dropped' = dropped
    BY <1>1, <1>2 DEF StoreByte, Stored
  <2> QED
    BY <2>1 DEF Fifo!Next, Fifo!Put
<1>3. CASE AdvanceWrite
  <2>1. Stored' = Stored /\ out' = out /\ dropped' = dropped
    BY <1>3 DEF AdvanceWrite, Stored
  <2> QED
    BY <2>1 DEF Fifo!vars
<1>4. CASE CheckFull
  <2>1. Stored = written /\ Stored' = Stored /\ out' = out
    BY <1>4 DEF CheckFull, Stored, NextByte
  <2>2. CASE dropped' = dropped
    BY <2>1, <2>2 DEF Fifo!vars
  <2>3. CASE dropped' # dropped
    <3>1. writeIndex = readIndex /\ dropped' = TRUE /\ ~dropped
      BY <1>1, <1>4, <2>3 DEF CheckFull, TypeOK
    <3>2. /\ Held \in 0 .. Size /\ writeIndex = Place(readIndex, Held)
          /\ Taken >= 0
          /\ rpc \in {"reload", "advance"} => Held > 0
      BY <3>1 DEF IInv, OrderInv, ReaderInv
    <3>3. Held = 0 \/ Held = Size
      BY <1>1, <3>1, <3>2, PlaceMeets
    <3>4. Held = 0 => written = Len(out)
      BY <1>1, <3>2 DEF Held, Taken
    <3>5. Held = Size => written >= Len(out) + (Size - 1)
      BY <1>1, <3>2 DEF Held, Taken
    <3> QED
      BY <2>1, <3>1, <3>3, <3>4, <3>5 DEF Fifo!Next, Fifo!Break
  <2> QED
    BY <2>2, <2>3
<1>5. CASE CopyByte
  <2>1. /\ Stored' = Stored /\ dropped' = dropped /\ rpc = "get"
        /\ rtmp' \in Slots /\ out' = Append(out, buffer[rtmp'])
    BY <1>1, <1>5 DEF CopyByte, Stored, writer
  <2>2. CASE dropped
    <3>1. buffer[rtmp'] \in 0 .. Stored
      BY <2>1 DEF IInv, SlotInv
    <3> QED
      BY <2>1, <2>2, <3>1 DEF Fifo!Next, Fifo!GetAny
  <2>3. CASE ~dropped
    <3>1. Taken = Len(out) /\ Held > 0
      BY <2>1, <2>3 DEF Taken, IInv, ReaderInv
    <3>2. Len(out) < Stored
      BY <1>1, <3>1 DEF Held, Stored
    <3>3. Len(out') = Len(out) + 1
      BY <1>1, <1>5, <2>1 DEF IInv, TypeOK
    <3>4. out'[Len(out) + 1] = Len(out) + 1
      BY <1>1, <2>1, <2>3, <3>3 DEF IInv, OrderInv
    <3>5. buffer[rtmp'] = out'[Len(out) + 1]
      BY <1>1, <2>1
    <3> QED
      BY <2>1, <2>3, <3>2, <3>4, <3>5 DEF Fifo!Next, Fifo!GetNext
  <2> QED
    BY <2>2, <2>3
<1>6. CASE WriteData \/ ReloadRead \/ DropOldest \/ GiveSem
  <2>1. Stored' = Stored /\ out' = out /\ dropped' = dropped
    BY <1>6 DEF WriteData, ReloadRead, DropOldest, GiveSem, Stored, NextByte
  <2> QED
    BY <2>1 DEF Fifo!vars
<1>7. CASE ReadData \/ TestRoom \/ TestEmpty \/ LoadRead \/ AdvanceRead
           \/ UNCHANGED vars
  <2>1. Stored' = Stored /\ out' = out /\ dropped' = dropped
    BY <1>7 DEF ReadData, TestRoom, TestEmpty, LoadRead, AdvanceRead, vars,
                Stored, writer
  <2> QED
    BY <2>1 DEF Fifo!vars
<1> QED
  BY <1>2, <1>3, <1>4, <1>5, <1>6, <1>7 DEF Next, WriterStep, ReaderStep

(* The threads with the ring between them are a FIFO that breaks only when *)
(* it is empty or full.                                                    *)
THEOREM ImplementsFifoCorrect == Spec => ImplementsFifo
<1>1. Init => Fifo!Init
  <2>1. ASSUME Init
        PROVE  Stored = 0 /\ out = << >> /\ dropped = FALSE
    BY <2>1 DEF Init, Stored
  <2> QED
    BY <2>1 DEF Fifo!Init
<1> QED
  BY <1>1, IndInvariant, FifoStep, PTL DEF Spec, ImplementsFifo, Fifo!Spec

-----------------------------------------------------------------------------
(* No lost wake-up, though bytes are dropped and the threads overlap.      *)

(* How far readIndex is behind writeIndex.                                 *)
Behind == IF readIndex <= writeIndex THEN writeIndex - readIndex
          ELSE Size + writeIndex - readIndex

(* While the USB thread has nothing more to give and the semaphore is      *)
(* taken, readData goes on long enough to empty the ring.                  *)
Wakes ==
  /\ rpc = "wait" => readIndex = writeIndex
  /\ rpc # "wait" => length = Size - 1 /\ i + Behind <= Size - 1
  /\ rpc \in {"cmpWrite", "get", "reload", "advance"} => rtmp = readIndex
  /\ rpc = "cmpRead" => rtmp = writeIndex
  /\ rpc \in {"get", "reload", "advance"} => Behind > 0
WakeInv == wpc = "idle" /\ ~dataAvail => Wakes

(* Behind counts bytes: it is zero when the indexes meet, and one less     *)
(* after readIndex was advanced.                                           *)
LEMMA BehindCounts ==
  ASSUME TypeInv
  PROVE  /\ Behind \in 0 .. Size - 1
         /\ Behind = 0 <=> readIndex = writeIndex
  BY SizeAssumption DEF TypeInv, TypeOK, Slots, Behind

(* The case of AdvanceRead.                                                *)
LEMMA BehindFalls ==
  ASSUME TypeInv, Behind > 0, writeIndex' = writeIndex,
         readIndex' = NextSlot(readIndex)
  PROVE  Behind' = Behind - 1
<1>1. /\ writeIndex \in Slots /\ readIndex \in Slots
      /\ Size \in Nat /\ Size >= 2
  BY Ranges DEF TypeInv
<1>2. readIndex' = IF readIndex = Size - 1 THEN 0 ELSE readIndex + 1
  BY <1>1, NextSlotWraps
<1> QED
  BY <1>1, <1>2 DEF Behind, Slots

(* One step of either thread.  ReadLengths is the one length that          *)
(* usb_pcdc.c:101 asks for.                                                *)
LEMMA WakeStep ==
  ASSUME ReadLengths = {Size - 1}, TypeInv, TypeInv', WakeInv, [Next]_vars
  PROVE  WakeInv'
<1> SUFFICES ASSUME (wpc = "idle" /\ ~dataAvail)'
             PROVE  Wakes'
  BY DEF WakeInv
<1>1. Size \in Nat /\ Size >= 2 /\ i \in Nat /\ length \in Nat
  BY Ranges DEF TypeInv, TypeOK
<1>2. /\ Behind \in 0 .. Size - 1
      /\ Behind = 0 <=> readIndex = writeIndex
  BY BehindCounts
<1>3. CASE WriteData \/ WriterStep
  BY <1>3 DEF WriteData, WriterStep, StoreByte, AdvanceWrite, CheckFull,
              ReloadRead, DropOldest, GiveSem, NextByte
<1>4. CASE ReadData
  <2>1. /\ UNCHANGED <<readIndex, writeIndex>>
        /\ i' = 0 /\ length' = Size - 1 /\ rpc' = "test"
    BY <1>1, <1>4 DEF ReadData, shared
  <2>2. Behind' = Behind
    BY <2>1 DEF Behind
  <2> QED
    BY <1>1, <1>2, <2>1, <2>2 DEF Wakes
<1>5. ASSUME ReaderStep, ~ReadData
      PROVE  Wakes /\ writeIndex' = writeIndex /\ rpc # "wait"
             /\ length' = length
  <2>1. UNCHANGED <<wpc, dataAvail, writeIndex, length>> /\ rpc # "wait"
    BY <1>5 DEF ReaderStep, TestRoom, TestEmpty, CopyByte, LoadRead,
                AdvanceRead, shared, writer
  <2> QED
    BY <2>1 DEF WakeInv
<1>6. CASE TestRoom
  <2>1. /\ Wakes /\ rpc = "test" /\ UNCHANGED <<writeIndex, readIndex, length, i>>
        /\ ~ReadData
    BY <1>5, <1>6 DEF TestRoom, ReaderStep, ReadData, shared
  <2>2. Behind' = Behind
    BY <2>1 DEF Behind
  <2>3. CASE i < length
    BY <1>6, <2>1, <2>2, <2>3, <1>1 DEF TestRoom, Wakes
  <2>4. CASE i >= length
    <3>1. Behind = 0
      BY <1>1, <1>2, <2>1, <2>4 DEF Wakes
    <3>2. rpc' = "wait"
      BY <1>1, <1>6, <2>4 DEF TestRoom
    <3> QED
      BY <1>2, <2>1, <3>1, <3>2 DEF Wakes
  <2> QED
    BY <1>1, <2>3, <2>4
<1>7. CASE TestEmpty
  <2>1. /\ Wakes /\ rpc \in {"cmpWrite", "cmpRead"}
        /\ UNCHANGED <<writeIndex, readIndex, length, i>>
    BY <1>5, <1>7 DEF TestEmpty, ReaderStep, ReadData, shared
  <2>2. Behind' = Behind
    BY <2>1 DEF Behind
  <2>3. rtmp' = readIndex
    BY <1>7, <2>1 DEF TestEmpty, Wakes
  <2>4. rpc' = IF readIndex # writeIndex THEN "get" ELSE "wait"
    BY <1>7, <2>1 DEF TestEmpty, Wakes
  <2> QED
    BY <1>1, <1>2, <2>1, <2>2, <2>3, <2>4 DEF Wakes
<1>8. CASE CopyByte \/ LoadRead
  <2>1. /\ Wakes /\ rpc \in {"get", "reload"}
        /\ rpc' \in {"reload", "advance"} /\ rtmp' = readIndex
        /\ UNCHANGED <<writeIndex, readIndex, length, i>>
    BY <1>5, <1>8 DEF CopyByte, LoadRead, ReaderStep, ReadData, shared, Wakes
  <2>2. Behind' = Behind
    BY <2>1 DEF Behind
  <2> QED
    BY <2>1, <2>2 DEF Wakes
<1>9. CASE AdvanceRead
  <2>1. /\ Wakes /\ rpc = "advance" /\ rpc' = "test"
        /\ UNCHANGED <<writeIndex, length>>
        /\ readIndex' = NextSlot(readIndex) /\ i' = i + 1
    BY <1>5, <1>9 DEF AdvanceRead, ReaderStep, ReadData, Wakes
  <2>2. Behind' = Behind - 1
    BY <2>1, BehindFalls DEF Wakes
  <2> QED
    BY <1>1, <1>2, <2>1, <2>2 DEF Wakes
<1>10. CASE UNCHANGED vars
  <2>1. Wakes
    BY <1>10 DEF vars, WakeInv
  <2> QED
    BY <1>10, <2>1 DEF vars, Wakes, Behind
<1> QED
  BY <1>3, <1>4, <1>6, <1>7, <1>8, <1>9, <1>10 DEF Next, ReaderStep

(* No lost wake-up: when both threads are at rest and the semaphore is not *)
(* given, the ring is empty, whatever was dropped on the way.              *)
THEOREM NoLostWakeUp ==
  ASSUME ReadLengths = {Size - 1}
  PROVE  Spec => []NoStrandedBytes
<1>1. Init => WakeInv
  BY DEF Init, WakeInv, Wakes
<1>2. TypeInv /\ TypeInv' /\ WakeInv /\ [Next]_vars => WakeInv'
  BY WakeStep
<1>3. WakeInv => NoStrandedBytes
  BY DEF WakeInv, Wakes, NoStrandedBytes
<1> QED
  BY <1>1, <1>2, <1>3, TypeInit, TypeStep, PTL DEF Spec

-----------------------------------------------------------------------------
(* Threads that take turns: what the ring holds after any number of drops. *)

(* Of n bytes not delivered the ring keeps Size - 1 at most.               *)
Kept(n) == IF n < Size THEN n ELSE Size - 1

(* How many bytes the slots from readIndex on hold.                        *)
Count ==
  IF wpc \in {"reload", "bump"} THEN Size
  ELSE IF wpc = "check" THEN Kept(written - 1 - LastTaken) + 1
  ELSE IF rpc \in {"reload", "advance"} THEN written - LastTaken + 1
  ELSE Kept(written - LastTaken)

(* The n slots from readIndex on hold the newest n bytes, in order.        *)
Window(n) == /\ writeIndex = Place(readIndex, n)
             /\ \A j \in Slots : j < n =>
                  buffer[Place(readIndex, j)] = written - n + j + 1

Increasing == \A k \in 1 .. Len(out) - 1 : out[k] < out[k + 1]

TurnInv ==
  /\ wpc = "idle" \/ rpc = "wait"
  /\ LastTaken \in 0 .. written
  /\ wpc = "check" => LastTaken < written
  /\ wpc \in {"reload", "bump"} => /\ written - LastTaken >= Size
                                  /\ wtmp = readIndex
  /\ rpc \in {"reload", "advance"} => written - LastTaken < Size - 1
  /\ Window(Count)
  /\ wpc = "advance" => buffer[writeIndex] = written + 1
  /\ rpc \in {"cmpWrite", "get", "reload", "advance"} => rtmp = readIndex
  /\ rpc = "cmpRead" => rtmp = writeIndex
  /\ rpc = "get" => Count > 0
  /\ Increasing

(* Threads that have met have met.                                         *)
LEMMA MetStays ==
  ASSUME TypeInv, [Next]_vars, ~met'
  PROVE  ~met
  BY DEF Next, WriteData, WriterStep, StoreByte, AdvanceWrite, CheckFull,
         ReloadRead, DropOldest, GiveSem, ReaderStep, ReadData, TestRoom,
         TestEmpty, CopyByte, LoadRead, AdvanceRead, vars, TypeInv, TypeOK

(* One step of either thread while the other rests.                        *)
LEMMA TurnStep ==
  ASSUME TypeInv, TypeInv', TurnInv, [Next]_vars, ~met'
  PROVE  TurnInv'
<1>1. /\ writeIndex \in Slots /\ readIndex \in Slots /\ rtmp \in Slots
      /\ buffer \in [Slots -> Bytes] /\ out \in Seq(Bytes)
      /\ written \in Nat /\ Len(out) \in Nat
      /\ Size \in Nat /\ Size >= 2
  BY Ranges DEF TypeInv
<1>2. /\ wpc = "idle" \/ rpc = "wait"
      /\ LastTaken \in 0 .. written
      /\ wpc = "check" => LastTaken < written
      /\ wpc \in {"reload", "bump"} => /\ written - LastTaken >= Size
                                      /\ wtmp = readIndex
      /\ rpc \in {"reload", "advance"} => written - LastTaken < Size - 1
      /\ Window(Count)
      /\ wpc = "advance" => buffer[writeIndex] = written + 1
      /\ rpc \in {"cmpWrite", "get", "reload", "advance"} => rtmp = readIndex
      /\ rpc = "cmpRead" => rtmp = writeIndex
      /\ rpc = "get" => Count > 0
      /\ Increasing
  BY DEF TurnInv
<1>3. /\ Count \in 0 .. Size
      /\ wpc \notin {"check", "reload", "bump"} => Count \in Slots
      /\ wpc \notin {"check", "reload", "bump"} => Count <= written - LastTaken + 1
      /\ /\ wpc \notin {"check", "reload", "bump"}
         /\ rpc \notin {"reload", "advance"}
         => Count = Kept(written - LastTaken) /\ Count <= written - LastTaken
  BY <1>1, <1>2 DEF Count, Kept, Slots
(* A step that moves no byte, no index and no counter.                     *)
<1>4. ASSUME UNCHANGED <<buffer, writeIndex, readIndex, written, out>>
      PROVE  /\ LastTaken' = LastTaken /\ (Increasing' <=> Increasing)
             /\ \A n \in 0 .. Size : Window(n) => Window(n)'
  BY <1>4 DEF LastTaken, Increasing, Window, Place
<1>5. CASE WriteData \/ GiveSem
  <2>1. /\ UNCHANGED <<buffer, writeIndex, readIndex, written, out, wtmp,
                       rpc, rtmp>>
        /\ wpc \in {"idle", "give"} /\ wpc' \in {"idle", "store", "give"}
        /\ rpc = "wait"
    BY <1>2, <1>5 DEF WriteData, GiveSem, NextByte, shared, reader
  <2>2. LastTaken' = LastTaken /\ Increasing' /\ Count' = Count
    BY <1>2, <1>4, <2>1 DEF Count, Kept
  <2>3. Window(Count)'
    BY <1>2, <1>3, <1>4, <2>1, <2>2 DEF Window
  <2> QED
    BY <1>2, <2>1, <2>2, <2>3 DEF TurnInv
<1>6. CASE StoreByte
  <2>1. /\ UNCHANGED <<writeIndex, readIndex, rpc, rtmp, out, written, wtmp>>
        /\ buffer' = [buffer EXCEPT ![writeIndex] = written + 1]
        /\ wpc = "store" /\ wpc' = "advance" /\ rpc = "wait"
    BY <1>2, <1>6 DEF StoreByte, reader
  <2>2. /\ LastTaken' = LastTaken /\ Count' = Count
        /\ Increasing' /\ Count \in Slots
    BY <1>2, <1>3, <2>1 DEF Count, Kept, LastTaken, Increasing
  <2>3. buffer'[writeIndex] = written + 1
    BY <1>1, <2>1
  <2>4. ASSUME NEW j \in Slots, j < Count
        PROVE  buffer'[Place(readIndex, j)] = written - Count + j + 1
    <3>1. Place(readIndex, j) # writeIndex
      BY <1>1, <1>2, <2>2, <2>4, PlaceDistinct DEF Window
    <3>2. buffer'[Place(readIndex, j)] = buffer[Place(readIndex, j)]
      BY <1>1, <2>1, <3>1, PlaceInRing DEF Slots
    <3> QED
      BY <1>2, <2>4, <3>2 DEF Window
  <2>5. Window(Count)'
    BY <1>2, <2>1, <2>2, <2>4 DEF Window, Place
  <2> QED
    BY <1>2, <2>1, <2>2, <2>3, <2>5 DEF TurnInv
<1>7. CASE AdvanceWrite
  <2>1. /\ UNCHANGED <<buffer, readIndex, rpc, rtmp, out, wtmp>>
        /\ writeIndex' = NextSlot(writeIndex) /\ written' = written + 1
        /\ wpc = "advance" /\ wpc' = "check" /\ rpc = "wait"
    BY <1>2, <1>7 DEF AdvanceWrite, reader
  <2>2. LastTaken' = LastTaken /\ Increasing' /\ Count \in Slots
    BY <1>2, <1>3, <2>1 DEF LastTaken, Increasing
  <2>3. Count' = Count + 1
    BY <1>1, <1>2, <2>1, <2>2 DEF Count, Kept
  <2>4. writeIndex' = Place(readIndex, Count + 1)
    BY <1>1, <1>2, <2>1, <2>2, PlaceAfter DEF Window, Slots
  <2>5. ASSUME NEW j \in Slots, j < Count + 1
        PROVE  buffer[Place(readIndex, j)] = written - Count + j + 1
    <3>1. CASE j < Count
      BY <1>2, <3>1 DEF Window
    <3>2. CASE j = Count
      BY <1>1, <1>2, <2>1, <3>2 DEF Window, Slots
    <3> QED
      BY <1>1, <2>2, <2>5, <3>1, <3>2 DEF Slots
  <2>6. Window(Count)'
    BY <1>1, <2>1, <2>2, <2>3, <2>4, <2>5 DEF Window, Place, Slots
  <2> QED
    BY <1>1, <1>2, <2>1, <2>2, <2>6 DEF TurnInv
<1>8. CASE CheckFull
  <2>1. /\ UNCHANGED <<buffer, writeIndex, readIndex, written, out, rpc, rtmp>>
        /\ wpc = "check" /\ rpc = "wait"
    BY <1>2, <1>8 DEF CheckFull, shared, reader
  <2>2. LastTaken' = LastTaken /\ Increasing'
    BY <1>2, <1>4, <2>1
  <2>3. /\ Count = Kept(written - 1 - LastTaken) + 1 /\ Count > 0
        /\ writeIndex = readIndex <=> Count = Size
    <3>1. Count = Kept(written - 1 - LastTaken) + 1 /\ Count > 0
      BY <1>1, <1>2, <2>1 DEF Count, Kept
    <3>2. writeIndex = readIndex <=> Count = 0 \/ Count = Size
      BY <1>1, <1>2, <1>3, PlaceMeets DEF Window
    <3> QED
      BY <3>1, <3>2
  <2>4. Count' = Count
    <3>1. CASE writeIndex = readIndex
      BY <1>8, <2>3, <3>1 DEF CheckFull, Count
    <3>2. CASE writeIndex # readIndex
      <4>1. wpc' \in {"give", "store"} /\ Count # Size
        BY <1>8, <2>3, <3>2 DEF CheckFull, NextByte
      <4>2. Count' = Kept(written - LastTaken)
        BY <2>1, <2>2, <4>1 DEF Count, Kept
      <4> QED
        BY <1>1, <1>2, <2>1, <2>3, <4>1, <4>2 DEF Kept
    <3> QED
      BY <3>1, <3>2
  <2>5. Window(Count)'
    BY <1>2, <1>3, <1>4, <2>1, <2>4 DEF Window
  <2>6. CASE writeIndex = readIndex
    <3>1. wpc' = "reload" /\ wtmp' = readIndex
      BY <1>8, <2>6 DEF CheckFull
    <3>2. written - LastTaken >= Size
      BY <1>1, <1>2, <2>1, <2>3, <2>6 DEF Kept
    <3> QED
      BY <1>2, <2>1, <2>2, <2>5, <3>1, <3>2 DEF TurnInv
  <2>7. CASE writeIndex # readIndex
    <3>1. wpc' \in {"give", "store"}
      BY <1>8, <2>7 DEF CheckFull, NextByte
    <3> QED
      BY <1>2, <2>1, <2>2, <2>5, <3>1 DEF TurnInv
  <2> QED
    BY <2>6, <2>7
<1>9. CASE ReloadRead
  <2>1. /\ UNCHANGED <<buffer, writeIndex, readIndex, written, out, rpc, rtmp>>
        /\ wpc = "reload" /\ wpc' = "bump" /\ wtmp' = readIndex
        /\ rpc = "wait"
    BY <1>2, <1>9 DEF ReloadRead, shared, reader
  <2>2. LastTaken' = LastTaken /\ Increasing' /\ Count' = Count
    BY <1>2, <1>4, <2>1 DEF Count
  <2>3. Window(Count)'
    BY <1>2, <1>3, <1>4, <2>1, <2>2 DEF Window
  <2> QED
    BY <1>2, <2>1, <2>2, <2>3 DEF TurnInv
<1>10. CASE DropOldest
  <2>1. /\ UNCHANGED <<buffer, writeIndex, written, out, rpc, rtmp>>
        /\ wpc = "bump" /\ wpc' \in {"give", "store"} /\ rpc = "wait"
        /\ readIndex' = NextSlot(readIndex)
    BY <1>2, <1>10 DEF DropOldest, NextByte, reader
  <2>2. /\ LastTaken' = LastTaken /\ Increasing'
        /\ Count = Size /\ Count' = Size - 1
    BY <1>1, <1>2, <2>1 DEF LastTaken, Increasing, Count, Kept
  <2>3. writeIndex = Place(readIndex', Size - 1)
    BY <1>1, <1>2, <2>1, <2>2, PlaceShift DEF Window
  <2>4. ASSUME NEW j \in Slots, j < Size - 1
        PROVE  buffer[Place(readIndex', j)] = written - (Size - 1) + j + 1
    <3>1. j + 1 \in Slots /\ j + 1 < Size
      BY <1>1, <2>4 DEF Slots
    <3>2. Place(readIndex', j) = Place(readIndex, j + 1)
      BY <1>1, <2>1, PlaceShift DEF Slots
    <3>3. buffer[Place(readIndex, j + 1)] = written - Size + (j + 1) + 1
      BY <1>2, <2>2, <3>1 DEF Window
    <3> QED
      BY <1>1, <3>2, <3>3 DEF Slots
  <2>5. Window(Count)'
    BY <2>1, <2>2, <2>3, <2>4 DEF Window, Place
  <2> QED
    BY <1>2, <2>1, <2>2, <2>5 DEF TurnInv
<1>11. CASE ReadData
  <2>1. /\ UNCHANGED <<buffer, writeIndex, readIndex, written, out, wpc, wtmp,
                       rtmp>>
        /\ rpc = "wait" /\ rpc' \in {"wait", "test"} /\ wpc = "idle"
    BY <1>11 DEF ReadData, shared, writer
  <2>2. LastTaken' = LastTaken /\ Increasing' /\ Count' = Count
    BY <1>2, <1>4, <2>1 DEF Count, Kept
  <2>3. Window(Count)'
    BY <1>2, <1>3, <1>4, <2>1, <2>2 DEF Window
  <2> QED
    BY <1>2, <2>1, <2>2, <2>3 DEF TurnInv
<1>12. CASE TestRoom
  <2>1. /\ UNCHANGED <<buffer, writeIndex, readIndex, written, out, wpc, wtmp>>
        /\ rpc = "test" /\ rpc' \in {"cmpWrite", "cmpRead", "wait"}
        /\ rpc' = "cmpWrite" => rtmp' = readIndex
        /\ rpc' = "cmpRead" => rtmp' = writeIndex
        /\ wpc = "idle"
    BY <1>2, <1>12 DEF TestRoom, shared, writer
  <2>2. LastTaken' = LastTaken /\ Increasing' /\ Count' = Count
    BY <1>2, <1>4, <2>1 DEF Count, Kept
  <2>3. Window(Count)'
    BY <1>2, <1>3, <1>4, <2>1, <2>2 DEF Window
  <2> QED
    BY <1>2, <2>1, <2>2, <2>3 DEF TurnInv
<1>13. CASE TestEmpty
  <2>1. /\ UNCHANGED <<buffer, writeIndex, readIndex, written, out, wpc, wtmp>>
        /\ rpc \in {"cmpWrite", "cmpRead"} /\ wpc = "idle"
        /\ rpc' = IF readIndex # writeIndex THEN "get" ELSE "wait"
        /\ rtmp' = readIndex
    BY <1>2, <1>13 DEF TestEmpty, shared, writer
  <2>2. LastTaken' = LastTaken /\ Increasing' /\ Count' = Count
    BY <1>2, <1>4, <2>1 DEF Count, Kept
  <2>3. Window(Count)'
    BY <1>2, <1>3, <1>4, <2>1, <2>2 DEF Window
  <2>4. readIndex # writeIndex => Count > 0
    BY <1>1, <1>2, <1>3, PlaceMeets DEF Window
  <2> QED
    BY <1>2, <2>1, <2>2, <2>3, <2>4 DEF TurnInv
<1>14. CASE CopyByte
  <2>1. /\ UNCHANGED <<buffer, writeIndex, readIndex, written, wpc, wtmp>>
        /\ rpc = "get" /\ rpc' = "reload" /\ wpc = "idle"
        /\ rtmp' = readIndex /\ out' = Append(out, buffer[readIndex])
    BY <1>2, <1>14 DEF CopyByte, shared, writer
  <2>2. Count \in 1 .. Size - 1 /\ Count <= written - LastTaken
    BY <1>1, <1>2, <1>3, <2>1 DEF Slots
  <2>3. buffer[readIndex] = written - Count + 1
    <3>1. Place(readIndex, 0) = readIndex /\ 0 \in Slots
      BY <1>1 DEF Place, Slots
    <3> QED
      BY <1>1, <1>2, <2>2, <3>1 DEF Window
  <2>4. /\ Len(out') = Len(out) + 1 /\ out'[Len(out) + 1] = buffer[readIndex]
        /\ \A k \in 1 .. Len(out) : out'[k] = out[k]
    BY <1>1, <2>1
  <2>5. LastTaken' = written - Count + 1
    BY <1>1, <2>1, <2>3, <2>4 DEF LastTaken
  <2>6. Increasing'
    <3> SUFFICES ASSUME NEW k \in 1 .. Len(out)
                 PROVE  out'[k] < out'[k + 1]
      BY <1>1, <2>4 DEF Increasing
    <3>1. CASE k < Len(out)
      BY <1>1, <1>2, <2>4, <3>1 DEF Increasing
    <3>2. CASE k = Len(out)
      <4>1. out'[k] = LastTaken
        BY <1>1, <2>4, <3>2 DEF LastTaken
      <4> QED
        BY <1>1, <1>2, <2>2, <2>3, <2>4, <3>2, <4>1
    <3> QED
      BY <1>1, <3>1, <3>2
  <2>7. Count' = Count
    BY <1>1, <1>2, <2>1, <2>2, <2>5 DEF Count
  <2>8. Window(Count)'
    BY <1>2, <2>1, <2>7 DEF Window, Place
  <2>9. LastTaken' \in 0 .. written /\ written - LastTaken' < Size - 1
    BY <1>1, <1>2, <2>2, <2>5
  <2> QED
    BY <1>2, <2>1, <2>6, <2>8, <2>9 DEF TurnInv
<1>15. CASE LoadRead
  <2>1. /\ UNCHANGED <<buffer, writeIndex, readIndex, written, out, wpc, wtmp>>
        /\ rpc = "reload" /\ rpc' = "advance" /\ rtmp' = readIndex
        /\ wpc = "idle"
    BY <1>2, <1>15 DEF LoadRead, shared, writer
  <2>2. LastTaken' = LastTaken /\ Increasing' /\ Count' = Count
    BY <1>2, <1>4, <2>1 DEF Count
  <2>3. Window(Count)'
    BY <1>2, <1>3, <1>4, <2>1, <2>2 DEF Window
  <2> QED
    BY <1>2, <2>1, <2>2, <2>3 DEF TurnInv
<1>16. CASE AdvanceRead
  <2>1. /\ UNCHANGED <<buffer, writeIndex, written, out, wpc, wtmp>>
        /\ rpc = "advance" /\ rpc' = "test" /\ wpc = "idle"
        /\ readIndex' = NextSlot(readIndex)
    BY <1>2, <1>16 DEF AdvanceRead, writer
  <2>2. /\ LastTaken' = LastTaken /\ Increasing'
        /\ Count' = Count - 1 /\ Count \in 1 .. Size - 1
    BY <1>1, <1>2, <2>1 DEF LastTaken, Increasing, Count, Kept
  <2>3. writeIndex = Place(readIndex', Count - 1)
    BY <1>1, <1>2, <2>1, <2>2, PlaceShift DEF Window
  <2>4. ASSUME NEW j \in Slots, j < Count - 1
        PROVE  buffer[Place(readIndex', j)] = written - (Count - 1) + j + 1
    <3>1. j + 1 \in Slots /\ j + 1 < Count
      BY <1>1, <2>2, <2>4 DEF Slots
    <3>2. Place(readIndex', j) = Place(readIndex, j + 1)
      BY <1>1, <2>1, PlaceShift DEF Slots
    <3>3. buffer[Place(readIndex, j + 1)] = written - Count + (j + 1) + 1
      BY <1>2, <3>1 DEF Window
    <3> QED
      BY <1>1, <2>2, <3>2, <3>3 DEF Slots
  <2>5. Window(Count)'
    BY <2>1, <2>2, <2>3, <2>4 DEF Window, Place
  <2> QED
    BY <1>2, <2>1, <2>2, <2>5 DEF TurnInv
<1>17. CASE UNCHANGED vars
  BY <1>2, <1>17 DEF vars, TurnInv, Count, Kept, LastTaken, Window, Place,
                     Increasing
<1> QED
  BY <1>5, <1>6, <1>7, <1>8, <1>9, <1>10, <1>11, <1>12, <1>13, <1>14, <1>15,
     <1>16, <1>17 DEF Next, WriterStep, ReaderStep

(* The window of the invariant is the one of KeepsNewest, whose modulo is  *)
(* that of the code.                                                       *)
LEMMA WindowIsNewest ==
  ASSUME TypeInv, TurnInv
  PROVE  KeepsNewest
<1>1. /\ writeIndex \in Slots /\ readIndex \in Slots
      /\ written \in Nat /\ Size \in Nat /\ Size >= 2
  BY Ranges DEF TypeInv
<1>2. \A k \in 1 .. Len(out) - 1 : out[k] < out[k + 1]
  BY DEF TurnInv, Increasing
<1>3. ASSUME wpc = "idle", rpc = "wait"
      PROVE  /\ InRing = Kept(written - LastTaken)
             /\ \A j \in 1 .. InRing :
                  buffer[(readIndex + j - 1) % Size] = written - InRing + j
  <2>1. /\ Window(Count) /\ Count = Kept(written - LastTaken)
        /\ LastTaken \in 0 .. written
    BY <1>3 DEF TurnInv, Count
  <2>2. Count \in Slots
    BY <1>1, <2>1 DEF Kept, Slots
  <2>3. writeIndex - readIndex = Count \/ writeIndex - readIndex = Count - Size
    BY <1>1, <2>1, <2>2 DEF Window, Place, Slots
  <2>4. InRing = Count
    <3>1. Count % Size = Count
      BY <1>1, <2>2 DEF Slots
    <3>2. (Count - Size) % Size = Count
      BY <1>1, <2>2, SMTT(30) DEF Slots
    <3> QED
      BY <2>3, <3>1, <3>2 DEF InRing
  <2>5. ASSUME NEW j \in 1 .. Count
        PROVE  buffer[(readIndex + j - 1) % Size] = written - Count + j
    <3>1. /\ j - 1 \in Slots /\ j - 1 < Count
          /\ readIndex + j - 1 = readIndex + (j - 1)
          /\ readIndex + j - 1 \in 0 .. 2 * Size - 1
      BY <1>1, <2>2, <2>5 DEF Slots
    <3>2. (readIndex + j - 1) % Size = Place(readIndex, j - 1)
      <4> DEFINE x == readIndex + j - 1
      <4>0. x \in 0 .. 2 * Size - 1 /\ Size \in Nat /\ Size >= 1
        BY <1>1, <3>1
      <4> HIDE DEF x
      <4>1. x % Size = IF x >= Size THEN x - Size ELSE x
        BY <4>0, Wraps
      <4> USE DEF x
      <4> QED
        BY <1>1, <2>2, <2>5, <3>1, <4>1 DEF Place, Slots
    <3>3. buffer[Place(readIndex, j - 1)] = written - Count + (j - 1) + 1
      BY <2>1, <3>1 DEF Window
    <3> QED
      BY <1>1, <2>2, <2>5, <3>2, <3>3 DEF Slots
  <2> QED
    BY <2>1, <2>4, <2>5
<1> QED
  BY <1>2, <1>3 DEF KeepsNewest, Kept

(* As long as the threads take turns only the oldest bytes are lost:       *)
(* readData returns the bytes in order, and between turns the ring holds   *)
(* the newest ones, Size - 1 at most.                                      *)
THEOREM NewestAreKept == Spec => []KeepsNewest
<1> DEFINE TurnsInv == ~met => TurnInv
<1>1. Init => TurnsInv
  <2> SUFFICES ASSUME Init
               PROVE  TurnInv
    OBVIOUS
  <2>1. /\ written = 0 /\ out = << >> /\ wpc = "idle" /\ rpc = "wait"
        /\ readIndex = 0 /\ writeIndex = 0
    BY DEF Init
  <2>2. LastTaken = 0 /\ Count = 0
    BY <2>1, SizeAssumption DEF LastTaken, Count, Kept
  <2>3. Window(Count)
    BY <2>1, <2>2, SizeAssumption DEF Window, Place, Slots
  <2> QED
    BY <2>1, <2>2, <2>3 DEF TurnInv, Increasing
<1>2. TypeInv /\ TypeInv' /\ TurnsInv /\ [Next]_vars => TurnsInv'
  <2> SUFFICES ASSUME TypeInv, TypeInv', TurnsInv, [Next]_vars, ~met'
               PROVE  TurnInv'
    OBVIOUS
  <2>1. ~met
    BY MetStays
  <2> QED
    BY <2>1, TurnStep
<1>3. TypeInv /\ TurnsInv => KeepsNewest
  BY WindowIsNewest DEF KeepsNewest
<1> QED
  BY <1>1, <1>2, <1>3, TypeInit, TypeStep, PTL DEF Spec
=============================================================================
