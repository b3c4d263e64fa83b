------------------------------- MODULE RingBuf -------------------------------
(***************************************************************************)
(* Apps/utils/ringBuf.c: the ring buffer that the USB thread fills         *)
(* (writeData, called from usb_pcdc_task) and the Read Buffer thread       *)
(* empties (readData, called from read_buffer_task), with the semaphore    *)
(* g_data_available_sem that the first gives and the second takes.         *)
(*                                                                         *)
(* Nothing in the code guards the two indexes, and both threads store      *)
(* readIndex: the reader when it takes a byte, the writer when the ring is *)
(* full and the oldest byte is dropped.  An action is therefore one load   *)
(* or store of shared memory.  The members of ring_buffer_t are not        *)
(* volatile, so where the C text reads readIndex twice the second read is  *)
(* either a new load or the value still in a register: both are taken.     *)
(*                                                                         *)
(* A byte is its number in the stream of bytes written, from 1; a slot     *)
(* that was never written holds 0.                                         *)
(*                                                                         *)
(* The host sends when it likes, so the two threads may be in the ring at  *)
(* the same time; met records that they have been.  As long as they have   *)
(* not, writeData and readData took turns.                                 *)
(***************************************************************************)
EXTENDS Integers, Sequences

CONSTANTS Size,        \* RING_BUFFER_SIZE
          MaxChunk,    \* longest string writeData is given (READ_BUF_SIZE)
          ReadLengths, \* the lengths readData is asked for
          MaxBytes     \* bound: how many bytes are ever written

ASSUME SizeAssumption == Size \in Nat /\ Size >= 2
ASSUME BoundsAssumption == /\ MaxChunk \in Nat
                           /\ MaxBytes \in Nat
                           /\ ReadLengths \subseteq Nat

VARIABLES buffer,      \* ring_buffer.buffer
          writeIndex,  \* ring_buffer.writeIndex
          readIndex,   \* ring_buffer.readIndex
          dataAvail,   \* g_data_available_sem, a binary semaphore
          wpc,         \* where the USB thread is in writeData
          left,        \* bytes of the string still to write
          wtmp,        \* readIndex in a register of the USB thread
          rpc,         \* where the Read Buffer thread is in readData
          length, i,   \* the parameter and the counter of readData
          rtmp,        \* an index in a register of the Read Buffer thread
          written,     \* history: bytes written so far
          out,         \* history: the bytes readData copied to its output
          dropped,     \* history: the drop-the-oldest branch was taken
          met          \* history: both threads were in the ring at once

shared == <<buffer, writeIndex, readIndex>>
writer == <<wpc, left, wtmp>>
reader == <<rpc, length, i, rtmp>>
vars == <<buffer, writeIndex, readIndex, dataAvail, wpc, left, wtmp,
          rpc, length, i, rtmp, written, out, dropped, met>>

Slots == 0 .. Size - 1
Bytes == 0 .. MaxBytes
WPcs == {"idle", "store", "advance", "check", "reload", "bump", "give"}
RPcs == {"wait", "test", "cmpWrite", "cmpRead", "get", "reload", "advance"}

(* Mutants, one before each definition they stand in for.                  *)
M_NextSlot_NoWrap(s) == s + 1

NextSlot(s) == (s + 1) % Size

-----------------------------------------------------------------------------
(* initRingBuffer, run by usb_pcdc_task before USB is opened.              *)
Init == /\ buffer = [s \in Slots |-> 0]
        /\ writeIndex = 0 /\ readIndex = 0
        /\ dataAvail = FALSE
        /\ wpc = "idle" /\ left = 0 /\ wtmp = 0
        /\ rpc = "wait" /\ length = 0 /\ i = 0 /\ rtmp = 0
        /\ written = 0 /\ out = << >> /\ dropped = FALSE /\ met = FALSE

-----------------------------------------------------------------------------
(* The USB thread: writeData, then xSemaphoreGive.                         *)

NextByte(n) == IF n = 0 THEN "give" ELSE "store"

WriteData == /\ wpc = "idle"
             /\ met' = (met \/ rpc # "wait")
             /\ \E dataLength \in 0 .. MaxChunk :
                  /\ written + dataLength <= MaxBytes
                  /\ left' = dataLength
                  /\ wpc' = NextByte(dataLength)
             /\ UNCHANGED <<shared, dataAvail, wtmp, reader,
                            written, out, dropped>>

StoreByte == /\ wpc = "store"
             /\ buffer' = [buffer EXCEPT ![writeIndex] = written + 1]
             /\ wpc' = "advance"
             /\ UNCHANGED <<writeIndex, readIndex, dataAvail, left, wtmp,
                            reader, written, out, dropped, met>>

AdvanceWrite == /\ wpc = "advance"
                /\ writeIndex' = NextSlot(writeIndex)
                /\ written' = written + 1
                /\ left' = left - 1
                /\ wpc' = "check"
                /\ UNCHANGED <<buffer, readIndex, dataAvail, wtmp, reader,
                               out, dropped, met>>

M_CheckFull_NoDrop == /\ wpc = "check"
                      /\ wpc' = NextByte(left)
                      /\ UNCHANGED <<shared, dataAvail, left, wtmp, reader,
                                     written, out, dropped, met>>

M_CheckFull_OffByOne == /\ wpc = "check"
                        /\ IF writeIndex = NextSlot(readIndex)
                           THEN /\ wtmp' = readIndex
                                /\ wpc' = "reload"
                                /\ dropped' = TRUE
                           ELSE /\ wpc' = NextByte(left)
                                /\ UNCHANGED <<wtmp, dropped>>
                        /\ UNCHANGED <<shared, dataAvail, left, reader,
                                       written, out, met>>

CheckFull == /\ wpc = "check"
             /\ \/ /\ writeIndex = readIndex
                   /\ wtmp' = readIndex
                   /\ wpc' = "reload"
                   /\ dropped' = TRUE
                \/ /\ writeIndex # readIndex
                   /\ wpc' = NextByte(left)
                   /\ UNCHANGED <<wtmp, dropped>>
             /\ UNCHANGED <<shared, dataAvail, left, reader, written, out, met>>

ReloadRead == /\ wpc = "reload"
              /\ wtmp' \in {wtmp, readIndex}
              /\ wpc' = "bump"
              /\ UNCHANGED <<shared, dataAvail, left, reader,
                             written, out, dropped, met>>

M_DropOldest_NoAdvance == /\ wpc = "bump"
                          /\ readIndex' = wtmp
                          /\ wpc' = NextByte(left)
                          /\ UNCHANGED <<buffer, writeIndex, dataAvail, left,
                                         wtmp, reader, written, out, dropped, met>>

DropOldest == /\ wpc = "bump"
              /\ readIndex' = NextSlot(wtmp)
              /\ wpc' = NextByte(left)
              /\ UNCHANGED <<buffer, writeIndex, dataAvail, left, wtmp,
                             reader, written, out, dropped, met>>

M_GiveSem_Missing == /\ wpc = "give"
                     /\ wpc' = "idle"
                     /\ UNCHANGED <<shared, dataAvail, left, wtmp, reader,
                                    written, out, dropped, met>>

GiveSem == /\ wpc = "give"
           /\ dataAvail' = TRUE
           /\ wpc' = "idle"
           /\ UNCHANGED <<shared, left, wtmp, reader,
                          written, out, dropped, met>>

-----------------------------------------------------------------------------
(* The Read Buffer thread: xSemaphoreTake, then readData.                  *)

M_ReadData_OneShort == /\ rpc = "wait" /\ dataAvail
                       /\ met' = (met \/ wpc # "idle")
                       /\ dataAvail' = FALSE
                       /\ i' = 0
                       /\ \E len \in ReadLengths :
                            length' = len - 1 /\ rpc' = "test"
                       /\ UNCHANGED <<shared, writer, rtmp,
                                      written, out, dropped>>

ReadData == /\ rpc = "wait" /\ dataAvail
            /\ met' = (met \/ wpc # "idle")
            /\ dataAvail' = FALSE
            /\ i' = 0
            /\ \E len \in ReadLengths :
                 /\ length' = len
                 /\ rpc' = IF len > Size - 1 THEN "wait" ELSE "test"
            /\ UNCHANGED <<shared, writer, rtmp, written, out, dropped>>

(* The loop condition reads two indexes, in an order C leaves open.        *)
TestRoom == /\ rpc = "test"
            /\ \/ /\ i < length
                  /\ \/ rtmp' = readIndex  /\ rpc' = "cmpWrite"
                     \/ rtmp' = writeIndex /\ rpc' = "cmpRead"
               \/ i >= length /\ rpc' = "wait" /\ UNCHANGED rtmp
            /\ UNCHANGED <<shared, dataAvail, writer, length, i,
                           written, out, dropped, met>>

TestEmpty == /\ \/ rpc = "cmpWrite" /\ UNCHANGED rtmp
                                    /\ rpc' = IF rtmp # writeIndex
                                              THEN "get" ELSE "wait"
                \/ rpc = "cmpRead" /\ rtmp' = readIndex
                                   /\ rpc' = IF rtmp # readIndex
                                             THEN "get" ELSE "wait"
             /\ UNCHANGED <<shared, dataAvail, writer, length, i,
                            written, out, dropped, met>>

M_CopyByte_PreIncrement == /\ rpc = "get"
                           /\ rtmp' \in {rtmp, readIndex}
                           /\ out' = Append(out, buffer[NextSlot(rtmp')])
                           /\ rpc' = "reload"
                           /\ UNCHANGED <<shared, dataAvail, writer, length,
                                          i, written, dropped, met>>

CopyByte == /\ rpc = "get"
            /\ rtmp' \in {rtmp, readIndex}
            /\ out' = Append(out, buffer[rtmp'])
            /\ rpc' = "reload"
            /\ UNCHANGED <<shared, dataAvail, writer, length, i,
                           written, dropped, met>>

LoadRead == /\ rpc = "reload"
            /\ rtmp' \in {rtmp, readIndex}
            /\ rpc' = "advance"
            /\ UNCHANGED <<shared, dataAvail, writer, length, i,
                           written, out, dropped, met>>

AdvanceRead == /\ rpc = "advance"
               /\ readIndex' = NextSlot(rtmp)
               /\ i' = i + 1
               /\ rpc' = "test"
               /\ UNCHANGED <<buffer, writeIndex, dataAvail, writer,
                              length, rtmp, written, out, dropped, met>>

-----------------------------------------------------------------------------
WriterStep == \/ StoreByte \/ AdvanceWrite \/ CheckFull
              \/ ReloadRead \/ DropOldest \/ GiveSem

ReaderStep == \/ ReadData \/ TestRoom \/ TestEmpty
              \/ CopyByte \/ LoadRead \/ AdvanceRead

Next == WriteData \/ WriterStep \/ ReaderStep

Spec == Init /\ [][Next]_vars

(* Both threads have priority 1 and block whenever they have no work, and  *)
(* the scheduler rotates among ready threads of a priority: neither keeps  *)
(* the other from running for ever.  The host need not send anything, so   *)
(* WriteData has no fairness.                                              *)
FairSpec == Spec /\ WF_vars(WriterStep) /\ WF_vars(ReaderStep)

-----------------------------------------------------------------------------
(* Every variable stays in its type; in particular the two indexes always  *)
(* name a slot of the ring, whatever the two threads do to readIndex.      *)
TypeOK == /\ buffer \in [Slots -> Bytes]
          /\ writeIndex \in Slots /\ readIndex \in Slots
          /\ dataAvail \in BOOLEAN
          /\ wpc \in WPcs /\ left \in Nat /\ wtmp \in Slots
          /\ rpc \in RPcs /\ length \in Nat /\ i \in Nat /\ rtmp \in Slots
          /\ written \in Bytes /\ out \in Seq(Bytes)
          /\ dropped \in BOOLEAN /\ met \in BOOLEAN

(* Without any lock, readData returns the bytes in the order writeData was *)
(* given them, none lost, doubled or torn, until writeData takes its       *)
(* drop-the-oldest branch for the first time.                              *)
FifoUntilDrop == ~dropped => \A k \in 1 .. Len(out) : out[k] = k

(* No lost wake-up: when both threads are at rest and the semaphore is not *)
(* given, no byte lies in the ring.  One give stands for any number of     *)
(* writeData calls, and readData may return with bytes left (it takes at   *)
(* most RING_BUFFER_SIZE - 1), so this needs the give to follow the write. *)
NoStrandedBytes == wpc = "idle" /\ rpc = "wait" /\ ~dataAvail
                      => readIndex = writeIndex

(* The two threads implement the FIFO of module ByteFifo: bytes come out   *)
(* in order until the drop branch is taken, and it is taken only when the  *)
(* ring holds no undelivered byte or Size - 1 or more of them.             *)
Stored == IF wpc = "advance" THEN written + 1 ELSE written
Fifo == INSTANCE ByteFifo WITH Capacity <- Size - 1, sent <- Stored,
                               got <- out, broken <- dropped
ImplementsFifo == Fifo!Spec

(* README.md:5, "receive the data typed in Tera Term": what readData       *)
(* returns is what the host typed, as long as it typed fewer bytes than    *)
(* the ring holds.  CheckFull breaks it: it takes an empty ring for a full *)
(* one when the reader takes the new byte between the store of writeIndex  *)
(* and the comparison.                                                     *)
ReceivedAsTyped == written < Size => \A k \in 1 .. Len(out) : out[k] = k

(* As long as the threads took turns the ring is a sliding window: a byte  *)
(* that comes out is newer than those before it, and at rest the ring      *)
(* holds the newest bytes not yet delivered, Size - 1 of them at most.     *)
(* Only older ones are lost.                                               *)
LastTaken == IF out = << >> THEN 0 ELSE out[Len(out)]
InRing == (writeIndex - readIndex) % Size
KeepsNewest == ~met =>
  /\ \A k \in 1 .. Len(out) - 1 : out[k] < out[k + 1]
  /\ wpc = "idle" /\ rpc = "wait" =>
       /\ InRing = IF written - LastTaken < Size
                   THEN written - LastTaken ELSE Size - 1
       /\ \A j \in 1 .. InRing :
            buffer[(readIndex + j - 1) % Size] = written - InRing + j

(* Every byte written is delivered, unless the drop branch is taken.       *)
EveryByteDelivered == \A n \in 1 .. MaxBytes :
                         written >= n ~> Len(out) >= n \/ dropped

-----------------------------------------------------------------------------
(* The inductive invariant behind FifoUntilDrop and ImplementsFifo.    *)

(* The slot j places after r, for j in 0 .. Size.                          *)
Place(r, j) == IF r + j < Size THEN r + j ELSE r + j - Size

(* How many bytes readIndex has passed, and how many it has not.           *)
Taken == IF rpc \in {"reload", "advance"} THEN Len(out) - 1 ELSE Len(out)
Held == written - Taken

WriterInv == /\ wpc \in {"store", "advance"} => left > 0
             /\ written + left <= MaxBytes

OrderInv == ~dropped =>
  /\ wpc \notin {"reload", "bump"}
  /\ Taken >= 0 /\ Held \in 0 .. Size
  /\ Held = Size => wpc = "check"
  /\ writeIndex = Place(readIndex, Held)
  /\ \A j \in Slots : j < Stored - Taken
                        => buffer[Place(readIndex, j)] = Taken + j + 1
  /\ \A k \in 1 .. Len(out) : out[k] = k

ReaderInv == ~dropped =>
  /\ rpc \in {"cmpWrite", "get", "reload", "advance"} => rtmp = readIndex
  /\ rpc \in {"get", "reload", "advance"} => Held > 0
  /\ rpc = "cmpRead" /\ rtmp # readIndex => Held > 0

SlotInv == \A s \in Slots : buffer[s] \in 0 .. Stored

IInv == TypeOK /\ WriterInv /\ OrderInv /\ ReaderInv /\ SlotInv
=============================================================================
