------------------------------ MODULE SeggerRtt ------------------------------
(***************************************************************************)
(* LowLevel/SEGGER_RTT/SEGGER_RTT.c: up-buffer 0, through which the        *)
(* firmware prints to the debugger.                                        *)
(*                                                                         *)
(* The target's functions run one at a time: SEGGER_RTT_LOCK masks the     *)
(* interrupts from the first load of an offset to the last store.  The     *)
(* debug probe reads the buffer at any time, under no lock, so a function  *)
(* is as many steps as it has loads and stores that the probe can see.     *)
(* The probe does what SEGGER_RTT_ReadUpBufferNoLock does, as its header   *)
(* says.                                                                   *)
(*                                                                         *)
(* A byte is <<kind, terminal, n>>: text meant for a terminal, or the two  *)
(* bytes 0xFF and id that make the probe change to it; n numbers what the  *)
(* target has accepted.                                                    *)
(***************************************************************************)
EXTENDS Integers, Sequences, SequencesExt

CONSTANTS Size,        \* SizeOfBuffer
          Terminals,   \* the ids of _aTerminalId in use; 0 is the first
          MaxText,     \* bound: length of a text
          MaxLog,      \* bound: bytes accepted
          BufferSizes  \* how much the probe asks for in one read

ASSUME RttAssumption ==
  /\ Size \in Nat /\ Size > 1
  /\ 0 \in Terminals /\ MaxText \in Nat /\ MaxLog \in Nat
  /\ BufferSizes # {} /\ BufferSizes \subseteq Nat \ {0}

Modes == {"skip", "trim", "block"}
Slots == 0 .. Size - 1
NoByte == <<"none", 0, 0>>

VARIABLES
  mem, wrOff, rdOff, flags, \* aUp[0]
  activeTerminal,           \* _ActiveTerminal
  pc,     \* the function under the lock: "idle", "spin", "round", "copy",
          \* "publish"
  todo,   \* what it has still to publish, one sequence per _Write... call
  chunk,  \* bytes of Head(todo) that this round writes
  hpc,    \* the probe: "idle", "copy", "publish"
  hWr,    \* the WrOff it loaded
  hRd,    \* the RdOff it is about to store
  log,    \* history: the bytes the target accepted
  host    \* history: the bytes the probe received

ring == <<mem, wrOff, rdOff>>
probe == <<hpc, hWr, hRd, host>>
vars == <<mem, wrOff, rdOff, flags, activeTerminal, pc, todo, chunk,
          hpc, hWr, hRd, log, host>>

(* After _DoInit.                                                          *)
Init == /\ mem = [s \in Slots |-> NoByte] /\ wrOff = 0 /\ rdOff = 0
        /\ flags = "skip" /\ activeTerminal = 0
        /\ pc = "idle" /\ todo = << >> /\ chunk = 0
        /\ hpc = "idle" /\ hWr = 0 /\ hRd = 0
        /\ log = << >> /\ host = << >>

-----------------------------------------------------------------------------
Least(a, b) == IF a <= b THEN a ELSE b

(* _GetAvailWriteSpace.                                                    *)
GetAvailWriteSpace ==
  IF rdOff <= wrOff THEN Size - 1 - wrOff + rdOff ELSE rdOff - wrOff - 1

M_Advance_PastEnd(off, n) == IF off + n > Size THEN off + n - Size ELSE off + n

(* An offset moved on by n <= Size bytes.                                  *)
Advance(off, n) == IF off + n >= Size THEN off + n - Size ELSE off + n

(* The n bytes that follow slot off.                                       *)
BytesFrom(off, n) == [b \in 1 .. n |-> mem[Advance(off, b - 1)]]
Used(rd, wr) == IF rd <= wr THEN wr - rd ELSE Size + wr - rd

(* New bytes: n of text for terminal t, and the switch to terminal t, when *)
(* m bytes of the same call come before them.                              *)
TextFor(t, n, m) == [b \in 1 .. n |-> <<"text", t, Len(log) + m + b>>]
SwitchTo(t, m) == << <<"FF", t, Len(log) + m + 1>>,
                     <<"id", t, Len(log) + m + 2>> >>

Accept(pieces) == /\ Len(log) + Len(FlattenSeq(pieces)) <= MaxLog
                  /\ log' = log \o FlattenSeq(pieces)
                  /\ todo' = pieces

(* _WriteNoCheck: the caller has made sure that the bytes fit.             *)
WriteNoCheck(bytes) == IF bytes = << >>
                       THEN UNCHANGED <<log, todo, chunk, pc>>
                       ELSE /\ Accept(<<bytes>>)
                            /\ chunk' = Len(bytes)
                            /\ pc' = "copy"

(* One or several _WriteBlocking, each in rounds.                          *)
WriteBlocking(pieces) == /\ Accept(pieces)
                         /\ pc' = "round"
                         /\ UNCHANGED chunk

-----------------------------------------------------------------------------
(* The functions of the target, from the lock on.                          *)

(* SEGGER_RTT_Write, SEGGER_RTT_WriteNoLock.                               *)
Write(n) ==
  LET text(m) == TextFor(activeTerminal, m, 0)
      avail == GetAvailWriteSpace
  IN /\ pc = "idle"
     /\ \/ /\ flags = "skip"
           /\ WriteNoCheck(text(IF avail < n THEN 0 ELSE n))
        \/ /\ flags = "trim"
           /\ WriteNoCheck(text(Least(avail, n)))
        \/ /\ flags = "block"
           /\ WriteBlocking(<<text(n)>>)
     /\ UNCHANGED <<ring, flags, activeTerminal, probe>>

(* SEGGER_RTT_PutChar: in blocking mode it spins, under the lock, until    *)
(* the probe makes room.                                                   *)
PutChar ==
  /\ pc = "idle"
  /\ IF Advance(wrOff, 1) # rdOff
     THEN WriteNoCheck(TextFor(activeTerminal, 1, 0))
     ELSE /\ flags = "block"
          /\ Accept(<<TextFor(activeTerminal, 1, 0)>>)
          /\ pc' = "spin" /\ chunk' = 1
  /\ UNCHANGED <<ring, flags, activeTerminal, probe>>

SpinEnds == /\ pc = "spin" /\ Advance(wrOff, 1) # rdOff
            /\ pc' = "copy"
            /\ UNCHANGED <<ring, flags, activeTerminal, todo, chunk, probe,
                           log>>

(* SEGGER_RTT_PutCharSkip: the mode is not looked at.                      *)
PutCharSkip == /\ pc = "idle"
               /\ Advance(wrOff, 1) # rdOff
               /\ WriteNoCheck(TextFor(activeTerminal, 1, 0))
               /\ UNCHANGED <<ring, flags, activeTerminal, probe>>

M_SetTerminal_EvenIfFull(t) ==
  /\ pc = "idle"
  /\ \/ /\ flags = "block"
        /\ WriteBlocking(<<SwitchTo(t, 0)>>)
     \/ /\ flags # "block"
        /\ WriteNoCheck(IF GetAvailWriteSpace >= 2 THEN SwitchTo(t, 0)
                                                   ELSE << >>)
  /\ activeTerminal' = t
  /\ UNCHANGED <<ring, flags, probe>>

(* SEGGER_RTT_SetTerminal: without the room for the switch the terminal    *)
(* stays what it was.                                                      *)
SetTerminal(t) ==
  /\ pc = "idle"
  /\ \/ /\ flags = "block"
        /\ WriteBlocking(<<SwitchTo(t, 0)>>)
     \/ /\ flags # "block" /\ GetAvailWriteSpace >= 2
        /\ WriteNoCheck(SwitchTo(t, 0))
  /\ activeTerminal' = t
  /\ UNCHANGED <<ring, flags, probe>>

(* The text between _PostTerminalSwitch to t and back.                     *)
Wrapped(t, n) == <<SwitchTo(t, 0), TextFor(t, n, 2),
                   SwitchTo(activeTerminal, n + 2)>>

M_TerminalOut_OneSwitch(t, n) ==
  LET avail == GetAvailWriteSpace
  IN /\ pc = "idle"
     /\ \/ /\ flags = "skip" /\ avail >= n + 2
           /\ WriteBlocking(Wrapped(t, n))
        \/ /\ flags = "trim" /\ avail >= 4
           /\ WriteBlocking(Wrapped(t, Least(n, avail - 4)))
        \/ /\ flags = "block"
           /\ WriteBlocking(Wrapped(t, n))
     /\ UNCHANGED <<ring, flags, activeTerminal, probe>>

(* SEGGER_RTT_TerminalOut.                                                 *)
TerminalOut(t, n) ==
  LET avail == GetAvailWriteSpace
  IN /\ pc = "idle"
     /\ \/ /\ flags = "skip" /\ avail >= n + 4
           /\ WriteBlocking(Wrapped(t, n))
        \/ /\ flags = "trim" /\ avail >= 4
           /\ WriteBlocking(Wrapped(t, Least(n, avail - 4)))
        \/ /\ flags = "block"
           /\ WriteBlocking(Wrapped(t, n))
     /\ UNCHANGED <<ring, flags, activeTerminal, probe>>

(* SEGGER_RTT_WriteWithOverwriteNoLock(n) as a function of the buffer: the *)
(* oldest bytes make room, then the new ones are copied up to the end of   *)
(* the buffer and on from its start, there in rounds of Size - 1.  (It may *)
(* only be called without a probe, so it is no action here.)               *)
M_Overwritten_OneShort(n) ==
  LET avail == GetAvailWriteSpace IN IF n > avail + 1 THEN n - avail ELSE 0

Overwritten(n) ==
  LET avail == GetAvailWriteSpace IN IF n > avail THEN n - avail ELSE 0

WriteWithOverwriteNoLock(n) ==
  LET toEnd == Size - wrOff
      slot(b) == IF b <= toEnd THEN wrOff + b - 1
                 ELSE (b - toEnd - 1) % (Size - 1)
      to(s) == {b \in 1 .. n : slot(b) = s}
  IN [rdOff |-> (rdOff + Overwritten(n)) % Size,
      wrOff |-> IF n < toEnd THEN wrOff + n ELSE (n - toEnd) % (Size - 1),
      mem |-> [s \in Slots |-> IF to(s) = {} THEN mem[s]
                               ELSE TextFor(0, n, 0)[Max(to(s))]]]

(* SEGGER_RTT_SetFlagsUpBuffer; SEGGER_RTT_ConfigUpBuffer does no more to  *)
(* buffer 0.                                                               *)
SetFlagsUpBuffer(mode) == /\ pc = "idle"
                          /\ flags' = mode
                          /\ UNCHANGED <<ring, activeTerminal, pc, todo,
                                         chunk, probe, log>>

(* A round of _WriteBlocking begins: what fits before the end of the       *)
(* buffer, none if the buffer is full.                                     *)
Round == /\ pc = "round"
         /\ chunk' = Least(Least(GetAvailWriteSpace, Size - wrOff),
                           Len(Head(todo)))
         /\ pc' = "copy"
         /\ UNCHANGED <<ring, flags, activeTerminal, todo, probe, log>>

(* The memcpy of a round or of _WriteNoCheck, both its halves.             *)
Copy == /\ pc = "copy"
        /\ mem' = [s \in Slots |->
                     LET b == Used(wrOff, s) + 1
                     IN IF b <= chunk THEN Head(todo)[b] ELSE mem[s]]
        /\ pc' = "publish"
        /\ UNCHANGED <<wrOff, rdOff, flags, activeTerminal, todo, chunk,
                       probe, log>>

M_Publish_OneRound ==
  /\ pc = "publish"
  /\ wrOff' = Advance(wrOff, chunk)
  /\ todo' = Tail(todo)
  /\ pc' = IF todo' = << >> THEN "idle" ELSE "round"
  /\ chunk' = 0
  /\ UNCHANGED <<mem, rdOff, flags, activeTerminal, probe, log>>

(* The store of WrOff: the bytes are the probe's now.                      *)
Publish ==
  LET rest == SubSeq(Head(todo), chunk + 1, Len(Head(todo)))
  IN /\ pc = "publish"
     /\ wrOff' = Advance(wrOff, chunk)
     /\ todo' = IF rest = << >> THEN Tail(todo)
                                ELSE <<rest>> \o Tail(todo)
     /\ pc' = IF todo' = << >> THEN "idle" ELSE "round"
     /\ chunk' = 0
     /\ UNCHANGED <<mem, rdOff, flags, activeTerminal, probe, log>>

-----------------------------------------------------------------------------
(* The probe.                                                              *)

LoadOffsets == /\ hpc = "idle" /\ rdOff # wrOff
               /\ hWr' = wrOff
               /\ hpc' = "copy"
               /\ UNCHANGED <<ring, flags, activeTerminal, pc, todo, chunk,
                              hRd, log, host>>

CopyOut(bufferSize) ==
  LET n == Least(Used(rdOff, hWr), bufferSize)
  IN /\ hpc = "copy"
     /\ host' = host \o BytesFrom(rdOff, n)
     /\ hRd' = Advance(rdOff, n)
     /\ hpc' = "publish"
     /\ UNCHANGED <<ring, flags, activeTerminal, pc, todo, chunk, hWr, log>>

M_StoreRdOff_Latest ==
  /\ hpc = "publish"
  /\ rdOff' = wrOff
  /\ hpc' = "idle" /\ hWr' = 0 /\ hRd' = 0
  /\ UNCHANGED <<mem, wrOff, flags, activeTerminal, pc, todo, chunk, log,
                 host>>

StoreRdOff == /\ hpc = "publish"
              /\ rdOff' = hRd
              /\ hpc' = "idle" /\ hWr' = 0 /\ hRd' = 0
              /\ UNCHANGED <<mem, wrOff, flags, activeTerminal, pc, todo,
                             chunk, log, host>>

-----------------------------------------------------------------------------
Call == \/ \E n \in 1 .. MaxText : Write(n)
        \/ PutChar \/ PutCharSkip
        \/ \E t \in Terminals : SetTerminal(t)
        \/ \E t \in Terminals, n \in 0 .. MaxText : TerminalOut(t, n)
        \/ \E mode \in Modes : SetFlagsUpBuffer(mode)
Work == SpinEnds \/ Round \/ Copy \/ Publish
Probe == \/ LoadOffsets \/ StoreRdOff
         \/ \E size \in BufferSizes : CopyOut(size)

Next == Call \/ Work \/ Probe

Spec == Init /\ [][Next]_vars

(* A function under the lock runs on; the probe, when there is one, comes  *)
(* back to the buffer.  Nothing makes the target print.                    *)
FairSpec == Spec /\ WF_vars(Work) /\ WF_vars(Probe)

-----------------------------------------------------------------------------
Kinds == {"text", "FF", "id", "none"}

Byte == Kinds \X Terminals \X (0 .. MaxLog)

TypeOK == /\ mem \in [Slots -> Byte]
          /\ wrOff \in Slots /\ rdOff \in Slots
          /\ flags \in Modes /\ activeTerminal \in Terminals
          /\ pc \in {"idle", "spin", "round", "copy", "publish"}
          /\ chunk \in 0 .. Size - 1
          /\ hpc \in {"idle", "copy", "publish"}
          /\ hWr \in Slots /\ hRd \in Slots
          /\ todo \in Seq(Seq(Byte)) /\ (pc = "idle" <=> todo = << >>)
          /\ log \in Seq(Byte) /\ Len(log) <= MaxLog
          /\ host \in Seq(Byte) /\ Len(host) <= Len(log)

(* The probe has received, will find in the buffer and will be given by    *)
(* the function that runs exactly the bytes that were accepted, each once  *)
(* and in order: no byte is overwritten before it was read, read before it *)
(* was written, or read again, wherever the offsets wrap.                  *)
Conserved ==
  LET rd == IF hpc = "publish" THEN hRd ELSE rdOff
  IN host \o BytesFrom(rd, Used(rd, wrOff)) \o FlattenSeq(todo) = log

(* The probe shows a text at the terminal it was meant for: the last       *)
(* switch before it is the switch to that terminal, and before the first   *)
(* switch there is only text for terminal 0.                               *)
ShownWhereMeant ==
  \A b \in 1 .. Len(host) :
    host[b][1] = "text" =>
      LET switches == {a \in 1 .. b : host[a][1] = "id"}
      IN IF switches = {} THEN host[b][2] = 0
         ELSE host[CHOOSE a \in switches : \A c \in switches : c <= a][2]
                = host[b][2]

(* In the two modes that are called non-blocking no function ever waits    *)
(* for the probe, though SEGGER_RTT_TerminalOut goes through               *)
(* _WriteBlocking: a round always finds room.                              *)
NeverWaits == flags # "block" =>
                /\ pc # "spin"
                /\ pc \in {"copy", "publish"} =>
                     chunk > 0 \/ Head(todo) = << >>

(* With a probe that keeps reading every accepted byte is delivered, and   *)
(* no function that blocks stays blocked.                                  *)
AllDelivered == \A n \in 1 .. MaxLog : Len(log) >= n ~> Len(host) >= n

(* Without a probe SEGGER_RTT_WriteWithOverwriteNoLock keeps the newest:   *)
(* the buffer holds the end of what it held followed by the new bytes, as  *)
(* many as fit.  This is so up to one wrap and what follows it without     *)
(* reaching the end again; a longer text loses more (line 906).            *)
OverwriteKeepsNewest ==
  \A n \in 1 .. 2 * Size - 2 - wrOff :
    LET after == WriteWithOverwriteNoLock(n)
        all == BytesFrom(rdOff, Used(rdOff, wrOff)) \o TextFor(0, n, 0)
        kept == Least(Size - 1, Len(all))
    IN pc = "idle" =>
         /\ Used(after.rdOff, after.wrOff) = kept
         /\ \A k \in 1 .. kept :
              after.mem[Advance(after.rdOff, k - 1)]
                = all[Len(all) - kept + k]
=============================================================================
