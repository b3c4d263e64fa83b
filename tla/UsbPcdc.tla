------------------------------- MODULE UsbPcdc -------------------------------
(***************************************************************************)
(* Apps/usb_pcdc/usb_pcdc.c and Apps/utils/usbLog.c: the USB serial device *)
(* from the packet that arrives to the answer that leaves.                 *)
(*                                                                         *)
(*   host -> usb_pcdc_callback -> USB thread -> ring buffer                *)
(*        -> Read Buffer thread -> usb_cmd_queue -> Process Data thread    *)
(*        -> R_USB_Write -> host                                           *)
(*                                                                         *)
(* usb_pcdc_callback runs in the USB driver's task, above the priority of  *)
(* the three threads: a callback is one action.  The threads share one     *)
(* priority and rotate whenever the driver's task has run, so they         *)
(* interleave at the calls and buffer accesses below.                      *)
(*                                                                         *)
(* A message of the host is one AT command in one packet, numbered in the  *)
(* order sent.  In memory it has two halves, "AT..." and "...\r\n", so     *)
(* that a copy can be torn or split; id 0 stands for NUL bytes.  A command *)
(* is the sequence of the ids its halves come from: <<k, k>> is message k  *)
(* as it was sent.                                                         *)
(*                                                                         *)
(* The ring buffer has a slot for a half where the code has slots for      *)
(* bytes; its two threads work on it without a lock, a slot at a time.     *)
(* Module RingBuf has every load and store of theirs.                      *)
(***************************************************************************)
EXTENDS Integers, Sequences, FiniteSets, SequencesExt

CONSTANTS MaxMsg,       \* bound: messages the host sends
          RingSize,     \* slots of the ring buffer
          QueueLen,     \* length of usb_cmd_queue
          ReplyPackets, \* per message: packets of its answer; 0, the answer
                        \* does not fit the buffer of USB_CDC_printf
          Patience,     \* when the host sends: "free", "reply" or "rest"
          MaxUnplug     \* bound: bus failures (detach, suspend, re-enumerate)

Msgs == 1 .. MaxMsg

ASSUME PipelineAssumption ==
  /\ MaxMsg \in Nat \ {0} /\ QueueLen \in Nat \ {0}
  /\ RingSize \in Nat /\ RingSize >= 2
  /\ ReplyPackets \in [Msgs -> 0 .. 2]
  /\ Patience \in {"free", "reply", "rest"}
  /\ MaxUnplug \in Nat

VARIABLES
  bus,          \* the driver's view of the device: "off", "on", "suspended"
  readPending,  \* R_USB_Read was accepted and has not completed
  tx,           \* the R_USB_Write in progress: its source and packets left
  control,      \* the class request in progress
  usbStatus,    \* g_usb_status
  usbBuf,       \* g_usb_buf: the ids of its two halves
  readCptSem,   \* g_usb_read_cpt_sem
  dataAvailSem, \* g_data_available_sem
  buffer, writeIndex, readIndex, \* ring_buffer
  cmdQueue,     \* usb_cmd_queue
  upc, rpc, ppc,\* where the three threads are
  left,         \* writeData: halves it has still to store
  drained,      \* read_data: what readData has copied so far
  rtmp,         \* the readIndex readData has in a register
  parsed,       \* CommandParser.commands not yet queued
  cmdStr,       \* the command process_data_task works on
  printfBuf,    \* the stack buffer of USB_CDC_printf
  trap,         \* the BKPT that has stopped the firmware: "none", or that of
                \* R_USB_Open, of a control request or of R_USB_Read
  sent,         \* history: messages sent by the host
  processed,    \* history: commands process_data_task took from the queue
  replies,      \* history: answers the host received, as packets
  unplugs,      \* history: how often the bus failed
  dropped,      \* history: writeData has taken its drop-the-oldest branch
  met,          \* history: both threads were in the ring at once
  fifo          \* history: what a FIFO in place of the ring would hold

driver == <<bus, readPending, control, usbStatus, unplugs>>
ring == <<buffer, writeIndex, readIndex, dropped, met, fifo>>
usbThread == <<upc, left, ring, dataAvailSem>>
reader == <<rpc, drained, rtmp, parsed>>
process == <<ppc, cmdStr, printfBuf, processed>>
vars == <<bus, readPending, tx, control, usbStatus, usbBuf,
          readCptSem, dataAvailSem, buffer, writeIndex, readIndex, cmdQueue,
          upc, rpc, ppc, left, drained, rtmp, parsed, cmdStr, printfBuf, trap,
          sent, processed, replies, unplugs, dropped, met, fifo>>

NoBytes == <<0, 0>>
NoTx == [src |-> "none", left |-> 0, seen |-> << >>]
Half(id, n) == [id |-> id, half |-> n]
Slots == 0 .. RingSize - 1

Init ==
  /\ bus = "off" /\ readPending = FALSE /\ tx = NoTx /\ control = "none"
  /\ usbStatus = "none" /\ usbBuf = NoBytes
  /\ readCptSem = FALSE /\ dataAvailSem = FALSE
  /\ buffer = [s \in Slots |-> Half(0, 1)]
  /\ writeIndex = 0 /\ readIndex = 0 /\ cmdQueue = << >>
  /\ upc = "open" /\ rpc = "take" /\ ppc = "receive"
  /\ left = 0 /\ drained = << >> /\ rtmp = 0
  /\ parsed = << >> /\ cmdStr = << >> /\ printfBuf = << >> /\ trap = "none"
  /\ sent = 0 /\ processed = << >> /\ replies = << >> /\ unplugs = 0
  /\ dropped = FALSE /\ met = FALSE /\ fifo = << >>

Running == trap = "none"

-----------------------------------------------------------------------------
(* The USB driver (FSP), as the code uses it.                              *)

(* R_USB_Read: FSP_SUCCESS, or an error when the device is not configured  *)
(* or a read is in progress; every caller traps on an error.               *)
ReadAccepted == bus # "off" /\ ~readPending
R_USB_Read == /\ readPending' = (readPending \/ ReadAccepted)
              /\ trap' = IF ReadAccepted THEN trap ELSE "read"

(* R_USB_Write: accepted when configured and no write is in progress; its  *)
(* callers drop what it refuses.  The driver reads the buffer later.       *)
R_USB_Write(src, packets) ==
  tx' = IF bus # "off" /\ tx = NoTx
        THEN [src |-> src, left |-> packets, seen |-> << >>] ELSE tx

(* The three threads wait, nothing is on its way, no answer is due.        *)
ThreadsWait == /\ upc = "take" /\ ~readCptSem
               /\ rpc = "take" /\ ~dataAvailSem
               /\ ppc = "receive" /\ cmdQueue = << >>
NoRequest == control \in {"none", "other"}
AtRest == ThreadsWait /\ tx = NoTx /\ NoRequest

HostReady == CASE Patience = "free"  -> TRUE
               [] Patience = "reply" -> Len(replies) = sent /\ tx = NoTx
               [] Patience = "rest"  -> AtRest

-----------------------------------------------------------------------------
(* usb_pcdc_callback, one action per event.                                *)

(* USB_STATUS_CONFIGURED.                                                  *)
Configured == /\ Running /\ upc # "open" /\ bus = "off"
              /\ bus' = "on"
              /\ usbStatus' = "configured"
              /\ UNCHANGED <<readPending, tx, control, usbBuf,
                             readCptSem, usbThread, cmdQueue, reader, process,
                             trap, sent, replies, unplugs>>

(* USB_STATUS_REQUEST: the setup stage of a class request: to set or get   *)
(* the line coding, which nothing else reads, to set the control lines, or *)
(* one the code does not know, which it only prints and never answers.     *)
(* The call that answers a request may fail, which traps.                  *)
Request == /\ Running /\ bus = "on" /\ NoRequest /\ HostReady
           /\ \/ control' = "coding" /\ UNCHANGED <<tx, trap>>
              \/ /\ control' = "state"
                 /\ R_USB_Write("welcome", 1)
                 /\ UNCHANGED trap
              \/ /\ control' \in {"coding", "state"}
                 /\ trap' = "control"
                 /\ UNCHANGED tx
              \/ control' = "other" /\ UNCHANGED <<tx, trap>>
           /\ UNCHANGED <<bus, readPending, usbStatus, usbBuf,
                          readCptSem, usbThread, cmdQueue, reader, process,
                          sent, replies, unplugs>>

M_RequestComplete_NoStatus ==
  /\ Running /\ bus = "on" /\ ~NoRequest
  /\ control' = "none"
  /\ R_USB_Read /\ usbStatus' = "request_complete"
  /\ UNCHANGED <<bus, tx, usbBuf, readCptSem, usbThread, cmdQueue, reader,
                 process, sent, replies, unplugs>>

(* USB_STATUS_REQUEST_COMPLETE: the first one after the configuration      *)
(* starts the reception.                                                   *)
RequestComplete ==
  /\ Running /\ bus = "on" /\ ~NoRequest
  /\ control' = "none"
  /\ IF usbStatus = "configured"
     THEN R_USB_Read /\ usbStatus' = "request_complete"
     ELSE UNCHANGED <<readPending, trap, usbStatus>>
  /\ UNCHANGED <<bus, tx, usbBuf, readCptSem, usbThread, cmdQueue, reader,
                 process, sent, replies, unplugs>>

M_ReadComplete_Repost ==
  /\ Running /\ bus = "on" /\ readPending /\ HostReady
  /\ sent < MaxMsg
  /\ sent' = sent + 1
  /\ usbBuf' = <<sent', sent'>>
  /\ readCptSem' = TRUE
  /\ UNCHANGED <<bus, readPending, tx, control, usbStatus, 
                 usbThread, cmdQueue, reader, process, trap, replies, unplugs>>

(* A packet arrives and completes the read, USB_STATUS_READ_COMPLETE: the  *)
(* driver has filled g_usb_buf, the callback gives the semaphore.  A give  *)
(* that fails is only printed: USB_PCDC_ERR_TRAP(err_semaphore) tests the  *)
(* value pdFALSE, which is 0, so it never traps.                           *)
ReadComplete == /\ Running /\ bus = "on" /\ readPending /\ HostReady
                /\ sent < MaxMsg
                /\ sent' = sent + 1
                /\ usbBuf' = <<sent', sent'>>
                /\ readPending' = FALSE
                /\ readCptSem' = TRUE
                /\ UNCHANGED <<bus, tx, control, usbStatus, 
                               usbThread, cmdQueue, reader, process, trap,
                               replies, unplugs>>

(* The driver sends one packet of the write in progress, read from the     *)
(* caller's buffer now; the last one is followed by                        *)
(* USB_STATUS_WRITE_COMPLETE, which the callback only prints.              *)
SendPacket ==
  /\ Running /\ bus = "on" /\ tx # NoTx
  /\ LET seen == IF tx.src = "reply" THEN Append(tx.seen, printfBuf)
                                     ELSE tx.seen
     IN IF tx.left > 1
        THEN /\ tx' = [tx EXCEPT !.left = @ - 1, !.seen = seen]
             /\ UNCHANGED replies
        ELSE /\ tx' = NoTx
             /\ replies' = IF tx.src = "reply" THEN Append(replies, seen)
                                               ELSE replies
  /\ UNCHANGED <<driver, usbBuf, readCptSem, usbThread, cmdQueue, reader,
                 process, trap, sent>>

(* USB_STATUS_DETACH and USB_STATUS_SUSPEND clear g_usb_buf.  The driver   *)
(* gives up its transfers when the cable is pulled; a suspended bus keeps  *)
(* them until it resumes.                                                  *)
Detach == /\ Running /\ bus # "off" /\ unplugs < MaxUnplug
          /\ bus' = "off" /\ readPending' = FALSE
          /\ tx' = NoTx /\ control' = "none"
          /\ unplugs' = unplugs + 1
          /\ usbBuf' = NoBytes
          /\ UNCHANGED <<usbStatus, readCptSem, usbThread,
                         cmdQueue, reader, process, trap, sent, replies>>

Suspend == /\ Running /\ bus = "on" /\ unplugs < MaxUnplug
           /\ bus' = "suspended"
           /\ unplugs' = unplugs + 1
           /\ usbBuf' = NoBytes
           /\ UNCHANGED <<readPending, tx, control, usbStatus, 
                          readCptSem, usbThread, cmdQueue, reader, process,
                          trap, sent, replies>>

(* USB_STATUS_RESUME sets b_usb_attach, which nothing reads.               *)
Resume == /\ Running /\ bus = "suspended"
          /\ bus' = "on"
          /\ UNCHANGED <<readPending, tx, control, usbStatus, 
                         unplugs, usbBuf, readCptSem, usbThread, cmdQueue,
                         reader, process, trap, sent, replies>>

-----------------------------------------------------------------------------
(* usb_pcdc_task.                                                          *)

(* R_USB_Open may fail.                                                    *)
OpenUsb == /\ Running /\ upc = "open"
           /\ writeIndex' = 0 /\ readIndex' = 0
           /\ \/ upc' = "take" /\ UNCHANGED trap
              \/ trap' = "open" /\ UNCHANGED upc
           /\ UNCHANGED <<driver, tx, usbBuf, readCptSem, dataAvailSem, left,
                          buffer, dropped, met, fifo, cmdQueue, reader,
                          process, sent, replies>>

M_TakeRead_CleanFirst ==
  /\ Running /\ upc = "take" /\ readCptSem
  /\ readCptSem' = FALSE
  /\ upc' = "read" /\ usbBuf' = NoBytes
  /\ UNCHANGED <<driver, tx, left, ring, dataAvailSem, cmdQueue, reader, process,
                 trap, sent, replies>>

TakeRead == /\ Running /\ upc = "take" /\ readCptSem
            /\ readCptSem' = FALSE
            /\ upc' = "read"
            /\ UNCHANGED <<driver, tx, usbBuf, left, ring, dataAvailSem,
                           cmdQueue, reader, process, trap, sent, replies>>

(* The next read is posted before the bytes of this one are copied.        *)
PostRead == /\ Running /\ upc = "read"
            /\ R_USB_Read
            /\ upc' = "write"
            /\ UNCHANGED <<bus, tx, control, usbStatus, unplugs,
                           usbBuf, readCptSem, left, ring, dataAvailSem,
                           cmdQueue, reader, process, sent, replies>>

(* writeData: the length of g_usb_buf is measured once, the bytes are then *)
(* read one by one.                                                        *)
NextSlot(s) == (s + 1) % RingSize
NextHalf(n) == IF n = 0 THEN "give" ELSE "store"

WriteData == /\ Running /\ upc = "write"
             /\ left' = IF usbBuf[1] = 0 THEN 0 ELSE 2
             /\ upc' = NextHalf(left')
             /\ met' = (met \/ rpc \in {"drain", "advance"})
             /\ UNCHANGED <<driver, tx, usbBuf, readCptSem, dataAvailSem,
                            buffer, writeIndex, readIndex, dropped, fifo,
                            cmdQueue, reader, process, trap, sent, replies>>

(* Once the drop branch was taken while the other thread was in the ring,  *)
(* the ring is no FIFO any more.                                           *)
Broken == dropped /\ met
Remember(s) == fifo' = IF Broken THEN << >> ELSE s

StoreHalf ==
  /\ Running /\ upc = "store"
  /\ LET h == Half(usbBuf[3 - left], 3 - left)
     IN /\ buffer' = [buffer EXCEPT ![writeIndex] = h]
        /\ Remember(Append(fifo, h))
  /\ writeIndex' = NextSlot(writeIndex)
  /\ left' = left - 1
  /\ upc' = "check"
  /\ UNCHANGED <<driver, tx, usbBuf, readCptSem, dataAvailSem, readIndex,
                 dropped, met, cmdQueue, reader, process, trap, sent, replies>>

(* The test for a full ring comes after the half was published; a reader   *)
(* that was faster has made the ring look full.                            *)
CheckFull == /\ Running /\ upc = "check"
             /\ \/ /\ writeIndex = readIndex
                   /\ upc' = "drop" /\ dropped' = TRUE
                \/ /\ writeIndex # readIndex
                   /\ upc' = NextHalf(left) /\ UNCHANGED dropped
             /\ UNCHANGED <<driver, tx, usbBuf, readCptSem, dataAvailSem, left,
                            buffer, writeIndex, readIndex, met, fifo,
                            cmdQueue, reader, process, trap, sent, replies>>

(* readIndex is the one compared, or loaded again.                         *)
DropOldest == /\ Running /\ upc = "drop"
              /\ readIndex' \in {NextSlot(writeIndex), NextSlot(readIndex)}
              /\ upc' = NextHalf(left)
              /\ Remember(Tail(fifo))
              /\ UNCHANGED <<driver, tx, usbBuf, readCptSem, dataAvailSem,
                             left, buffer, writeIndex, dropped, met, cmdQueue,
                             reader, process, trap, sent, replies>>

GiveData == /\ Running /\ upc = "give"
            /\ dataAvailSem' = TRUE
            /\ upc' = "clean"
            /\ UNCHANGED <<driver, tx, usbBuf, readCptSem, left, ring,
                           cmdQueue, reader, process, trap, sent, replies>>

M_CleanBuf_Missing ==
  /\ Running /\ upc = "clean"
  /\ upc' = "take"
  /\ UNCHANGED <<driver, tx, usbBuf, readCptSem, left, ring, dataAvailSem,
                 cmdQueue, reader, process, trap, sent, replies>>

CleanBuf == /\ Running /\ upc = "clean"
            /\ usbBuf' = NoBytes
            /\ upc' = "take"
            /\ UNCHANGED <<driver, tx, readCptSem, left, ring, dataAvailSem,
                           cmdQueue, reader, process, trap, sent, replies>>

-----------------------------------------------------------------------------
(* read_buffer_task.                                                       *)

Writing == upc \in {"store", "check", "drop"}

TakeData == /\ Running /\ rpc = "take" /\ dataAvailSem
            /\ dataAvailSem' = FALSE
            /\ rpc' = "drain"
            /\ met' = (met \/ Writing)
            /\ UNCHANGED <<driver, tx, usbBuf, readCptSem, upc, left, buffer,
                           writeIndex, readIndex, dropped, fifo, cmdQueue,
                           drained, rtmp, parsed, process, trap, sent, replies>>

M_GoesOn_OneShort == Len(drained) < RingSize - 2 /\ readIndex # writeIndex

(* readData, up to RING_BUFFER_SIZE - 1 bytes.                             *)
GoesOn == Len(drained) < RingSize - 1 /\ readIndex # writeIndex

CopyHalf == /\ Running /\ rpc = "drain" /\ GoesOn
            /\ drained' = Append(drained, buffer[readIndex])
            /\ rtmp' = readIndex
            /\ rpc' = "advance"
            /\ UNCHANGED <<driver, tx, usbBuf, readCptSem, usbThread,
                           cmdQueue, parsed, process, trap, sent, replies>>

(* readIndex is the one just used, or loaded again.                        *)
AdvanceRead == /\ Running /\ rpc = "advance"
               /\ readIndex' \in {NextSlot(rtmp), NextSlot(readIndex)}
               /\ rpc' = "drain"
               /\ UNCHANGED <<driver, tx, usbBuf, readCptSem, upc, left,
                              dataAvailSem, buffer, writeIndex, dropped, met,
                              fifo, cmdQueue, drained, rtmp, parsed, process,
                              trap, sent, replies>>

(* parseData over what was drained, up to the first NUL: a command runs    *)
(* from the first "AT" to the next "\r\n"; an end without a start and a    *)
(* start without an end are forgotten.                                     *)
Text(s) == LET nul == {n \in 1 .. Len(s) : s[n].id = 0}
           IN IF nul = {} THEN s
              ELSE SubSeq(s, 1, (CHOOSE n \in nul : \A m \in nul : n <= m) - 1)
Ends(s) == {n \in 2 .. Len(s) : s[n].half = 2 /\ s[n - 1].half = 1}
Start(s, n) == CHOOSE q \in 1 .. n - 1 :
                 /\ \A m \in q .. n - 1 : s[m].half = 1
                 /\ q = 1 \/ s[q - 1].half = 2
CommandAt(s, n) == [m \in 1 .. n - Start(s, n) + 1
                      |-> s[Start(s, n) + m - 1].id]
Nth(S, c) == CHOOSE n \in S : Cardinality({m \in S : m <= n}) = c
Commands(s) == [c \in 1 .. Cardinality(Ends(s))
                  |-> CommandAt(s, Nth(Ends(s), c))]

ParseData == /\ Running /\ rpc = "drain" /\ ~GoesOn
             /\ parsed' = Commands(Text(drained))
             /\ drained' = << >>
             /\ rpc' = IF parsed' = << >> THEN "take" ELSE "send"
             /\ Remember(SubSeq(fifo, Len(drained) + 1, Len(fifo)))
             /\ UNCHANGED <<driver, tx, usbBuf, readCptSem, upc, left, buffer,
                            writeIndex, readIndex, dropped, met, dataAvailSem,
                            cmdQueue, rtmp, process, trap, sent, replies>>

M_QueueCommand_NoBound ==
  /\ Running /\ rpc = "send"
  /\ cmdQueue' = Append(cmdQueue, Head(parsed))
  /\ parsed' = Tail(parsed)
  /\ rpc' = IF parsed' = << >> THEN "take" ELSE "send"
  /\ UNCHANGED <<driver, tx, usbBuf, readCptSem, usbThread, drained, rtmp,
                 process, trap, sent, replies>>

(* xQueueSend without waiting: a command that finds the queue full is      *)
(* dropped, which is only printed.                                         *)
QueueCommand == /\ Running /\ rpc = "send"
                /\ cmdQueue' = IF Len(cmdQueue) < QueueLen
                               THEN Append(cmdQueue, Head(parsed))
                               ELSE cmdQueue
                /\ parsed' = Tail(parsed)
                /\ rpc' = IF parsed' = << >> THEN "take" ELSE "send"
                /\ UNCHANGED <<driver, tx, usbBuf, readCptSem, usbThread,
                               drained, rtmp, process, trap, sent, replies>>

-----------------------------------------------------------------------------
(* process_data_task, with USB_CDC_printf and usbTransmit.                 *)

(* The calls of the task run on the stack that held the buffer of          *)
(* USB_CDC_printf: it may still be there, or be overwritten, which matters *)
(* if the driver has still to read it.                                     *)
StackUsed == \/ printfBuf' = << >>
             \/ tx.src = "reply" /\ UNCHANGED printfBuf

M_ReceiveCommand_Peeks ==
  /\ Running /\ ppc = "receive" /\ cmdQueue # << >>
  /\ cmdStr' = Head(cmdQueue)
  /\ processed' = Append(processed, cmdStr')
  /\ StackUsed
  /\ ppc' = "format"
  /\ UNCHANGED <<driver, tx, usbBuf, readCptSem, usbThread, cmdQueue, reader,
                 trap, sent, replies>>

(* xQueueReceive, and the command is printed to the log.                   *)
ReceiveCommand == /\ Running /\ ppc = "receive" /\ cmdQueue # << >>
                  /\ cmdStr' = Head(cmdQueue)
                  /\ cmdQueue' = Tail(cmdQueue)
                  /\ processed' = Append(processed, cmdStr')
                  /\ StackUsed
                  /\ ppc' = "format"
                  /\ UNCHANGED <<driver, tx, usbBuf, readCptSem, usbThread,
                                 reader, trap, sent, replies>>

M_FormatAnswer_SmallBuffer ==
  /\ Running /\ ppc = "format"
  /\ printfBuf' = cmdStr
  /\ ppc' = IF ReplyPackets[Head(cmdStr)] # 1 THEN "return" ELSE "transmit"
  /\ UNCHANGED <<driver, tx, usbBuf, readCptSem, usbThread, cmdQueue, reader,
                 cmdStr, processed, trap, sent, replies>>

(* The handler or the "is not supported" answer: vsnprintf_ into the stack *)
(* buffer; a text that fills it is not sent.                               *)
FormatAnswer == /\ Running /\ ppc = "format"
                /\ printfBuf' = cmdStr
                /\ ppc' = IF ReplyPackets[Head(cmdStr)] = 0
                          THEN "return" ELSE "transmit"
                /\ UNCHANGED <<driver, tx, usbBuf, readCptSem, usbThread,
                               cmdQueue, reader, cmdStr, processed, trap,
                               sent, replies>>

Transmit == /\ Running /\ ppc = "transmit"
            /\ R_USB_Write("reply", ReplyPackets[Head(cmdStr)])
            /\ ppc' = "return"
            /\ UNCHANGED <<driver, usbBuf, readCptSem, usbThread, cmdQueue,
                           reader, cmdStr, printfBuf, processed, trap, sent,
                           replies>>

(* USB_CDC_printf returns, its buffer is dead; the task calls              *)
(* xQueueReceive and waits.                                                *)
Return == /\ Running /\ ppc = "return"
          /\ StackUsed
          /\ ppc' = "receive"
          /\ UNCHANGED <<driver, tx, usbBuf, readCptSem, usbThread, cmdQueue,
                         reader, cmdStr, processed, trap, sent, replies>>

-----------------------------------------------------------------------------
Callback == \/ Configured \/ Request \/ RequestComplete \/ ReadComplete
            \/ SendPacket \/ Detach \/ Suspend \/ Resume
UsbThread == \/ OpenUsb \/ TakeRead \/ PostRead \/ WriteData \/ StoreHalf
             \/ CheckFull \/ DropOldest \/ GiveData \/ CleanBuf
ReadBufferThread == \/ TakeData \/ CopyHalf \/ AdvanceRead \/ ParseData
                    \/ QueueCommand
ProcessDataThread == ReceiveCommand \/ FormatAnswer \/ Transmit \/ Return

(* A BKPT stops the processor for good.                                    *)
Stopped == ~Running /\ UNCHANGED vars

Next == \/ Callback \/ UsbThread \/ ReadBufferThread \/ ProcessDataThread
        \/ Stopped

Spec == Init /\ [][Next]_vars

(* Threads block when they have no work and rotate at their priority; the  *)
(* driver completes what it has begun while the bus is up (the host polls  *)
(* the device and ends its control transfers).  Nothing makes the host     *)
(* send.                                                                   *)
FairSpec == /\ Spec
            /\ WF_vars(UsbThread) /\ WF_vars(ReadBufferThread)
            /\ WF_vars(ProcessDataThread)
            /\ WF_vars(SendPacket) /\ WF_vars(RequestComplete)

-----------------------------------------------------------------------------
Ids == 0 .. MaxMsg
Command == Seq(Msgs) \ {<< >>}
Halves == [id: Ids, half: {1, 2}]

TypeOK == /\ bus \in {"off", "on", "suspended"}
          /\ readPending \in BOOLEAN
          /\ trap \in {"none", "open", "control", "read"}
          /\ tx \in [src: {"none", "welcome", "reply"}, left: 0 .. 2,
                     seen: Seq(Command \cup {<< >>})]
          /\ control \in {"none", "coding", "state", "other"}
          /\ usbStatus \in {"none", "configured", "request_complete"}
          /\ usbBuf \in Ids \X Ids
          /\ readCptSem \in BOOLEAN /\ dataAvailSem \in BOOLEAN
          /\ buffer \in [Slots -> Halves]
          /\ writeIndex \in Slots /\ readIndex \in Slots
          /\ dropped \in BOOLEAN /\ met \in BOOLEAN /\ fifo \in Seq(Halves)
          /\ cmdQueue \in Seq(Command) /\ Len(cmdQueue) <= QueueLen
          /\ upc \in {"open", "take", "read", "write", "store", "check",
                      "drop", "give", "clean"}
          /\ left \in 0 .. 2 /\ (upc = "store" => left > 0)
          /\ rpc \in {"take", "drain", "advance", "send"}
          /\ drained \in Seq(Halves) /\ Len(drained) <= RingSize - 1
          /\ rtmp \in Slots
          /\ ppc \in {"receive", "format", "transmit", "return"}
          /\ parsed \in Seq(Command) /\ (rpc = "send" <=> parsed # << >>)
          /\ cmdStr \in Command \cup {<< >>}
          /\ ppc # "receive" => cmdStr # << >>
          /\ printfBuf \in Command \cup {<< >>}
          /\ sent \in Ids /\ unplugs \in 0 .. MaxUnplug
          /\ processed \in Seq(Command)
          /\ replies \in Seq(Seq(Command \cup {<< >>}))

(* As long as the bus never fails the reception cannot stop the firmware:  *)
(* neither the callback nor usb_pcdc_task posts a read while one is        *)
(* pending, which USB_PCDC_ERR_TRAP would answer with a BKPT.              *)
TrapOnlyAfterUnplug == trap = "read" => unplugs > 0

(* Once started, the reception goes round for ever: there is always        *)
(* exactly one read pending, one semaphore to take or one read to post.    *)
OneReadInTurn ==
  unplugs = 0 =>
    Cardinality({n \in 1 .. 3 :
                   <<readPending, readCptSem, upc = "read">>[n]})
      = IF usbStatus = "request_complete" THEN 1 ELSE 0

(* Losing, tearing and merging messages is possible; doing one twice or    *)
(* out of order is not, however the two threads meet in the ring and       *)
(* however often it overflows, unless both happen: writeData takes its     *)
(* drop branch while readData is, or has been, in the ring with it.  Then  *)
(* readIndex may pass writeIndex and the whole ring is read once more.     *)
NeverTwice == ~Broken => \A a, b \in 1 .. Len(processed) :
                           a < b => Last(processed[a]) < Head(processed[b])

(* When the three threads wait, no received byte is left in g_usb_buf or   *)
(* in the ring for the next message to trip over, whatever happened there. *)
NothingStranded == Running /\ ThreadsWait =>
                     usbBuf = NoBytes /\ readIndex = writeIndex

(* Whatever the host typed is processed, whole and in order, by the time   *)
(* the device is at rest.                                                  *)
NothingLost == AtRest /\ unplugs = 0 =>
                  processed = [k \in 1 .. sent |-> <<k, k>>]

(* For a host that waits until the device is at rest, the pipeline         *)
(* implements the turns of module RequestReply: a command is processed     *)
(* once, whole, before the next one is accepted, and its answer, all its   *)
(* packets, comes before the next command.  What the packets hold is       *)
(* another question: AnswersIntact.                                        *)
Turns == INSTANCE RequestReply
           WITH Packets <- ReplyPackets,
                answers <- [k \in 1 .. Len(replies) |-> Len(replies[k])]
ImplementsTurns == Turns!Spec

(* Every command is answered (if its answer fits), unless a BKPT stops the *)
(* firmware.                                                               *)
EveryCommandAnswered ==
  \A k \in Msgs : sent >= k ~> Len(replies) >= k \/ ~Running

(* README.md:5, "send any data to the converter to display on Tera Term":  *)
(* what the host reads is the answer to its command.  The last packets of  *)
(* an answer are read when USB_CDC_printf has returned and its buffer is   *)
(* dead.                                                                   *)
AnswersIntact == \A k \in 1 .. Len(replies) : \A p \in 1 .. Len(replies[k]) :
                   replies[k][p] = <<k, k>>
=============================================================================
