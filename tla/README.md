# USB CDC firmware for the RA6M4: TLA+ models, checks and proofs

This directory holds TLA+ specifications of the firmware under `src/`, the TLC
configurations that model-check them on small instances, and proofs checked by
TLAPS. Paths below are relative to the repository's `src/` directory
(`Apps/...`, `LowLevel/...`); `PROJECT.json` maps every definition to its lines.

## 1. The system

The board is a USB serial device (CDC). A host types AT commands; the firmware
answers each with a text and logs through the debugger's RTT channel.

    host -> usb_pcdc_callback -> USB thread -> ring_buffer -> Read Buffer thread
         -> parseData -> usb_cmd_queue -> Process Data thread
         -> hashTableLookup -> USB_CDC_printf -> R_USB_Write -> host

| Component | State | Operations | Hard behaviour | What makes it correct |
|---|---|---|---|---|
| Ring buffer, `Apps/utils/ringBuf.c` | `buffer`, `writeIndex`, `readIndex`; the semaphore `g_data_available_sem` beside it | `writeData` (USB thread), `readData` (Read Buffer thread) | no lock; both threads store `readIndex`; overwrites the oldest byte when full; one binary semaphore for many writes | bytes come out in order, once; no byte left behind; only the oldest are overwritten |
| Pipeline, `Apps/usb_pcdc/usb_pcdc.c`, `Apps/utils/usbLog.c` | `g_usb_status`, `g_usb_buf`, `g_line_coding`, two semaphores, `usb_cmd_queue`, the locals of three threads | the events of `usb_pcdc_callback`; the three task loops; `usbTransmit` | callbacks preempt the threads; one receive buffer, posted again before it is read; asynchronous write from a stack buffer; cable pulled, bus suspended | one read in turn; nothing processed twice or out of order; the reception runs into no BKPT without a bus failure; every command answered, with its own answer |
| Parser, `Apps/utils/parse.c` | `CommandParser`, local state machine | `parseData`, `cleanParserData` | commands cut by the end of a drain; `\r` without `\n`; rows and columns of fixed size | the commands of the text, no more and no less; no store outside a row, none behind the last one |
| Command table, `Apps/utils/commandSupport.c` | the `hash` column | `initHashTable`, `hashTableLookup`, handlers | a lookup by hash only | a supported command runs its handler, another one is refused |
| RTT channel, `LowLevel/SEGGER_RTT/SEGGER_RTT.c` | the control block: its ID, two tables of rings with `RdOff` and `WrOff`, flags, `_ActiveTerminal` | INIT, Write, PutChar, SetTerminal, TerminalOut, WriteWithOverwrite, Read, GetKey, WaitKey, allocation of buffers | the probe reads and writes memory at any time under no lock; the first callers race in INIT; three full-buffer modes; spinning with interrupts masked, polling for a key | what is accepted arrives once and in order, at its terminal; keys too; a buffer is given out once; the non-blocking modes do not wait |
| RTT printf, `SEGGER_RTT_printf.c` | a 64-byte chunk | `SEGGER_RTT_vprintf` | a text is written in several calls between which other tasks print; chunks refused half-way; arithmetic of widths and digits in one word | a text shows as a whole or without its end, never with a hole; numbers as C shows them |
| Printf, `Apps/utils/printf_util.c` | a stack buffer of 512 bytes, arrays of 32 for numbers | `_vsnprintf`, `USB_CDC_printf` | sign, prefix, zeros and width share one array; rounding; truncation | numbers as C shows them; a terminated text or its head; what is transmitted is whole |
| USB host task, `Apps/usb_hcdc` | event queue of pointers, `g_err_flag` | `usb_rtos_callback`, `usb_hcdc_task` | pointers to a record that is reused; return codes of two APIs; not started (`USB_MODE` is 1) | it stops on a failure only |
| `Apps/utils/stringFunction.c` | - | `checkUserInput` | the splitter that `parseData` replaced; no caller | the pieces are the line |
| descriptors, start-up | - | - | - | not modelled, see section 8 |

How they interact. The driver's task runs `usb_pcdc_callback`, above the
priority of the three threads. The threads share priority 1, without time
slicing, and rotate when the driver's task has run; so they interleave anywhere.
The callback wakes the USB thread (`g_usb_read_cpt_sem`), the USB thread fills
the ring and wakes the Read Buffer thread (`g_data_available_sem`), which
empties it and queues commands for the Process Data thread. `g_usb_buf` is
shared by the driver, the callback and the USB thread; `ring_buffer` by two
threads; the stack buffer of `USB_CDC_printf` by a thread and the driver.

The list of hazards with their lines is in `PROJECT.json`.

## 2. Modules

| Module | Models | Its runs |
|---|---|---|
| `ByteFifo` | what a byte buffer promises: a FIFO that may break, and then only when empty or full | the PROPERTY `ImplementsFifo` |
| `RingBuf`, `MCRingBuf` | `ringBuf.c` at the level of loads and stores | `RingBuf_overlap`, `RingBuf_typed` |
| `RingBuf_proofs` | theorems about `RingBuf` | TLAPS |
| `UsbPcdc`, `MCUsbPcdc` | the pipeline, composed | `UsbPcdc_patient`, `UsbPcdc_eager`, `UsbPcdc_lockstep`, `UsbPcdc_answers` |
| `UsbPcdc_proofs` | theorems about `UsbPcdc` | TLAPS |
| `RequestReply` | what the pipeline promises a host that waits: strict turns of command and answer | the PROPERTY `ImplementsTurns` |
| `AtParser` | `parse.c`, character by character | in `CommandLine` |
| `CommandHash` | the table and the lookup of `commandSupport.c`, with their arithmetic | in the next two |
| `CommandLine` | the parser with the lookup behind it; `checkUserInput` beside it | `CommandLine` |
| `CommandLine_proofs` | theorems about `AtParser` and about `checkUserInput` | TLAPS |
| `CommandTable` | the loop of `process_data_task` around the lookup | `CommandTable_others` |
| `SeggerRtt` | up-buffer 0 of `SEGGER_RTT.c` | `SeggerRtt` |
| `SeggerRtt_proofs` | theorems about `SeggerRtt` | TLAPS |
| `RttControl` | INIT, the tables of buffers and down-buffer 0 of `SEGGER_RTT.c` | `RttControl` |
| `RttControl_proofs` | theorems about `RttControl` | TLAPS |
| `PrintfUtil` | `printf_util.c` and `USB_CDC_printf` | in `MCPrintf` |
| `PrintfUtil_proofs` | theorems about `PrintfUtil` | TLAPS |
| `RttPrintf`, `MCPrintf` | `SEGGER_RTT_printf.c`; both printfs | `MCPrintf` |
| `RttPrintf_proofs` | theorems about `RttPrintf` | TLAPS |
| `UsbHcdc` | `usb_hcdc.c` | `UsbHcdc` |
| `Lemmas` | facts about numbers, counting and sequences that several proofs use | TLAPS |

The definitions whose names begin with `M_` are plausible bugs, one before the
definition it stands in for. Nothing uses them: replacing the definition by its
`M_` form must break the property listed beside it in `PROJECT.json`, which
shows that the property depends on the code.

### RingBuf

`writeData` is WriteData (the call), StoreByte, AdvanceWrite, CheckFull,
ReloadRead, DropOldest and GiveSem; `readData` is ReadData, TestRoom, TestEmpty,
CopyByte, LoadRead, AdvanceRead. The members of `ring_buffer_t` are not
volatile: where the C text reads an index twice, the second read is either a new
load or the register, and the loop condition reads its two indexes in either
order. A byte is its number in the stream, so order, loss and duplication show
in the values. `met` records that both threads were in the ring at once:
`KeepsNewest` is about the behaviours where they never were.

### UsbPcdc

One action per event of the callback and per step of a task between two points
where another task can be seen. A message is one command in one packet with two
halves, so that a copy can be torn. The ring has `RingSize` slots for halves,
and its two threads work on it without a lock as in RingBuf: WriteData,
StoreHalf, CheckFull, DropOldest against TakeData, CopyHalf, AdvanceRead,
ParseData. What RingBuf takes in two steps (the store of a slot and of
`writeIndex`; the two loads of a comparison) is one step here; the race of lines 23
and 24 with the reader is in both. `fifo` is a history: what a FIFO in place of
the ring would hold. `Broken` says that the drop branch was taken (`dropped`) and
that both threads were in the ring at once (`met`); the ring can then deliver old
commands again, and nothing is claimed of it.

The driver is modelled as the code uses it: `R_USB_Read` fails when a read is
pending or the device is not configured, `R_USB_Write` when a write is in
progress, and it reads the caller's buffer packet by packet later. R_USB_Open
and the calls that answer a class request may fail at any time. `trap` names the
call whose failure has stopped the firmware. A class request the code does not
know changes nothing and stays unanswered. `USB_CDC_printf` returns when the
write is accepted and its buffer is dead then: from there on what the task does
may leave `printfBuf` as it is or overwrite it (`StackUsed`).

`Patience` says when the host sends: `"free"` (whenever the device accepts a
packet), `"reply"` (after the answer to the last command), `"rest"` (when the
device is at rest). For a host of the last kind `sent`, `processed` and the number
of packets of each reply are a behaviour of `RequestReply`: every other step of
the pipeline is a stutter there. For the others they are not (finding 2), and the
eager run checks what remains. What the packets hold is another question,
and even for the patient host the answer is bad (finding 3).

### AtParser, CommandHash, CommandLine, CommandTable

`parseData` is one action per case of its switch. The reference is `CommandsOf`,
a definition by positions without a state machine. NextCall ends a call after any
character and starts the next, as a drain does. CommandHash computes `hashFunc`
on character codes; below 256 characters the 32-bit sum cannot wrap. CommandLine
puts the two together: each command the parser finds in a typed line goes to the
lookup, and the same lines go to `checkUserInput`. A character of the input
there stands for a plus sign and any name, which lets lines with two whole
commands fit the bound; the lookup is asked for each name of the table and for one
that is not in it.

`commandCount` is compared with nothing: with `MaxRows` commands finished the next
'A' is stored behind `commands`. Overrun is that store; as C does not define
what it does, the behaviour ends there.

### SeggerRtt

SEGGER_RTT_LOCK raises BASEPRI, so one function of the target runs at a time; an
action is a load or store that the probe can see: the free space (`Round`, or
the first step of a call), the copy, the store of `WrOff`. The probe loads
offsets, copies and stores `RdOff`; the header of
`SEGGER_RTT_ReadUpBufferNoLock` says that function does what J-Link does, and the
probe's actions are translated from it. Writers refused for lack of room change
nothing and are no step.

`WriteWithOverwriteNoLock` may only be called without a probe; it is a function
of the buffer that is evaluated at every idle state.

### RttControl

INIT looks at the first character of the ID and calls `_DoInit`, which clears
the control block, fills in the buffers 0 and stores the ID, its first character
first. `SEGGER_RTT_Read` locks before INIT; the allocating functions call INIT
before they lock, so two of them can be in it together. Test, Clear, Fill,
StoreFirst and StoreRest are the steps between which a task can be preempted; a
task that holds the lock is not. The probe looks for the whole ID and then
writes keys as `SEGGER_RTT_WriteDownBufferNoLock` does. `undone` records that a
memset has wiped what another task had done.

### PrintfUtil, RttPrintf

`_vsnprintf` goes through the format item by item; Format is one pass of its loop,
and `TextOf` the text it produces, with the flags, the width, the precision and
the argument as the code takes them: the arrays of numbers have their limited
size, arguments wrap at their width, `IntBits` is the width of an int. A
number is compared with `CText`, which says what ISO C asks for and shares
only `Digits` and `Sign` with the code's side. RttText is the same for the log's
printf, which has a different algorithm: it builds numbers from the first digit.
Both were compared on several thousand formats with the compiled C functions when
they were written. The second half of RttPrintf leaves the text alone: a
character is its call and its place. Each call of `SEGGER_RTT_Write` is one
step (SeggerRtt shows that it may be), between which other tasks write.

### UsbHcdc

One action per event of the driver and per step of the task. The event records
belong to the driver, which uses `NumRecords` of them in turn; the queue holds
their indices, and the switch reads the record, not a copy. A BKPT stops the
firmware until a debugger resumes it.

## 3. Runs and what they show

| Run | Bounds | Shows |
|---|---|---|
| `RingBuf_overlap` | ring of 3 slots, 4 bytes, strings of up to 3 | at every interleaving: types, the inductive invariant, no stranded byte, FIFO until the first drop, only the oldest bytes lost as long as the threads took turns, refinement of `ByteFifo`, delivery of every byte |
| `RingBuf_typed` (violation) | 2 bytes | see finding 1 |
| `UsbPcdc_patient` | 5 commands, ring of 3 slots, answers of 1 or 2 packets | refinement of `RequestReply`: strict turns, commands whole, answers of as many packets as they have; nothing lost, every command answered |
| `UsbPcdc_eager` | 3 commands, queue of 1, ring of 4 slots, 1 bus failure | no read refused without a bus failure, one read in turn, nothing processed twice or out of order until the race of the ring, nothing left behind when the threads wait |
| `UsbPcdc_lockstep` (violation) | 2 commands | see finding 2 |
| `UsbPcdc_answers` (violation) | 2 commands, the answer to the second in 2 packets, a host that waits for rest | see finding 3 |
| `CommandLine` | all texts of 8 characters over A, T, CR, LF and "+NAME", in one or two calls; 2 rows of 10 | the commands of the text, stores inside the row and the array until the rows are used up, a cut costs one command; each listed command runs its handler; `checkUserInput` splits the line and loses nothing of it |
| `CommandTable_others` (violation) | names of up to 3 letters A to P | see finding 4 |
| `SeggerRtt` | 6 slots, 7 bytes, texts of up to 3, two terminals, 3 modes | every accepted byte is delivered once, in order, at its terminal; skip and trim never wait; the overwriting write keeps the newest bytes |
| `RttControl` | 2 tasks, 3 calls, 2 buffers of each kind, a down-buffer of 3, 3 keys | an initialization undoes something only when two tasks are in INIT together; otherwise each buffer is given once and each key received once, in order; every call returns unless some task polls for a key, those of a more urgent task even then |
| `MCPrintf` | ints of 8 bits, arrays of 8, a buffer of 6; every set of flags with 4 widths, 4 precisions, 4 lengths, 4 integers, 13 doubles; 2 tasks, 3 log texts of up to 7 in chunks of 3 | integers as ISO C has them, decimals rounded to nearest, truncation and terminator, what is transmitted is whole; log texts are cut at their end only, short ones are not mixed |
| `UsbHcdc` (violation) | 4 events | see finding 5 |

Why the bounds are enough. A ring of 3 slots is the smallest with an empty, a
part-filled and a full state that differ; 4 bytes fill it, drop one and wrap; a
string of 3 fills it by itself, as a 512-byte packet does. In UsbPcdc three
commands give one being answered, one queued and one in the buffer, with a queue
of one. A ring of 4 slots holds a command and a half: a second one overflows it,
and a third meets what lies behind `readIndex`. In CommandLine the shortest
command has 4 characters, so 8 hold two, or one and the pieces of a wrong one,
around a cut; a command with a name has 5, with 3 more before, inside or behind
it. Two rows are used up by two commands, and a drain may hold one character more. In SeggerRtt 7 bytes wrap 6 slots, and a terminal change and back
(4 bytes) just fits beside a text. In RttControl three calls are two that race in
INIT and one that finds what they left; 3 keys wrap a ring of 3. In MCPrintf
arrays of 8 are reached by digits, zeros, prefix and sign alike, as arrays of 32
are by a wide format; the widths are below, at and above the length of the
texts; the doubles lie on, above and below half a unit of a decimal, with and
without a carry.

`CHECK_DEADLOCK FALSE` is set in three passing runs: `CommandLine`, because the
input ends; `RttControl` and `MCPrintf`, because the calls are bounded. In UsbPcdc
a BKPT stops the firmware, which is the step Stopped; elsewhere TLC finds no
deadlock.

## 4. Fairness

- RingBuf: weak fairness of each thread's steps. Both have one priority, block
  when they have no work, and the scheduler rotates ready threads of a priority
  whenever the driver's task has run. Nothing makes the host send.
- UsbPcdc: the same for the three threads; and the driver completes a write and a
  control transfer it has begun while the bus is up, because the host polls. No
  fairness for the host's commands or for the bus.
- SeggerRtt: a function under the lock runs on; the probe comes back to the
  buffer. Without a probe the blocking mode waits for ever, and the default mode
  is skip.
- RttControl: the processor does some task's step while there is one to do, and
  the probe finishes a store it has begun. A task that polls in
  `SEGGER_RTT_WaitKey` neither blocks nor yields, and time slicing is off
  (`ra_cfg.txt:452`): it keeps tasks of its own priority off the processor for as
  long as there is no key. So nothing more is assumed of them, and `CallsReturn`
  claims a return only where no task polls. Strong fairness is given to one task,
  `Urgent`, whose priority is above the others': it runs whenever the interrupts
  are not masked, and the lock is free between two polls. Nothing makes the host
  send keys.

## 5. Findings

1. `Apps/utils/ringBuf.c:23`. The full test compares the indexes after
   `writeIndex` was stored. If the reader takes the new byte in between, the
   ring is empty, not full, and the writer moves `readIndex` past `writeIndex`:
   `readData` then delivers slots nobody wrote. One byte is enough.
2. `Apps/usb_pcdc/usb_pcdc.c:87`. The next read is posted before `g_usb_buf` is
   copied and cleared; a command that arrives in between is wiped, also when the
   host waits for each answer before it sends.
3. `Apps/utils/usbLog.c:39`. `USB_CDC_printf` returns while the driver still reads
   its stack buffer; what the task calls next may overwrite the packets of the
   answer that have not left. Whether it does is up to the compiler's stack frames
   and to the time the driver takes.
4. `Apps/utils/commandSupport.c:55`. The lookup compares hashes only: `AT+ABM`
   is answered as `AT+LED`.
5. `Apps/usb_hcdc/usb_hcdc.c:51`. The result of `xQueueReceive`, `pdTRUE` when
   it has an event, is compared with `FSP_SUCCESS`, which is 0: the first event of
   a device closes the USB module and stops the firmware, though nothing has
   failed. Only a build with `USB_MODE` 0 runs this task.

Errors met on the way, without a run of their own:

- `SEGGER_RTT.c:2099`. `SEGGER_RTT_GetBytesInBuffer` turns the sign of the
  difference when the used part wraps and returns more than the buffer holds.
- `printf_util.c:400`. Half a unit is rounded up without the rollover test of
  line 391, and the count of the missing zeros then goes below zero: `"%.1f"` of
  0.95 prints `00000000000000000000000000000010`.
- `printf_util.c:244`. With `#`, digits that reach the width are taken for zeros:
  `"%#4x"` of 0x1234 prints `0x34`. With `-` a precision is ignored (line 230).
- `parse.c:56`. `commandCount` is not compared with `MAX_CMD_SUPPORT` (`parse.h:15`):
  with ten commands in one drain the next one is written behind `commands`, onto
  `commandCount` first. Ten commands take 40 characters, a drain has up to 511.
  `StoresInRow` says when it can happen.
- `SEGGER_RTT_printf.c:460`. The result counts the last chunk twice, whether it was
  stored or not; lines 319 and 478 call it the number of bytes stored. The
  firmware does not look at it.
- `SEGGER_RTT.c:906`. A text so long that it wraps twice leaves the last slot as
  it was.

`IntegersAsC`, `FloatsNearest`, `LogsAsC` and `OverwriteKeepsNewest` name the cases
they leave out for these reasons; the models have them.

## 6. What is proved

`RingBuf_proofs` proves, for every ring size of at least 2, every string length,
every length asked for and every bound on the bytes:

- `TypeCorrect`: `Spec => []TypeOK`; both indexes always name a slot.
- `IndInvariant`: `Spec => []IInv`.
- `FifoCorrect`: `Spec => []FifoUntilDrop`.
- `ImplementsFifoCorrect`: `Spec => ImplementsFifo`, step by step: each step of
  the two threads is a Put, a GetNext, a Break, a GetAny or a stutter of
  `ByteFifo`.

From the assumptions `SizeAssumption` and `BoundsAssumption` only. The types
alone do not give the order: a byte is delivered in three steps (copy, load of
`readIndex`, store), a byte is stored in two, and the full test comes after
both. `IInv` therefore says, as long as nothing was dropped: `writeIndex` is
`Held` places after `readIndex`, where `Held` counts what was written and not
yet passed; the slots between hold consecutive numbers; the reader's register is
the current `readIndex`, and it only goes on to copy when `Held > 0`; `Held =
Size` only at the full test. `Place` describes a slot by its distance, so that
the proof needs no modulo: `NextSlotWraps` is the one lemma about `%`. The drop
branch ends the claim: finding 1 shows why it must. TLC checks `IInv` as an
invariant of `RingBuf_overlap`.

Two more:

- `NoLostWakeUp`: if `readData` is asked for `Size - 1` bytes (`usb_pcdc.c:101`),
  `Spec => []NoStrandedBytes`. The semaphore is binary, so several gives are one
  wake-up. `WakeInv`: while the writer is idle and the semaphore is empty, a
  sleeping reader has met the writer, and an awake one still has room for all the
  bytes behind `readIndex`. It needs no order of the bytes, so it holds after the
  drop of finding 1 too.
- `NewestAreKept`: `Spec => []KeepsNewest`. `TurnInv`: as long as the threads have
  taken turns, one of them rests, the slots from `readIndex`
  hold the newest bytes that were not read, `Size - 1` at most, and what was
  delivered increases.

`UsbPcdc_proofs` proves, for every number of messages, every size of the ring and
of the queue, every length of the answers, every host and every number of bus
failures:

- `TypeCorrect`: `Spec => []TypeOK`.
- `NoTrapWithoutUnplug`: `Spec => []TrapOnlyAfterUnplug`, and `OneReadAtATime`:
  `Spec => []OneReadInTurn`. `ReadInv`: as long as the bus has not failed, the one
  read is pending at the driver, or complete and not yet taken, or about to be
  posted by the USB thread, and these exclude each other. The traps of R_USB_Open
  and of the class requests are no part of the claim: the driver may fail there.
- `NothingIsStranded`: `Spec => []NothingStranded`. `StrandInv` names, for the
  receive buffer and for the ring, who will look at it next. For the ring it uses
  the indexes as they are, so it holds after the race of finding 1 too.
- `NeverProcessedTwice`: `Spec => []NeverTwice`. `RingInv` ties the ring to `fifo` as
  `IInv` of RingBuf does to the stream, until the ring is `Broken`. `OrderInv` reads
  the whole way of a message as one line (`Line`: processed, queued, parsed): its
  numbers increase, and what is in the ring and in `g_usb_buf` is of no command
  that is in the line already, though both buffers are cleared late or not at all.
- `RestLosesNothing`: if the host sends when the device is at rest and
  `RingSize >= 3`, so that the ring holds a message, `Spec => []NothingLost`.
  `RestInv`: exactly one place of the pipeline works on the last message, and all
  others are at rest; so the threads never meet in the ring.
- `TakesTurns`: if, besides, the bus does not fail and every answer fits the
  buffer, `Spec => ImplementsTurns`, the refinement of `RequestReply`, one step
  of the pipeline at a time. `TurnInv` adds how many packets of the answer have
  left. It says nothing of what is in them (finding 3).

That the host waits cannot be dropped from the last two: finding 2 is the
counterexample for one that waits for the answer only. `Broken` cannot be dropped
from `NeverTwice`: without it TLC finds a command done twice, in the bounds of
`UsbPcdc_eager`.

`SeggerRtt_proofs` proves, for every size of the up-buffer, every set of terminals,
texts of any length and reads of any size, from `RttAssumption` only:

- `TypeCorrect`: `Spec => []TypeOK`.
- `NothingIsLost`: `Spec => []Conserved`.
- `NoWaiting`: `Spec => []NeverWaits`.
- `TextsAreShownWhereMeant`: `Spec => []ShownWhereMeant`.
- `OverwriteIsCorrect`: `Spec => []OverwriteKeepsNewest`.

`IInv` is `TypeOK` with four parts. `WriterInv`: a chunk fits the room as it is now,
though the room was computed before the probe moved `RdOff`, and once copied it is
in the slots behind `WrOff`. `ProbeInv`: what the probe is about to read, and has
read, lies before `WrOff` as it is now. `BytesInv`: the bytes accepted are those the
probe has, then those in the ring, then those of the texts to be published, in that
order. `RoomInv`: in the modes that do not wait there is room for all that was
accepted. `ShownInv` is about terminals: each byte of `log` comes behind the ID of
the terminal it was written for. The overwriting write is a function of the
buffer; its proof follows the two loops of the code.

`CommandLine_proofs` proves, for rows of any length, every set of characters, any number
of calls and texts of any length, the first four from `ParserAssumption` only:

- `TypeCorrect`: `Spec => []TypeOK`: `commandIndex` is a column, `commandCount` at most
  the number of rows.
- `FindsTheCommands`: `Spec => []ParsesCommands`: the state machine finds the
  commands that `CommandsOf` defines by positions.
- `StoresAreInside`: `Spec => []StoresInRow`: the store behind the last row takes more
  than four characters of text for each row.
- `EachCutCostsOne`: `Spec => []CutCostsOneCommand`.
- `LinesAreSplit`: `Spec => []SplitsTheLine`.

`ParseInv` ties each state of the machine to the text read so far: in IDLE and AT
no "AT" of the last line is open, in CMD and CR the row being filled is the text
from the first one on (`Open`, `Closed`, `Holds`). It also says that four characters
are read for each row; `RowsInv` that a row begun is one of `MaxRows`. `EarlierInv` carries the commands
of the earlier calls: each ends where a command of the whole stream ends, and
each cut loses one at most.

`LinesAreSplit` is about the other splitter. The function of the loop of
`checkUserInput` is defined by recursion from each "AT" to the next one;
`SplitsExist` shows that there is one, and `SplitIs` goes from the last "AT" back to
the first: `IsChain` says that from there on the pieces are as many as the "AT"s,
begin with them and together are the text up to the "\r\n". `Trimmed` takes the
spaces away, for which it needs that a space is no character of a line
(`LineAssumption`). `LastIsCommand` ties the last piece to `CommandsOf`, and with
`ParseInv` to what parseData finds: if every '\r' has its '\n', there is none
between the last "AT" and the first "\r\n" behind it, so both are in one line
there.

`RttPrintf_proofs` proves over `RttSpec`, for every number of tasks, every text and
every size of the chunk:

- `CutsAreAtTheEnd`: `RttSpec => []CutOnlyAtTheEnd`.
- `ShortTextsAreWhole`: `RttSpec => []ShortTextsWhole`.

`RttInv` says of a call under way that all it passed on is in the stream, in whole
chunks, and that it is one task's only (`CallInv`); every character of the stream
is of a text (`StreamInv`); and of all calls, what is stored of a short one
(`ShortWhole`).

Over `UsbSpec` (below), for every width of an int, argument, field and precision:

- `LogsAreAsC`: `UsbSpec => []LogsAsC`.

SEGGER_RTT_printf puts out the first digit first, by a weight it multiplies up and
divides down again; the reference `CText` has the digits that `_ntoa_long` finds
from the last one on. `Place(v, base, j)` stands between them: the digit of v at
the weight base^j. `DigitsSpan` says what `Digits` gives in these terms,
`WordsArePowers` and `DigitOfIs` that the weight is the power of the base as long
as a word holds it (the premise of `LogsAsC`), `WeightsAre` and `LeftIs` what the
loop divides in each round; `ShownAsFilled` joins them. `PrintUnsignedIs` and
`PrintIntIs`, which does the padding in two places, bring sign, zeros and spaces
to one form, `LogText`, and `CTextIs` brings C's there. That 2^n grows (`HalfIsLess`,
`PowersAreLarge`) has no induction over `^` to rest on; it is counted out on the
subsets of 1 .. n. The powers, weights and digits are functions defined by
recursion, which exist by `RecursionExists`.

`PrintfUtil_proofs` proves over `UsbSpec`, for every set of formats and arguments, every
size of the buffer and of the arrays, and every width of an int:

- `NeverAHead`: `UsbSpec => []TextOrItsHead`. Its larger part shows that every
  conversion yields a finite text; the rest is the count of `_vsnprintf` against
  the size of its buffer.
- `IntegersAreAsC`: `UsbSpec => []IntegersAsC`. The code writes the digits of an
  integer backwards into an array, then zeros, prefix and sign, and takes zeros
  away again for a `#`; `FormatIs` says that sign, prefix, zeros and digits then
  stand in that order and are filled up to the width, when they fit. The cases
  `AsC` leaves out are the errors of section 5.
- `FloatsAreNearest`: `UsbSpec => []FloatsNearest`. A double is a fraction, as
  everywhere in the model. `NearIs` shows that the numbers within half a unit of the
  last decimal are the scaled fraction rounded down or up, `RoundedNear` that
  `_ftoa` takes one of them, a carry into the whole part included. The array is
  filled backwards: `Decimal` are the decimals with the zeros counted down by
  `prec`, `Pointed` the whole part and the point before them; `FtoaShows` joins them
  with the sign. The premises of `FloatsNearest` leave out a field width,
  the carry of section 5, line 400, and a text that does not fit the array.

TLC runs the two printfs side by side in `MCPrintf` (NextFormat beside NextRtt).
They share no variable, so the theorems are about each alone.

The provers cannot instantiate the library's induction theorems. `Lemmas` and the
proofs above take the least element of the set of counterexamples instead
(`LeastElement`), which the library's theorem about well-founded relations gives.
With it are proved `FlattenSeq` for sequences of any length, the recursive functions
`Digits`, and the counts of `EachCutCostsOne`.

`RttControl_proofs` proves, for every finite set of tasks, every size of the two
tables and of the down-buffer, every length of a read and every bound:

- `TypeCorrect`: `Spec => []TypeOK`.
- `RaceCorrect`: `Spec => []UndoneOnlyInRace`.
- `ReadyCorrect`: `Spec => []ReadyAfterInit`.
- `GivenOnceCorrect`: `Spec => []GivenOnce`.
- `KeysCorrect`: `Spec => []KeysConserved`.

From `ControlAssumption` and `NamesAssumption`. The types need `LockInv`: a read
owns the lock from the copy to the store, so the length it has found is below
`Size` when `RdOff` is moved by it. `RaceInv` describes an initialization by one
task alone (`Solo`: no two tasks have found no ID): up to the store of the first
character there is no ID, up to the filling in nothing is allocated, and no other
task is past INIT; so the memset of a lone caller can undo nothing. `ReadyInv` and
`GivenInv` then hold as long as nothing was undone, because an allocation takes an
entry that is NULL, which neither buffer 0 nor a buffer given before is. They do
not hold without that premise: two callers in INIT wipe each other's tables.
`KeysInv` is about the ring of keys: `Rd` and `Wr` are the offsets as they are when
the stores under way are done, and the slots between them hold the keys sent and
not received; a read stays within what `WrOff` showed it and the probe writes
behind it, so neither needs the other's latest store. `Distances` and `Between`
are the only lemmas about the arithmetic of the ring. That an initialization
spares the keys takes `ReadyInv`: no probe has found a block without an ID.

## 7. Only model-checked

- Liveness (`EveryByteDelivered`, `EveryCommandAnswered`, `AllDelivered`,
  `CallsReturn`): out of the prover's reach. The safety half of
  `EveryByteDelivered` is `NoLostWakeUp`.
- `ListedCommandsRun`: the hash of a text, folded over its characters, against the
  three hashes of the table. It is about the table as it is.
- The properties of the five violation runs, which do not hold.

## 8. Not modelled

- FreeRTOS and the Renesas USB driver: not in the repository; modelled as the
  code uses them.
- `printf_util.c`: `_etoa` (`%e`, `%g`, and floats beyond `PRINTF_MAX_FLOAT`), whose
  result depends on the bits of a double; `printf_`, `sprintf_` and `fctprintf`,
  which nothing calls.
- `SEGGER_RTT.c`: HasKey, HasData and HasDataUp, which change nothing;
  GetBytesInBuffer (see above); the Config, SetName and SetFlags functions of
  buffers other than 0, which no code calls.
- `dbg.h` and the headers: macros and types, which appear where they are used.
- `r_usb_pcdc_descriptor.c`: constant tables. `hal_entry.c`, `conf_usb.h`,
  configuration and linker files: generated.
- The conversion to a UART of which the project's README speaks has no code.
- `SEGGER_RTT_WriteSkipNoLock`: this build takes the assembly version, whose
  source is not in the repository.

## 9. Plan

1. `_etoa`, as a function on decimal fractions.
2. `ListedCommandsRun` as a theorem: it needs the hash as a weighted sum of the
   characters.
