----------------------------- MODULE RttControl -----------------------------
(***************************************************************************)
(* LowLevel/SEGGER_RTT/SEGGER_RTT.c: the control block, which the first    *)
(* caller initializes, which tasks allocate buffers from, and down-buffer  *)
(* 0, through which the host's keys come.                                  *)
(*                                                                         *)
(* SEGGER_RTT_LOCK stops every other task, so what a function does under   *)
(* the lock is one step but where the probe can see it.  INIT is not       *)
(* always under the lock: SEGGER_RTT_Read locks first, the other functions *)
(* call INIT first.  A key is its number.                                  *)
(***************************************************************************)
EXTENDS Integers, Sequences, FiniteSets, SequencesExt

CONSTANTS Tasks,       \* those that call
          Urgent,      \* the one whose priority is above the others'
          NumUp,       \* SEGGER_RTT_MAX_NUM_UP_BUFFERS
          NumDown,     \* SEGGER_RTT_MAX_NUM_DOWN_BUFFERS
          Size,        \* BUFFER_SIZE_DOWN
          BufferSizes, \* how much SEGGER_RTT_Read is asked for
          MaxKeys,     \* bound: keys the host sends
          MaxCalls     \* bound: calls over all tasks

ASSUME ControlAssumption ==
  /\ IsFiniteSet(Tasks) /\ Urgent \in Tasks
  /\ NumUp \in Nat \ {0} /\ NumDown \in Nat \ {0} /\ Size \in Nat /\ Size > 1
  /\ BufferSizes \subseteq Nat \ {0} /\ MaxKeys \in Nat /\ MaxCalls \in Nat

Null == "NULL"
Static == "static"  \* _acUpBuffer, _acDownBuffer
Nobody == "nobody"
ASSUME NamesAssumption == {Null, Static, Nobody} \cap Tasks = {}

Allocs == {"AllocUp", "AllocDown"}
Reads == {"Read", "WaitKey"}
Slots == 0 .. Size - 1
Unused(num) == [i \in 0 .. num - 1 |-> Null]

VARIABLES
  acID,         \* what of the ID is stored: {}, {"first"} (acID[0]), ...
  aUp, aDown,   \* the column pBuffer of each table: Null or whose it is
  mem, rdOff, wrOff, \* the ring of aDown[0]
  lock,         \* the task that holds the RTT lock, or Nobody
  pc, op,       \* per task: where it is, in which function
  ask,          \* BufferSize of the read that runs
  hpc, hWr,     \* the probe: "search", "idle", "store"; the WrOff to store
  calls,        \* calls begun
  sent,         \* keys the probe has copied into the ring
  received,     \* history: the keys the tasks got
  given,        \* history: <<table, index, task>> of each allocation
  early,        \* history: the tasks that found no ID
  undone        \* history: an initialization has undone something

block == <<acID, aUp, aDown, mem, rdOff, wrOff>>
task == <<lock, pc, op, ask, calls>>
probe == <<hpc, hWr, sent>>
history == <<received, given, early, undone>>
vars == <<block, task, probe, history>>

Init == /\ acID = {} /\ aUp = Unused(NumUp) /\ aDown = Unused(NumDown)
        /\ mem = [s \in Slots |-> 0] /\ rdOff = 0 /\ wrOff = 0
        /\ lock = Nobody /\ pc = [t \in Tasks |-> "idle"]
        /\ op = [t \in Tasks |-> "none"] /\ ask = 0
        /\ hpc = "search" /\ hWr = 0 /\ calls = 0 /\ sent = 0
        /\ received = << >> /\ given = << >> /\ early = {} /\ undone = FALSE

Used(rd, wr) == IF rd <= wr THEN wr - rd ELSE Size + wr - rd
M_Advance_PastEnd(off, n) == IF off + n > Size THEN off + n - Size ELSE off + n

Advance(off, n) == IF off + n >= Size THEN off + n - Size ELSE off + n
BytesFrom(off, n) == [b \in 1 .. n |-> mem[Advance(off, b - 1)]]
Least(a, b) == IF a <= b THEN a ELSE b

(* Task t is at its place p, and no other task holds the lock.             *)
At(t, p) == pc[t] = p /\ lock \in {t, Nobody}
Go(t, p) == pc' = [pc EXCEPT ![t] = p] /\ UNCHANGED <<op, ask, calls>>
Return(t) == /\ pc' = [pc EXCEPT ![t] = "idle"]
             /\ op' = [op EXCEPT ![t] = "none"] /\ ask' = 0
             /\ UNCHANGED calls

-----------------------------------------------------------------------------
(* A call; SEGGER_RTT_Read takes the lock before INIT.                     *)
CallAlloc(t, function) ==
  /\ At(t, "idle") /\ calls < MaxCalls
  /\ pc' = [pc EXCEPT ![t] = "test"] /\ op' = [op EXCEPT ![t] = function]
  /\ calls' = calls + 1
  /\ UNCHANGED <<block, lock, ask, probe, history>>

CallRead(t, function, bufferSize) ==
  /\ At(t, "idle") /\ calls < MaxCalls
  /\ function = "WaitKey" => bufferSize = 1
  /\ pc' = [pc EXCEPT ![t] = "test"] /\ op' = [op EXCEPT ![t] = function]
  /\ lock' = t /\ ask' = bufferSize /\ calls' = calls + 1
  /\ UNCHANGED <<block, probe, history>>

(* INIT: only the first character of the ID is looked at.                  *)
Test(t) == /\ At(t, "test")
           /\ \/ "first" \notin acID /\ Go(t, "clear")
                                     /\ early' = early \cup {t}
              \/ "first" \in acID /\ Go(t, "work") /\ UNCHANGED early
           /\ UNCHANGED <<block, lock, probe, received, given, undone>>

(* _DoInit: the memset, then the buffers 0.                                *)
Clear(t) ==
  /\ At(t, "clear") /\ Go(t, "fill")
  /\ undone' = (undone \/ acID # {} \/ aUp # Unused(NumUp)
                       \/ aDown # Unused(NumDown))
  /\ acID' = {} /\ aUp' = Unused(NumUp) /\ aDown' = Unused(NumDown)
  /\ rdOff' = 0 /\ wrOff' = 0
  /\ UNCHANGED <<mem, lock, probe, received, given, early>>

M_Fill_IdFirst(t) ==
  /\ At(t, "fill") /\ Go(t, "first")
  /\ undone' = (undone \/ aDown[0] # Null)
  /\ aDown' = [aDown EXCEPT ![0] = Static] /\ UNCHANGED aUp
  /\ rdOff' = 0 /\ wrOff' = 0
  /\ UNCHANGED <<acID, mem, lock, probe, received, given, early>>

Fill(t) ==
  /\ At(t, "fill") /\ Go(t, "first")
  /\ undone' = (undone \/ aUp[0] # Null \/ aDown[0] # Null)
  /\ aUp' = [aUp EXCEPT ![0] = Static]
  /\ aDown' = [aDown EXCEPT ![0] = Static]
  /\ rdOff' = 0 /\ wrOff' = 0
  /\ UNCHANGED <<acID, mem, lock, probe, received, given, early>>

M_StoreFirst_Skipped(t) == /\ At(t, "first") /\ Go(t, "rest")
                           /\ UNCHANGED <<block, lock, probe, history>>

(* The ID, from its first character on.                                    *)
StoreFirst(t) == /\ At(t, "first") /\ Go(t, "rest")
                 /\ acID' = acID \cup {"first"}
                 /\ UNCHANGED <<aUp, aDown, mem, rdOff, wrOff, lock, probe,
                                history>>

StoreRest(t) == /\ At(t, "rest") /\ Go(t, "work")
                /\ acID' = acID \cup {"rest"}
                /\ UNCHANGED <<aUp, aDown, mem, rdOff, wrOff, lock, probe,
                               history>>

(* The first index whose pBuffer is NULL, in a set; none if the table is   *)
(* full.                                                                   *)
M_FirstUnused_SkipsLast(table, num) ==
  {i \in 0 .. num - 1 : /\ table[i] = Null \/ i = num - 1
                        /\ \A j \in 0 .. i - 1 : table[j] # Null}

FirstUnused(table, num) ==
  {i \in 0 .. num - 1 : /\ table[i] = Null
                        /\ \A j \in 0 .. i - 1 : table[j] # Null}

(* SEGGER_RTT_AllocUpBuffer; -1 when the table is full.                    *)
AllocUpBuffer(t) ==
  /\ At(t, "work") /\ op[t] = "AllocUp" /\ Return(t)
  /\ \/ \E i \in FirstUnused(aUp, NumUp) :
          /\ aUp' = [aUp EXCEPT ![i] = t]
          /\ given' = Append(given, <<"up", i, t>>)
     \/ FirstUnused(aUp, NumUp) = {} /\ UNCHANGED <<aUp, given>>
  /\ UNCHANGED <<acID, aDown, mem, rdOff, wrOff, lock, probe, received,
                 early, undone>>

(* SEGGER_RTT_AllocDownBuffer.                                             *)
AllocDownBuffer(t) ==
  /\ At(t, "work") /\ op[t] = "AllocDown" /\ Return(t)
  /\ \/ \E i \in FirstUnused(aDown, NumDown) :
          /\ aDown' = [aDown EXCEPT ![i] = t]
          /\ given' = Append(given, <<"down", i, t>>)
     \/ FirstUnused(aDown, NumDown) = {} /\ UNCHANGED <<aDown, given>>
  /\ UNCHANGED <<acID, aUp, mem, rdOff, wrOff, lock, probe, received,
                 early, undone>>

(* SEGGER_RTT_ReadNoLock finds bytes and copies them.                      *)
ReadCopy(t) ==
  LET n == Least(Used(rdOff, wrOff), ask)
  IN /\ At(t, "work") /\ op[t] \in Reads /\ n > 0
     /\ received' = received \o BytesFrom(rdOff, n)
     /\ pc' = [pc EXCEPT ![t] = "store"] /\ ask' = n
     /\ UNCHANGED <<block, lock, op, calls, probe, given, early, undone>>

(* Its store of RdOff; SEGGER_RTT_Read unlocks.                            *)
M_ReadStore_ToWrOff(t) ==
  /\ At(t, "store") /\ Return(t)
  /\ rdOff' = wrOff
  /\ lock' = Nobody
  /\ UNCHANGED <<acID, aUp, aDown, mem, wrOff, probe, history>>

ReadStore(t) == /\ At(t, "store") /\ Return(t)
                /\ rdOff' = Advance(rdOff, ask)
                /\ lock' = Nobody
                /\ UNCHANGED <<acID, aUp, aDown, mem, wrOff, probe, history>>

(* Without bytes SEGGER_RTT_Read returns 0 ...                             *)
ReadNothing(t) == /\ At(t, "work") /\ op[t] = "Read" /\ rdOff = wrOff
                  /\ Return(t)
                  /\ lock' = Nobody
                  /\ UNCHANGED <<block, probe, history>>

(* ... and SEGGER_RTT_WaitKey calls it again.                              *)
M_WaitKeyUnlocks_Not(t) ==
  /\ At(t, "work") /\ op[t] = "WaitKey" /\ rdOff = wrOff
  /\ lock' = lock
  /\ UNCHANGED <<block, pc, op, ask, calls, probe, history>>

WaitKeyUnlocks(t) ==
  /\ At(t, "work") /\ op[t] = "WaitKey" /\ rdOff = wrOff
  /\ lock' = Nobody /\ pc' = [pc EXCEPT ![t] = "again"] /\ ask' = 0
  /\ UNCHANGED <<block, op, calls, probe, history>>

WaitKeyLocks(t) ==
  /\ At(t, "again")
  /\ lock' = t /\ pc' = [pc EXCEPT ![t] = "test"] /\ ask' = 1
  /\ UNCHANGED <<block, op, calls, probe, history>>

-----------------------------------------------------------------------------
(* The probe: it finds the block by its ID, and writes keys as             *)
(* SEGGER_RTT_WriteDownBufferNoLock does, as many as fit.                  *)
FindBlock == /\ hpc = "search" /\ acID = {"first", "rest"}
             /\ hpc' = "idle"
             /\ UNCHANGED <<block, task, hWr, sent, history>>

CopyKeys(n) ==
  /\ hpc = "idle" /\ aDown[0] = Static /\ sent + n <= MaxKeys
  /\ n <= Size - 1 - Used(rdOff, wrOff)
  /\ mem' = [s \in Slots |-> IF Used(wrOff, s) < n
                             THEN sent + 1 + Used(wrOff, s) ELSE mem[s]]
  /\ sent' = sent + n /\ hWr' = Advance(wrOff, n) /\ hpc' = "store"
  /\ UNCHANGED <<acID, aUp, aDown, rdOff, wrOff, task, history>>

StoreWrOff == /\ hpc = "store"
              /\ wrOff' = hWr
              /\ hpc' = "idle" /\ hWr' = 0
              /\ UNCHANGED <<acID, aUp, aDown, mem, rdOff, task, sent,
                             history>>

-----------------------------------------------------------------------------
Work(t) == \/ Test(t) \/ Clear(t) \/ Fill(t) \/ StoreFirst(t) \/ StoreRest(t)
           \/ AllocUpBuffer(t) \/ AllocDownBuffer(t)
           \/ ReadCopy(t) \/ ReadStore(t) \/ ReadNothing(t)
           \/ WaitKeyUnlocks(t) \/ WaitKeyLocks(t)
Call(t) == \/ \E function \in Allocs : CallAlloc(t, function)
           \/ \E function \in Reads, size \in BufferSizes :
                CallRead(t, function, size)
Probe == \/ FindBlock \/ StoreWrOff
         \/ \E n \in 1 .. Size - 1 : CopyKeys(n)

Next == Probe \/ \E t \in Tasks : Call(t) \/ Work(t)

Spec == Init /\ [][Next]_vars

(* The processor does not idle while a task can run.  Of tasks of one      *)
(* priority any may keep it for as long as it does not block (time slicing *)
(* is disabled); the urgent one gets it as soon as it asks and the lock,   *)
(* which masks the interrupts, is free.  The probe finishes what it began. *)
FairSpec == /\ Spec /\ WF_vars(FindBlock) /\ WF_vars(StoreWrOff)
            /\ WF_vars(\E t \in Tasks : Work(t)) /\ SF_vars(Work(Urgent))

-----------------------------------------------------------------------------
TypeOK == /\ acID \subseteq {"first", "rest"}
          /\ aUp \in [0 .. NumUp - 1 -> Tasks \cup {Null, Static}]
          /\ aDown \in [0 .. NumDown - 1 -> Tasks \cup {Null, Static}]
          /\ mem \in [Slots -> 0 .. MaxKeys]
          /\ rdOff \in Slots /\ wrOff \in Slots /\ hWr \in Slots
          /\ lock \in Tasks \cup {Nobody}
          /\ op \in [Tasks -> Allocs \cup Reads \cup {"none"}]
          /\ pc \in [Tasks -> {"idle", "test", "clear", "fill", "first",
                               "rest", "work", "store", "again"}]
          /\ hpc \in {"search", "idle", "store"} /\ sent \in 0 .. MaxKeys
          /\ early \subseteq Tasks /\ undone \in BOOLEAN

(* Two tasks must be in INIT together for an initialization to undo what   *)
(* was done: once one caller alone has come through INIT none ever does.   *)
UndoneOnlyInRace == undone => Cardinality(early) > 1

(* Unless it was undone so, every allocated buffer was given out once and  *)
(* belongs to the task it was given to: "the next buffer, which is not     *)
(* used yet, is configured".                                               *)
GivenOnce ==
  ~undone =>
    /\ \A k \in DOMAIN given :
         LET table == IF given[k][1] = "up" THEN aUp ELSE aDown
         IN table[given[k][2]] = given[k][3]
    /\ \A j, k \in DOMAIN given :
         j # k => <<given[j][1], given[j][2]>> # <<given[k][1], given[k][2]>>

(* Unless it was undone, the keys the tasks received, those in the ring    *)
(* and those the probe is writing are the keys sent, each once, in order.  *)
KeysConserved ==
  LET rd == IF \E t \in Tasks : pc[t] = "store"
            THEN Advance(rdOff, ask) ELSE rdOff
      wr == IF hpc = "store" THEN hWr ELSE wrOff
  IN ~undone => received \o BytesFrom(rd, Used(rd, wr))
                  = [k \in 1 .. sent |-> k]

(* A task that comes through INIT finds the buffers 0 in place, whoever    *)
(* else is in INIT, as long as nothing was undone.                         *)
ReadyAfterInit ==
  ~undone => \A t \in Tasks : pc[t] \in {"work", "store"} =>
               aUp[0] = Static /\ aDown[0] = Static

(* Every call returns, unless some task polls in SEGGER_RTT_WaitKey while  *)
(* there is no key, which may starve its equals.  It does not keep a more  *)
(* urgent task from its work: between two polls the lock is free.          *)
Polls(t) == op[t] = "WaitKey" /\ rdOff = wrOff
CallsReturn ==
  /\ \A t \in Tasks :
       op[t] # "none" ~> op[t] = "none" \/ \E s \in Tasks : Polls(s)
  /\ op[Urgent] # "none" ~> op[Urgent] = "none" \/ Polls(Urgent)
=============================================================================
