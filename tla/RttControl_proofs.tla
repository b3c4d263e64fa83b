-------------------------- MODULE RttControl_proofs --------------------------
(***************************************************************************)
(* Proofs about RttControl for every set of tasks, every number of         *)
(* buffers, every size of the down-buffer and every length of a read.      *)
(***************************************************************************)
EXTENDS RttControl, FiniteSetTheorems, TLAPS

-----------------------------------------------------------------------------
(* The types.  A read owns the lock while it runs, so no other read        *)
(* disturbs the length it has found.                                       *)
LockInv == \A t \in Tasks :
             /\ op[t] \in Reads /\ pc[t] \notin {"idle", "again"} => lock = t
             /\ pc[t] = "store" => op[t] \in Reads /\ ask \in 1 .. Size - 1

TypeInv == TypeOK /\ LockInv /\ ask \in Nat

(* The initialization under way.  As long as only one task has found no    *)
(* ID, nothing is stored before its memset and no other task is past INIT  *)
(* before it has stored the first character of the ID.                     *)
Solo == \A t, u \in early : t = u
Fresh == aUp = Unused(NumUp) /\ aDown = Unused(NumDown)

RaceInv ==
  /\ \A t \in Tasks :
       pc[t] \in {"clear", "fill", "first", "rest"} => t \in early
  /\ Solo =>
       /\ ~undone
       /\ early = {} => acID = {} /\ Fresh
       /\ \A t \in Tasks :
            /\ pc[t] \in {"rest", "work", "store"} => "first" \in acID
            /\ pc[t] \in {"clear", "fill", "first"} => acID = {}
            /\ pc[t] \in {"clear", "fill"} => Fresh
            /\ t \in early /\ pc[t] \notin {"clear", "fill", "first"}
                 => "first" \in acID

(* Whoever is past the memset finds the buffers 0.                         *)
InPlace == aUp[0] = Static /\ aDown[0] = Static
ReadyInv == ~undone =>
              /\ "first" \in acID => InPlace
              /\ \A t \in Tasks :
                   pc[t] \in {"first", "rest", "work", "store"} => InPlace

(* Every allocation is still in its table, and no two are the same.        *)
GivenInv ==
  /\ given \in Seq({"up", "down"} \X Nat \X Tasks)
  /\ ~undone =>
       /\ \A k \in DOMAIN given :
            /\ given[k][1] = "up" => /\ given[k][2] \in 0 .. NumUp - 1
                                     /\ aUp[given[k][2]] = given[k][3]
            /\ given[k][1] = "down" => /\ given[k][2] \in 0 .. NumDown - 1
                                       /\ aDown[given[k][2]] = given[k][3]
       /\ \A j, k \in DOMAIN given :
            j # k => <<given[j][1], given[j][2]>>
                       # <<given[k][1], given[k][2]>>

(* The keys.  Rd and Wr are the offsets as they are when the stores that   *)
(* are under way are done; the slots from Rd to Wr hold the keys that were *)
(* sent and not received, in order.  A read goes as far as WrOff at most,  *)
(* the probe writes from WrOff on.                                         *)
Reading == \E t \in Tasks : pc[t] = "store"
Rd == IF Reading THEN Advance(rdOff, ask) ELSE rdOff
Wr == IF hpc = "store" THEN hWr ELSE wrOff

KeysInv ==
  /\ received \in Seq(Nat)
  /\ ~undone =>
       /\ hpc # "search" => "first" \in acID
       /\ hpc = "search" => /\ rdOff = 0 /\ wrOff = 0 /\ sent = 0
                            /\ received = << >> /\ ~Reading
       /\ \A k \in DOMAIN received : received[k] = k
       /\ Used(Rd, Wr) = sent - Len(received)
       /\ \A s \in Slots : Used(Rd, s) < Used(Rd, Wr)
                           => mem[s] = Len(received) + 1 + Used(Rd, s)
       /\ hpc = "store" => Used(rdOff, wrOff) <= Used(rdOff, hWr)
       /\ Reading => ask <= Used(rdOff, wrOff)

LEMMA NamesDiffer == \A t \in Tasks : t # Null /\ t # Static /\ t # Nobody
  BY NamesAssumption DEF Null, Static, Nobody

-----------------------------------------------------------------------------
(* A step is a step of the probe or one of the actions of a task.          *)
LEMMA Steps ==
  ASSUME [Next]_vars
  PROVE  \/ FindBlock \/ StoreWrOff \/ (\E n \in 1 .. Size - 1 : CopyKeys(n))
         \/ \E t \in Tasks :
              \/ \E function \in Allocs : CallAlloc(t, function)
              \/ \E function \in Reads, size \in BufferSizes :
                   CallRead(t, function, size)
              \/ Test(t) \/ Clear(t) \/ Fill(t) \/ StoreFirst(t) \/ StoreRest(t)
              \/ AllocUpBuffer(t) \/ AllocDownBuffer(t)
              \/ ReadCopy(t) \/ ReadStore(t) \/ ReadNothing(t)
              \/ WaitKeyUnlocks(t) \/ WaitKeyLocks(t)
         \/ UNCHANGED vars
  BY DEF Next, Call, Work, Probe

(* Offsets stay in the buffer.                                             *)
LEMMA AdvanceInRing ==
  \A off \in Slots, n \in 0 .. Size : Advance(off, n) \in Slots
  BY ControlAssumption DEF Advance, Slots

LEMMA UsedInRing == \A rd, wr \in Slots : Used(rd, wr) \in 0 .. Size - 1
  BY ControlAssumption DEF Used, Slots

LEMMA RaceInit == Init => RaceInv
  BY DEF Init, RaceInv, Solo, Fresh

(* Every step keeps RaceInv.                                               *)
LEMMA RaceStep == TypeOK /\ RaceInv /\ [Next]_vars => RaceInv'
<1> SUFFICES ASSUME TypeOK, RaceInv, [Next]_vars
             PROVE  RaceInv'
  OBVIOUS
<1>0. pc \in [Tasks -> {"idle", "test", "clear", "fill", "first",
                        "rest", "work", "store", "again"}]
  BY DEF TypeOK
<1>1. ASSUME NEW t \in Tasks, NEW function \in Allocs, CallAlloc(t, function)
      PROVE  RaceInv'
  BY <1>0, <1>1 DEF CallAlloc, At, RaceInv, Solo, Fresh, block, history
<1>2. ASSUME NEW t \in Tasks, NEW function \in Reads,
             NEW size \in BufferSizes, CallRead(t, function, size)
      PROVE  RaceInv'
  BY <1>0, <1>2 DEF CallRead, At, RaceInv, Solo, Fresh, block, history
<1>3. ASSUME NEW t \in Tasks, Test(t)
      PROVE  RaceInv'
  BY <1>0, <1>3 DEF Test, At, Go, RaceInv, Solo, Fresh, block
<1>4. ASSUME NEW t \in Tasks, Clear(t)
      PROVE  RaceInv'
  BY <1>0, <1>4 DEF Clear, At, Go, RaceInv, Solo, Fresh
<1>5. ASSUME NEW t \in Tasks, Fill(t)
      PROVE  RaceInv'
  <2>1. /\ pc[t] = "fill" /\ pc' = [pc EXCEPT ![t] = "first"]
        /\ UNCHANGED <<acID, early>>
        /\ undone' = (undone \/ aUp[0] # Null \/ aDown[0] # Null)
    BY <1>5 DEF Fill, At, Go
  <2>2. t \in early
    BY <2>1 DEF RaceInv
  <2>3. Solo => Fresh /\ acID = {} /\ ~undone
    BY <2>1 DEF RaceInv
  <2>4. Fresh => aUp[0] = Null /\ aDown[0] = Null
    BY ControlAssumption DEF Fresh, Unused
  <2>5. Solo => ~undone'
    BY <2>1, <2>3, <2>4
  <2>6. ASSUME Solo, NEW u \in Tasks
        PROVE  /\ pc'[u] \in {"rest", "work", "store"} => "first" \in acID
               /\ pc'[u] \in {"clear", "fill", "first"} => acID = {}
               /\ pc'[u] \notin {"clear", "fill"}
               /\ u \in early /\ pc'[u] \notin {"clear", "fill", "first"}
                    => "first" \in acID
    <3>1. pc[u] \in {"clear", "fill"} => u = t
      BY <2>2, <2>6 DEF RaceInv, Solo
    <3> QED
      BY <1>0, <2>1, <2>3, <2>6, <3>1 DEF RaceInv
  <2>7. \A u \in Tasks :
          pc'[u] \in {"clear", "fill", "first", "rest"} => u \in early
    BY <1>0, <2>1, <2>2 DEF RaceInv
  <2> QED
    BY <2>1, <2>2, <2>5, <2>6, <2>7 DEF RaceInv, Solo, Fresh
<1>6. ASSUME NEW t \in Tasks, StoreFirst(t)
      PROVE  RaceInv'
  BY <1>0, <1>6 DEF StoreFirst, At, Go, RaceInv, Solo, Fresh, history
<1>7. ASSUME NEW t \in Tasks, StoreRest(t)
      PROVE  RaceInv'
  BY <1>0, <1>7 DEF StoreRest, At, Go, RaceInv, Solo, Fresh, history
<1>8. ASSUME NEW t \in Tasks, AllocUpBuffer(t) \/ AllocDownBuffer(t)
      PROVE  RaceInv'
  <2>1. /\ pc[t] = "work" /\ pc' = [pc EXCEPT ![t] = "idle"]
        /\ UNCHANGED <<acID, early, undone>>
    BY <1>8 DEF AllocUpBuffer, AllocDownBuffer, At, Return
  <2>2. Solo => "first" \in acID
    BY <2>1 DEF RaceInv
  <2> QED
    BY <1>0, <2>1, <2>2 DEF RaceInv, Solo, Fresh
<1>9. ASSUME NEW t \in Tasks, ReadCopy(t)
      PROVE  RaceInv'
  BY <1>0, <1>9 DEF ReadCopy, At, RaceInv, Solo, Fresh, block
<1>10. ASSUME NEW t \in Tasks, ReadStore(t)
       PROVE  RaceInv'
  BY <1>0, <1>10 DEF ReadStore, At, Return, RaceInv, Solo, Fresh, history
<1>11. ASSUME NEW t \in Tasks, ReadNothing(t)
       PROVE  RaceInv'
  BY <1>0, <1>11
  DEF ReadNothing, At, Return, RaceInv, Solo, Fresh, block, history
<1>12. ASSUME NEW t \in Tasks, WaitKeyUnlocks(t)
       PROVE  RaceInv'
  BY <1>0, <1>12 DEF WaitKeyUnlocks, At, RaceInv, Solo, Fresh, block, history
<1>13. ASSUME NEW t \in Tasks, WaitKeyLocks(t)
       PROVE  RaceInv'
  BY <1>0, <1>13 DEF WaitKeyLocks, At, RaceInv, Solo, Fresh, block, history
<1>14. ASSUME \/ FindBlock \/ StoreWrOff
              \/ \E n \in 1 .. Size - 1 : CopyKeys(n)
       PROVE  RaceInv'
  BY <1>14 DEF FindBlock, StoreWrOff, CopyKeys, RaceInv, Solo, Fresh, block,
               task, history
<1>15. CASE UNCHANGED vars
  BY <1>15 DEF vars, RaceInv, Solo, Fresh, block, task, history
<1> QED
  BY <1>1, <1>2, <1>3, <1>4, <1>5, <1>6, <1>7, <1>8, <1>9, <1>10, <1>11,
     <1>12, <1>13, <1>14, <1>15, Steps

-----------------------------------------------------------------------------
LEMMA TypeInit == Init => TypeInv
<1> SUFFICES ASSUME Init
             PROVE  TypeInv
  OBVIOUS
<1>1. TypeOK
  <2>1. /\ aUp \in [0 .. NumUp - 1 -> Tasks \cup {Null, Static}]
        /\ aDown \in [0 .. NumDown - 1 -> Tasks \cup {Null, Static}]
    BY DEF Init, Unused
  <2>2. /\ 0 \in Slots /\ 0 \in 0 .. MaxKeys
        /\ mem \in [Slots -> 0 .. MaxKeys]
    BY ControlAssumption DEF Init, Slots
  <2>3. /\ op \in [Tasks -> Allocs \cup Reads \cup {"none"}]
        /\ pc \in [Tasks -> {"idle", "test", "clear", "fill", "first",
                             "rest", "work", "store", "again"}]
    BY DEF Init
  <2> QED
    BY <2>1, <2>2, <2>3 DEF Init, TypeOK
<1>2. LockInv /\ ask \in Nat
  BY DEF Init, LockInv
<1> QED
  BY <1>1, <1>2 DEF TypeInv

(* Every step keeps LockInv: a task that goes on finds the lock free or    *)
(* its own, so no other one is in a read.                                  *)
LEMMA LockStep == TypeInv /\ [Next]_vars => LockInv' /\ ask' \in Nat
<1> SUFFICES ASSUME TypeInv, [Next]_vars
             PROVE  LockInv' /\ ask' \in Nat
  OBVIOUS
<1>0. /\ pc \in [Tasks -> {"idle", "test", "clear", "fill", "first",
                           "rest", "work", "store", "again"}]
      /\ op \in [Tasks -> Allocs \cup Reads \cup {"none"}]
      /\ LockInv /\ ask \in Nat
  BY DEF TypeInv, TypeOK
<1>a. /\ Allocs \cap Reads = {} /\ "none" \notin Reads
      /\ {1} \cup BufferSizes \subseteq Nat
  BY ControlAssumption DEF Allocs, Reads
<1>1. ASSUME NEW t \in Tasks, NEW function \in Allocs, CallAlloc(t, function)
      PROVE  LockInv' /\ ask' \in Nat
  BY <1>0, <1>a, <1>1, NamesDiffer DEF CallAlloc, At, LockInv
<1>2. ASSUME NEW t \in Tasks, NEW function \in Reads,
             NEW size \in BufferSizes, CallRead(t, function, size)
      PROVE  LockInv' /\ ask' \in Nat
  BY <1>0, <1>a, <1>2, NamesDiffer DEF CallRead, At, LockInv
<1>3. ASSUME NEW t \in Tasks,
             \/ Test(t) \/ Clear(t) \/ Fill(t) \/ StoreFirst(t) \/ StoreRest(t)
      PROVE  LockInv' /\ ask' \in Nat
  <2>1. /\ UNCHANGED <<lock, op, ask>>
        /\ pc[t] \in {"test", "clear", "fill", "first", "rest"}
        /\ \E p \in {"clear", "fill", "first", "rest", "work"} :
             pc' = [pc EXCEPT ![t] = p]
    BY <1>3 DEF Test, Clear, Fill, StoreFirst, StoreRest, At, Go
  <2> QED
    BY <1>0, <2>1 DEF LockInv
<1>4. ASSUME NEW t \in Tasks,
             \/ AllocUpBuffer(t) \/ AllocDownBuffer(t)
             \/ ReadStore(t) \/ ReadNothing(t)
      PROVE  LockInv' /\ ask' \in Nat
  <2>1. /\ lock \in {t, Nobody} /\ lock' \in {lock, Nobody} /\ ask' = 0
        /\ pc' = [pc EXCEPT ![t] = "idle"] /\ op' = [op EXCEPT ![t] = "none"]
    BY <1>4 DEF AllocUpBuffer, AllocDownBuffer, ReadStore, ReadNothing, At,
                Return
  <2>2. \A u \in Tasks \ {t} : op[u] \in Reads /\ pc[u] \notin {"idle", "again"}
                              => FALSE
    BY <1>0, <2>1, NamesDiffer DEF LockInv
  <2> QED
    BY <1>0, <1>a, <2>1, <2>2 DEF LockInv
<1>5. ASSUME NEW t \in Tasks, ReadCopy(t)
      PROVE  LockInv' /\ ask' \in Nat
  <2>1. /\ lock \in {t, Nobody} /\ UNCHANGED <<lock, op>> /\ op[t] \in Reads
        /\ pc[t] = "work" /\ pc' = [pc EXCEPT ![t] = "store"]
        /\ ask' = Least(Used(rdOff, wrOff), ask) /\ ask' > 0
    BY <1>5 DEF ReadCopy, At
  <2>2. ask' \in 1 .. Size - 1
    BY <1>0, <2>1, UsedInRing, ControlAssumption DEF Least, TypeInv, TypeOK
  <2> QED
    BY <1>0, <2>1, <2>2, NamesDiffer DEF LockInv
<1>6. ASSUME NEW t \in Tasks, WaitKeyUnlocks(t)
      PROVE  LockInv' /\ ask' \in Nat
  BY <1>0, <1>6, NamesDiffer DEF WaitKeyUnlocks, At, LockInv
<1>7. ASSUME NEW t \in Tasks, WaitKeyLocks(t)
      PROVE  LockInv' /\ ask' \in Nat
  BY <1>0, <1>7, NamesDiffer DEF WaitKeyLocks, At, LockInv
<1>8. ASSUME \/ FindBlock \/ StoreWrOff
             \/ \E n \in 1 .. Size - 1 : CopyKeys(n)
      PROVE  LockInv' /\ ask' \in Nat
  BY <1>0, <1>8 DEF FindBlock, StoreWrOff, CopyKeys, LockInv, task
<1>9. CASE UNCHANGED vars
  BY <1>0, <1>9 DEF vars, LockInv, task
<1> QED
  BY <1>1, <1>2, <1>3, <1>4, <1>5, <1>6, <1>7, <1>8, <1>9, Steps

(* Every step keeps the types; what is read is in the ring, what is        *)
(* written fits in it.                                                     *)
LEMMA TypeStep == TypeInv /\ [Next]_vars => TypeInv'
<1> SUFFICES ASSUME TypeInv, [Next]_vars
             PROVE  TypeOK'
  BY LockStep DEF TypeInv
<1>0. TypeOK /\ LockInv
  BY DEF TypeInv
<1>a. 0 \in Slots /\ 0 \in 0 .. NumUp - 1 /\ 0 \in 0 .. NumDown - 1
  BY ControlAssumption DEF Slots
<1>1. ASSUME NEW t \in Tasks, NEW function \in Allocs, CallAlloc(t, function)
      PROVE  TypeOK'
  BY <1>0, <1>1 DEF CallAlloc, TypeOK, block, probe, history
<1>2. ASSUME NEW t \in Tasks, NEW function \in Reads,
             NEW size \in BufferSizes, CallRead(t, function, size)
      PROVE  TypeOK'
  BY <1>0, <1>2 DEF CallRead, TypeOK, block, probe, history
<1>3. ASSUME NEW t \in Tasks, Test(t)
      PROVE  TypeOK'
  BY <1>0, <1>3 DEF Test, Go, TypeOK, block, probe
<1>4. ASSUME NEW t \in Tasks, Clear(t)
      PROVE  TypeOK'
  <2>1. /\ Unused(NumUp) \in [0 .. NumUp - 1 -> Tasks \cup {Null, Static}]
        /\ Unused(NumDown) \in [0 .. NumDown - 1 -> Tasks \cup {Null, Static}]
    BY DEF Unused
  <2>2. undone' \in BOOLEAN
    BY <1>4 DEF Clear
  <2> QED
    BY <1>0, <1>a, <1>4, <2>1, <2>2 DEF Clear, Go, TypeOK, probe
<1>5. ASSUME NEW t \in Tasks, Fill(t)
      PROVE  TypeOK'
  <2>1. undone' \in BOOLEAN
    BY <1>5 DEF Fill
  <2> QED
    BY <1>0, <1>a, <1>5, <2>1 DEF Fill, Go, TypeOK, probe
<1>6. ASSUME NEW t \in Tasks, StoreFirst(t) \/ StoreRest(t)
      PROVE  TypeOK'
  BY <1>0, <1>6 DEF StoreFirst, StoreRest, Go, TypeOK, probe, history
<1>7. ASSUME NEW t \in Tasks, AllocUpBuffer(t)
      PROVE  TypeOK'
  BY <1>0, <1>7 DEF AllocUpBuffer, FirstUnused, Return, TypeOK, probe
<1>8. ASSUME NEW t \in Tasks, AllocDownBuffer(t)
      PROVE  TypeOK'
  BY <1>0, <1>8 DEF AllocDownBuffer, FirstUnused, Return, TypeOK, probe
<1>9. ASSUME NEW t \in Tasks, ReadCopy(t)
      PROVE  TypeOK'
  BY <1>0, <1>9 DEF ReadCopy, TypeOK, block, probe
<1>10. ASSUME NEW t \in Tasks, ReadStore(t)
       PROVE  TypeOK'
  <2>1. ask \in 0 .. Size
    BY <1>0, <1>10, ControlAssumption DEF ReadStore, At, LockInv
  <2>2. rdOff' \in Slots
    BY <1>0, <1>10, <2>1, AdvanceInRing DEF ReadStore, TypeOK
  <2> QED
    BY <1>0, <1>10, <2>2 DEF ReadStore, Return, TypeOK, probe, history
<1>11. ASSUME NEW t \in Tasks, ReadNothing(t)
       PROVE  TypeOK'
  BY <1>0, <1>11 DEF ReadNothing, Return, TypeOK, block, probe, history
<1>12. ASSUME NEW t \in Tasks, WaitKeyUnlocks(t) \/ WaitKeyLocks(t)
       PROVE  TypeOK'
  BY <1>0, <1>12 DEF WaitKeyUnlocks, WaitKeyLocks, TypeOK, block, probe,
                     history
<1>13. CASE FindBlock
  BY <1>0, <1>13 DEF FindBlock, TypeOK, block, task, history
<1>14. CASE StoreWrOff
  BY <1>0, <1>a, <1>14 DEF StoreWrOff, TypeOK, task, history
<1>15. ASSUME NEW n \in 1 .. Size - 1, CopyKeys(n)
       PROVE  TypeOK'
  <2>1. /\ \A s \in Slots : Used(wrOff, s) \in 0 .. Size - 1
        /\ sent \in Nat /\ MaxKeys \in Nat
        /\ sent + n \in 0 .. MaxKeys
    BY <1>0, <1>15, UsedInRing, ControlAssumption DEF CopyKeys, TypeOK
  <2>2. \A s \in Slots : Used(wrOff, s) < n
                        => sent + 1 + Used(wrOff, s) \in 0 .. MaxKeys
    BY <2>1
  <2>3. mem' \in [Slots -> 0 .. MaxKeys]
    BY <1>0, <1>15, <2>2 DEF CopyKeys, TypeOK
  <2>4. hWr' \in Slots
    <3>1. n \in 0 .. Size /\ wrOff \in Slots /\ hWr' = Advance(wrOff, n)
      BY <1>0, <1>15, ControlAssumption DEF CopyKeys, TypeOK
    <3> QED
      BY <3>1, AdvanceInRing
  <2> QED
    BY <1>0, <1>15, <2>1, <2>3, <2>4 DEF CopyKeys, TypeOK, task, history
<1>16. CASE UNCHANGED vars
  BY <1>0, <1>16 DEF vars, TypeOK, block, task, probe, history
<1> QED
  BY <1>1, <1>2, <1>3, <1>4, <1>5, <1>6, <1>7, <1>8, <1>9, <1>10, <1>11,
     <1>12, <1>13, <1>14, <1>15, <1>16, Steps

-----------------------------------------------------------------------------
LEMMA ReadyInit == Init => ReadyInv
  BY DEF Init, ReadyInv

(* Every step keeps ReadyInv.  A memset that another task has got past, or *)
(* a table entry in use, undoes something; an allocation takes an entry    *)
(* that is NULL, so never a buffer 0 that is in place.                     *)
LEMMA ReadyStep == TypeOK /\ ReadyInv /\ [Next]_vars => ReadyInv'
<1> SUFFICES ASSUME TypeOK, ReadyInv, [Next]_vars, ~undone'
             PROVE  /\ "first" \in acID' => InPlace'
                    /\ \A t \in Tasks :
                         pc'[t] \in {"first", "rest", "work", "store"}
                           => InPlace'
  BY DEF ReadyInv
<1> DEFINE Past == \A t \in Tasks :
                     pc[t] \in {"first", "rest", "work", "store"} => InPlace
           Goal == /\ "first" \in acID' => InPlace'
                   /\ \A t \in Tasks :
                        pc'[t] \in {"first", "rest", "work", "store"}
                          => InPlace'
<1>0. /\ pc \in [Tasks -> {"idle", "test", "clear", "fill", "first",
                           "rest", "work", "store", "again"}]
      /\ aUp \in [0 .. NumUp - 1 -> Tasks \cup {Null, Static}]
      /\ aDown \in [0 .. NumDown - 1 -> Tasks \cup {Null, Static}]
      /\ 0 \in 0 .. NumUp - 1 /\ 0 \in 0 .. NumDown - 1
  BY ControlAssumption DEF TypeOK
<1>a. ASSUME ~undone
      PROVE  ("first" \in acID => InPlace) /\ Past
  BY <1>a DEF ReadyInv
<1>1. ASSUME NEW t \in Tasks, NEW function \in Allocs, CallAlloc(t, function)
      PROVE  Goal
  BY <1>0, <1>a, <1>1 DEF CallAlloc, InPlace, block, history
<1>2. ASSUME NEW t \in Tasks, NEW function \in Reads,
             NEW size \in BufferSizes, CallRead(t, function, size)
      PROVE  Goal
  BY <1>0, <1>a, <1>2 DEF CallRead, InPlace, block, history
<1>3. ASSUME NEW t \in Tasks, Test(t)
      PROVE  Goal
  BY <1>0, <1>a, <1>3 DEF Test, Go, InPlace, block
<1>4. ASSUME NEW t \in Tasks, Clear(t)
      PROVE  Goal
  <2>1. ~undone /\ aUp = Unused(NumUp) /\ acID' = {}
        /\ pc' = [pc EXCEPT ![t] = "fill"]
    BY <1>4 DEF Clear, Go
  <2>2. ~InPlace
    BY <1>0, <2>1 DEF InPlace, Unused, Null, Static
  <2> QED
    BY <1>0, <1>a, <2>1, <2>2
<1>5. ASSUME NEW t \in Tasks, Fill(t)
      PROVE  Goal
  BY <1>0, <1>5 DEF Fill, InPlace
<1>6. ASSUME NEW t \in Tasks, StoreFirst(t)
      PROVE  Goal
  BY <1>0, <1>a, <1>6 DEF StoreFirst, At, Go, InPlace, history
<1>7. ASSUME NEW t \in Tasks, StoreRest(t)
      PROVE  Goal
  BY <1>0, <1>a, <1>7 DEF StoreRest, At, Go, InPlace, history
<1>8. ASSUME NEW t \in Tasks, AllocUpBuffer(t) \/ AllocDownBuffer(t)
      PROVE  Goal
  <2>1. ~undone /\ pc[t] = "work"
    BY <1>8 DEF AllocUpBuffer, AllocDownBuffer, At
  <2>2. aUp[0] = Static /\ aDown[0] = Static
    BY <1>a, <2>1 DEF InPlace
  <2>3. aUp'[0] = Static /\ aDown'[0] = Static
    BY <1>0, <1>8, <2>2
    DEF AllocUpBuffer, AllocDownBuffer, FirstUnused, Null, Static
  <2> QED
    BY <2>3 DEF InPlace
<1>9. ASSUME NEW t \in Tasks, ReadCopy(t)
      PROVE  Goal
  BY <1>0, <1>a, <1>9 DEF ReadCopy, At, InPlace, block
<1>10. ASSUME NEW t \in Tasks,
              \/ ReadStore(t) \/ ReadNothing(t)
              \/ WaitKeyUnlocks(t) \/ WaitKeyLocks(t)
       PROVE  Goal
  BY <1>0, <1>a, <1>10 DEF ReadStore, ReadNothing, WaitKeyUnlocks,
                           WaitKeyLocks, Return, InPlace, block, history
<1>11. ASSUME \/ FindBlock \/ StoreWrOff
              \/ \E n \in 1 .. Size - 1 : CopyKeys(n)
       PROVE  Goal
  BY <1>a, <1>11 DEF FindBlock, StoreWrOff, CopyKeys, InPlace, block, task,
                     history
<1>12. CASE UNCHANGED vars
  BY <1>a, <1>12 DEF vars, InPlace, block, task, history
<1> QED
  BY <1>1, <1>2, <1>3, <1>4, <1>5, <1>6, <1>7, <1>8, <1>9, <1>10, <1>11,
     <1>12, Steps

-----------------------------------------------------------------------------
LEMMA GivenInit == Init => GivenInv
  BY DEF Init, GivenInv

(* Nothing but an allocation changes what is given, and nothing but an     *)
(* allocation or an initialization changes the tables.                     *)
LEMMA GivenKept ==
  ASSUME GivenInv, UNCHANGED <<given, aUp, aDown>>, undone => undone'
  PROVE  GivenInv'
  BY DEF GivenInv

(* Every step keeps GivenInv: an allocation takes an entry that is NULL,   *)
(* so one that was not given to any task yet; an initialization either     *)
(* meets such entries only or undoes something.                            *)
LEMMA GivenStep == TypeOK /\ GivenInv /\ [Next]_vars => GivenInv'
<1> SUFFICES ASSUME TypeOK, GivenInv, [Next]_vars
             PROVE  GivenInv'
  OBVIOUS
<1>0. /\ aUp \in [0 .. NumUp - 1 -> Tasks \cup {Null, Static}]
      /\ aDown \in [0 .. NumDown - 1 -> Tasks \cup {Null, Static}]
      /\ 0 \in 0 .. NumUp - 1 /\ 0 \in 0 .. NumDown - 1
      /\ given \in Seq({"up", "down"} \X Nat \X Tasks)
      /\ \A k \in DOMAIN given : /\ given[k][1] \in {"up", "down"}
                                 /\ given[k][3] # Null
  BY ControlAssumption, NamesDiffer DEF TypeOK, GivenInv
<1>1. ASSUME NEW t \in Tasks, Clear(t)
      PROVE  GivenInv'
  <2>1. /\ UNCHANGED given
        /\ ~undone' => /\ ~undone /\ aUp = Unused(NumUp)
                       /\ aDown = Unused(NumDown)
        /\ aUp' = Unused(NumUp) /\ aDown' = Unused(NumDown)
    BY <1>1 DEF Clear
  <2>2. CASE undone'
    BY <1>0, <2>1, <2>2 DEF GivenInv
  <2>3. CASE ~undone'
    BY <2>1, <2>3, GivenKept
  <2> QED
    BY <2>2, <2>3
<1>2. ASSUME NEW t \in Tasks, Fill(t)
      PROVE  GivenInv'
  <2>1. /\ UNCHANGED given
        /\ ~undone' => ~undone /\ aUp[0] = Null /\ aDown[0] = Null
        /\ aUp' = [aUp EXCEPT ![0] = Static]
        /\ aDown' = [aDown EXCEPT ![0] = Static]
    BY <1>2 DEF Fill
  <2>2. ASSUME ~undone', NEW k \in DOMAIN given
        PROVE  /\ given[k][1] = "up" => /\ given[k][2] \in 0 .. NumUp - 1
                                        /\ aUp'[given[k][2]] = given[k][3]
               /\ given[k][1] = "down" => /\ given[k][2] \in 0 .. NumDown - 1
                                          /\ aDown'[given[k][2]] = given[k][3]
    BY <1>0, <2>1, <2>2 DEF GivenInv
  <2> QED
    BY <1>0, <2>1, <2>2 DEF GivenInv
<1>3. ASSUME NEW t \in Tasks, AllocUpBuffer(t)
      PROVE  GivenInv'
  <2>1. CASE UNCHANGED <<aUp, given>>
    BY <1>3, <2>1, GivenKept DEF AllocUpBuffer
  <2>2. ASSUME NEW i \in FirstUnused(aUp, NumUp),
               aUp' = [aUp EXCEPT ![i] = t],
               given' = Append(given, <<"up", i, t>>)
        PROVE  GivenInv'
    <3> DEFINE n == Len(given) + 1
    <3>1. /\ i \in 0 .. NumUp - 1 /\ aUp[i] = Null
          /\ UNCHANGED <<aDown, undone>>
      BY <1>3, <2>2 DEF AllocUpBuffer, FirstUnused
    <3>2. /\ given' \in Seq({"up", "down"} \X Nat \X Tasks)
          /\ DOMAIN given' = DOMAIN given \cup {n} /\ n \notin DOMAIN given
          /\ given'[n] = <<"up", i, t>>
          /\ \A k \in DOMAIN given : given'[k] = given[k]
      BY <1>0, <2>2, <3>1
    <3>3. ~undone => \A k \in DOMAIN given :
                       given[k][1] = "up" => given[k][2] # i
      BY <1>0, <3>1 DEF GivenInv
    <3>4. ASSUME ~undone, NEW k \in DOMAIN given'
          PROVE  /\ given'[k][1] = "up" => /\ given'[k][2] \in 0 .. NumUp - 1
                                           /\ aUp'[given'[k][2]] = given'[k][3]
                 /\ given'[k][1] = "down" =>
                      /\ given'[k][2] \in 0 .. NumDown - 1
                      /\ aDown'[given'[k][2]] = given'[k][3]
      BY <1>0, <2>2, <3>1, <3>2, <3>3, <3>4 DEF GivenInv
    <3>5. ASSUME ~undone, NEW j \in DOMAIN given', NEW k \in DOMAIN given',
                 j # k
          PROVE  <<given'[j][1], given'[j][2]>> # <<given'[k][1], given'[k][2]>>
      <4>1. /\ given'[n][1] = "up" /\ given'[n][2] = i
            /\ \A l \in DOMAIN given : /\ given'[l][1] = given[l][1]
                                       /\ given'[l][2] = given[l][2]
        BY <3>2
      <4>2. CASE j = n
        BY <3>2, <3>3, <3>5, <4>1, <4>2
      <4>3. CASE k = n
        BY <3>2, <3>3, <3>5, <4>1, <4>3
      <4>4. CASE j \in DOMAIN given /\ k \in DOMAIN given
        BY <3>5, <4>1, <4>4 DEF GivenInv
      <4> QED
        BY <3>2, <4>2, <4>3, <4>4
    <3> QED
      BY <3>1, <3>2, <3>4, <3>5 DEF GivenInv
  <2> QED
    BY <1>3, <2>1, <2>2 DEF AllocUpBuffer
<1>4. ASSUME NEW t \in Tasks, AllocDownBuffer(t)
      PROVE  GivenInv'
  <2>1. CASE UNCHANGED <<aDown, given>>
    BY <1>4, <2>1, GivenKept DEF AllocDownBuffer
  <2>2. ASSUME NEW i \in FirstUnused(aDown, NumDown),
               aDown' = [aDown EXCEPT ![i] = t],
               given' = Append(given, <<"down", i, t>>)
        PROVE  GivenInv'
    <3> DEFINE n == Len(given) + 1
    <3>1. /\ i \in 0 .. NumDown - 1 /\ aDown[i] = Null
          /\ UNCHANGED <<aUp, undone>>
      BY <1>4, <2>2 DEF AllocDownBuffer, FirstUnused
    <3>2. /\ given' \in Seq({"up", "down"} \X Nat \X Tasks)
          /\ DOMAIN given' = DOMAIN given \cup {n} /\ n \notin DOMAIN given
          /\ given'[n] = <<"down", i, t>>
          /\ \A k \in DOMAIN given : given'[k] = given[k]
      BY <1>0, <2>2, <3>1
    <3>3. ~undone => \A k \in DOMAIN given :
                       given[k][1] = "down" => given[k][2] # i
      BY <1>0, <3>1 DEF GivenInv
    <3>4. ASSUME ~undone, NEW k \in DOMAIN given'
          PROVE  /\ given'[k][1] = "up" => /\ given'[k][2] \in 0 .. NumUp - 1
                                           /\ aUp'[given'[k][2]] = given'[k][3]
                 /\ given'[k][1] = "down" =>
                      /\ given'[k][2] \in 0 .. NumDown - 1
                      /\ aDown'[given'[k][2]] = given'[k][3]
      BY <1>0, <2>2, <3>1, <3>2, <3>3, <3>4 DEF GivenInv
    <3>5. ASSUME ~undone, NEW j \in DOMAIN given', NEW k \in DOMAIN given',
                 j # k
          PROVE  <<given'[j][1], given'[j][2]>> # <<given'[k][1], given'[k][2]>>
      <4>1. /\ given'[n][1] = "down" /\ given'[n][2] = i
            /\ \A l \in DOMAIN given : /\ given'[l][1] = given[l][1]
                                       /\ given'[l][2] = given[l][2]
        BY <3>2
      <4>2. CASE j = n
        BY <3>2, <3>3, <3>5, <4>1, <4>2
      <4>3. CASE k = n
        BY <3>2, <3>3, <3>5, <4>1, <4>3
      <4>4. CASE j \in DOMAIN given /\ k \in DOMAIN given
        BY <3>5, <4>1, <4>4 DEF GivenInv
      <4> QED
        BY <3>2, <4>2, <4>3, <4>4
    <3> QED
      BY <3>1, <3>2, <3>4, <3>5 DEF GivenInv
  <2> QED
    BY <1>4, <2>1, <2>2 DEF AllocDownBuffer
<1>5. ASSUME NEW t \in Tasks,
             \/ \E function \in Allocs : CallAlloc(t, function)
             \/ \E function \in Reads, size \in BufferSizes :
                  CallRead(t, function, size)
             \/ Test(t) \/ StoreFirst(t) \/ StoreRest(t) \/ ReadCopy(t)
             \/ ReadStore(t) \/ ReadNothing(t)
             \/ WaitKeyUnlocks(t) \/ WaitKeyLocks(t)
      PROVE  GivenInv'
  <2>1. UNCHANGED <<given, aUp, aDown, undone>>
    BY <1>5 DEF CallAlloc, CallRead, Test, StoreFirst, StoreRest, ReadCopy,
                ReadStore, ReadNothing, WaitKeyUnlocks, WaitKeyLocks,
                block, history
  <2> QED
    BY <2>1, GivenKept
<1>6. ASSUME \/ FindBlock \/ StoreWrOff
             \/ \E n \in 1 .. Size - 1 : CopyKeys(n)
             \/ UNCHANGED vars
      PROVE  GivenInv'
  <2>1. UNCHANGED <<given, aUp, aDown, undone>>
    BY <1>6 DEF FindBlock, StoreWrOff, CopyKeys, vars, block, history
  <2> QED
    BY <2>1, GivenKept
<1> QED
  BY <1>1, <1>2, <1>3, <1>4, <1>5, <1>6, Steps

-----------------------------------------------------------------------------
(* Going round the ring by n, and the distance from b seen from a.         *)
LEMMA Distances ==
  ASSUME NEW a \in Slots, NEW b \in Slots, NEW n \in 0 .. Size - 1
  PROVE  /\ Used(a, Advance(a, n)) = n
         /\ n <= Used(a, b) => Used(Advance(a, n), b) = Used(a, b) - n
         /\ Used(a, b) + n <= Size - 1
              => Used(a, Advance(b, n)) = Used(a, b) + n
  BY ControlAssumption DEF Used, Advance, Slots

LEMMA Between ==
  ASSUME NEW a \in Slots, NEW b \in Slots, NEW s \in Slots
  PROVE  Used(b, s) = IF Used(a, b) <= Used(a, s)
                      THEN Used(a, s) - Used(a, b)
                      ELSE Size - Used(a, b) + Used(a, s)
  BY ControlAssumption DEF Used, Slots

LEMMA OffsetsInRing == TypeInv => Rd \in Slots /\ Wr \in Slots
<1> SUFFICES ASSUME TypeInv
             PROVE  Rd \in Slots /\ Wr \in Slots
  OBVIOUS
<1>1. rdOff \in Slots /\ wrOff \in Slots /\ hWr \in Slots
  BY DEF TypeInv, TypeOK
<1>2. Reading => ask \in 0 .. Size
  BY ControlAssumption DEF Reading, TypeInv, LockInv
<1> QED
  BY <1>1, <1>2, AdvanceInRing DEF Rd, Wr

(* What a read copies from Rd are the next keys.                           *)
LEMMA NextKeys ==
  ASSUME TypeInv, KeysInv, ~undone, NEW n \in 0 .. Used(Rd, Wr)
  PROVE  /\ BytesFrom(Rd, n) \in Seq(Nat) /\ Len(BytesFrom(Rd, n)) = n
         /\ \A b \in 1 .. n : BytesFrom(Rd, n)[b] = Len(received) + b
<1>1. /\ Rd \in Slots /\ Wr \in Slots /\ Used(Rd, Wr) \in 0 .. Size - 1
      /\ mem \in [Slots -> 0 .. MaxKeys] /\ n \in Nat
  BY OffsetsInRing, UsedInRing, SMTT(30) DEF TypeInv, TypeOK
<1>2. ASSUME NEW b \in 1 .. n
      PROVE  /\ Advance(Rd, b - 1) \in Slots
             /\ mem[Advance(Rd, b - 1)] = Len(received) + b
  <2>1. b - 1 \in 0 .. Size - 1 /\ b - 1 \in 0 .. Size
        /\ b - 1 < Used(Rd, Wr)
    BY <1>1, ControlAssumption
  <2>2. Advance(Rd, b - 1) \in Slots
    BY <1>1, <2>1, AdvanceInRing
  <2>3. Used(Rd, Advance(Rd, b - 1)) = b - 1
    BY <1>1, <2>1, Distances
  <2>4. mem[Advance(Rd, b - 1)] = Len(received) + 1 + (b - 1)
    BY <2>1, <2>2, <2>3 DEF KeysInv
  <2>5. Len(received) \in Nat
    BY DEF KeysInv
  <2> QED
    BY <2>2, <2>4, <2>5
<1>3. BytesFrom(Rd, n) \in [1 .. n -> Nat]
  BY <1>1, <1>2 DEF BytesFrom
<1>4. BytesFrom(Rd, n) \in Seq(Nat) /\ Len(BytesFrom(Rd, n)) = n
  BY <1>1, <1>3
<1> QED
  BY <1>2, <1>4 DEF BytesFrom

LEMMA KeysInit == Init => KeysInv
<1> SUFFICES ASSUME Init
             PROVE  KeysInv
  OBVIOUS
<1>1. ~Reading /\ Rd = 0 /\ Wr = 0
  BY DEF Init, Reading, Rd, Wr
<1>2. Used(0, 0) = 0 /\ \A s \in Slots : Used(0, s) >= 0
  BY ControlAssumption DEF Used, Slots
<1>3. /\ Used(Rd, Wr) = 0
      /\ \A s \in Slots : ~(Used(Rd, s) < Used(Rd, Wr))
  <2>1. \A s \in Slots : Used(0, s) \in Int
    BY ControlAssumption DEF Used, Slots
  <2> QED
    BY <1>1, <1>2, <2>1
<1>4. received \in Seq(Nat) /\ Len(received) = 0 /\ DOMAIN received = {}
  BY DEF Init
<1>5. /\ hpc = "search" /\ rdOff = 0 /\ wrOff = 0 /\ sent = 0
      /\ received = << >>
  BY DEF Init
<1> QED
  BY <1>1, <1>3, <1>4, <1>5 DEF KeysInv

(* A task that goes on, but from the store of a read, finds no read.       *)
LEMMA NoReading ==
  ASSUME TypeInv, NEW t \in Tasks, NEW p, At(t, p), p # "store"
  PROVE  /\ ~Reading
         /\ \A q : pc' = [pc EXCEPT ![t] = q] /\ q # "store" => ~Reading'
  BY NamesDiffer DEF TypeInv, TypeOK, LockInv, At, Reading, Reads

(* A step that leaves the ring, the probe and what was received alone.     *)
LEMMA KeysKept ==
  ASSUME KeysInv, UNCHANGED <<received, probe>>, ~Reading, ~Reading',
         undone => undone',
         ~undone' => /\ UNCHANGED <<mem, rdOff, wrOff>>
                     /\ "first" \in acID /\ hpc # "search" => "first" \in acID'
  PROVE  KeysInv'
<1>1. received' \in Seq(Nat)
  BY DEF KeysInv
<1>2. CASE undone'
  BY <1>1, <1>2 DEF KeysInv
<1>3. CASE ~undone'
  <2>1. ~undone /\ Rd' = Rd /\ Wr' = Wr
    BY <1>3 DEF Rd, Wr, probe
  <2> QED
    BY <1>1, <1>3, <2>1 DEF KeysInv, Used, probe
<1> QED
  BY <1>2, <1>3

(* Every step keeps KeysInv.                                               *)
LEMMA KeysStep == TypeInv /\ ReadyInv /\ KeysInv /\ [Next]_vars => KeysInv'
<1> SUFFICES ASSUME TypeInv, ReadyInv, KeysInv, [Next]_vars
             PROVE  KeysInv'
  OBVIOUS
<1>0. /\ rdOff \in Slots /\ wrOff \in Slots /\ hWr \in Slots
      /\ Rd \in Slots /\ Wr \in Slots
  BY OffsetsInRing DEF TypeInv, TypeOK
<1>u. /\ \A a, b \in Slots : Used(a, b) \in Nat /\ Used(a, b) <= Size - 1
      /\ Size \in Nat /\ Size > 1
  BY UsedInRing, ControlAssumption
<1>n. /\ sent \in Nat /\ ask \in Nat
      /\ received \in Seq(Nat) /\ Len(received) \in Nat
  BY ControlAssumption DEF KeysInv, TypeInv, TypeOK
<1>1. ASSUME NEW t \in Tasks, NEW function \in Allocs, CallAlloc(t, function)
      PROVE  KeysInv'
  <2>1. At(t, "idle") /\ pc' = [pc EXCEPT ![t] = "test"]
        /\ UNCHANGED <<acID, mem, rdOff, wrOff, probe, received, undone>>
    BY <1>1 DEF CallAlloc, block, history
  <2>2. ~Reading /\ ~Reading'
    BY <2>1, NoReading
  <2> QED
    BY <2>1, <2>2, KeysKept
<1>2. ASSUME NEW t \in Tasks, NEW function \in Reads,
             NEW size \in BufferSizes, CallRead(t, function, size)
      PROVE  KeysInv'
  <2>1. At(t, "idle") /\ pc' = [pc EXCEPT ![t] = "test"]
        /\ UNCHANGED <<acID, mem, rdOff, wrOff, probe, received, undone>>
    BY <1>2 DEF CallRead, block, history
  <2>2. ~Reading /\ ~Reading'
    BY <2>1, NoReading
  <2> QED
    BY <2>1, <2>2, KeysKept
<1>3. ASSUME NEW t \in Tasks, Test(t) \/ StoreFirst(t) \/ StoreRest(t)
      PROVE  KeysInv'
  <2>1. /\ \E p \in {"test", "first", "rest"} : At(t, p)
        /\ \E q \in {"clear", "work", "rest"} : pc' = [pc EXCEPT ![t] = q]
        /\ UNCHANGED <<mem, rdOff, wrOff, probe, received, undone>>
        /\ acID \subseteq acID'
    BY <1>3 DEF Test, StoreFirst, StoreRest, Go, block, history
  <2>2. ~Reading /\ ~Reading'
    BY <2>1, NoReading
  <2> QED
    BY <2>1, <2>2, KeysKept
<1>4. ASSUME NEW t \in Tasks, Clear(t)
      PROVE  KeysInv'
  <2>1. /\ At(t, "clear") /\ pc' = [pc EXCEPT ![t] = "fill"]
        /\ UNCHANGED <<mem, probe, received>> /\ rdOff' = 0 /\ wrOff' = 0
        /\ undone => undone'
        /\ ~undone' => acID = {}
    BY <1>4 DEF Clear, Go
  <2>2. ~Reading /\ ~Reading'
    BY <2>1, NoReading
  <2>3. ~undone' => hpc = "search" /\ UNCHANGED <<rdOff, wrOff>>
    BY <2>1 DEF KeysInv
  <2> QED
    BY <2>1, <2>2, <2>3, KeysKept
<1>5. ASSUME NEW t \in Tasks, Fill(t)
      PROVE  KeysInv'
  <2>1. /\ At(t, "fill") /\ pc' = [pc EXCEPT ![t] = "first"]
        /\ UNCHANGED <<mem, probe, received>> /\ rdOff' = 0 /\ wrOff' = 0
        /\ undone => undone'
        /\ ~undone' => ~undone /\ aUp[0] = Null
    BY <1>5 DEF Fill, Go
  <2>2. ~Reading /\ ~Reading'
    BY <2>1, NoReading
  <2>3. ~undone' => "first" \notin acID
    BY <2>1 DEF ReadyInv, InPlace, Null, Static
  <2>4. ~undone' => hpc = "search" /\ UNCHANGED <<rdOff, wrOff>>
    BY <2>1, <2>3 DEF KeysInv
  <2> QED
    BY <2>1, <2>2, <2>4, KeysKept
<1>6. ASSUME NEW t \in Tasks,
             AllocUpBuffer(t) \/ AllocDownBuffer(t) \/ ReadNothing(t)
      PROVE  KeysInv'
  <2>1. /\ At(t, "work") /\ pc' = [pc EXCEPT ![t] = "idle"]
        /\ UNCHANGED <<acID, mem, rdOff, wrOff, probe, received, undone>>
    BY <1>6 DEF AllocUpBuffer, AllocDownBuffer, ReadNothing, Return, block,
                history
  <2>2. ~Reading /\ ~Reading'
    BY <2>1, NoReading
  <2> QED
    BY <2>1, <2>2, KeysKept
<1>7. ASSUME NEW t \in Tasks, WaitKeyUnlocks(t) \/ WaitKeyLocks(t)
      PROVE  KeysInv'
  <2>1. /\ At(t, "work") \/ At(t, "again")
        /\ \E q \in {"again", "test"} : pc' = [pc EXCEPT ![t] = q]
        /\ UNCHANGED <<acID, mem, rdOff, wrOff, probe, received, undone>>
    BY <1>7 DEF WaitKeyUnlocks, WaitKeyLocks, block, history
  <2>2. ~Reading /\ ~Reading'
    BY <2>1, NoReading
  <2> QED
    BY <2>1, <2>2, KeysKept
<1>8. ASSUME NEW t \in Tasks, ReadCopy(t)
      PROVE  KeysInv'
  <2>1. PICK n : n = Least(Used(rdOff, wrOff), ask)
    OBVIOUS
  <2>2. /\ At(t, "work") /\ pc' = [pc EXCEPT ![t] = "store"]
        /\ UNCHANGED <<acID, mem, rdOff, wrOff, probe, undone>>
        /\ n > 0 /\ ask' = n /\ received' = received \o BytesFrom(rdOff, n)
    BY <1>8, <2>1 DEF ReadCopy, block
  <2>3. /\ Used(rdOff, wrOff) \in Nat /\ Used(rdOff, wrOff) <= Size - 1
        /\ Used(rdOff, Wr) \in Nat /\ Used(rdOff, Wr) <= Size - 1
        /\ Size \in Nat
    BY <1>0, <1>u
  <2>4. n \in 1 .. Size - 1 /\ n <= Used(rdOff, wrOff)
    BY <1>n, <2>1, <2>2, <2>3 DEF Least
  <2>5. ~Reading /\ Rd = rdOff
    BY <2>2, NoReading DEF Rd
  <2>6. Reading' /\ Rd' = Advance(rdOff, n) /\ Wr' = Wr
    BY <2>2 DEF Reading, Rd, Wr, probe, TypeInv, TypeOK
  <2>7. CASE undone
    <3>1. \A b \in 1 .. n : Advance(rdOff, b - 1) \in Slots
      <4>1. \A b \in 1 .. n : b - 1 \in 0 .. Size
        BY <2>3, <2>4
      <4> QED
        BY <1>0, <4>1, AdvanceInRing
    <3>2. BytesFrom(rdOff, n) \in [1 .. n -> Nat]
      BY <3>1, ControlAssumption DEF BytesFrom, TypeInv, TypeOK
    <3>3. BytesFrom(rdOff, n) \in Seq(Nat)
      BY <2>4, <3>2
    <3>4. received' \in Seq(Nat)
      BY <1>n, <2>2, <3>3
    <3> QED
      BY <2>2, <2>7, <3>4 DEF KeysInv
  <2>8. CASE ~undone
    <3>1. Used(rdOff, wrOff) <= Used(rdOff, Wr)
      <4>1. CASE hpc = "store"
        BY <2>8, <4>1 DEF KeysInv, Wr
      <4>2. CASE hpc # "store"
        BY <2>3, <4>2 DEF Wr
      <4> QED
        BY <4>1, <4>2
    <3>2. n \in 0 .. Used(rdOff, Wr)
      BY <2>3, <2>4, <3>1
    <3>3. Used(rdOff, Wr) = sent - Len(received)
      BY <2>5, <2>8 DEF KeysInv
    <3>4. /\ received' \in Seq(Nat) /\ Len(received') = Len(received) + n
          /\ \A k \in DOMAIN received' : received'[k] = k
      <4>1. /\ BytesFrom(rdOff, n) \in Seq(Nat) /\ Len(BytesFrom(rdOff, n)) = n
            /\ \A b \in 1 .. n : BytesFrom(rdOff, n)[b] = Len(received) + b
        BY <2>5, <2>8, <3>2, NextKeys
      <4>2. \A k \in 1 .. Len(received) : received[k] = k
        BY <1>n, <2>8 DEF KeysInv
      <4>3. received' \in Seq(Nat) /\ Len(received') = Len(received) + n
        BY <1>n, <2>2, <4>1
      <4>4. ASSUME NEW k \in 1 .. Len(received')
            PROVE  received'[k] = k
        <5>1. CASE k \in 1 .. Len(received)
          BY <1>n, <2>2, <4>1, <4>2, <5>1
        <5>2. CASE k \notin 1 .. Len(received)
          <6>1. k - Len(received) \in 1 .. n
            BY <1>n, <2>4, <4>3, <5>2
          <6>2. received'[k] = BytesFrom(rdOff, n)[k - Len(received)]
            BY <1>n, <2>2, <4>1, <5>2, <6>1
          <6> QED
            BY <1>n, <4>1, <6>1, <6>2
        <5> QED
          BY <5>1, <5>2
      <4> QED
        BY <4>3, <4>4
    <3>5. Rd' \in Slots /\ Used(rdOff, Rd') = n
      <4>1. n \in 0 .. Size /\ n \in 0 .. Size - 1
        BY <2>3, <2>4
      <4> QED
        BY <1>0, <2>6, <4>1, Distances, AdvanceInRing
    <3>6. Used(Rd', Wr') = Used(rdOff, Wr) - n
      <4>1. n \in 0 .. Size - 1 /\ n <= Used(rdOff, Wr)
        BY <2>3, <2>4, <3>2
      <4> QED
        BY <1>0, <2>6, <4>1, Distances
    <3>7. Used(Rd', Wr') = sent - Len(received')
      BY <1>n, <2>3, <2>4, <3>3, <3>4, <3>6
    <3>8. ASSUME NEW s \in Slots, Used(Rd', s) < Used(Rd', Wr')
          PROVE  mem[s] = Len(received') + 1 + Used(Rd', s)
      <4>1. Used(rdOff, s) \in Nat /\ Used(Rd', s) \in Nat
        BY <1>0, <1>u, <3>5
      <4>2. Used(Rd', s) = IF n <= Used(rdOff, s) THEN Used(rdOff, s) - n
                           ELSE Size - n + Used(rdOff, s)
        BY <1>0, <3>5, Between
      <4>3. /\ Used(rdOff, s) < Used(rdOff, Wr)
            /\ Used(rdOff, s) = Used(Rd', s) + n
        BY <2>3, <2>4, <3>6, <3>8, <4>1, <4>2
      <4>4. mem[s] = Len(received) + 1 + Used(rdOff, s)
        BY <2>5, <2>8, <4>3 DEF KeysInv
      <4> QED
        BY <1>n, <2>4, <3>4, <4>1, <4>3, <4>4
    <3>9. hpc # "search"
      <4>1. Used(0, 0) = 0
        BY <1>u DEF Used
      <4> QED
        BY <2>4, <2>8, <4>1 DEF KeysInv
    <3> QED
      BY <2>2, <2>4, <2>6, <2>8, <3>4, <3>7, <3>8, <3>9
      DEF KeysInv, probe, Used
  <2> QED
    BY <2>7, <2>8
<1>9. ASSUME NEW t \in Tasks, ReadStore(t)
      PROVE  KeysInv'
  <2>1. /\ pc[t] = "store" /\ lock \in {t, Nobody}
        /\ pc' = [pc EXCEPT ![t] = "idle"] /\ rdOff' = Advance(rdOff, ask)
        /\ UNCHANGED <<acID, mem, wrOff, probe, received, undone>>
    BY <1>9 DEF ReadStore, At, Return, history
  <2>2. Reading /\ ~Reading'
    BY <2>1, NamesDiffer DEF TypeInv, TypeOK, LockInv, Reading, Reads
  <2>3. Rd' = Rd /\ Rd = rdOff' /\ Wr' = Wr
    BY <2>1, <2>2 DEF Rd, Wr, probe
  <2>4. CASE undone
    BY <1>n, <2>1, <2>4 DEF KeysInv
  <2>5. CASE ~undone
    <3>1. /\ hpc # "search" /\ ask <= Used(rdOff, wrOff)
          /\ hpc = "store" => Used(rdOff, wrOff) <= Used(rdOff, hWr)
      BY <2>2, <2>5 DEF KeysInv
    <3>2. /\ Used(rdOff, wrOff) \in Nat /\ Used(rdOff, wrOff) <= Size - 1
          /\ Used(rdOff, hWr) \in Nat
      BY <1>0, <1>u
    <3>3. ask \in 0 .. Size - 1
      BY <1>n, <1>u, <3>1, <3>2
    <3>4. /\ Used(rdOff', wrOff) = Used(rdOff, wrOff) - ask
          /\ hpc = "store" => Used(rdOff', hWr) = Used(rdOff, hWr) - ask
      <4>1. hpc = "store" => ask <= Used(rdOff, hWr)
        BY <1>n, <3>1, <3>2
      <4> QED
        BY <1>0, <2>1, <3>1, <3>3, <4>1, Distances
    <3>5. hpc = "store" => Used(rdOff', wrOff) <= Used(rdOff', hWr)
      BY <1>n, <3>1, <3>2, <3>4
    <3> QED
      BY <1>n, <2>1, <2>2, <2>3, <2>5, <3>1, <3>5 DEF KeysInv, probe, Used
  <2> QED
    BY <2>4, <2>5
<1>10. CASE FindBlock
  <2>1. /\ hpc = "search" /\ hpc' = "idle" /\ "first" \in acID
        /\ UNCHANGED <<acID, mem, rdOff, wrOff, hWr, sent, received, undone,
                       pc, ask>>
    BY <1>10 DEF FindBlock, block, task, history
  <2>2. Rd' = Rd /\ Wr' = Wr /\ Reading' = Reading
    BY <2>1 DEF Rd, Wr, Reading
  <2> QED
    BY <2>1, <2>2 DEF KeysInv, Used
<1>11. ASSUME NEW n \in 1 .. Size - 1, CopyKeys(n)
       PROVE  KeysInv'
  <2>1. /\ hpc = "idle" /\ hpc' = "store" /\ hWr' = Advance(wrOff, n)
        /\ n <= Size - 1 - Used(rdOff, wrOff) /\ sent' = sent + n
        /\ mem' = [s \in Slots |-> IF Used(wrOff, s) < n
                                   THEN sent + 1 + Used(wrOff, s)
                                   ELSE mem[s]]
        /\ UNCHANGED <<acID, rdOff, wrOff, received, undone, pc, ask>>
    BY <1>11 DEF CopyKeys, task, history
  <2>2. /\ Wr = wrOff /\ Wr' = Advance(wrOff, n) /\ Rd' = Rd
        /\ Reading' = Reading
    BY <2>1 DEF Rd, Wr, Reading
  <2>3. CASE undone
    BY <1>n, <2>1, <2>3 DEF KeysInv
  <2>4. CASE ~undone
    <3>0. /\ Used(rdOff, wrOff) \in Nat /\ Used(rdOff, wrOff) <= Size - 1
          /\ Used(Rd, wrOff) \in Nat /\ Size \in Nat /\ n \in Nat
      BY <1>0, <1>u
    <3>1. Used(Rd, wrOff) <= Used(rdOff, wrOff)
      <4>1. CASE Reading
        <5>1. Rd = Advance(rdOff, ask) /\ ask <= Used(rdOff, wrOff)
          BY <2>4, <4>1 DEF KeysInv, Rd
        <5>2. ask \in 0 .. Size - 1
          BY <1>n, <3>0, <5>1
        <5>3. Used(Rd, wrOff) = Used(rdOff, wrOff) - ask
          BY <1>0, <5>1, <5>2, Distances
        <5> QED
          BY <1>n, <3>0, <5>3
      <4>2. CASE ~Reading
        BY <3>0, <4>2 DEF Rd
      <4> QED
        BY <4>1, <4>2
    <3>2. Used(Rd, wrOff) = sent - Len(received)
      BY <2>2, <2>4 DEF KeysInv
    <3>3. /\ Used(Rd, Advance(wrOff, n)) = Used(Rd, wrOff) + n
          /\ Used(rdOff, Advance(wrOff, n)) = Used(rdOff, wrOff) + n
      <4>1. /\ Used(Rd, wrOff) + n <= Size - 1
            /\ Used(rdOff, wrOff) + n <= Size - 1 /\ n \in 0 .. Size - 1
        BY <2>1, <3>0, <3>1
      <4> QED
        BY <1>0, <4>1, Distances
    <3>4. Used(Rd', Wr') = sent' - Len(received')
      BY <1>n, <2>1, <2>2, <3>0, <3>2, <3>3
    <3>5. ASSUME NEW s \in Slots, Used(Rd, s) < Used(Rd, wrOff) + n
          PROVE  mem'[s] = Len(received) + 1 + Used(Rd, s)
      <4>1. Used(Rd, s) \in Nat /\ Used(wrOff, s) \in Nat
        BY <1>0, <1>u
      <4>2. Used(wrOff, s) = IF Used(Rd, wrOff) <= Used(Rd, s)
                             THEN Used(Rd, s) - Used(Rd, wrOff)
                             ELSE Size - Used(Rd, wrOff) + Used(Rd, s)
        BY <1>0, Between
      <4>3. CASE Used(Rd, wrOff) <= Used(Rd, s)
        <5>1. Used(wrOff, s) = Used(Rd, s) - Used(Rd, wrOff)
          BY <4>2, <4>3
        <5>2. Used(wrOff, s) < n
          BY <3>0, <3>5, <4>1, <5>1
        <5>3. mem'[s] = sent + 1 + Used(wrOff, s)
          BY <2>1, <5>2
        <5> QED
          BY <1>n, <3>0, <3>2, <4>1, <5>1, <5>3
      <4>4. CASE Used(Rd, s) < Used(Rd, wrOff)
        <5>1. ~(Used(wrOff, s) < n)
          BY <2>1, <3>0, <3>1, <4>1, <4>2, <4>4
        <5>2. mem'[s] = mem[s]
          BY <2>1, <5>1
        <5> QED
          BY <2>2, <2>4, <4>4, <5>2 DEF KeysInv
      <4> QED
        BY <3>0, <4>1, <4>3, <4>4
    <3>6. \A s \in Slots : Used(Rd', s) < Used(Rd', Wr')
                         => mem'[s] = Len(received') + 1 + Used(Rd', s)
      BY <2>1, <2>2, <3>3, <3>5
    <3>7. Used(rdOff', wrOff') <= Used(rdOff', hWr')
      BY <2>1, <3>0, <3>3
    <3> QED
      BY <2>1, <2>2, <2>4, <3>4, <3>6, <3>7 DEF KeysInv, Used
  <2> QED
    BY <2>3, <2>4
<1>12. CASE StoreWrOff
  <2>1. /\ hpc = "store" /\ hpc' = "idle" /\ wrOff' = hWr
        /\ UNCHANGED <<acID, mem, rdOff, sent, received, undone, pc, ask>>
    BY <1>12 DEF StoreWrOff, task, history
  <2>2. Rd' = Rd /\ Wr' = Wr /\ Reading' = Reading
    BY <2>1 DEF Rd, Wr, Reading
  <2>3. CASE undone
    BY <1>n, <2>1, <2>3 DEF KeysInv
  <2>4. CASE ~undone
    <3>1. /\ Used(rdOff, wrOff) \in Nat /\ Used(rdOff, hWr) \in Nat
          /\ Used(rdOff, wrOff) <= Used(rdOff, hWr)
          /\ Reading => ask <= Used(rdOff, wrOff)
      BY <1>0, <1>u, <2>1, <2>4 DEF KeysInv
    <3>2. Reading' => ask' <= Used(rdOff', wrOff')
      BY <1>n, <2>1, <2>2, <3>1
    <3> QED
      BY <2>1, <2>2, <2>4, <3>2 DEF KeysInv, Used
  <2> QED
    BY <2>3, <2>4
<1>13. CASE UNCHANGED vars
  BY <1>13 DEF vars, KeysInv, Rd, Wr, Reading, Used, block, task, probe, history
<1> QED
  BY <1>1, <1>2, <1>3, <1>4, <1>5, <1>6, <1>7, <1>8, <1>9, <1>10, <1>11,
     <1>12, <1>13, Steps

-----------------------------------------------------------------------------
(* Whatever the tasks and the probe do, every variable keeps its type: the *)
(* offsets name places of the ring, the tables tasks.                      *)
THEOREM TypeCorrect == Spec => []TypeOK
<1>1. TypeInv => TypeOK
  BY DEF TypeInv
<1> QED
  BY <1>1, TypeInit, TypeStep, PTL DEF Spec

(* An initialization undoes what was done only when two tasks were in INIT *)
(* together, for any number of tasks: the ID, whose first character is     *)
(* stored when the block is ready, keeps a single task from it.            *)
THEOREM RaceCorrect == Spec => []UndoneOnlyInRace
<1>1. TypeInv /\ RaceInv => UndoneOnlyInRace
  <2> SUFFICES ASSUME TypeInv, RaceInv, undone
               PROVE  Cardinality(early) > 1
    BY DEF UndoneOnlyInRace
  <2>1. PICK t \in early, u \in early : t # u
    BY DEF RaceInv, Solo
  <2>2. IsFiniteSet(early)
    BY ControlAssumption, FS_Subset DEF TypeInv, TypeOK
  <2>3. Cardinality({t, u}) = 2
    <3>1. Cardinality({t}) = 1 /\ IsFiniteSet({t})
      BY FS_Singleton
    <3>2. Cardinality({t} \cup {u}) = 2
      BY <2>1, <3>1, FS_AddElement
    <3> QED
      BY <3>2, {t, u} = {t} \cup {u}
  <2>4. Cardinality({t, u}) <= Cardinality(early)
    BY <2>2, FS_Subset
  <2> QED
    BY <2>2, <2>3, <2>4, FS_CardinalityType
<1>2. Init => TypeInv /\ RaceInv
  BY TypeInit, RaceInit
<1>3. TypeInv /\ RaceInv /\ [Next]_vars => TypeInv' /\ RaceInv'
  BY TypeStep, RaceStep DEF TypeInv
<1> QED
  BY <1>1, <1>2, <1>3, PTL DEF Spec

(* A task past INIT finds the buffers 0 in place unless an initialization  *)
(* undid something.                                                        *)
THEOREM ReadyCorrect == Spec => []ReadyAfterInit
<1>1. ReadyInv => ReadyAfterInit
  BY DEF ReadyInv, ReadyAfterInit, InPlace
<1>2. Init => TypeInv /\ ReadyInv
  BY TypeInit, ReadyInit
<1>3. TypeInv /\ ReadyInv /\ [Next]_vars => TypeInv' /\ ReadyInv'
  BY TypeStep, ReadyStep DEF TypeInv
<1> QED
  BY <1>1, <1>2, <1>3, PTL DEF Spec

(* No two tasks are given one buffer, and a task keeps the buffer it was   *)
(* given, unless an initialization undid something.                        *)
THEOREM GivenOnceCorrect == Spec => []GivenOnce
<1>1. GivenInv => GivenOnce
  <2> SUFFICES ASSUME GivenInv, ~undone
               PROVE  /\ \A k \in DOMAIN given :
                           (IF given[k][1] = "up" THEN aUp ELSE aDown)
                             [given[k][2]] = given[k][3]
                      /\ \A j, k \in DOMAIN given :
                           j # k => <<given[j][1], given[j][2]>>
                                      # <<given[k][1], given[k][2]>>
    BY DEF GivenOnce
  <2>1. \A k \in DOMAIN given : given[k][1] \in {"up", "down"}
    BY DEF GivenInv
  <2> QED
    BY <2>1 DEF GivenInv
<1>2. Init => TypeInv /\ GivenInv
  BY TypeInit, GivenInit
<1>3. TypeInv /\ GivenInv /\ [Next]_vars => TypeInv' /\ GivenInv'
  BY TypeStep, GivenStep DEF TypeInv
<1> QED
  BY <1>1, <1>2, <1>3, PTL DEF Spec

(* Each key the host sends reaches one task, once and in order, whichever  *)
(* stores of offsets are under way, unless an initialization undid         *)
(* something.                                                              *)
THEOREM KeysCorrect == Spec => []KeysConserved
<1>1. TypeInv /\ KeysInv => KeysConserved
  <2> SUFFICES ASSUME TypeInv, KeysInv, ~undone
               PROVE  received \o BytesFrom(Rd, Used(Rd, Wr))
                        = [k \in 1 .. sent |-> k]
    BY DEF KeysConserved, Rd, Wr, Reading
  <2> DEFINE n == Used(Rd, Wr)
             rest == BytesFrom(Rd, n)
  <2>1. n \in 0 .. n /\ n \in Nat /\ n = sent - Len(received)
    BY OffsetsInRing, UsedInRing DEF KeysInv
  <2>2. /\ rest \in Seq(Nat) /\ Len(rest) = n
        /\ \A b \in 1 .. n : rest[b] = Len(received) + b
    BY <2>1, NextKeys
  <2>3. /\ received \in Seq(Nat) /\ sent \in Nat
        /\ \A k \in 1 .. Len(received) : received[k] = k
    BY DEF KeysInv, TypeInv, TypeOK
  <2> HIDE DEF n, rest
  <2>4. received \o rest \in Seq(Nat) /\ Len(received \o rest) = sent
    BY <2>1, <2>2, <2>3
  <2>5. \A k \in 1 .. sent : (received \o rest)[k] = k
    BY <2>1, <2>2, <2>3, <2>4
  <2>6. received \o rest = [k \in 1 .. sent |-> k]
    <3> DEFINE all == received \o rest
    <3>1. all \in Seq(Nat) /\ Len(all) = sent /\ \A k \in 1 .. sent : all[k] = k
      BY <2>4, <2>5
    <3> HIDE DEF all
    <3>2. all = [k \in 1 .. sent |-> all[k]]
      BY <3>1
    <3>3. all = [k \in 1 .. sent |-> k]
      BY <3>1, <3>2
    <3> QED
      BY <3>3 DEF all
  <2> QED
    BY <2>6 DEF n, rest
<1>2. Init => TypeInv /\ ReadyInv /\ KeysInv
  BY TypeInit, ReadyInit, KeysInit
<1>3. TypeInv /\ ReadyInv /\ KeysInv /\ [Next]_vars
        => TypeInv' /\ ReadyInv' /\ KeysInv'
  BY TypeStep, ReadyStep, KeysStep DEF TypeInv
<1> QED
  BY <1>1, <1>2, <1>3, PTL DEF Spec
=============================================================================
