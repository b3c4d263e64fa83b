---------------------------- MODULE CommandTable ----------------------------
(***************************************************************************)
(* The loop of process_data_task: it hashes the table, then looks up each  *)
(* command it receives and answers it.                                     *)
(***************************************************************************)
EXTENDS CommandHash

CONSTANTS Letters,  \* codes of the letters a command name is made of
          MaxName   \* bound: length of a command name

Names == UNION {[1 .. n -> Letters] : n \in 0 .. MaxName}

VARIABLES hash,    \* the hash column of the table
          cmdStr,  \* the command process_data_task has received
          answer,  \* the row whose handler answered it; 0, "is not supported"
          pc       \* where process_data_task is

vars == <<hash, cmdStr, answer, pc>>

Init == /\ hash = [r \in Rows |-> 0] /\ cmdStr = << >>
        /\ answer = 0 /\ pc = "start"

initHashTable == /\ pc = "start"
                 /\ hash' = [r \in Rows |-> hashFunc(CDC_Command_Table[r])]
                 /\ pc' = "receive"
                 /\ UNCHANGED <<cmdStr, answer>>

Receive == /\ pc = "receive"
           /\ \E name \in Names : cmdStr' = Text(name)
           /\ pc' = "lookup"
           /\ UNCHANGED <<hash, answer>>

Answer == /\ pc = "lookup"
          /\ answer' = hashTableLookup(hash, cmdStr)
          /\ pc' = "answered"
          /\ UNCHANGED <<hash, cmdStr>>

Loop == /\ pc = "answered"
        /\ pc' = "receive" /\ cmdStr' = << >> /\ answer' = 0
        /\ UNCHANGED hash

Next == initHashTable \/ Receive \/ Answer \/ Loop

Spec == Init /\ [][Next]_vars

-----------------------------------------------------------------------------
(* "Command not found" (commandSupport.c:59): a command that is not in the *)
(* table is answered "is not supported".  The lookup compares hashes only. *)
OthersNotSupported ==
  pc = "answered" /\ answer # 0 => cmdStr = CDC_Command_Table[answer]
=============================================================================
