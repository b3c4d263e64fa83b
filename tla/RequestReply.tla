---------------------------- MODULE RequestReply ----------------------------
(***************************************************************************)
(* What the firmware promises a host that sends a command only when the    *)
(* device is at rest: strict turns.  Each command is processed once, as it *)
(* was sent, then answered once, and then the next one may come.           *)
(***************************************************************************)
EXTENDS Naturals, Sequences

CONSTANT Packets   \* per command: the packets of its answer

VARIABLES sent,      \* how many commands were sent
          processed, \* the commands processed, in order
          answers    \* the answers received, each as its number of packets

vars == <<sent, processed, answers>>

Init == sent = 0 /\ processed = << >> /\ answers = << >>

(* Command k as it was sent.                                               *)
Command(k) == <<k, k>>

Ask == /\ Len(answers) = sent
       /\ sent' = sent + 1
       /\ UNCHANGED <<processed, answers>>

Process == /\ Len(processed) < sent
           /\ processed' = Append(processed, Command(sent))
           /\ UNCHANGED <<sent, answers>>

Answer == /\ Len(answers) < Len(processed)
          /\ answers' = Append(answers, Packets[sent])
          /\ UNCHANGED <<sent, processed>>

Next == Ask \/ Process \/ Answer

Spec == Init /\ [][Next]_vars
=============================================================================
