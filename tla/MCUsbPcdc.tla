----------------------------- MODULE MCUsbPcdc -----------------------------
(* UsbPcdc with a command queue of one: a second command overflows it.      *)
EXTENDS UsbPcdc

\* The answer to message 2 takes two packets, those to the others one.
Packets == [k \in Msgs |-> IF k = 2 THEN 2 ELSE 1]
\* No answer fits the buffer: for a host that does not wait for them.
NoAnswers == [k \in Msgs |-> 0]
=============================================================================
