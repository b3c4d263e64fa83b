------------------------------ MODULE ByteFifo ------------------------------
(***************************************************************************)
(* What the byte buffer between the USB thread and the Read Buffer thread  *)
(* promises.  Bytes are numbered in the order they are put in.  It is a    *)
(* FIFO until it breaks; it breaks only at a boundary, when it holds no    *)
(* byte or at least Capacity bytes; once broken, what comes out is some    *)
(* byte that was put in, or 0, a byte that never was.                      *)
(***************************************************************************)
EXTENDS Naturals, Sequences

CONSTANT Capacity

VARIABLES sent,    \* how many bytes were put in
          got,     \* the bytes taken out, in the order they came out
          broken   \* the buffer is no longer a FIFO

vars == <<sent, got, broken>>

Init == sent = 0 /\ got = << >> /\ broken = FALSE

Put == sent' = sent + 1 /\ UNCHANGED <<got, broken>>

GetNext == /\ ~broken
           /\ Len(got) < sent
           /\ got' = Append(got, Len(got) + 1)
           /\ UNCHANGED <<sent, broken>>

Break == /\ sent = Len(got) \/ sent >= Len(got) + Capacity
         /\ broken' = TRUE
         /\ UNCHANGED <<sent, got>>

GetAny == /\ broken
          /\ \E b \in 0 .. sent : got' = Append(got, b)
          /\ UNCHANGED <<sent, broken>>

Next == Put \/ GetNext \/ Break \/ GetAny

Spec == Init /\ [][Next]_vars
=============================================================================
