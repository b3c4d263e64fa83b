------------------------------ MODULE MCRingBuf ------------------------------
(* RingBuf with a ring of three slots, and the mutants of its definitions.  *)
EXTENDS RingBuf
=============================================================================
