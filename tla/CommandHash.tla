----------------------------- MODULE CommandHash ----------------------------
(***************************************************************************)
(* Apps/utils/commandSupport.c: the table of supported commands and the    *)
(* lookup by a hash of the text.  A text is the sequence of its character  *)
(* codes.  The hash of a text shorter than 256 characters is below 2^32,   *)
(* so uint32_t never wraps.                                                *)
(***************************************************************************)
EXTENDS Integers, Sequences, FiniteSetsExt

(* "AT+" name "\r\n"                                                       *)
Text(name) == <<65, 84, 43>> \o name \o <<13, 10>>

(* CDC_Command_Table: LED, BLINK and TIME.                                 *)
CDC_Command_Table == << Text(<<76, 69, 68>>), Text(<<66, 76, 73, 78, 75>>),
                        Text(<<84, 73, 77, 69>>) >>
Rows == DOMAIN CDC_Command_Table

(* The sum of i * str[i] times the length, which is kept in eight bits.    *)
hashFunc(str) ==
  LET len == Len(str) % 256
  IN len * MapThenSumSet(LAMBDA i : i * str[i + 1], 0 .. len - 1)

(* The first row of the hash column that has the hash of the command, or 0. *)
hashTableLookup(column, cmd) ==
  LET found == {r \in DOMAIN column : column[r] = hashFunc(cmd)}
  IN IF found = {} THEN 0 ELSE Min(found)
=============================================================================
