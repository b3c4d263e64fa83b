----------------------------- MODULE CommandLine ----------------------------
(***************************************************************************)
(* What becomes of a typed line: the commands that parseData finds in it   *)
(* go to hashTableLookup.  Beside it checkUserInput of                     *)
(* Apps/utils/stringFunction.c, the splitter that parseData replaced.      *)
(*                                                                         *)
(* "+NAME" is one character of the input here and stands for a plus sign   *)
(* and any name: parseData stores or skips each of its characters in the   *)
(* same way.                                                               *)
(***************************************************************************)
EXTENDS AtParser, CommandHash

ASSUME LineAssumption == Chars \subseteq {"A", "T", "CR", "LF", "+NAME"}

(* The names of the three supported commands, and another one.             *)
PlusNames == {<<43, 76, 69, 68>>, <<43, 66, 76, 73, 78, 75>>,
              <<43, 84, 73, 77, 69>>, <<43, 88>>}

Code(c, name) == CASE c = "A" -> <<65>> [] c = "T" -> <<84>>
                   [] c = "CR" -> <<13>> [] c = "LF" -> <<10>>
                   [] c = "+NAME" -> name
Codes(cmd, name) == FlattenSeq([k \in DOMAIN cmd |-> Code(cmd[k], name)])

M_initHashTable_OneShort ==
  [r \in Rows |-> IF r > 1 THEN hashFunc(CDC_Command_Table[r]) ELSE 0]

(* The hash column, as process_data_task fills it before its loop.         *)
initHashTable == [r \in Rows |-> hashFunc(CDC_Command_Table[r])]

(* A command of the table that was typed runs the handler of its own row,  *)
(* although nothing but hashes is compared: no row has the hash of another *)
(* and the whole column is filled.  What else runs a handler is another    *)
(* question: CommandTable.                                                 *)
ListedCommandsRun ==
  \A name \in PlusNames, k \in DOMAIN commands, r \in Rows :
    LET cmd == Codes(commands[k], name)
    IN cmd = CDC_Command_Table[r] => hashTableLookup(initHashTable, cmd) = r

-----------------------------------------------------------------------------
(* strstr(text + from - 1, pattern): a place, or 0.                        *)
strstr(text, from, pattern) ==
  LET places == {p \in from .. Len(text) - Len(pattern) + 1 :
                  SubSeq(text, p, p + Len(pattern) - 1) = pattern}
  IN IF places = {} THEN 0 ELSE Min(places)

AT == <<"A", "T">>
CRLF == <<"CR", "LF">>

M_Split_From(text) ==
  LET split[start \in 1 .. Len(text)] ==
        LET next == strstr(text, start + 2, AT)
        IN IF next # 0
           THEN <<SubSeq(text, start, next - 1)>> \o split[next]
           ELSE <<SubSeq(text, start, Len(text) - 2)>>
  IN split[1]

(* The loop: a piece up to each further "AT", the last up to its "\r\n".   *)
Split(text) ==
  LET split[start \in 1 .. Len(text)] ==
        LET next == strstr(text, start + 1, AT)
        IN IF next # 0
           THEN <<SubSeq(text, start, next - 1)>> \o split[next]
           ELSE <<SubSeq(text, start, strstr(text, start + 1, CRLF) - 1)>>
  IN split[1]

(* checkUserInput, the pieces; none for -1.                                *)
checkUserInput(typed) ==
  LET marks == {p \in DOMAIN typed : typed[p] # " "}
      text == IF marks = {} THEN << >>
              ELSE SubSeq(typed, Min(marks), Max(marks))
  IN IF ~IsPrefix(AT, text) \/ ~IsSuffix(CRLF, text) THEN << >>
     ELSE IF IsPrefix(AT \o AT, text) THEN Split(SubSeq(text, 3, Len(text)))
     ELSE Split(text)

(* checkUserInput splits the whole of a line that starts with "AT" and     *)
(* ends with "\r\n", spaces around it or not: every piece starts with its  *)
(* only "AT", together they are the line, up to the first "\r\n" behind    *)
(* the last "AT".  If every '\r' has its '\n', that last piece is the end  *)
(* of a command of parseData, too.                                         *)
SplitsTheLine ==
  \A before, behind \in {<< >>, <<" ">>} :
    LET line == IF IsPrefix(AT \o AT, input)
                THEN SubSeq(input, 3, Len(input)) ELSE input
        pieces == checkUserInput(before \o input \o behind)
        starts == {p \in 1 .. Len(line) - 1 : SubSeq(line, p, p + 1) = AT}
    IN IF ~IsPrefix(AT, input) \/ ~IsSuffix(CRLF, input)
       THEN pieces = << >>
       ELSE /\ Len(pieces) = Cardinality(starts)
            /\ \A k \in DOMAIN pieces : IsPrefix(AT, pieces[k])
            /\ IsPrefix(FlattenSeq(pieces) \o CRLF, line)
            /\ (\A p \in DOMAIN input :
                  input[p] = "CR" => SubSeq(input, p, p + 1) = CRLF)
               => \E c \in ToSet(commands) :
                    IsSuffix(pieces[Len(pieces)] \o CRLF, c)
=============================================================================
