------------------------------ MODULE AtParser ------------------------------
(***************************************************************************)
(* Apps/utils/parse.c: parseData, which read_buffer_task calls on every    *)
(* string it drains from the ring buffer.  One action is one pass of its   *)
(* loop, one action per case of the switch; the characters of the input    *)
(* are chosen as they are read.  NextCall ends a call at any character and *)
(* starts the next one, as a drain may end anywhere in a command.          *)
(***************************************************************************)
EXTENDS Integers, Sequences, SequencesExt, FiniteSetsExt

CONSTANTS Chars,     \* the characters of the input; "A", "T", "CR" and "LF"
                     \* are those the parser tells apart
          RowSize,   \* RING_BUFFER_SIZE, the length of a row of commands
          MaxRows,   \* MAX_CMD_SUPPORT, the rows of commands
          MaxCalls,  \* bound: calls of parseData
          MaxStream  \* bound: characters over all calls

(* readData returns at most RING_BUFFER_SIZE - 1 characters.               *)
MaxInput == RowSize - 1

NUL == "NUL"
Columns == 0 .. RowSize - 1
EmptyRow == [n \in Columns |-> NUL]

ASSUME ParserAssumption == /\ RowSize \in Nat /\ RowSize >= 5
                           /\ MaxRows \in Nat \ {0}
                           /\ MaxCalls \in Nat /\ MaxStream \in Nat
                           /\ {"A", "T", "CR", "LF"} \subseteq Chars
                           /\ NUL \notin Chars

VARIABLES input,         \* the characters of this call read so far
          state,         \* the local parseState
          commandIndex,  \* the local commandIndex
          row,           \* parser->commands[parser->commandCount]
          commands,      \* the rows before it, commandCount of them
          overrun,       \* a store behind the last row was due
          calls,         \* calls begun
          earlier        \* history: inputs and commands of earlier calls

vars == <<input, state, commandIndex, row, commands, overrun, calls, earlier>>

Init == /\ input = << >> /\ state = "IDLE" /\ commandIndex = 0
        /\ row = EmptyRow /\ commands = << >> /\ overrun = FALSE
        /\ calls = 1 /\ earlier = [input |-> << >>, commands |-> << >>]

Stream == earlier.input \o input

-----------------------------------------------------------------------------
Read(c) == /\ ~overrun /\ Len(input) < MaxInput /\ Len(Stream) < MaxStream
           /\ input' = Append(input, c)
           /\ UNCHANGED <<overrun, calls, earlier>>

(* Store c at column col of the row and go on behind it.                   *)
Store(c, col) == /\ row' = [row EXCEPT ![col] = c]
                 /\ commandIndex' = col + 1

Skip == UNCHANGED <<row, commandIndex>>

(* case STATE_IDLE, with commandIndex = col: an 'A' begins a row.          *)
Idle(c, col) ==
  \/ c = "A" /\ Len(commands) < MaxRows /\ Store(c, col) /\ state' = "AT"
  \/ c # "A" /\ UNCHANGED row /\ commandIndex' = col /\ state' = "IDLE"

(* The same with no row left: commandCount is compared with nothing, the   *)
(* store is behind commands, on commandCount itself.  What it and those    *)
(* after it do to the memory C does not define: the behaviour ends here.   *)
Overrun == /\ ~overrun /\ state \in {"IDLE", "CR"}
           /\ Len(input) < MaxInput /\ Len(commands) = MaxRows
           /\ overrun' = TRUE
           /\ UNCHANGED <<input, state, commandIndex, row, commands, calls,
                          earlier>>

ParseIdle == /\ state = "IDLE"
             /\ \E c \in Chars : Read(c) /\ Idle(c, commandIndex)
             /\ UNCHANGED commands

ParseAT == /\ state = "AT"
           /\ \E c \in Chars :
                /\ Read(c)
                /\ \/ c = "T" /\ Store(c, commandIndex) /\ state' = "CMD"
                   \/ c = "A" /\ Skip /\ UNCHANGED state
                   \/ /\ c \notin {"A", "T"}
                      /\ commandIndex' = 0 /\ UNCHANGED row
                      /\ state' = "IDLE"
           /\ UNCHANGED commands

M_ParseCmd_DropsCR ==
  /\ state = "CMD"
  /\ \E c \in Chars : /\ Read(c)
                      /\ IF c = "CR" THEN Skip ELSE Store(c, commandIndex)
                      /\ state' = IF c = "CR" THEN "CR" ELSE "CMD"
  /\ UNCHANGED commands

ParseCmd == /\ state = "CMD"
            /\ \E c \in Chars : /\ Read(c)
                                /\ Store(c, commandIndex)
                                /\ state' = IF c = "CR" THEN "CR" ELSE "CMD"
            /\ UNCHANGED commands

(* The text of a row as strlen and xQueueSend's receiver see it.           *)
RowText(r) == LET len == CHOOSE n \in 0 .. RowSize :
                           /\ \A m \in 0 .. n - 1 : r[m] # NUL
                           /\ n < RowSize => r[n] = NUL
              IN [n \in 1 .. len |-> r[n - 1]]

(* A complete command is terminated and the next row is begun; the rows    *)
(* were cleared by cleanParserData.                                        *)
M_ParseCR_ToLF ==
  /\ state = "CR"
  /\ \E c \in Chars :
       /\ Read(c)
       /\ IF c = "LF"
          THEN /\ commands' = Append(commands, RowText(row))
               /\ row' = EmptyRow /\ commandIndex' = 0
               /\ state' = "LF"
          ELSE Idle(c, 0) /\ UNCHANGED commands

M_ParseCR_Stays ==
  /\ state = "CR"
  /\ \E c \in Chars :
       /\ Read(c)
       /\ IF c = "LF"
          THEN /\ commands' = Append(commands,
                    RowText([row EXCEPT ![commandIndex] = c,
                                        ![commandIndex + 1] = NUL]))
               /\ row' = EmptyRow /\ commandIndex' = 0
               /\ UNCHANGED state
          ELSE Idle(c, 0) /\ UNCHANGED commands

M_ParseCR_KeepsIndex ==
  /\ state = "CR"
  /\ \E c \in Chars :
       /\ Read(c)
       /\ IF c = "LF"
          THEN /\ commands' = Append(commands,
                    RowText([row EXCEPT ![commandIndex] = c,
                                        ![commandIndex + 1] = NUL]))
               /\ row' = EmptyRow /\ commandIndex' = 0
               /\ state' = "IDLE"
          ELSE Idle(c, commandIndex) /\ UNCHANGED commands

ParseCR ==
  /\ state = "CR"
  /\ \E c \in Chars :
       /\ Read(c)
       /\ \/ /\ c = "LF"
             /\ commands' = Append(commands,
                    RowText([row EXCEPT ![commandIndex] = c,
                                        ![commandIndex + 1] = NUL]))
             /\ row' = EmptyRow /\ commandIndex' = 0
             /\ state' = "IDLE"
          \/ /\ c # "LF"      \* not consumed: read again by STATE_IDLE
             /\ Idle(c, 0)
             /\ UNCHANGED commands

(* The call returns; read_buffer_task queues commands, clears the parser   *)
(* (cleanParserData) and calls it on what it drains next.  The locals of   *)
(* the call, state and commandIndex, start over.                           *)
M_NextCall_KeepsState ==
  /\ ~overrun /\ calls < MaxCalls
  /\ calls' = calls + 1
  /\ earlier' = [input |-> Stream, commands |-> earlier.commands \o commands]
  /\ input' = << >> /\ commands' = << >>
  /\ UNCHANGED <<state, commandIndex, row, overrun>>

M_NextCall_KeepsCount ==
  /\ ~overrun /\ calls < MaxCalls
  /\ calls' = calls + 1
  /\ earlier' = [input |-> Stream, commands |-> earlier.commands \o commands]
  /\ input' = << >>
  /\ state' = "IDLE" /\ commandIndex' = 0 /\ row' = EmptyRow
  /\ UNCHANGED <<commands, overrun>>

NextCall ==
  /\ ~overrun /\ calls < MaxCalls
  /\ calls' = calls + 1
  /\ earlier' = [input |-> Stream, commands |-> earlier.commands \o commands]
  /\ input' = << >> /\ commands' = << >>
  /\ state' = "IDLE" /\ commandIndex' = 0 /\ row' = EmptyRow
  /\ UNCHANGED overrun

Next == ParseIdle \/ ParseAT \/ ParseCmd \/ ParseCR \/ Overrun \/ NextCall

Spec == Init /\ [][Next]_vars

-----------------------------------------------------------------------------
(* What a command is, without a state machine: the text between two        *)
(* carriage returns is a line; a line that holds "AT" and is followed by   *)
(* a line feed is a command, from its first "AT" to the line feed.         *)
LineStart(s, n) == 1 + Max({0} \cup {m \in 1 .. n - 1 : s[m] = "CR"})
ATs(s, n) == {p \in LineStart(s, n) .. n - 2 : s[p] = "A" /\ s[p + 1] = "T"}
Ends(s) == {n \in 1 .. Len(s) - 1 : /\ s[n] = "CR" /\ s[n + 1] = "LF"
                                    /\ ATs(s, n) # {}}
CommandAt(s, n) == SubSeq(s, Min(ATs(s, n)), n + 1)
Nth(S, k) == CHOOSE n \in S : Cardinality({m \in S : m <= n}) = k
CommandsOf(s) == [k \in 1 .. Cardinality(Ends(s)) |->
                    CommandAt(s, Nth(Ends(s), k))]

(* The types, the indexes within their arrays; STATE_LF, the fifth         *)
(* parseState, is never entered.                                           *)
TypeOK == /\ input \in Seq(Chars) /\ Len(input) <= MaxInput
          /\ state \in {"IDLE", "AT", "CMD", "CR"}
          /\ commandIndex \in Columns
          /\ row \in [Columns -> Chars \cup {NUL}]
          /\ Len(commands) <= MaxRows
          /\ overrun \in BOOLEAN

(* parseData returns the commands of its input and nothing else: what an   *)
(* abandoned command left in the row never shows in a later one.           *)
ParsesCommands == commands = CommandsOf(input)

(* Every store is inside its row, the terminator behind the line feed too: *)
(* a row is as long as the ring buffer and a drain is one shorter.  And    *)
(* every row is one of commands, unless the text of one call is long       *)
(* enough for MAX_CMD_SUPPORT commands, of four characters at least, and a *)
(* character more.  It can be, in the firmware: a drain is 511 characters  *)
(* and there are ten rows; then the store behind the last row happens.     *)
StoresInRow == /\ Len(input) < MaxInput =>
                    IF state = "CR" THEN commandIndex + 1 < RowSize
                                    ELSE commandIndex < RowSize
               /\ overrun => Len(input) \in 4 * MaxRows .. MaxInput - 1

(* A drain that ends inside a command costs that command, or its head, and *)
(* no other: whatever is parsed is the end of a command of the stream.     *)
CutCostsOneCommand ==
  LET found == earlier.commands \o commands
      whole == CommandsOf(Stream)
  IN /\ \A c \in ToSet(found) : \E d \in ToSet(whole) : IsSuffix(c, d)
     /\ Len(found) >= Len(whole) - (calls - 1)
=============================================================================
