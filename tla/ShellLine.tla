------------------------------ MODULE ShellLine ------------------------------
(***************************************************************************)
(* The shell's line editor and its history (apps/system/shell.c), as the   *)
(* keyboard drives it, and the rows of the console it writes to (putchar,  *)
(* core/kernel.c). command_buffer keeps what lies behind buffer_index; 0 is *)
(* the character that ends a string.                                       *)
(***************************************************************************)
EXTENDS Integers, Sequences, SequencesExt

CONSTANTS
  Char,             \* printable characters, numbers above 0
  MAX_COMMAND_LEN,
  MAX_HISTORY,
  Columns,            \* characters of a row of the screen: 100
  MaxCommands,      \* bound: commands put into the history
  MaxShown          \* bound: characters on the screen behind the prompt

Prompt == 2         \* "> "

ASSUME ShellAssumption ==
  /\ MAX_COMMAND_LEN \in Nat \ {0} /\ MAX_HISTORY \in Nat \ {0} /\ 0 \notin Char
  /\ Columns \in Nat /\ Columns > Prompt

(* buffer and index are command_buffer and buffer_index; shown is what      *)
(* stands on the screen behind the prompt, row after row, up to the cursor. *)
(* history is the ring, count and at are history_count and history_index.  *)
(* given, a history variable, lists the commands put into the history.     *)
VARIABLE shell

Zero == [i \in 0 .. MAX_COMMAND_LEN - 1 |-> 0]

ShellInit ==
  shell = [buffer |-> Zero, index |-> 0, shown |-> <<>>, given |-> <<>>,
           history |-> [i \in 0 .. MAX_HISTORY - 1 |-> Zero], count |-> 0, at |-> -1]

(* The string in a buffer. *)
Text(b) ==
  LET n == CHOOSE i \in 0 .. MAX_COMMAND_LEN :
             /\ i < MAX_COMMAND_LEN => b[i] = 0
             /\ \A j \in 0 .. i - 1 : b[j] # 0
  IN [i \in 1 .. n |-> b[i - 1]]

(* strcpy: what lies behind the string in the target stays. *)
Copied(s, b) == [i \in DOMAIN b |->
  IF i < Len(s) THEN s[i + 1] ELSE IF i = Len(s) THEN 0 ELSE b[i]]

(* putchar: a row that is full makes way for the next, and '\b', here n of  *)
(* them, goes back to the start of the cursor's row and no further.        *)
Column(shown) == (Prompt + Len(shown)) % Columns
Backed(shown, n) ==
  LET col == Column(shown)
  IN  SubSeq(shown, 1, Len(shown) - (IF n < col THEN n ELSE col))

Cleared(s) == [s EXCEPT !.buffer = Zero, !.index = 0, !.shown = <<>>]

(* The head of shell_parse_command: a new command goes into the history.   *)
Parsed(s) ==
  LET cmd == Text([s.buffer EXCEPT ![s.index] = 0])
      last == Text(s.history[(s.count - 1) % MAX_HISTORY])
      new == cmd # <<>> /\ (s.count = 0 \/ last # cmd)
      kept == IF new
              THEN [s EXCEPT !.history[s.count % MAX_HISTORY] = Copied(cmd, @),
                             !.count = @ + 1, !.given = Append(@, cmd)]
              ELSE s
  IN [kept EXCEPT !.at = -1]

Enter ==
  /\ shell.count < MaxCommands
  /\ shell' = Cleared(Parsed(shell))

Erase ==
  /\ shell.index > 0
  /\ shell' = [shell EXCEPT !.index = @ - 1, !.shown = Backed(@, 1)]

UpWithoutLimit(s) == IF s.at = -1 THEN s.count - 1 ELSE IF s.at > 0 THEN s.at - 1 ELSE s.at

Up(s) ==
  CASE s.at = -1 -> s.count - 1
    [] s.at > 0 /\ s.at > s.count - MAX_HISTORY -> s.at - 1
    [] OTHER -> s.at

Down(s) == IF s.at # -1 /\ s.at < s.count - 1 THEN s.at + 1 ELSE -1

(* The end of an arrow key: the line gives way to the command at i.         *)
RecalledTooSoon(s, i) ==                             \* a slip
  LET cmd == IF i = -1 THEN <<>> ELSE Text(s.history[i % MAX_HISTORY])
  IN  [s EXCEPT !.at = i, !.buffer = IF i = -1 THEN Zero ELSE Copied(cmd, @),
                !.index = Len(cmd),
                !.shown = Backed(@, IF s.index > 0 THEN s.index - 1 ELSE 0) \o cmd]

Recalled(s, i) ==
  LET cmd == IF i = -1 THEN <<>> ELSE Text(s.history[i % MAX_HISTORY])
  IN  [s EXCEPT !.at = i, !.buffer = IF i = -1 THEN Zero ELSE Copied(cmd, @),
                !.index = Len(cmd), !.shown = Backed(@, s.index) \o cmd]

Arrow ==
  /\ shell.count > 0
  /\ \E i \in {Up(shell), Down(shell)} : shell' = Recalled(shell, i)
  /\ Len(shell'.shown) <= MaxShown

Type(c) ==
  /\ shell.index < MAX_COMMAND_LEN - 1 /\ Len(shell.shown) < MaxShown
  /\ shell' = [shell EXCEPT !.buffer[shell.index] = c, !.index = @ + 1,
                            !.shown = Append(@, c)]

ShellNext == Enter \/ Erase \/ Arrow \/ \E c \in Char : Type(c)

-----------------------------------------------------------------------------
ShellTypeOK ==
  /\ shell.index \in 0 .. MAX_COMMAND_LEN - 1
  /\ shell.at \in -1 .. shell.count - 1
  /\ shell.shown \in Seq(Char)

(* s is t without some of its characters. *)
Within(s, t) ==
  \E f \in [1 .. Len(s) -> 1 .. Len(t)] :
    /\ \A i, j \in 1 .. Len(s) : i < j => f[i] < f[j]
    /\ \A i \in 1 .. Len(s) : t[f[i]] = s[i]

(* No row was filled since the prompt; what of the line is in the cursor's row. *)
FirstRow(shown) == Prompt + Len(shown) < Columns
InRow(shown) == IF FirstRow(shown) THEN Len(shown) ELSE Column(shown)

(* What Enter runs stands on the screen, in this order, whatever earlier     *)
(* lines, recalled commands and deleted characters left in the buffer. It is  *)
(* all that stands there until a row has been filled; from then on the        *)
(* cursor's row is still the end of the line, and the rows above may show     *)
(* what was deleted, since the cursor never goes back to them. And a recalled *)
(* line that was not edited further is the command given that many steps ago, *)
(* for the last MAX_HISTORY of them. (shell_input, shell_parse_command, putchar) *)
RunsWhatIsShown ==
  LET line == Text([shell.buffer EXCEPT ![shell.index] = 0])
      shown == shell.shown
  IN  /\ Within(line, shown)
      /\ FirstRow(shown) => line = shown
      /\ InRow(shown) <= Len(line)
      /\ \A k \in 0 .. InRow(shown) - 1 : line[Len(line) - k] = shown[Len(shown) - k]
      /\ shell.at = -1 \/ shell.count - shell.at <= MAX_HISTORY
      /\ \A i \in 0 .. shell.count - 1 :
           i >= shell.count - MAX_HISTORY =>
             Text(shell.history[i % MAX_HISTORY]) = shell.given[i + 1]
=============================================================================
