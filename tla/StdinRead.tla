------------------------------ MODULE StdinRead ------------------------------
(***************************************************************************)
(* A user process reads its standard input while keys are pressed: the     *)
(* SYS_READ case of core/syscall.c (fd 0), the keyboard interrupt of       *)
(* core/kernel.c and drivers/input/keyboard.c, and the ring between them.  *)
(*                                                                         *)
(* int 0x80 goes through an interrupt gate, so the whole read runs with    *)
(* the interrupt flag off; iret turns it on again.                         *)
(***************************************************************************)
EXTENDS KeyboardBuffer

CONSTANTS
  Newline,     \* '\n'
  MaxWant      \* bound: bytes asked for

ASSUME StdinAssumption == Newline \in Char /\ MaxWant \in Nat

VARIABLES
  intr,     \* the interrupt flag
  scancode, \* the key in the keyboard controller, NoChar when none
  pc,       \* user code, the loop of SYS_READ, or its hlt
  want,     \* edx, the bytes asked for
  line      \* what the read has stored in the user's buffer

vars == <<buffer, head, tail, got, intr, scancode, pc, want, line>>

StdinTypeOK ==
  /\ TypeOK
  /\ intr \in BOOLEAN
  /\ scancode \in Char \union {NoChar}
  /\ pc \in {"user", "loop", "hlt"}
  /\ want \in 0 .. MaxWant
  /\ line \in Seq(Char) /\ Len(line) <= want

StdinInit ==
  /\ Init
  /\ intr = TRUE
  /\ scancode = NoChar
  /\ pc = "user"
  /\ want = 0
  /\ line = << >>

(* A key goes down: the controller raises its line and holds one key. *)
KeyPress(c) ==
  /\ scancode = NoChar
  /\ scancode' = c
  /\ UNCHANGED <<ring, intr, pc, want, line>>

(* irq_handler and handle_keyboard.  A processor in hlt goes on after it.  *)
Accepts == intr
KeyboardInterrupt ==
  /\ scancode # NoChar
  /\ Accepts
  /\ Put(scancode)
  /\ scancode' = NoChar
  /\ pc' = IF pc = "hlt" THEN "loop" ELSE pc
  /\ UNCHANGED <<intr, want, line>>

(* read(0, buf, n): int 0x80. *)
Read(n) ==
  /\ pc = "user"
  /\ pc' = "loop"
  /\ want' = n
  /\ line' = << >>
  /\ intr' = FALSE
  /\ UNCHANGED <<ring, scancode>>

(* One turn of the loop: store a character, or halt. *)
StoreButNewline(l, c) == IF c = Newline THEN l ELSE Append(l, c)
Store(l, c) == Append(l, c)
Room(l) == Len(l) < want
Never(c) == FALSE
EndsLine(c) == c = Newline

ReadTurn ==
  /\ pc = "loop" /\ Room(line)
  /\ Get
  /\ IF got' = NoChar
       THEN pc' = "hlt" /\ UNCHANGED <<line, intr>>
       ELSE /\ line' = Store(line, got')
            /\ pc' = IF EndsLine(got') THEN "user" ELSE "loop"
            /\ intr' = EndsLine(got')
  /\ UNCHANGED <<scancode, want>>

(* All bytes are there: return to the user. *)
ReadDone ==
  /\ pc = "loop" /\ ~Room(line)
  /\ pc' = "user"
  /\ intr' = TRUE
  /\ UNCHANGED <<ring, scancode, want, line>>

ReadStep == ReadTurn \/ ReadDone

StdinNext ==
  \/ \E c \in Char : KeyPress(c)
  \/ KeyboardInterrupt
  \/ \E n \in 0 .. MaxWant : Read(n)
  \/ ReadStep

StdinSpec == StdinInit /\ [][StdinNext]_vars

(* The processor goes on, and takes an interrupt that it may take. *)
FairSpec == StdinSpec /\ WF_vars(ReadStep) /\ WF_vars(KeyboardInterrupt)
-----------------------------------------------------------------------------
(* What a read takes out of the ring it stores in the user's buffer, in    *)
(* the same order: between its first and its last step the stored bytes    *)
(* followed by the waiting ones do not change (kbd_get, buf[count++] = c). *)
ReadLosesNothing ==
  [][pc = "loop" => line' \o Contents' = line \o Contents]_vars

(* A read ends at the first newline: the bytes before its last hold none,  *)
(* across any number of turns ("if (c == '\n') break").                    *)
OneLine == \A i \in 1 .. Len(line) - 1 : line[i] # Newline

(* A read returns a line of what was typed: never beyond a newline, never   *)
(* more than was asked for, nothing lost on the way into the buffer.        *)
LineRead == [](StdinTypeOK /\ OneLine) /\ ReadLosesNothing

(* A read that finds its line in the ring returns: it never halts, which   *)
(* with interrupts off would be for ever.                                  *)
Enough ==
  \/ Len(line) + Count >= want
  \/ \E i \in 1 .. Count : Contents[i] = Newline

BufferedReadReturns == pc = "loop" /\ Enough ~> pc = "user"

(* A key pressed while a read waits reaches it: "hlt" is there to "Wait    *)
(* for interrupt".                                                         *)
ReadWakes == pc = "hlt" /\ scancode # NoChar ~> pc # "hlt"
=============================================================================
