--------------------------- MODULE KeyboardBuffer ---------------------------
(***************************************************************************)
(* The ring between the keyboard interrupt and the read system call:       *)
(* kbd_put and kbd_get of core/kernel.c (core/kbd_buf_stub.c repeats them  *)
(* word for word).  Both run with interrupts off, so each is one step.     *)
(***************************************************************************)
EXTENDS Naturals, Sequences

CONSTANTS
  Char,     \* the characters of the keyboard map, without the 0
  NoChar,   \* 0, which kbd_get returns when there is none
  Size      \* KBD_BUF_SIZE

ASSUME RingAssumption == Size \in Nat \ {0} /\ NoChar \notin Char

VARIABLES
  buffer,   \* kbd_buffer
  head,     \* kbd_head: where the next character is put
  tail,     \* kbd_tail: where the next is taken
  got       \* what the last kbd_get returned

ring == <<buffer, head, tail, got>>

Index == 0 .. Size - 1

TypeOK ==
  /\ buffer \in [Index -> Char \union {NoChar}]
  /\ head \in Index
  /\ tail \in Index
  /\ got \in Char \union {NoChar}

Init ==
  /\ buffer = [i \in Index |-> NoChar]
  /\ head = 0
  /\ tail = 0
  /\ got = NoChar

NoWrap(i) == i + 1
Following(i) == (i + 1) % Size

NeverFull == FALSE
Full == Following(head) = tail
Empty == head = tail

(* kbd_put: a character for a full ring is dropped. *)
Put(c) ==
  /\ IF Full
       THEN UNCHANGED <<buffer, head>>
       ELSE /\ buffer' = [buffer EXCEPT ![head] = c]
            /\ head' = Following(head)
  /\ UNCHANGED <<tail, got>>

(* kbd_get: 0, or the character at the tail. *)
Get ==
  /\ IF Empty
       THEN got' = NoChar /\ UNCHANGED tail
       ELSE got' = buffer[tail] /\ tail' = Following(tail)
  /\ UNCHANGED <<buffer, head>>

Next == Get \/ \E c \in Char : Put(c)

Spec == Init /\ [][Next]_ring
-----------------------------------------------------------------------------
(* The characters between tail and head, around the end of the array. *)
Count == IF tail <= head THEN head - tail ELSE head + Size - tail
Place(i) == IF tail + i - 1 < Size THEN tail + i - 1 ELSE tail + i - 1 - Size
Contents == [i \in 1 .. Count |-> buffer[Place(i)]]

(* The ring is a bounded queue: nothing in it is lost, overwritten,        *)
(* reordered or given out twice, wherever head and tail stand; one place   *)
(* stays free, and only a character that finds the queue full is dropped.  *)
Fifo == INSTANCE BoundedFifo WITH queue <- Contents, Capacity <- Size - 1
FifoSpec == Fifo!Spec
=============================================================================
