----------------------------- MODULE BoundedFifo -----------------------------
(***************************************************************************)
(* What the keyboard buffer of core/kernel.c promises: a queue of at most  *)
(* Capacity characters.  A character put into a full queue is dropped; a   *)
(* get from an empty queue gives NoChar (the code's 0) and never waits.    *)
(***************************************************************************)
EXTENDS Naturals, Sequences

CONSTANTS Char, NoChar, Capacity

VARIABLES
  queue,    \* the characters waiting, oldest first
  got       \* what the last get gave

Init ==
  /\ queue = << >>
  /\ got = NoChar

Put(c) ==
  /\ queue' = IF Len(queue) < Capacity THEN Append(queue, c) ELSE queue
  /\ UNCHANGED got

Get ==
  \/ /\ queue = << >>
     /\ got' = NoChar
     /\ UNCHANGED queue
  \/ /\ queue # << >>
     /\ got' = Head(queue)
     /\ queue' = Tail(queue)

Next == Get \/ \E c \in Char : Put(c)

Spec == Init /\ [][Next]_<<queue, got>>
=============================================================================
