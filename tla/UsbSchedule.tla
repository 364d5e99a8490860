----------------------------- MODULE UsbSchedule -----------------------------
(***************************************************************************)
(* The EHCI and OHCI drivers: descriptors taken from a pool that nothing   *)
(* is given back to, linked where the controller finds them, and worked on *)
(* by the controller while the driver polls the last one, and after that:   *)
(* a queue head taken out of the list may still be in the controller's hand, *)
(* since no driver waits until it has let go (EHCI's doorbell, EHCI_CMD_IAAD, *)
(* is never rung).                                                          *)
(***************************************************************************)
EXTENDS Integers, Sequences, SequencesExt

CONSTANTS
  PoolSize,    \* descriptors of a controller: 1000
  Polls        \* bound and timeout: reads of a register in one wait, 10000

ASSUME UsbAssumption == PoolSize \in Nat \ {0} /\ Polls \in Nat

(* usb.kind: which controller; on: initialised, reset: its reset had ended;  *)
(* held: the queue heads the controller has or can find, the newest first,   *)
(* each with its place in the pool, its list, whether it is linked there, and *)
(* the stages of its transfer; waiting: a call is in its wait; result: what   *)
(* the last call returned, 1 before there was one.                          *)
VARIABLE usb

UsbOff(kind) == [kind |-> kind, on |-> FALSE, reset |-> FALSE, pool_index |-> 0,
                 held |-> <<>>, waiting |-> FALSE, result |-> 1]

UsbInit == usb \in {UsbOff(k) : k \in {"ehci", "ohci"}}

(* `while (timeout-- && busy)` that saw the register ready at read j, with   *)
(* `timeout == 0` for an error: a wait that ran out leaves -1 in timeout.    *)
Expired(j) == j = Polls
ReadyAt == 1..Polls + 1                              \* Polls + 1: never ready

(* ehci_init, ohci_init: reset, pools and lists; the head of EHCI's list is  *)
(* taken from the pool.                                                    *)
Heads(kind) == IF kind = "ehci" THEN 1 ELSE 0

ControllerInit ==
  /\ ~usb.on
  /\ \E j \in ReadyAt :
       usb' = IF Expired(j) THEN [usb EXCEPT !.result = -1]
              ELSE [usb EXCEPT !.on = TRUE, !.reset = (j <= Polls), !.result = 0,
                               !.pool_index = Heads(usb.kind)]

(* *_enumerate_device_impl: nothing is kept of the device that was found.    *)
(* EHCI's wait is a do loop, which knows when its time is over.              *)
Enumerate ==
  /\ usb.on /\ ~usb.waiting
  /\ \E connected, low_speed, enabled \in BOOLEAN, j \in ReadyAt :
       LET late == Expired(j) \/ (usb.kind = "ehci" /\ j > Polls)
           refused == ~connected \/ (usb.kind = "ehci" /\ low_speed)
       IN usb' = [usb EXCEPT !.result = IF refused \/ late \/ ~enabled THEN -1 ELSE 0]

(* n descriptors, as many of them as there are; the head first.             *)
Short(n) == PoolSize - usb.pool_index < n
TakenFrom(u, n) ==
  [u EXCEPT !.pool_index = IF Short(n) THEN PoolSize ELSE @ + n]

Active(n) == [i \in 1..n |-> "active"]

(* Linked first in EHCI's list.  OHCI has a head register for each of its   *)
(* two, which forgets what it held.                                        *)
Out(entry) == [entry EXCEPT !.linked = FALSE]
Linked(u, n, list) ==
  LET new == [from |-> usb.pool_index, list |-> list, linked |-> TRUE, stages |-> Active(n)]
      kept == [i \in DOMAIN u.held |->
                 IF u.kind = "ohci" /\ u.held[i].list = list THEN Out(u.held[i]) ELSE u.held[i]]
  IN  [u EXCEPT !.held = <<new>> \o kept, !.waiting = TRUE]

Transfer(stages, list) ==
  /\ usb.on /\ ~usb.waiting
  /\ LET taken == TakenFrom(usb, stages + 1)
     IN usb' = IF Short(stages + 1) THEN [taken EXCEPT !.result = -1]
               ELSE Linked(taken, stages, list)

ControlTransfer == \E stages \in {2, 3} : Transfer(stages, "control")
BulkTransfer == Transfer(1, "bulk")

(* The controller: the first stage still active, all before it done, of any  *)
(* transfer it holds; and what is not linked it lets go of when it likes.    *)
Worked(stages, how) ==
  LET i == SelectInSeq(stages, LAMBDA s : s = "active") IN [stages EXCEPT ![i] = how]
Workable(stages) == "active" \in Range(stages) /\ "halted" \notin Range(stages)

Controller ==
  \E q \in DOMAIN usb.held, how \in {"done", "halted"} :
    /\ Workable(usb.held[q].stages)
    /\ usb' = [usb EXCEPT !.held[q].stages = Worked(@, how)]

LetGo ==
  \E q \in DOMAIN usb.held :
    /\ ~usb.held[q].linked
    /\ usb' = [usb EXCEPT !.held = RemoveAt(@, q)]

(* The end of the wait.  EHCI waits until the last stage is not active or    *)
(* its time is over, takes the queue head out of the list, and takes what is *)
(* still active for done; OHCI looks for "not accessed" in the low bits of a *)
(* descriptor that says "no error" there from the start and for ever (the    *)
(* controller writes its code into the high ones), so it goes on at the      *)
(* first read, finds no error, and leaves the head where it is.              *)
StaysLinked(u) == u                                  \* a slip
GivenBack(u) ==                                      \* a slip
  [u EXCEPT !.held[1] = Out(@), !.pool_index = u.held[1].from]
Unlinked(u) == [u EXCEPT !.held[1] = Out(@)]

Reported(u) == IF u.kind = "ehci" /\ Last(u.held[1].stages) = "halted" THEN -1 ELSE 0

Finish ==
  /\ usb.waiting
  /\ LET ended == IF usb.kind = "ehci" THEN Unlinked(usb) ELSE usb
     IN usb' = [ended EXCEPT !.waiting = FALSE, !.result = Reported(usb)]

UsbNext ==
  ControllerInit \/ Enumerate \/ ControlTransfer \/ BulkTransfer \/ Controller \/ LetGo \/ Finish

-----------------------------------------------------------------------------
UsbTypeOK ==
  /\ usb.pool_index \in 0..PoolSize
  /\ usb.result \in {-1, 0, 1}
  /\ usb.on \in BOOLEAN /\ usb.waiting \in BOOLEAN

(* What the controller still does for a transfer that has returned, done,    *)
(* halted, timed out or given up at the first read, stays with that          *)
(* transfer: the descriptors it holds are apart from those of every other    *)
(* transfer and are not given out again, and once EHCI has returned it finds  *)
(* nothing more in the list.  The caller's buffer is another matter: it may   *)
(* be written when the call is long over.                                    *)
Descriptors(entry) == entry.from .. entry.from + Len(entry.stages)
LateWorkIsApart ==
  /\ \A i, j \in DOMAIN usb.held :
       i # j => Descriptors(usb.held[i]) \cap Descriptors(usb.held[j]) = {}
  /\ \A i \in DOMAIN usb.held, p \in usb.pool_index..PoolSize :
       p \notin Descriptors(usb.held[i])
  /\ usb.kind = "ehci" /\ ~usb.waiting => \A i \in DOMAIN usb.held : ~usb.held[i].linked
=============================================================================
