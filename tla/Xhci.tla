-------------------------------- MODULE Xhci --------------------------------
(***************************************************************************)
(* The xHCI driver's command and event rings.  The driver looks at the      *)
(* events only while it waits for a command, and never tells the controller *)
(* how far it has read: the controller stops one short of the ring's size.  *)
(***************************************************************************)
EXTENDS Naturals

CONSTANTS RingSize,    \* entries of a ring: 256
          MaxCommands  \* enable slot commands of a run

XHCI_EVENT_CMD_COMPLETE == 33
XHCI_EVENT_PORT_STATUS == 34

(* trbs: the event ring, each entry with its cycle bit and its type;          *)
(* producer: how many events the controller has posted; commands: those rung  *)
(* for and not answered; given: commands so far; step: "waiting" while        *)
(* xhci_wait_for_command_completion runs; result: what xhci_enable_slot       *)
(* returned last.                                                             *)
VARIABLE xhci

Blank == [cycle |-> 0, type |-> 0]

XhciOff == xhci = [on |-> FALSE, trbs |-> [i \in 0..RingSize - 1 |-> Blank],
                   producer |-> 0, dequeue_index |-> 0, consumer_cycle_state |-> 1,
                   enqueue_index |-> 0, cycle_state |-> 1, commands |-> 0,
                   given |-> 0, step |-> "idle", result |-> "none"]

(* xhci_init: rings zeroed, indices at their start *)
XhciInit == ~xhci.on /\ xhci' = [xhci EXCEPT !.on = TRUE]

(* The controller, with the ERDP the driver set when it initialised the ring *)
Posted(type) ==
  /\ xhci.producer < RingSize - 1
  /\ xhci' = [xhci EXCEPT !.trbs[xhci.producer] = [cycle |-> 1, type |-> type],
                          !.producer = @ + 1,
                          !.commands = IF type = XHCI_EVENT_CMD_COMPLETE THEN @ - 1 ELSE @]

PortChanged == xhci.on /\ Posted(XHCI_EVENT_PORT_STATUS)
Completed == xhci.commands > 0 /\ Posted(XHCI_EVENT_CMD_COMPLETE)

(* xhci_enumerate_device_impl resets a port that holds an enabled device and *)
(* then calls xhci_enable_slot: the command goes in the ring with a cycle    *)
(* bit that is 1 however often the ring has gone round.                      *)
Wrapped(i) == (i + 1) % RingSize

EnableSlot ==
  /\ xhci.on /\ xhci.step = "idle" /\ xhci.given < MaxCommands
  /\ xhci' = [xhci EXCEPT !.enqueue_index = Wrapped(@), !.commands = @ + 1,
                !.given = @ + 1,
                !.cycle_state = IF Wrapped(xhci.enqueue_index) = 0 THEN 1 - @ ELSE @,
                !.step = "waiting"]

(* The mask XHCI_TRB_TYPE is 0x3F00: of the six bits from bit 10 of the      *)
(* control word it keeps four, and no event's type (32 and up) survives it.  *)
TypeRead(event) == event.type % 16

(* xhci_wait_for_command_completion: an event of another kind stays where it *)
(* is, and the wait goes on behind it until its time is over.                *)
Seen(event) == /\ event.cycle = xhci.consumer_cycle_state
               /\ TypeRead(event) = XHCI_EVENT_CMD_COMPLETE

Taken(x) == [x EXCEPT !.dequeue_index = Wrapped(@), !.result = "slot",
               !.consumer_cycle_state = IF Wrapped(x.dequeue_index) = 0 THEN 1 - @ ELSE @]

WaitEnds ==
  /\ xhci.step = "waiting"
  /\ LET after == IF Seen(xhci.trbs[xhci.dequeue_index])
                  THEN Taken(xhci) ELSE [xhci EXCEPT !.result = "failed"]
     IN xhci' = [after EXCEPT !.step = "idle"]

XhciNext == XhciInit \/ PortChanged \/ Completed \/ EnableSlot \/ WaitEnds

=============================================================================
