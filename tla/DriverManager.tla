---------------------------- MODULE DriverManager ----------------------------
(***************************************************************************)
(* The driver manager's two lists, the drivers hardware detection creates  *)
(* and starts by itself, and the USB system's start and stop.               *)
(***************************************************************************)
EXTENDS Naturals, FiniteSets, Sequences, SequencesExt

CONSTANTS
  Ata, Serial,   \* the built-in drivers with an init function
  NoInit,        \* drivers without one: the pseudo devices, the USB classes
  UsbClass,      \* the class drivers among them
  Network,       \* the drivers of network cards, one object for all cards of a kind
  Sata,          \* the AHCI driver's array of drivers, all of one name
  Usb,           \* what create_ohci_driver and its like have memory for
  Scans,         \* what the PCI scan may find: sequences of cards
  MaxNumber      \* bound: numbers given out

Driver == {Ata, Serial} \cup NoInit \cup Network \cup Sata \cup Usb
Name == {Ata, Serial} \cup NoInit \cup Network \cup {"AHCI SATA", "USB Host Controller"}
NameOf(d) ==
  CASE d \in Sata -> "AHCI SATA" [] d \in Usb -> "USB Host Controller" [] OTHER -> d

Card == {"SATA", "USB"} \cup Network

ASSUME DriverManagerAssumption ==
  /\ IsFiniteSet(NoInit) /\ UsbClass \subseteq NoInit
  /\ Scans \subseteq Seq(Card)

(* list and active are the linked lists, newest first; number holds         *)
(* unique_id; up the drivers whose init succeeded and that were not shut    *)
(* down since; made the AHCI and host drivers created so far; cards what    *)
(* the PCI scan found; todo what the call in progress has yet to do.        *)
VARIABLE mgr

Each(what, things) == [i \in DOMAIN things |-> [do |-> what, on |-> things[i]]]

Emptied(m) == [m EXCEPT !.list = <<>>, !.active = <<>>, !.next_unique_id = 1]

Registered(m, d) ==
  [m EXCEPT !.list = <<d>> \o @, !.number[d] = m.next_unique_id,
            !.next_unique_id = @ + 1]

Unmade(m, S) == S \ m.made
Made(m, d) == [m EXCEPT !.made = @ \cup {d}]
InitDone(m, d) == [m EXCEPT !.up = @ \cup {d}]

(* hardware_load_driver_for_device: a new AHCI driver for a SATA controller, *)
(* and for a network card the driver of its kind, if its init succeeds, are  *)
(* started and registered, but not put on the active list; the driver for a  *)
(* USB controller has no driver_t's init and is dropped. Any driver of the   *)
(* kind may come: which is not settled, since create_network_driver is given *)
(* a null pointer and reads the card's ids at it.                           *)
Load(m, card) ==
  \/ /\ card \in Network
     /\ mgr' = Registered(InitDone(m, card), card)
  \/ /\ card = "SATA" /\ Unmade(m, Sata) # {}
     /\ LET d == CHOOSE x \in Unmade(m, Sata) : TRUE
        IN  mgr' = Registered(InitDone(Made(m, d), d), d)
  \/ /\ card = "SATA" => Unmade(m, Sata) = {}
     /\ mgr' = m

(* usb_host_init registers one for each USB controller, every time it is   *)
(* called, and fails to activate it.                                       *)
Host(m, card) ==
  \/ /\ card = "USB" /\ Unmade(m, Usb) # {}
     /\ LET d == CHOOSE x \in Unmade(m, Usb) : TRUE
        IN  mgr' = Registered(Made(m, d), d)
  \/ /\ card = "USB" => Unmade(m, Usb) = {}
     /\ mgr' = m

(* kernel_main: the disk's driver is registered before the manager is       *)
(* initialised, and is forgotten by that.                                   *)
Boot(cards) ==
  [list |-> <<>>, active |-> <<>>, next_unique_id |-> 1,
   number |-> [d \in Driver |-> 0], up |-> {}, made |-> {}, cards |-> cards,
   todo |-> Each("register", <<Ata>>) \o Each("empty", <<Ata>>)
              \o Each("register", SetToSeq(NoInit \ UsbClass)) \o Each("load", cards)
              \o Each("register", <<Serial>>) \o Each("host", cards)]

ManagerInit == \E cards \in Scans : mgr = Boot(cards)

(* The first on the list of those sought *)
Found(S) == LET i == SelectInSeq(mgr.list, LAMBDA d : d \in S) IN IF i = 0 THEN {} ELSE {mgr.list[i]}
Get(n) == Found({d \in Driver : NameOf(d) = n})
GetByNumber(i) == Found({d \in Driver : mgr.number[d] = i})

IsActive(d) == d \in Range(mgr.active)

(* driver_activate, by name or by number *)
Activated(d) ==
  /\ ~IsActive(d) /\ d \notin NoInit \cup Usb
  /\ mgr' = [mgr EXCEPT !.active = <<d>> \o @, !.up = @ \cup {d}]

Stopped(m, d) == [m EXCEPT !.active = RemoveFirst(@, d), !.up = @ \ {d}]

Deactivated(d) == IsActive(d) /\ mgr' = Stopped(mgr, d)

ByNameOrNumber ==
  \/ \E n \in Name : \E d \in Get(n) : Activated(d) \/ Deactivated(d)
  \/ \E i \in 1..MaxNumber : \E d \in GetByNumber(i) : Activated(d) \/ Deactivated(d)

Room == mgr.next_unique_id < MaxNumber

Register(d) == Room /\ mgr' = Registered(mgr, d)

StaysActive(m, d) == [m EXCEPT !.list = RemoveFirst(@, d)]   \* a slip
UnregisteredFrom(m, d) ==
  LET stopped == IF d \in Range(m.active) THEN Stopped(m, d) ELSE m
  IN [stopped EXCEPT !.list = RemoveFirst(@, d)]

Unregister(n) == \E d \in Get(n) : mgr' = UnregisteredFrom(mgr, d)

Cleanup(m) == [m EXCEPT !.up = @ \ Range(m.active), !.active = <<>>, !.list = <<>>]

Goes(calls) == mgr' = [mgr EXCEPT !.todo = calls]

AutoLoadAll == Room /\ Goes(Each("load", mgr.cards))

(* usb_system_init empties the manager once more, whatever it holds.        *)
UsbSystemInit ==
  /\ Room
  /\ Goes(Each("empty", <<Ata>>) \o Each("host", mgr.cards)
            \o Each("register", SetToSeq(UsbClass)) \o Each("load", mgr.cards))

UsbSystemShutdown ==
  Goes(Each("unregister", SetToSeq(UsbClass)) \o Each("cleanup", <<Ata>>))

(* The next thing to do of the call in progress *)
Step ==
  LET call == Head(mgr.todo)
      rest == [mgr EXCEPT !.todo = Tail(@)]
  IN
  /\ mgr.todo # <<>>
  /\ \/ call.do = "empty" /\ mgr' = Emptied(rest)
     \/ call.do = "register" /\ mgr' = Registered(rest, call.on)
     \/ call.do = "load" /\ Load(rest, call.on)
     \/ call.do = "host" /\ Host(rest, call.on)
     \/ /\ call.do = "unregister"
        /\ mgr' = IF call.on \in Range(rest.list) THEN UnregisteredFrom(rest, call.on)
                                              ELSE rest
     \/ call.do = "cleanup" /\ mgr' = Cleanup(rest)

Calls ==
  \/ ByNameOrNumber
  \/ \E d \in {Ata, Serial} : Register(d)
  \/ \E n \in Name : Unregister(n)
  \/ AutoLoadAll
  \/ UsbSystemInit
  \/ UsbSystemShutdown

ManagerNext == Step \/ (mgr.todo = <<>> /\ Calls)

-----------------------------------------------------------------------------
ManagerTypeOK ==
  /\ mgr.list \in Seq(Driver) /\ mgr.active \in Seq(Driver)
  /\ mgr.up \subseteq Driver /\ mgr.made \subseteq Sata \cup Usb
  /\ mgr.next_unique_id \in Nat /\ mgr.number \in [Driver -> Nat]

(* A driver on the active list is running, is there once and can still be   *)
(* found to be shut down, and two registered drivers never share a number,  *)
(* at each step of starting, loading, removing and stopping, and however    *)
(* often a driver was registered (driver_manager.c, hardware_detect.c).     *)
DriversAccounted ==
  /\ \A d \in Range(mgr.active) : d \in mgr.up /\ d \in Range(mgr.list)
  /\ IsInjective(mgr.active)
  /\ \A d, e \in Range(mgr.list) : mgr.number[d] = mgr.number[e] => d = e
=============================================================================
