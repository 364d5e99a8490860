------------------------------ MODULE UsbProbe ------------------------------
(***************************************************************************)
(* usb_driver_manager.c and the device list of usb_host.c, with the probe,  *)
(* removal and settings of usb_hid_class.c and usb_audio.c: the devices     *)
(* each class driver holds, and what it keeps of the requests it sent them. *)
(***************************************************************************)
EXTENDS Naturals, FiniteSets, Sequences, SequencesExt

CONSTANTS
  HidDevice, AudioDevice,   \* class_code of the device descriptor is that class
  ByInterface               \* devices that have the class only in their interface

(* taken.on: usb_devices, each allocated; taken.hid, taken.audio: hid_devices *)
(* and audio_devices, newest first, each entry the device it is of and the    *)
(* settings the driver keeps; taken.runs: the last value of each setting that *)
(* the device took since it was plugged in; taken.again: the devices a driver *)
(* took while it held them already; taken.doubt: the settings a device was    *)
(* once asked for with a report that was not true (the last two are history). *)
VARIABLE taken

Defaults == [protocol |-> 0, idle_rate |-> 0, sample_rate |-> 44100, volume_control |-> 65535,
             mute_control |-> 0]
Setting == DOMAIN Defaults
Plugged == HidDevice \cup AudioDevice \cup ByInterface
NoneRun == [s \in Setting |-> {}]         \* no request was accepted

ProbeInit ==
  taken = [on |-> {}, hid |-> <<>>, audio |-> <<>>, runs |-> [d \in Plugged |-> NoneRun], again |-> {},
           doubt |-> [d \in Plugged |-> {}]]

(* usb_host_control_transfer, once for each of the settings: told are those  *)
(* it returned 0 for, did those the device took.  The two have little to do    *)
(* with each other: EHCI returns 0 for what was not done in time, OHCI for     *)
(* what has hardly begun, xHCI for what it never sends, and a transfer may     *)
(* fail in its last stage when the device has done its part.                  *)
Transfers(settings) == [told : SUBSET settings, did : SUBSET settings]

(* A setting not reported as taken is left as memset or the probe made it.    *)
KeptUnasked(values, told) == values   \* a slip
Kept(values, told) == [s \in Setting |-> IF s \in told THEN values[s] ELSE Defaults[s]]
RunsNow(d, values, did) ==
  [taken.runs EXCEPT ![d] = [s \in Setting |-> IF s \in did THEN {values[s]} ELSE @[s]]]
InDoubt(d, t) ==
  [taken.doubt EXCEPT ![d] = @ \cup (t.told \ t.did) \cup (t.did \ t.told)]

(* usb_hid_parse_report_descriptor: the byte that follows an item 6 is a page *)
Pages(descriptor) ==
  FoldLeft(LAMBDA seen, byte :
             IF seen.item THEN [item |-> FALSE, pages |-> seen.pages \cup {byte}]
                          ELSE [seen EXCEPT !.item = byte = 6],
           [item |-> FALSE, pages |-> {}], descriptor).pages
HidType(descriptor) ==
  CASE 7 \in Pages(descriptor) -> "keyboard"
    [] 7 \notin Pages(descriptor) /\ 1 \in Pages(descriptor) -> "mouse"
    [] OTHER -> "other"
Placeholder == [i \in 1..64 |-> 0]        \* the descriptor is never fetched
TypeFound == HidType(Placeholder)

HasOf(d, lists) == \E i \in DOMAIN lists : lists[i].of = d
Again(d) == IF HasOf(d, taken.hid \o taken.audio) THEN taken.again \cup {d} ELSE taken.again

HidValues == [Defaults EXCEPT !.protocol = 1]
HidProbe(d) ==
  /\ d \in HidDevice
  /\ \E t \in Transfers({"protocol", "idle_rate"}) :
       taken' = [taken EXCEPT
         !.hid = <<[of |-> d, type |-> TypeFound,
                    set |-> Kept(HidValues, t.told)]>> \o @,
         !.runs = RunsNow(d, HidValues, t.did), !.doubt = InDoubt(d, t),
         !.again = Again(d)]

AudioProbe(d) ==
  /\ d \in AudioDevice
  /\ \E t \in Transfers({"sample_rate", "volume_control", "mute_control"}) :
       taken' = [taken EXCEPT
         !.audio = <<[of |-> d, set |-> Kept(Defaults, t.told)]>> \o @,
         !.runs = RunsNow(d, Defaults, t.did), !.doubt = InDoubt(d, t),
         !.again = Again(d)]

(* usb_host_add_device of a device just allocated, at an address that may be  *)
(* one freed before. A device of a class in its interface alone is handed to usb_hid_probe or   *)
(* usb_audio_probe, which ask for the class of the device and refuse it.     *)
UsbHostAddDevice(d) == d \notin taken.on /\ taken' = [taken EXCEPT !.on = @ \cup {d}]

Most == 2                            \* bound: entries of both drivers
UsbDeviceClassProbe(d) ==
  /\ d \in taken.on
  /\ Len(taken.hid \o taken.audio) < Most
  /\ \/ HidProbe(d) \/ AudioProbe(d)
     \/ d \in ByInterface /\ UNCHANGED taken

HidRemoved(d) == RemoveFirstMatch(taken.hid, LAMBDA entry : entry.of = d)
AudioRemoved(d) == RemoveFirstMatch(taken.audio, LAMBDA entry : entry.of = d)
StillAgain(d) ==
  {e \in taken.again : e # d \/ HasOf(d, HidRemoved(d) \o AudioRemoved(d))}
UsbDeviceRemoveNotify(d) ==
  /\ d \in taken.on
  /\ taken' = [taken EXCEPT !.on = @ \ {d}, !.hid = HidRemoved(d), !.audio = AudioRemoved(d),
                            !.runs[d] = NoneRun, !.again = StillAgain(d)]

(* What the settings are set to.                                              *)
Asked == [protocol |-> {0, 1}, idle_rate |-> {0, 4}, sample_rate |-> {44100, 48000},
          volume_control |-> {0, 65535}, mute_control |-> {0, 1}]

(* The entry of the device the caller has, found by usb_hid_find_device.      *)
FirstOf(list, d) == SelectInSeq(list, LAMBDA entry : entry.of = d)
Sent(field, d, setting) ==
  LET i == FirstOf(taken[field], d) IN
  /\ d \in taken.on /\ i # 0
  /\ \E t \in Transfers({setting}), value \in Asked[setting] :
       taken' = [taken EXCEPT
         ![field][i].set[setting] = IF setting \in t.told THEN value ELSE @,
         !.runs[d][setting] = IF setting \in t.did THEN {value} ELSE @,
         !.doubt = InDoubt(d, t)]

HidSettings(d) == Sent("hid", d, "protocol") \/ Sent("hid", d, "idle_rate")
(* usb_audio_set_channels asks nothing of the device, and is left out.        *)
AudioSettings(d) ==
  \/ Sent("audio", d, "sample_rate")
  \/ Sent("audio", d, "volume_control")
  \/ Sent("audio", d, "mute_control")

(* The controller may carry a request out when its call has long returned.   *)
TakenLate(d) ==
  /\ d \in taken.on
  /\ \E s \in taken.doubt[d] : \E value \in Asked[s] :
       taken' = [taken EXCEPT !.runs[d][s] = {value}]

ProbeNext ==
  \E d \in Plugged :
    \/ UsbHostAddDevice(d) \/ UsbDeviceClassProbe(d) \/ UsbDeviceRemoveNotify(d)
    \/ HidSettings(d) \/ AudioSettings(d) \/ TakenLate(d)

-----------------------------------------------------------------------------
(* Of a device a driver took once: the driver does not hold it when it has    *)
(* been unplugged, since its usb_device_t is then freed, and what it keeps is *)
(* what the device runs with, for every setting of which each report so far   *)
(* was true: one that is not as it began was taken by the device, and was the *)
(* last that was.  Of the others nothing is known, here or in the code.       *)
(* usb_device_class_probe may be called again and makes a second entry; one   *)
(* removal leaves it behind, which is why those devices are left out.        *)
SettingsTaken ==
  \A entry \in Range(taken.hid) \cup Range(taken.audio) :
    entry.of \in taken.again \/
      (/\ entry.of \in taken.on
       /\ \A s \in Setting \ taken.doubt[entry.of] :
            taken.runs[entry.of][s] = {entry.set[s]}
              \/ (taken.runs[entry.of][s] = {} /\ entry.set[s] = Defaults[s]))
=============================================================================
