------------------------------ MODULE MCDevices ------------------------------
(***************************************************************************)
(* The device drivers for TLC.  They share no state (each file has its own  *)
(* statics), so a session runs one of them and the others rest as they are  *)
(* before their init functions.                                            *)
(***************************************************************************)
EXTENDS DriverManager, MassStorage, UsbSchedule, Xhci, UsbClasses, UsbProbe, Sound, TLC

VARIABLE session

vars == <<session, mgr, storage, usb, xhci, class, taken, sound>>

N(f, d) == [frequency |-> f, duration |-> d]
Scanned == {<<>>, <<"SATA", "USB">>} \cup {<<card, card>> : card \in Network}
Songs == {<<N(0, 0), N(440, 0)>>}          \* a pause and a note

(* A block is only given out, freed and compared.                           *)
BlockSymmetry == Permutations(Block)

Init ==
  /\ session \in {"drivers", "storage", "transfers", "rings", "classes", "devices",
                 "sound"}
  /\ IF session = "drivers" THEN ManagerInit ELSE mgr = Boot(<<>>)
  /\ IF session = "transfers" THEN UsbInit ELSE usb = UsbOff("ehci")
  /\ MassStorageInit /\ XhciOff /\ ClassInit /\ ProbeInit /\ SoundInit

Next ==
  /\ UNCHANGED session
  /\ \/ /\ session = "drivers" /\ ManagerNext
        /\ UNCHANGED <<storage, usb, xhci, class, taken, sound>>
     \/ /\ session = "storage" /\ MassStorageNext
        /\ UNCHANGED <<mgr, usb, xhci, class, taken, sound>>
     \/ /\ session = "transfers" /\ UsbNext
        /\ UNCHANGED <<mgr, storage, xhci, class, taken, sound>>
     \/ /\ session = "rings" /\ XhciNext
        /\ UNCHANGED <<mgr, storage, usb, class, taken, sound>>
     \/ /\ session = "classes" /\ ClassNext
        /\ UNCHANGED <<mgr, storage, usb, xhci, taken, sound>>
     \/ /\ session = "devices" /\ ProbeNext
        /\ UNCHANGED <<mgr, storage, usb, xhci, class, sound>>
     \/ /\ session = "sound" /\ SoundNext
        /\ UNCHANGED <<mgr, storage, usb, xhci, class, taken>>

Spec == Init /\ [][Next]_vars

(* Bound: an effect is in the chain only while nothing else of the sound is  *)
(* in use (the chain changes only the values of the mixed samples).         *)
AtRest(s) == s.live = {} /\ s.speaker = Silent /\ ~ s.is_playing
EffectsBound(s) == s.effects > 0 => AtRest(s)

(* Bound: of one setting of one device only is a report not true, and then   *)
(* no device is plugged in that no driver takes.                            *)
ReportsBound(t) ==
  LET false == UNION {t.doubt[d] : d \in Plugged}
  IN  Cardinality(false) <= 1 /\ (false = {} \/ t.on \cap ByInterface = {})
BoundedSpec == Init /\ [][Next /\ EffectsBound(sound') /\ ReportsBound(taken')]_vars

(* What a controller still does for a transfer that has returned reaches no  *)
(* other transfer (ehci.c, ohci.c); a class driver holds no device that was   *)
(* unplugged, and believes of it what it took, as far as every report of it   *)
(* was true (usb_driver_manager.c, usb_hid_class.c, usb_audio.c).             *)
ControllersInStep == LateWorkIsApart /\ SettingsTaken

(* A tone has an owner that will end it, and the buffers that are mixed or   *)
(* recorded into are allocated and not shared (sound.c, advanced_sound.c).   *)
SoundOwned == NoStrayTone /\ BuffersOwned
=============================================================================
