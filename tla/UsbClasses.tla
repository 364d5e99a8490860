----------------------------- MODULE UsbClasses -----------------------------
(***************************************************************************)
(* usb_hid_class.c and usb_audio.c: the reports of keyboards and mice       *)
(* turned into events, and the streams of an audio device.                  *)
(***************************************************************************)
EXTENDS Naturals, Functions

CONSTANTS
  Key,         \* key codes a report carries besides 0
  Slots,       \* keys in a report: 6
  Modifier,    \* bits of the first byte
  Button

(* Keys, modifiers and buttons have handlers of their own. *)
ASSUME UsbClassesAssumption ==
  /\ Slots \in Nat /\ 0 \notin Key
  /\ Key \cap Modifier = {} /\ Key \cap Button = {} /\ Modifier \cap Button = {}

(* class: last_key_states and last_modifier_keys of a keyboard, last_buttons  *)
(* of a mouse; heard: the keys, modifiers and buttons that are down by what   *)
(* the handlers were told; streaming, capture and playback of an audio device.*)
VARIABLE class

Up == [i \in 1..Slots |-> 0]
ClassInit ==
  class = [last_key_states |-> Up, last_modifier_keys |-> {},
           last_buttons |-> {}, heard |-> {}, streaming |-> FALSE, capture |-> FALSE,
           playback |-> FALSE]

(* What the handlers know when they were told that these went up, and then *)
(* that those came down; being told a thing twice changes nothing.          *)
Told(heard, up, down) == (heard \ up) \cup down

SlotBySlot(these, those) ==   \* a slip
  {these[i] : i \in {j \in DOMAIN these : these[j] # those[j]}} \ {0}

(* Every slot of one report that the other report has in no slot            *)
Missing(these, those) == Range(these) \ (Range(those) \cup {0})

(* The modifiers that changed, then the keys that went up, then those that  *)
(* came down.                                                              *)
KeyboardReport(modifiers, keys) ==
  LET held == class.last_modifier_keys
      last == class.last_key_states
      told == Told(class.heard, held \ modifiers, modifiers \ held)
  IN  class' = [class EXCEPT !.heard = Told(told, Missing(last, keys), Missing(keys, last)),
                             !.last_modifier_keys = modifiers, !.last_key_states = keys]

MouseReport(buttons) ==
  LET held == class.last_buttons
  IN  class' = [class EXCEPT !.heard = Told(@, held \ buttons, buttons \ held),
                             !.last_buttons = buttons]

(* The audio device's streams *)
Started(capture, playback) ==
  [class EXCEPT !.streaming = TRUE, !.capture = @ \/ capture, !.playback = @ \/ playback]

StopStreaming == class' = [class EXCEPT !.streaming = FALSE, !.capture = FALSE, !.playback = FALSE]

Stream ==
  \/ class' = Started(TRUE, FALSE) \/ class' = Started(FALSE, TRUE)
  \/ class' = Started(FALSE, FALSE)
  \/ class' = [class EXCEPT !.capture = FALSE]
  \/ class' = [class EXCEPT !.playback = FALSE]
  \/ StopStreaming

ClassNext ==
  \/ \E m \in SUBSET Modifier, keys \in [1..Slots -> Key \cup {0}] : KeyboardReport(m, keys)
  \/ \E b \in SUBSET Button : MouseReport(b)
  \/ Stream

-----------------------------------------------------------------------------
ClassTypeOK ==
  /\ class.last_key_states \in [1..Slots -> Key \cup {0}]

(* What the handlers were told to be down is what the last report of each     *)
(* device holds down, wherever its slots put a key, however often, and       *)
(* whatever came before (usb_keyboard_process_report, usb_mouse_...); and    *)
(* nothing is captured or played by a device that does not stream.           *)
HandlersKnow ==
  /\ class.heard = (Range(class.last_key_states) \ {0})
                     \cup class.last_modifier_keys \cup class.last_buttons
  /\ class.capture \/ class.playback => class.streaming
=============================================================================
