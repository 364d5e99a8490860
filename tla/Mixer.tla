-------------------------------- MODULE Mixer --------------------------------
(***************************************************************************)
(* The window of apps/multimedia/audio_mixer.c: what a click in it sets.   *)
(* Pixels are real ones; the window's place matters because the handler,   *)
(* which is given coordinates in the window, takes the place off again.    *)
(* The recording key and the sound itself are in Sound.                    *)
(***************************************************************************)
EXTENDS Integers, FiniteSets

CONSTANTS
  Channels,       \* 0 .. AUDIO_MAX_CHANNELS - 1
  Bands,          \* 0 .. EQ_BANDS - 1
  Place,          \* places of the window, in pixels
  ClickX, ClickY, \* coordinates in the window that are clicked
  MaxClicks       \* bound: clicks

ASSUME MixerAssumption ==
  /\ Channels \subseteq Nat /\ 0 \in Channels /\ Bands \subseteq Nat /\ MaxClicks \in Nat
  /\ Place \subseteq Int \X Int /\ ClickX \subseteq Int /\ ClickY \subseteq Int

Width == 560      \* AUDIO_MIXER_WIDTH * 8
Height == 200
Strip == 64       \* CHANNEL_STRIP_WIDTH * 8
NoEffect == -1

VARIABLE mixer

(* launch_audio_mixer, when the sound system is started with it. *)
MixerInit ==
  mixer = [selected |-> 0, show_equalizer |-> TRUE, volume |-> [c \in Channels |-> 100],
           pan |-> [c \in Channels |-> 128], eq_bands |-> [b \in Bands |-> 50],
           master_volume |-> 50, effect |-> NoEffect, clicks |-> 0]

Between(n, low, high) == low <= n /\ n < high
Byte(n) == n % 256
Unlimited(n, top) == Byte(n)
Limited(n, top) == Byte(IF n > top THEN top ELSE IF n < 0 THEN 0 ELSE n)

ChannelAt(x, y) ==
  {c \in Channels : Between(x, 10 + (Strip + 5) * c, 10 + (Strip + 5) * c + Strip)
                    /\ Between(y, 25, 145)}

(* A division in C cuts off towards 0. *)
BandAt(x, y) ==
  {b \in Bands : /\ mixer.show_equalizer
                 /\ Between(x, Width - 180, Width - 20) /\ Between(y, 40, 120)
                 /\ b = IF x < Width - 178 THEN 0 ELSE (x - (Width - 178)) \div 16}

(* audio_handle_channel_click: a horizontal slider is set by the height of *)
(* the click in it.                                                        *)
ChannelClick(m, c, y) ==
  [m EXCEPT !.selected = c,
            !.volume[c] = IF Between(y, 40, 48) THEN Limited(((y - 40) * 100) \div 8, 100) ELSE @,
            !.pan[c] = IF Between(y, 60, 66) THEN Limited(((y - 60) * 255) \div 6, 255) ELSE @]

(* audio_handle_eq_click: one echo in place of all effects there were. *)
EqClick(m, b, y) ==
  LET level == Limited(100 - ((y - 40) * 100) \div 76, 100)
  IN [m EXCEPT !.eq_bands[b] = level, !.effect = level]

MasterClick(m, x, y) ==
  IF Between(x, Width - 180, Width - 30) /\ Between(y, Height - 35, Height - 27)
  THEN [m EXCEPT !.master_volume = Limited(100 - ((y - (Height - 35)) * 100) \div 8, 100)]
  ELSE m

(* audio_mixer_handle_click: the first that is under the pointer. *)
Clicked(m, x, y) ==
  IF ChannelAt(x, y) # {} THEN ChannelClick(m, CHOOSE c \in ChannelAt(x, y) : TRUE, y)
  ELSE IF BandAt(x, y) # {} THEN EqClick(m, CHOOSE b \in BandAt(x, y) : TRUE, y)
  ELSE MasterClick(m, x, y)

CloseBox(x, y) == y < 12 /\ x > Width - 12

MixerClick ==
  /\ mixer.clicks < MaxClicks
  /\ \E place \in Place, x \in ClickX, y \in ClickY :
       /\ ~CloseBox(x, y)
       /\ mixer' = [Clicked(mixer, x - place[1], y - place[2]) EXCEPT !.clicks = @ + 1]

KeyE == mixer' = [mixer EXCEPT !.show_equalizer = ~@]

MixerNext == MixerClick \/ KeyE
-----------------------------------------------------------------------------
(* No click, wherever the window and the pointer are, sets a level outside *)
(* its range, which a byte would turn into another level, and the echo is  *)
(* as strong as some band. (audio_handle_channel_click, _eq_click)         *)
MixerTypeOK ==
  /\ mixer.selected \in Channels
  /\ \A c \in Channels : mixer.volume[c] \in 0 .. 100 /\ mixer.pan[c] \in 0 .. 255
  /\ \A b \in Bands : mixer.eq_bands[b] \in 0 .. 100
  /\ mixer.master_volume \in 0 .. 100
  /\ mixer.effect = NoEffect \/ \E b \in Bands : mixer.eq_bands[b] = mixer.effect
=============================================================================
