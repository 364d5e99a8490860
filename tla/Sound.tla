-------------------------------- MODULE Sound --------------------------------
(***************************************************************************)
(* sound.c and advanced_sound.c: one speaker that beeps, melodies and the  *)
(* mixer of sampled channels share, and the window of audio_mixer.c with    *)
(* the shell's commands cal, dur, wav_cal and ses_kaydet.                   *)
(***************************************************************************)
EXTENDS Naturals, Sequences, FiniteSets

CONSTANTS
  Melody,      \* songs: sequences of [frequency, duration]
  Channels,    \* AUDIO_MAX_CHANNELS
  Samples,     \* AUDIO_BUFFER_SIZE
  Size,        \* sizes of what is played
  MaxEffects,  \* effects[4]
  Block        \* what the heap may give out

ASSUME SoundAssumption ==
  /\ Channels \in Nat \ {0} /\ Samples \in Nat \ {0} /\ Size \subseteq Nat /\ MaxEffects \in Nat
  /\ \A s \in Melody : s \in Seq([frequency : Nat, duration : Nat])

Null == "null"
Silent == 0
BeepTone == 1000
Mixed == 200             \* what audio_update makes of a first sample of 0
BeepTicks == 3

(* sound.speaker is the tone port 0x61 lets through; the record's other       *)
(* fields are named as the variables of the two files, live the blocks that *)
(* are allocated and ui the window's own flag of a recording.               *)
VARIABLE sound

NoChannel == [active |-> FALSE, buffer |-> Null, size |-> 0, position |-> 0, loop |-> FALSE]
SoundInit ==
  sound = [speaker |-> Silent, beep_ticks |-> 0, current_melody |-> <<>>, note_idx |-> 0,
           ticks_left |-> 0, is_playing |-> FALSE, initialized |-> FALSE,
           channels |-> [c \in 1..Channels |-> NoChannel], effects |-> 0,
           recording |-> FALSE, recording_buffer |-> Null, ui |-> FALSE, live |-> {}]

PlaySound(s, f) == IF f = 0 THEN s ELSE [s EXCEPT !.speaker = f]
Nosound(s) == [s EXCEPT !.speaker = Silent]

(* sound.c. note_idx counts from 1.                                         *)
Beep == sound' = [PlaySound(sound, BeepTone) EXCEPT !.beep_ticks = BeepTicks]

PlayMelody(melody) ==
  /\ melody # <<>>
  /\ sound' = [PlaySound(sound, melody[1].frequency) EXCEPT
       !.current_melody = melody, !.note_idx = 1, !.ticks_left = melody[1].duration,
       !.is_playing = TRUE]

MelodyStopped(s) == [Nosound(s) EXCEPT !.is_playing = FALSE, !.current_melody = <<>>]
StopMelody == sound' = MelodyStopped(sound)

NoteIn(s) == s.note_idx \in DOMAIN s.current_melody

BeepEnded(s) ==
  CASE ~ s.is_playing -> Nosound(s)
    [] s.is_playing /\ NoteIn(s) -> PlaySound(s, s.current_melody[s.note_idx].frequency)
    [] OTHER -> s

NextNote(s) ==
  IF ~ NoteIn(s) THEN MelodyStopped(s)
  ELSE LET note == s.current_melody[s.note_idx]
       IN [(IF note.frequency = 0 THEN Nosound(s) ELSE PlaySound(s, note.frequency))
             EXCEPT !.ticks_left = note.duration]

(* "Called by the timer interrupt" (sound.c), as the file means it to be: the *)
(* call in timer_handler is commented out, so that nothing ends a tone there. *)
HandleBeepTimer ==
  \/ /\ sound.beep_ticks > 0
     /\ LET s == [sound EXCEPT !.beep_ticks = @ - 1]
        IN sound' = IF s.beep_ticks = 0 THEN BeepEnded(s) ELSE s
  \/ /\ sound.beep_ticks = 0 /\ sound.is_playing
     /\ sound' = IF sound.ticks_left > 0 THEN [sound EXCEPT !.ticks_left = @ - 1]
                 ELSE NextNote([sound EXCEPT !.note_idx = @ + 1])

(* advanced_sound.c. kfree and kmalloc on a heap of |Block| blocks           *)
Freed(live, b) == live \ {b}
Allocated(live) == IF live = Block THEN {Null} ELSE Block \ live

ChannelStopped(s, c) ==
  LET t == [s EXCEPT !.channels[c].active = FALSE, !.channels[c].position = 0]
  IN IF c = 1 THEN Nosound(t) ELSE t

AllStopped(s) ==
  Nosound([s EXCEPT !.channels =
    [c \in 1..Channels |-> [@[c] EXCEPT !.active = FALSE, !.position = 0]]])

(* audio_mixer_init zeroes no channel's buffer when it runs again: memset does *)
AdvancedInit ==
  /\ ~ sound.initialized
  /\ sound' = [sound EXCEPT !.initialized = TRUE, !.effects = 0,
                            !.channels = [c \in 1..Channels |-> NoChannel]]
Shutdown == sound' = [AllStopped(sound) EXCEPT !.initialized = FALSE]

FreeChannels(s) == {c \in 1..Channels : ~ s.channels[c].active}
First(cs) == CHOOSE c \in cs : \A d \in cs : c <= d

Created(s) == [s EXCEPT !.channels[First(FreeChannels(s))] = [NoChannel EXCEPT !.active = TRUE]]
CreateChannel == FreeChannels(sound) # {} /\ sound' = Created(sound)

BufferKept(s, c) ==   \* a slip
  [s EXCEPT !.live = Freed(@, s.channels[c].buffer), !.channels[c].active = FALSE]
Destroyed(s, c) ==
  [s EXCEPT !.live = Freed(@, s.channels[c].buffer),
            !.channels[c].buffer = Null, !.channels[c].active = FALSE]
DestroyChannel(c) == sound' = Destroyed(sound, c)

(* The states audio_play_buffer may leave: kmalloc answers or fails.          *)
Played(s, c, size) ==
  LET live == Freed(s.live, s.channels[c].buffer)
  IN {IF b = Null THEN [s EXCEPT !.live = live, !.channels[c].buffer = Null]
      ELSE [s EXCEPT !.live = live \cup {b},
                     !.channels[c] = [@ EXCEPT !.buffer = b, !.size = size, !.position = 0,
                                               !.active = TRUE]] : b \in Allocated(live)}
PlayBuffer(c, size) == sound' \in Played(sound, c, size)

(* wav_cal: audio_load_wav keeps a block that nobody frees, and the channel   *)
(* plays a copy of it. A file that does not parse changes nothing.           *)
WavCal(size) ==
  \E b \in Allocated(sound.live) \ {Null} :
    LET s == [sound EXCEPT !.live = @ \cup {b}]
    IN IF FreeChannels(s) = {} THEN sound' = s
       ELSE \E t \in Played(Created(s), First(FreeChannels(s)), size) :
              sound' = [t EXCEPT !.channels[First(FreeChannels(s))].loop = FALSE]

(* A MIDI note plays a copy of a tone that is freed again: the tone may have *)
(* the last block, and the channel none. With no block at all the code, which *)
(* does not look, writes the tone through a null pointer: not modelled.      *)
MidiNote(size) ==
  /\ FreeChannels(sound) # {} /\ sound.live # Block
  /\ \/ Cardinality(Block \ sound.live) > 1
        /\ sound' \in Played(Created(sound), First(FreeChannels(sound)), size)
     \/ Cardinality(Block \ sound.live) = 1 /\ sound' = Created(sound)

Control(c) ==
  \/ sound' = ChannelStopped(sound, c)
  \/ sound' = [sound EXCEPT !.channels[c].active = FALSE]
  \/ /\ sound.channels[c].buffer # Null /\ sound.channels[c].size > 0
     /\ sound' = [sound EXCEPT !.channels[c].active = TRUE]
  \/ \E loop \in BOOLEAN : sound' = [sound EXCEPT !.channels[c].loop = loop]

Effects ==
  \/ sound.effects < MaxEffects /\ sound' = [sound EXCEPT !.effects = @ + 1]
  \/ sound.effects > 0 /\ sound' = [sound EXCEPT !.effects = @ - 1]
  \/ sound' = [sound EXCEPT !.effects = 0]
  \/ sound' = [sound EXCEPT !.effects = IF MaxEffects > 0 THEN 1 ELSE 0]  \* the equalizer

(* audio_mix_samples on one channel, Samples positions further. A loop over   *)
(* an empty buffer reads its first byte all the same, and a sample of two    *)
(* bytes the byte behind the last: of a buffer only its owner is told.      *)
MixedChannel(ch) ==
  IF ~ ch.active \/ ch.buffer = Null THEN ch
  ELSE CASE ch.loop -> [ch EXCEPT !.position =
              IF ch.size = 0 THEN 1 ELSE ((@ + Samples - 1) % ch.size) + 1]
         [] ~ ch.loop /\ ch.position + Samples > ch.size ->
              [ch EXCEPT !.position = ch.size, !.active = FALSE]
         [] OTHER -> [ch EXCEPT !.position = @ + Samples]

AudioUpdate ==
  LET s == [sound EXCEPT !.channels = [c \in 1..Channels |-> MixedChannel(@[c])]]
  IN sound' = IF s.channels[1].active /\ s.channels[1].buffer # Null
              THEN PlaySound(s, Mixed) ELSE Nosound(s)

(* The recorder. What it records is never written, so nothing is saved.      *)
StartRecording(s) ==
  LET live == Freed(s.live, s.recording_buffer)
  IN {[s EXCEPT !.recording = TRUE, !.recording_buffer = b, !.live = live \cup ({b} \ {Null})]
        : b \in Allocated(live)}

Recording ==
  \/ IF sound.recording THEN sound' = [sound EXCEPT !.recording = FALSE]       \* ses_kaydet
     ELSE sound' \in StartRecording(sound)
  \/ IF sound.ui THEN sound' = [sound EXCEPT !.recording = FALSE, !.ui = FALSE] \* key r
     ELSE sound' \in {[s EXCEPT !.ui = TRUE] : s \in StartRecording(sound)}
  \/ sound' = AllStopped(sound)                                               \* key s

SoundNext ==
  \/ Beep \/ \E m \in Melody : PlayMelody(m)
  \/ StopMelody \/ HandleBeepTimer \/ AdvancedInit
  \/ /\ sound.initialized
     /\ \/ Shutdown \/ CreateChannel \/ Effects \/ AudioUpdate \/ Recording
        \/ \E c \in 1..Channels : DestroyChannel(c) \/ Control(c)
        \/ \E n \in Size : WavCal(n) \/ MidiNote(n)
        \/ \E c \in 1..Channels, n \in Size : PlayBuffer(c, n)

-----------------------------------------------------------------------------
SoundTypeOK ==
  /\ sound.live \subseteq Block /\ sound.effects \in 0..MaxEffects
  /\ \A c \in 1..Channels : sound.channels[c].position \in 0..(sound.channels[c].size + 1)

(* A beep's tone is on the speaker only while its ticks run or a melody will   *)
(* speak again, and a melody's only while it plays. Of the tone the mixer     *)
(* makes of its samples nothing is said: the next audio_update changes it.  *)
NoStrayTone ==
  /\ sound.speaker = BeepTone => sound.beep_ticks > 0 \/ sound.is_playing
  /\ sound.speaker \notin {Silent, BeepTone, Mixed} => sound.is_playing

(* The mixer and the recorder read only blocks of their own that are         *)
(* allocated, whatever was stopped, destroyed or played over before.         *)
BuffersOwned ==
  LET held == [c \in 0..Channels |-> IF c = 0 THEN sound.recording_buffer
                                     ELSE sound.channels[c].buffer]
  IN \A c, d \in 0..Channels :
       held[c] # Null => held[c] \in sound.live /\ (held[d] = held[c] => d = c)
=============================================================================
