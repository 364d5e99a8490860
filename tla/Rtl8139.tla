------------------------------- MODULE Rtl8139 -------------------------------
(***************************************************************************)
(* The RTL8139 part of drivers/network_driver.c.  The card stores a frame  *)
(* where CBR points, four bytes of status and length before it, and goes   *)
(* on at the next multiple of four, round and round the ring.  It counts   *)
(* as read what lies before a place of its own, and CAPR is that place     *)
(* less 16, as the data sheet has it: 0xFFF0 after the reset.              *)
(*                                                                         *)
(* The driver takes CAPR for the place and never adds the 16, nor sets the *)
(* register first.  A ring without a frame is therefore not empty to it,   *)
(* and what it reads at 0xFFF0 is not of the ring at all; the same happens *)
(* whenever a frame ends within the last 16 bytes.  No order of the frames *)
(* follows from that, and none is claimed; the module says what is read.   *)
(***************************************************************************)
EXTENDS Naturals, Sequences

CONSTANTS
  Ring,       \* bytes the card goes round: 8192
  Length,     \* lengths of frames, their four bytes of CRC included
  Stray,      \* lengths that stand where no frame begins, of 4 and more: with
              \* less than the CRC memcpy runs over all of memory
  UserSize,   \* sizes of the buffers of readers
  MaxFrames   \* bound: frames that the card stores

Registers == 65536

ASSUME RtlAssumption ==
  /\ Ring \in Nat \ {0} /\ Ring % 4 = 0 /\ Registers % Ring = 0
  /\ Length \subseteq Nat /\ Stray \subseteq {n \in Nat : n >= 4}
  /\ UserSize \subseteq Nat /\ MaxFrames \in Nat

VARIABLES
  rtl8139_initialized,
  cleared, cbr,       \* the card's place, before which all is read, and register
  ring,               \* the lengths of the frames in the ring, by their place
  stored,             \* how many frames the card has stored
  given,              \* what the driver took for the place of the frame it gave last
  current_tx_buffer,
  tx                  \* what is in each of the four send buffers

rtl == <<rtl8139_initialized, cleared, cbr, ring, stored, given, current_tx_buffer, tx>>

NoFrames == [i \in {} |-> 0]

RtlOff ==
  /\ rtl8139_initialized = FALSE
  /\ cleared = 0 /\ cbr = 0
  /\ ring = NoFrames
  /\ stored = 0 /\ given = Registers
  /\ current_tx_buffer = 0 /\ tx = [i \in 0 .. 3 |-> 0]

(* rtl8139_init, which resets the card. *)
RtlInit ==
  /\ rtl8139_initialized' = TRUE
  /\ cleared' = 0 /\ cbr' = 0 /\ ring' = NoFrames
  /\ current_tx_buffer' = 0
  /\ UNCHANGED <<stored, given, tx>>

RtlShutdown ==
  /\ rtl8139_initialized' = FALSE
  /\ UNCHANGED <<cleared, cbr, ring, stored, given, current_tx_buffer, tx>>

CAPR == (cleared + Registers - 16) % Registers

(* Where the frame after one of length len at place p begins. *)
Next4(p, len) == ((p + 4 + len + 3) \div 4) * 4

(* The card, while there is room up to its place; the frames written over  *)
(* are gone.                                                               *)
Used == (cbr + Ring - cleared) % Ring
CardStores(len) ==
  LET end == Next4(cbr, len)
      over == {p \in DOMAIN ring : (p + Ring - cbr) % Ring < end - cbr}
  IN  /\ rtl8139_initialized /\ stored < MaxFrames
      /\ Used + end - cbr < Ring
      /\ stored' = stored + 1
      /\ ring' = [p \in (DOMAIN ring \ over) \union {cbr} |-> IF p = cbr THEN len ELSE ring[p]]
      /\ cbr' = end % Ring
      /\ UNCHANGED <<rtl8139_initialized, cleared, given, current_tx_buffer, tx>>

(* rtl8139_receive: the length is that of a frame if one begins at CAPR.   *)
(* The test that a buffer of this size will do lets the CRC count, and a   *)
(* frame that does not fit stays for the next call.                        *)
Found == IF CAPR \in DOMAIN ring THEN {ring[CAPR]} ELSE Stray

Receive(size) ==
  /\ rtl8139_initialized /\ CAPR # cbr
  /\ \E len \in Found :
       /\ len <= size
       /\ given' = CAPR
       /\ cleared' = ((Next4(CAPR, len) % Registers) + 16) % Ring
  /\ UNCHANGED <<rtl8139_initialized, cbr, ring, stored, current_tx_buffer, tx>>

(* rtl8139_send, of a frame n: the buffers are taken in turn, whether the  *)
(* card has sent their last frame or not.  The length goes to 0x40 and on, *)
(* which are the configurations and not the status words at 0x10, so that  *)
(* the card is never told to send.                                         *)
RtlSend(n) ==
  /\ rtl8139_initialized
  /\ tx' = [tx EXCEPT ![current_tx_buffer] = n]
  /\ current_tx_buffer' = (current_tx_buffer + 1) % 4
  /\ UNCHANGED <<rtl8139_initialized, cleared, cbr, ring, stored, given>>

RtlNext ==
  \/ RtlInit \/ RtlShutdown
  \/ \E len \in Length : CardStores(len)
  \/ \E size \in UserSize : Receive(size)
  \/ RtlSend(1)
=============================================================================
