---------------------------- MODULE MousePackets ----------------------------
(***************************************************************************)
(* How handle_mouse_packet (drivers/input/mouse.c) puts the mouse's three  *)
(* bytes together, one interrupt each, when a byte gets lost. Of a byte    *)
(* only bit 3 matters, which is set in every first byte, and the overflow  *)
(* bits of the first; of the rest, which packet it belongs to.             *)
(***************************************************************************)
EXTENDS Naturals, Sequences

CONSTANT MaxPackets   \* bound: packets the mouse sends

(* byte holds mouse_byte up to mouse_cycle; n and i are the packet and the *)
(* byte of it that come next. History: the packets handed on whose bytes   *)
(* were not of one packet, the bytes lost, and whether a movement byte had *)
(* bit 3 set, as those of 8 to 15 pixels have.                             *)
VARIABLE mouse

MouseInit == mouse = [byte |-> <<>>, n |-> 1, i |-> 1, wrong |-> 0, lost |-> 0, far |-> FALSE]

Sends(m, b) ==
  [m EXCEPT !.i = IF @ = 3 THEN 1 ELSE @ + 1, !.n = IF m.i = 3 THEN @ + 1 ELSE @,
            !.far = @ \/ (b.i # 1 /\ b.bit3)]

AnyByteBegins(m, b) == [m EXCEPT !.byte = <<b>>]

(* case 0: without bit 3 it is no first byte. *)
Begun(m, b) == IF b.bit3 THEN [m EXCEPT !.byte = <<b>>] ELSE m

Mixed(p) == \E k \in DOMAIN p : p[k].i # k \/ p[k].n # p[1].n

(* case 2: an overflow drops the packet; else it goes to mouse_update.     *)
Whole(m, p) ==
  [m EXCEPT !.byte = <<>>, !.wrong = IF ~p[1].overflow /\ Mixed(p) THEN @ + 1 ELSE @]

handle_mouse_packet(m, b) ==
  CASE m.byte = <<>> -> Begun(m, b)
    [] Len(m.byte) = 1 -> [m EXCEPT !.byte = Append(@, b)]
    [] Len(m.byte) = 2 -> Whole(m, Append(m.byte, b))

MouseNext ==
  /\ mouse.n <= MaxPackets
  /\ \E bit3, overflow \in BOOLEAN :
       LET b == [n |-> mouse.n, i |-> mouse.i, bit3 |-> bit3 \/ mouse.i = 1,
                 overflow |-> overflow]
       IN \/ mouse' = handle_mouse_packet(Sends(mouse, b), b)
          \/ mouse' = [Sends(mouse, b) EXCEPT !.lost = @ + 1]

-----------------------------------------------------------------------------
(* As long as no movement looks like a first byte, a lost byte costs one   *)
(* wrong packet at most: the next first byte is found again.               *)
OneWrongPerLoss == ~mouse.far => mouse.wrong <= mouse.lost
=============================================================================
