------------------------------ MODULE Checksum ------------------------------
(***************************************************************************)
(* The Internet checksum of a datagram on its way: ip_send_packet and      *)
(* udp_send fill it in, the line may change one byte, ip_process_packet     *)
(* and icmp_process_packet compute it again and compare. A byte has Base   *)
(* values (256), so a 16-bit word Base * Base.                             *)
(***************************************************************************)
EXTENDS Naturals, Sequences, SequencesExt

CONSTANTS Base, MaxSize

ASSUME ChecksumAssumption == Base \in Nat \ {0, 1} /\ MaxSize \in Nat

Word == Base * Base
Byte == 0 .. Base - 1

(* The packet with its checksum, two bytes, zeroed while it is computed;   *)
(* at says whether it is on the line, damaged there, accepted or refused.  *)
VARIABLE packet

(* ntohs of the word at an odd position i. *)
WordAt(s, i) == s[i] * Base + s[i + 1]

EvenOnly(s) ==
  LET words[k \in 0 .. Len(s) \div 2] ==
        IF k = 0 THEN 0 ELSE words[k - 1] + WordAt(s, 2 * k - 1)
  IN  words[Len(s) \div 2]

(* The loops over the words, and the last byte of an odd number of them.   *)
Sum(s) ==
  EvenOnly(s) + (IF Len(s) % 2 = 1 THEN Last(s) * Base ELSE 0)

(* while (sum >> 16): the carries come back in at the low end.             *)
Folded[sum \in 0 .. Word * (MaxSize + 4)] ==
  IF sum < Word THEN sum ELSE Folded[(sum % Word) + (sum \div Word)]

(* ip_calculate_checksum and its like: the low 16 bits of ~sum, which htons *)
(* puts into the packet high byte first.                                   *)
calculate_checksum(s) == (Word - 1) - Folded[Sum(s)]

InMemory(sum) == <<sum \div Base, sum % Base>>

(* udp_send and ip_send_packet: the field stands behind the first word.    *)
Assembled(head, data, field) == head \o field \o data

Sent(head, data) ==
  Assembled(head, data, InMemory(calculate_checksum(Assembled(head, data, <<0, 0>>))))

ChecksumInit ==
  \E head \in [1 .. 2 -> Byte], n \in 0 .. MaxSize : \E data \in [1 .. n -> Byte] :
    packet = [bytes |-> Sent(head, data), at |-> "line", damaged |-> FALSE]

Damage ==
  /\ packet.at = "line" /\ ~packet.damaged
  /\ \E i \in DOMAIN packet.bytes, b \in Byte :
       /\ b # packet.bytes[i]
       /\ packet' = [packet EXCEPT !.bytes[i] = b, !.damaged = TRUE]

(* The check at the head of ip_process_packet and icmp_process_packet.     *)
Accept ==
  /\ packet.at = "line"
  /\ LET received == SubSeq(packet.bytes, 3, 4)
         calculated == InMemory(calculate_checksum([packet.bytes EXCEPT ![3] = 0, ![4] = 0]))
     IN packet' = [packet EXCEPT !.at = IF received = calculated THEN "accepted" ELSE "refused"]

ChecksumNext == Damage \/ Accept

-----------------------------------------------------------------------------
(* A packet as it was sent sums up to all ones, which is what any other    *)
(* host checks, and is accepted here, whatever carries its sum has; a      *)
(* packet in which one byte changed is refused, be the byte in the data,   *)
(* the odd last one, or in the checksum itself.                            *)
(* (ip_calculate_checksum, udp_calculate_checksum, icmp_calculate_checksum) *)
OneByteIsCaught ==
  /\ ~packet.damaged => Folded[Sum(packet.bytes)] = Word - 1
  /\ packet.at = "accepted" => ~packet.damaged
  /\ packet.at = "refused" => packet.damaged
=============================================================================
