-------------------------------- MODULE MCNet --------------------------------
(***************************************************************************)
(* The network for TLC.  A session uses ping, the resolver or the DHCP      *)
(* client over one address resolution, or the network card, the FTP client  *)
(* or the checksums, and what it does not use rests.                        *)
(***************************************************************************)
EXTENDS Dns, Dhcp, Rtl8139, Ftp, Checksum

CONSTANTS g, h, f, all

VARIABLE session

vars == <<session, net, resolver, dhcp, rtl, ftp, packet>>

DottedQuad == {<<192, 168, 1, 7>>}
FirstXidOfBoot == <<18, 52, 86, 120>>   \* 0x12345678

Reaching ==
  /\ \/ AgBaslat
     \/ Answers(Gateway, CHOOSE m \in Mac : TRUE)
  /\ UNCHANGED <<resolver, dhcp, rtl>>

NoPacket == [bytes |-> Sent(<<0, 0>>, << >>), at |-> "line", damaged |-> FALSE]

Init ==
  /\ session \in {"ping", "dns", "dhcp", "card", "ftp", "checksum"}
  /\ ArpInit /\ DnsInit /\ DhcpInit /\ RtlOff /\ FtpInit
  /\ IF session = "checksum" THEN ChecksumInit ELSE packet = NoPacket

Next ==
  /\ UNCHANGED session
  /\ \/ /\ UNCHANGED <<ftp, packet>>
        /\ \/ session = "ping" /\ ArpNext /\ UNCHANGED <<resolver, dhcp, rtl>>
           \/ session \in {"dns", "dhcp"} /\ Reaching
           \/ session = "dns" /\ DnsNext /\ UNCHANGED <<dhcp, rtl>>
           \/ session = "dhcp" /\ DhcpNext /\ UNCHANGED <<resolver, rtl>>
           \/ session = "card" /\ RtlNext /\ UNCHANGED <<net, resolver, dhcp>>
     \/ session = "ftp" /\ FtpNext /\ UNCHANGED <<net, resolver, dhcp, rtl, packet>>
     \/ session = "checksum" /\ ChecksumNext /\ UNCHANGED <<net, resolver, dhcp, rtl, ftp>>

Spec == Init /\ [][Next]_vars

-----------------------------------------------------------------------------
(* What the two caches hand out is what was last heard and is not too old,  *)
(* and what a full one drops is its oldest (arp.c, dns.c).                  *)
CachesAreCurrent == []CacheIsCurrent /\ HitIsFresh /\ OldestGoes

(* An offer repeated by the network starts one transaction only, and a      *)
(* client is bound by the answer to its latest request alone, for at most   *)
(* half of the lease (dhcp.c), whatever answers pass the test of their      *)
(* number.                                                                  *)
LeaseInStep == OfferTakenOnce /\ AsksByHalf
=============================================================================
