--------------------------------- MODULE Arp ---------------------------------
(***************************************************************************)
(* The lower network protocols under drivers/network: frames (ethernet.c), *)
(* address resolution and its cache (arp.c), routing and sending of        *)
(* datagrams (ip.c, udp.c), and echo (icmp.c).                             *)
(*                                                                         *)
(* The network may lose, repeat and delay: an address that was asked for   *)
(* may be answered at any later time, more than once, or never.            *)
(* ethernet.c hands no frame up yet, so the process functions are called   *)
(* here the way their declarations offer it; that they ever are is not     *)
(* assumed, and nothing is claimed to happen in the end.                   *)
(***************************************************************************)
EXTENDS Naturals, Sequences, SequencesExt, FiniteSets

CONSTANTS
  Near,       \* the addresses of our /24, ours not among them
  Far,        \* other addresses
  Gateway,    \* 192.168.1.1
  Mac,        \* hardware addresses
  Fresh       \* the timeout of a new cache entry: 300 cleanups

ASSUME ArpAssumption ==
  Gateway \in Near /\ Near \intersect Far = {} /\ Mac # {} /\ Fresh \in Nat \ {0}

VARIABLES
  up,         \* the *_initialized flags, which "ag_baslat" sets together
  arp_cache,  \* the list of entries, the newest first
  frames,     \* what the last step gave to ethernet_send_frame
  asked,      \* the addresses that an ARP request went out for
  heard       \* history: per address the last claim for it, and how many
              \* cleanups ago it was made

net == <<up, arp_cache, frames, asked, heard>>

ArpInit ==
  /\ up = FALSE
  /\ arp_cache = << >>
  /\ frames = {}
  /\ asked = {}
  /\ heard = [a \in Near |-> [mac |-> "none", ago |-> 0]]

(* arp_cache_lookup *)
At(a) == SelectInSeq(arp_cache, LAMBDA e : e.ip = a)
Knows(a) == At(a) # 0
MacOf(a) == arp_cache[At(a)].mac

(* ip_route_packet: the gateway's address is built in. *)
NextHop(dest) == IF dest \in Near THEN dest ELSE Gateway

ArpRequest(a) == [type |-> "arp_request", to |-> "all", ip |-> a]
ArpReply(a, m) == [type |-> "arp_reply", to |-> m, ip |-> a]

(* ethernet_send_frame, in a step that sends the frames F. *)
Sends(F) ==
  /\ frames' = F
  /\ asked' = asked \union {f.ip : f \in {g \in F : g.type = "arp_request"}}

(* ip_send_packet: a datagram whose next hop is not resolved is dropped,   *)
(* and a request for the hop goes out instead.                             *)
CanSend(dest) == up /\ Knows(NextHop(dest))

Datagram(dest, data) ==
  CASE ~up -> {}
    [] CanSend(dest) ->
         {[type |-> "ip", to |-> MacOf(NextHop(dest)), ip |-> dest, data |-> data]}
    [] OTHER -> {ArpRequest(NextHop(dest))}

(* arp_cache_add *)
Entry(a, m) == [ip |-> a, mac |-> m, timeout |-> Fresh]

CacheAdd(a, m) ==
  IF Knows(a) THEN [arp_cache EXCEPT ![At(a)] = Entry(a, m)]
              ELSE <<Entry(a, m)>> \o arp_cache

(* arp_cache_cleanup: the entries whose time is over go, the others stay   *)
(* in their order.                                                         *)
Nth(S, k) == CHOOSE i \in S : Cardinality({j \in S : j <= i}) = k

Aged(list) ==
  LET kept == {i \in DOMAIN list : list[i].timeout > 0}
  IN  [k \in 1 .. Cardinality(kept) |-> [list[Nth(kept, k)] EXCEPT !.timeout = @ - 1]]

-----------------------------------------------------------------------------
(* The shell's "ag_baslat": ethernet_init, arp_init, ip_init, icmp_init.   *)
AgBaslat ==
  /\ up' = TRUE
  /\ arp_cache' = IF up THEN arp_cache ELSE << >>
  /\ Sends({})
  /\ UNCHANGED heard

(* The shell's "arp": arp_resolve *)
ArpCommand(a) ==
  /\ Sends(IF up /\ ~Knows(a) THEN {ArpRequest(a)} ELSE {})
  /\ UNCHANGED <<up, arp_cache, heard>>

(* udp_send and icmp_send_echo, which only add their headers. *)
Send(dest, data) ==
  /\ Sends(Datagram(dest, data))
  /\ UNCHANGED <<up, arp_cache, heard>>

(* icmp_send_echo in a round of the shell's "ping", and                    *)
(* icmp_process_packet on the echo request of a host: the reply goes by    *)
(* way of the cache as well.                                               *)
EchoSent(a) == Send(a, [kind |-> "echo"])
Ping(a) == up /\ EchoSent(a)
EchoRequest(a) == up /\ Send(a, [kind |-> "echo_reply"])

(* arp_process_packet: a packet of host a, which claims hardware address   *)
(* m; a request for our address is answered.                               *)
ArpPacket(a, m, asksUs, cache) ==
  /\ up
  /\ arp_cache' = cache
  /\ Sends(IF asksUs THEN {ArpReply(a, m)} ELSE {})
  /\ heard' = [heard EXCEPT ![a] = [mac |-> m, ago |-> 0]]
  /\ UNCHANGED up

(* kmalloc may have nothing for a new entry. *)
Asks(a, m) ==
  \/ ArpPacket(a, m, TRUE, CacheAdd(a, m))
  \/ ~Knows(a) /\ ArpPacket(a, m, TRUE, arp_cache)

Answers(a, m) == a \in asked /\ ArpPacket(a, m, FALSE, CacheAdd(a, m))

Cleanup ==
  /\ arp_cache' = Aged(arp_cache)
  /\ heard' = [a \in Near |->
       [heard[a] EXCEPT !.ago = IF @ <= Fresh THEN @ + 1 ELSE @]]
  /\ Sends({})
  /\ UNCHANGED up

ArpNext ==
  \/ AgBaslat \/ Cleanup
  \/ \E a \in Near : ArpCommand(a)
  \/ \E a \in Near \union Far : Ping(a) \/ EchoRequest(a)
  \/ \E a \in Near, m \in Mac : Asks(a, m) \/ Answers(a, m)
-----------------------------------------------------------------------------
ArpTypeOK ==
  /\ up \in BOOLEAN
  /\ Range(arp_cache) \subseteq [ip : Near, mac : Mac, timeout : 0 .. Fresh]
  /\ asked \subseteq Near
  /\ \A f \in frames : f.type = "ip" => f.to \in Mac

(* Whatever claims, requests and cleanups came in which order, the cache   *)
(* has one entry for an address, that entry is the last claim heard for    *)
(* it, and it is gone once Fresh + 1 cleanups came without a new one.      *)
CacheIsCurrent ==
  \A i \in DOMAIN arp_cache :
    /\ arp_cache[i].mac = heard[arp_cache[i].ip].mac
    /\ heard[arp_cache[i].ip].ago <= Fresh
    /\ At(arp_cache[i].ip) = i
=============================================================================
