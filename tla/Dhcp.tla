-------------------------------- MODULE Dhcp ---------------------------------
(***************************************************************************)
(* The DHCP client of drivers/network/dhcp.c, whose packets go out by way  *)
(* of module Arp.  A number of four bytes is the sequence of its bytes,    *)
(* the most significant first: the machine stores it the other way round,  *)
(* and ntohl turns it again.  Options are kept as the set of those that    *)
(* found room in the packet.                                               *)
(***************************************************************************)
EXTENDS Arp

CONSTANTS
  FirstXid,     \* what the static counter starts from: 0x12345678
  Everyone,     \* 255.255.255.255
  DhcpServer,   \* the servers: for each the bytes of its address
  Offered,      \* the addresses they offer, as bytes
  Lease,        \* lease times, in seconds
  OptionSpace,  \* the bytes of packet.options: 312
  MaxSent,      \* bound: transactions
  MaxSeconds    \* bound: dhcp_timer

Number(x) == 16777216 * x[1] + 65536 * x[2] + 256 * x[3] + x[4]

(* The counter does not start from nothing, and within the bound it does   *)
(* not come round to the numbers it gave first.                            *)
ASSUME DhcpAssumption ==
  /\ FirstXid \in [1 .. 4 -> 0 .. 255] /\ Everyone \in Far
  /\ Lease \subseteq Nat /\ OptionSpace \in Nat /\ MaxSent \in Nat /\ MaxSeconds \in Nat
  /\ 0 < Number(FirstXid) /\ Number(FirstXid) + MaxSent <= Number(<<127, 255, 255, 255>>)

VARIABLES
  client,      \* dhcp_client
  next_xid,    \* the static counter of dhcp_generate_xid
  offset,      \* the static offset of dhcp_add_option
  dhcp_timer,
  packets,     \* the client's packets that reached the network
  taken,       \* history: the transactions an OFFER was taken in
  acked        \* history: the transaction of the last ACK taken

dhcp == <<client, next_xid, offset, dhcp_timer, packets, taken, acked>>

Zero == <<0, 0, 0, 0>>
Unset == [state |-> "INIT", xid |-> Zero, ip |-> Zero, server |-> Zero, from |-> Zero,
          configured |-> FALSE, renewal |-> 0, last |-> 0]

DhcpInit ==
  /\ client = Unset
  /\ next_xid = FirstXid
  /\ offset = 0
  /\ dhcp_timer = 0
  /\ packets = {}
  /\ taken = << >>
  /\ acked = Zero

-----------------------------------------------------------------------------
(* counter++ on the bytes. *)
Plus1(x) ==
  LET last == SelectLastInSeq(x, LAMBDA b : b < 255)
  IN  [i \in 1 .. 4 |-> IF i < last THEN x[i] ELSE IF i = last THEN x[i] + 1 ELSE 0]

(* ntohl: of the bytes as they are in memory, the number; and back. *)
ntohl(x) == Reverse(x)

(* The bytes that packet.xid = transaction_id puts on the wire: the        *)
(* machine's order, without a htonl.                                       *)
Wire(x) == Reverse(x)

(* dhcp_add_option, for one option after the other: the offset is static,  *)
(* so each packet's options start where the last packet's ended.           *)
Options(type, c) ==
  <<[code |-> "type", size |-> 3], [code |-> "params", size |-> 6]>>
  \o (IF type = "REQUEST" /\ c.ip[1] # 0 THEN <<[code |-> "ip", size |-> 6]>> ELSE << >>)
  \o (IF type = "REQUEST" /\ c.server[1] # 0 THEN <<[code |-> "server", size |-> 6]>> ELSE << >>)
  \o <<[code |-> "end", size |-> 2]>>

AddOptions(list) ==
  FoldLeft(LAMBDA acc, o :
             IF acc.offset + o.size > OptionSpace THEN acc
             ELSE [offset |-> acc.offset + o.size, in |-> acc.in \union {o.code}],
           [offset |-> offset, in |-> {}], list)

(* dhcp_send_packet of client c. *)
SendPacket(c, type) ==
  LET added == AddOptions(Options(type, c)) IN
  /\ Send(Everyone, [kind |-> "dhcp"])
  /\ offset' = added.offset
  /\ packets' = IF CanSend(Everyone)
                  THEN packets \union {[type |-> type, xid |-> Wire(c.xid),
                                        asks |-> c.ip, server |-> c.server,
                                        options |-> added.in]}
                  ELSE packets

(* dhcp_discover and dhcp_request, of client c. *)
SameXid(c) == c.xid   \* a slip
NewXid(c) == next_xid

Discover(c) ==
  /\ client' = [c EXCEPT !.state = "SELECTING", !.xid = next_xid]
  /\ next_xid' = Plus1(next_xid)
  /\ SendPacket(client', "DISCOVER")

Request(c) ==
  /\ client' = [c EXCEPT !.state = "REQUESTING", !.xid = NewXid(c)]
  /\ next_xid' = Plus1(next_xid)
  /\ SendPacket(client', "REQUEST")

(* dhcp_renew: the state RENEWING is overwritten at once. *)
Renew(c) == IF c.ip[1] = 0 THEN Discover(c) ELSE Request(c)

(* The shell's "dhcp_yenile": dhcp_init, which takes a number as well, and *)
(* dhcp_discover.                                                          *)
DhcpYenile ==
  /\ client' = [Unset EXCEPT !.state = "SELECTING", !.xid = Plus1(next_xid)]
  /\ next_xid' = Plus1(Plus1(next_xid))
  /\ SendPacket(client', "DISCOVER")
  /\ UNCHANGED <<dhcp_timer, taken, acked>>

(* dhcp_release: the address stays. *)
Release ==
  /\ client.ip[1] # 0
  /\ SendPacket(client, "RELEASE")
  /\ UNCHANGED <<client, next_xid, dhcp_timer, taken, acked>>

(* dhcp_process_packet, on a packet that passed the test of its xid. *)
Ours(m) == m.xid = client.xid

Offer(m) ==
  /\ Ours(m) /\ m.type = "OFFER"
  /\ taken' = Append(taken, client.xid)
  /\ Request([client EXCEPT !.ip = ntohl(m.ip), !.server = m.server])
  /\ UNCHANGED <<dhcp_timer, acked>>

Ack(m) ==
  /\ Ours(m) /\ m.type = "ACK"
  /\ client' = [client EXCEPT !.state = "BOUND", !.configured = TRUE, !.from = m.server,
                              !.renewal = m.lease \div 2, !.last = dhcp_timer]
  /\ acked' = client.xid
  /\ Sends({})
  /\ UNCHANGED <<up, arp_cache, heard, next_xid, offset, dhcp_timer, packets, taken>>

Nak(m) ==
  /\ Ours(m) /\ m.type = "NAK"
  /\ Discover(client)
  /\ UNCHANGED <<dhcp_timer, taken, acked>>

Process(m) == Offer(m) \/ Ack(m) \/ Nak(m)

(* dhcp_tick.  retry_count is set to 0 and to nothing else, so the retries *)
(* at the end of the function never happen.                                *)
DueLate == client.state = "BOUND" /\ dhcp_timer - client.last > client.renewal
Due == client.state = "BOUND" /\ client.configured
       /\ dhcp_timer + 1 - client.last >= client.renewal

DhcpTick ==
  /\ dhcp_timer < MaxSeconds
  /\ dhcp_timer' = dhcp_timer + 1
  /\ IF Due THEN Renew(client)
     ELSE UNCHANGED <<client, next_xid, offset, packets>> /\ UNCHANGED net
  /\ UNCHANGED <<taken, acked>>

(* Answers whose numbers have the bytes X.  Servers repeat the bytes they  *)
(* were sent, and these the test of the number refuses, because they were  *)
(* sent in the machine's order and are read with ntohl: no server that     *)
(* keeps to the protocol is heard, but for a number that reads the same    *)
(* both ways.  What passes is an answer to another client, since nobody    *)
(* looks at chaddr, whose number has the bytes the test asks for.          *)
Packet(X) ==
  [type : {"OFFER", "ACK", "NAK"}, xid : X, ip : Offered, server : DhcpServer, lease : Lease]

Repeated == {p.xid : p \in packets}

Room == Number(next_xid) + 2 <= Number(FirstXid) + MaxSent

DhcpNext ==
  /\ Room
  /\ \/ DhcpYenile \/ Release \/ DhcpTick
     \/ \E m \in Packet(Repeated \union {client.xid}) : Process(m)
-----------------------------------------------------------------------------
DhcpTypeOK ==
  /\ client.state \in {"INIT", "SELECTING", "REQUESTING", "BOUND"}
  /\ client.last <= dhcp_timer
  /\ offset \in 0 .. OptionSpace
  /\ \A p \in packets : p.type \in {"DISCOVER", "REQUEST", "RELEASE"}

(* An OFFER that the network repeats is taken once: the request that       *)
(* answers it has a new number, and so has the search a NAK starts.        *)
OfferTakenOnce == \A i, j \in DOMAIN taken : taken[i] = taken[j] => i = j

(* A client counts on its lease only on the answer to the request it made  *)
(* last, whichever earlier answers still come in, and only for the first   *)
(* half of it: then it has asked again, under another number.  Whether it  *)
(* is answered is another matter: a request that is lost is not repeated,  *)
(* because retry_count is 0, and the client keeps its address, REQUESTING. *)
AsksByHalf ==
  client.state = "BOUND" =>
    /\ acked = client.xid
    /\ \/ dhcp_timer - client.last < client.renewal
       \/ dhcp_timer = client.last
=============================================================================
