--------------------------------- MODULE Dns ---------------------------------
(***************************************************************************)
(* The resolver of drivers/network/dns.c: its cache, its queries, which go *)
(* out by way of module Arp, and the answers, which the network may lose,  *)
(* repeat, delay and reorder.  Names and addresses are model values; what  *)
(* a record of the answer is read as depends on whether its name was sent  *)
(* in compressed form.                                                     *)
(***************************************************************************)
EXTENDS Arp, FiniteSetsExt

CONSTANTS
  Name,       \* valid domain names
  Address,    \* addresses that names stand for
  Server,     \* where queries go: 8.8.8.8 after dns_init
  CacheSize,  \* DNS_CACHE_SIZE: 64
  Ttl,        \* the times to live that the server gives
  Minute,     \* dns_tick cleans up every 60 seconds
  MaxId,      \* bound: queries
  MaxTime     \* bound: seconds

ASSUME DnsAssumption ==
  /\ Server \in Near \union Far
  /\ CacheSize \in Nat \ {0} /\ Ttl \subseteq Nat /\ Minute \in Nat \ {0}
  /\ MaxId \in Nat /\ MaxTime \in Nat

VARIABLES
  cache,          \* dns_resolver.cache
  transaction_id, \* of the last query; 0 before the first
  dns_timer,
  answers,        \* the server's answers, all still in the network
  result,         \* what the last step's dns_resolve gave
  latest          \* history: per name the last answer accepted, and when

resolver == <<cache, transaction_id, dns_timer, answers, result, latest>>

Slot == 0 .. CacheSize - 1
Empty == [valid |-> FALSE, at |-> 0]
None == [name |-> "none"]

(* dns_init *)
DnsInit ==
  /\ cache = [i \in Slot |-> Empty]
  /\ transaction_id = 0
  /\ dns_timer = 0
  /\ answers = {}
  /\ result = None
  /\ latest = [n \in Name |-> None]

-----------------------------------------------------------------------------
Valid == {i \in Slot : cache[i].valid}
Holding(n) == {i \in Valid : cache[i].name = n}
Expired(i) == dns_timer - cache[i].at >= cache[i].ttl

(* dns_add_cache_entry: the slot of the name, else the first free one,     *)
(* else the oldest - the first of those older than now, or slot 0.         *)
OldestSlot ==
  IF \A i \in Slot : cache[i].at = dns_timer THEN 0
  ELSE Min({i \in Slot : \A j \in Slot : cache[i].at <= cache[j].at})

SlotFor(n) ==
  CASE Holding(n) # {} -> Min(Holding(n))
    [] Holding(n) = {} /\ Valid # Slot -> Min(Slot \ Valid)
    [] OTHER -> OldestSlot

Added(n, ip, ttl) ==
  [cache EXCEPT ![SlotFor(n)] =
     [valid |-> TRUE, name |-> n, ip |-> ip, ttl |-> ttl, at |-> dns_timer]]

Without(S) == [i \in Slot |-> IF i \in S THEN [cache[i] EXCEPT !.valid = FALSE] ELSE cache[i]]

(* dns_lookup_cache: stops at the first entry of the name that is still    *)
(* good, and drops those before it.                                        *)
Good(n) == {i \in Holding(n) : ~Expired(i)}
Looked(n) == Without({i \in Holding(n) : Expired(i) /\ \A j \in Good(n) : i < j})

(* dns_generate_id and dns_send_query: the number is used up even when the *)
(* query is dropped for want of the next hop's hardware address.           *)
Query(n) ==
  /\ transaction_id < MaxId
  /\ transaction_id' = transaction_id + 1
  /\ Send(Server, [name |-> n, id |-> transaction_id + 1])

(* dns_resolve *)
ResolveHit(n) ==
  /\ Good(n) # {}
  /\ cache' = Looked(n)
  /\ result' = [name |-> n, ip |-> cache[Min(Good(n))].ip]
  /\ UNCHANGED <<up, arp_cache, frames, asked, heard, transaction_id>>

ResolveMiss(n) ==
  /\ Good(n) = {}
  /\ cache' = Looked(n)
  /\ result' = None
  /\ Query(n)

Resolve(n) ==
  /\ ResolveHit(n) \/ ResolveMiss(n)
  /\ UNCHANGED <<dns_timer, answers, latest>>

(* The server answers the query that was just sent: with an address, with  *)
(* one in a record whose name is compressed, or with an error.             *)
Answer(f) ==
  [id : {f.data.id}, name : {f.data.name}, form : {"plain"}, ip : Address, ttl : Ttl]
  \union [id : {f.data.id}, name : {f.data.name}, form : {"compressed", "error"}]

ServerAnswers ==
  /\ \E f \in frames :
       /\ f.type = "ip"
       /\ f.ip = Server
       /\ \A a \in answers : a.id # f.data.id
       /\ \E a \in Answer(f) : answers' = answers \union {a}
  /\ UNCHANGED <<cache, transaction_id, dns_timer, result, latest>>

(* dns_parse_record: after a compressed name dns_decode_name returns two   *)
(* bytes too many, and the class, IN, is taken for the type, A, and the    *)
(* first half of the address for the length of the data.  An address that  *)
(* starts with 0.4 aside, such a record is not one with an address.        *)
ReadAsAddress(a) == a.form = "plain"

AnyId(a) == TRUE
CurrentOnly(a) == a.id = transaction_id

(* dns_process_response *)
Accepts(a) == CurrentOnly(a) /\ a.form # "error" /\ ReadAsAddress(a)

Response(a) ==
  /\ cache' = IF Accepts(a) THEN Added(a.name, a.ip, a.ttl) ELSE cache
  /\ latest' = IF a.id = transaction_id /\ a.form = "plain"
                 THEN [latest EXCEPT ![a.name] =
                         [name |-> a.name, ip |-> a.ip, until |-> dns_timer + a.ttl]]
                 ELSE latest
  /\ result' = None
  /\ UNCHANGED <<transaction_id, dns_timer, answers>>

(* dns_tick, with dns_cache_cleanup every minute. *)
DnsTick ==
  /\ dns_timer < MaxTime
  /\ dns_timer' = dns_timer + 1
  /\ cache' = IF dns_timer' % Minute = 0
                THEN Without({i \in Valid : dns_timer' - cache[i].at >= cache[i].ttl})
                ELSE cache
  /\ result' = None
  /\ UNCHANGED <<transaction_id, answers, latest>>

DnsNext ==
  \/ \E n \in Name : Resolve(n)
  \/ UNCHANGED net /\ (ServerAnswers \/ DnsTick \/ \E a \in answers : Response(a))
-----------------------------------------------------------------------------
DnsTypeOK ==
  /\ \A i \in Valid : cache[i] \in
       [valid : {TRUE}, name : Name, ip : Address, ttl : Ttl, at : 0 .. dns_timer]
  /\ \A a \in answers : a.id \in 1 .. transaction_id

(* A name resolved from the cache stands for what the last answer accepted *)
(* for it said, and that answer is not older than its time to live; an     *)
(* answer to an earlier query that comes late changes nothing.             *)
HitIsFresh ==
  [][result' # None =>
       /\ latest[result'.name] # None
       /\ result'.ip = latest[result'.name].ip
       /\ dns_timer < latest[result'.name].until]_resolver

(* A name that is pushed out of a full cache is one that was stored no     *)
(* later than any name that stays, and one name goes at most.              *)
OldestGoes ==
  [][\A i \in Valid :
       cache'[i].name # cache[i].name =>
         /\ Valid = Slot
         /\ \A j \in Slot : cache[i].at <= cache[j].at /\ (j # i => cache'[j] = cache[j])]_resolver
=============================================================================
