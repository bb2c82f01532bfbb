------------------------------- MODULE FakeIp --------------------------------
(***************************************************************************)
(* The pool of fake addresses (fakeip.Pool over its memoryStore): a DNS    *)
(* answer hands out an address of a reserved range for a host, and a later *)
(* connection to that address is mapped back to the host.  Both directions *)
(* are separate entries of one LRU cache that evicts one entry at a time;  *)
(* Pool.mux makes each call atomic.                                        *)
(***************************************************************************)
EXTENDS Naturals, Sequences, FiniteSets

CONSTANTS
    Hosts,    \* the names asked for
    NoHost,   \* LookBack found nothing
    Shapes    \* the pools that may be made: "slots" addresses handed out,
              \* pool.max - pool.min, and Options.Size, "size"

ASSUME ShapesAssumption ==
    Shapes \subseteq [slots : Nat \ {0}, size : Nat \ {0}]
ASSUME HostAssumption  == NoHost \notin Hosts /\ Hosts \cap Nat = {}

VARIABLES
    shape,    \* of the pool
    cache,    \* the entries of the store, least recently used first
    offset,   \* pool.offset
    reply,    \* what the last call was asked and returned
    since     \* history: host -> those used since it was last used

vars == <<shape, cache, offset, reply, since>>

Slots == shape.slots
Size  == shape.size       \* the cache has 2 * Size entries
Ips   == 0..(Slots - 1)   \* the address minus pool.min

Init ==
    /\ shape \in Shapes
    /\ cache = <<>>
    /\ offset = 0
    /\ reply = [host |-> NoHost, ip |-> 0]
    /\ since = <<>>

-----------------------------------------------------------------------------
(* cache.LruCache without ages, as the store uses it.                      *)

Exist(c, k)   == \E i \in 1..Len(c) : c[i].key = k
Place(c, k)   == CHOOSE i \in 1..Len(c) : c[i].key = k
Value(c, k)   == c[Place(c, k)].val
Without(c, k) == IF Exist(c, k)
                 THEN [i \in 1..(Len(c) - 1) |->
                          IF i < Place(c, k) THEN c[i] ELSE c[i + 1]]
                 ELSE c
Get(c, k)     == IF Exist(c, k)
                 THEN Append(Without(c, k), [key |-> k, val |-> Value(c, k)])
                 ELSE c

(* Mutant: the size of the cache is odd.                                   *)
SetOdd(c, k, v) ==
    LET added == Append(Without(c, k), [key |-> k, val |-> v])
    IN  IF Len(added) >= 2 * Size THEN Tail(added) ELSE added

Set(c, k, v) ==
    LET added == Append(Without(c, k), [key |-> k, val |-> v])
    IN  IF Len(added) > 2 * Size THEN Tail(added) ELSE added

(* Mutants of memoryStore: one direction is forgotten, or nothing moves.   *)
PeekByHost(c, h) == c
GetIpOnly(c, n)  == Get(c, n)
DelIpOnly(c, n)  == Without(c, n)

(* memoryStore                                                             *)
GetByHost(c, h) == Get(Get(c, h), Value(c, h))
GetByIp(c, n)   == Get(Get(c, n), Value(c, n))
DelByIp(c, n)   == IF Exist(c, n) THEN Without(Without(c, Value(c, n)), n) ELSE c

-----------------------------------------------------------------------------
Next1(n) == (n + 1) % Slots

(* Pool.get: the first free address from the offset on; when the whole     *)
(* range is taken, the one after the offset changes hands.                 *)
Ahead(d)  == (offset + d) % Slots
FreeAfter == {d \in Ips : ~Exist(cache, Ahead(d))}
NewOffset == IF FreeAfter = {} THEN Next1(offset)
             ELSE Ahead(CHOOSE d \in FreeAfter : \A x \in FreeAfter : d <= x)

Use(h) == since' = [x \in DOMAIN since \cup {h} |->
                       IF x = h THEN {} ELSE since[x] \cup {h}]

(* Mutant: a known host gets a new address.                                *)
LookupAgain(h) ==
    /\ Exist(cache, h)
    /\ cache' = Set(Set(Without(cache, Value(cache, h)), NewOffset, h), h, NewOffset)
    /\ reply' = [host |-> h, ip |-> NewOffset]
    /\ offset' = NewOffset
    /\ Use(h)

LookupKnown(h) ==
    /\ Exist(cache, h)
    /\ reply' = [host |-> h, ip |-> Value(cache, h)]
    /\ cache' = GetByHost(cache, h)
    /\ Use(h)
    /\ UNCHANGED offset

LookupNew(h) ==
    /\ ~Exist(cache, h)
    /\ LET ip    == NewOffset
           freed == IF FreeAfter = {} THEN DelByIp(cache, ip) ELSE cache
       IN  /\ cache' = Set(Set(freed, ip, h), h, ip)
           /\ reply' = [host |-> h, ip |-> ip]
           /\ offset' = ip
    /\ Use(h)

LookBack(n) ==
    IF Exist(cache, n)
    THEN /\ reply' = [host |-> Value(cache, n), ip |-> n]
         /\ cache' = GetByIp(cache, n)
         /\ Use(Value(cache, n))
         /\ UNCHANGED offset
    ELSE /\ reply' = [host |-> NoHost, ip |-> n]
         /\ UNCHANGED <<cache, offset, since>>

Next == /\ \/ \E h \in Hosts : LookupKnown(h) \/ LookupNew(h)
           \/ \E n \in Ips : LookBack(n)
        /\ UNCHANGED shape

Spec == Init /\ [][Next]_vars

-----------------------------------------------------------------------------
(* Properties.                                                             *)

(* The two directions agree after every call: no host keeps an address     *)
(* that maps to nothing or to another host, although the cache evicts the  *)
(* two entries of a host one by one and may be asked to do so between them.*)
BothDirections ==
    \A h \in Hosts, n \in Ips :
        Exist(cache, h) /\ Value(cache, h) = n <=> Exist(cache, n) /\ Value(cache, n) = h

(* What makes that so: the entries of a host are neighbours, and they fill *)
(* the cache from an even position.                                        *)
EntriesPaired ==
    /\ Len(cache) % 2 = 0
    /\ \A i \in 1..Len(cache) : i % 2 = 1 =>
        cache[i].key = cache[i + 1].val /\ cache[i].val = cache[i + 1].key

(* The Size most recently used hosts keep their addresses: a connection    *)
(* opened soon after its DNS answer finds its host, if the range is larger *)
(* than the cache.  If it is not, a full cache leaves no address free, and *)
(* the next one changes hands however recently its host was used.          *)
RecentHostsKept ==
    Size < Slots =>
        \A h \in DOMAIN since :
            Cardinality(since[h]) < Size => Exist(cache, h)

(* An address a host has does not change hands while the host is kept.     *)
KeptAddressIsStable ==
    [][\A h \in Hosts :
        Exist(cache, h) /\ Exist(cache', h) => Value(cache, h) = Value(cache', h)]_vars

(* The pool implements a partial injective map from hosts to addresses.    *)
Names   == {h \in Hosts : Exist(cache, h)}
HostMap == [h \in Names |-> Value(cache, h)]
AllIps  == UNION {0..(x.slots - 1) : x \in Shapes}
Map     == INSTANCE AddressMap WITH map <- HostMap, Ips <- AllIps
ImplementsMap == Map!Spec
=============================================================================
