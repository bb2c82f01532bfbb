------------------------------ MODULE AddressMap ------------------------------
(***************************************************************************)
(* What the users of fakeip.Pool rely on: a map from some of the hosts to  *)
(* addresses, no two of which are equal.  A lookup answers with the host's *)
(* address and may forget other hosts to make room for it; a look back     *)
(* answers with the host of an address, or with none, and changes nothing. *)
(***************************************************************************)
CONSTANTS Hosts, NoHost, Ips

VARIABLES map, reply

Injective(f) == \A x, y \in DOMAIN f : f[x] = f[y] => x = y

Init == map = <<>> /\ reply = [host |-> NoHost, ip |-> 0]

Lookup(h) ==
    /\ \/ h \in DOMAIN map /\ map' = map
       \/ /\ h \notin DOMAIN map
          /\ \E kept \in SUBSET DOMAIN map, n \in Ips :
               map' = [x \in kept \cup {h} |-> IF x = h THEN n ELSE map[x]]
    /\ Injective(map')
    /\ reply' = [host |-> h, ip |-> map'[h]]

LookBack(n) ==
    /\ map' = map
    /\ \/ \E h \in DOMAIN map : map[h] = n /\ reply' = [host |-> h, ip |-> n]
       \/ (\A h \in DOMAIN map : map[h] # n) /\ reply' = [host |-> NoHost, ip |-> n]

Next == (\E h \in Hosts : Lookup(h)) \/ (\E n \in Ips : LookBack(n))

Spec == Init /\ [][Next]_<<map, reply>>
=============================================================================
