-------------------------- MODULE OutboundsProofs --------------------------
(***************************************************************************)
(* What the outbounds do, for any peers, sizes, proxies, users, servers    *)
(* and answers: a packet connection returns bytes of one datagram at a     *)
(* time, in their order and with their own address, and looks for no       *)
(* header inside a datagram; a group picks no proxy that is dead when      *)
(* there is a good one; the resolver tells no TTL that is too long.        *)
(***************************************************************************)
EXTENDS Datagrams, Groups, Upstream, SequenceTheorems, WellFoundedInduction,
        TLAPS

-----------------------------------------------------------------------------
(* The packet connections.                                                 *)

Datagram == [from : Peers, id : Nat, at : Nat, n : Nat \ {0}, head : BOOLEAN]
Pieces   == [addr : Peers \cup {NoPeer}, from : Peers \cup {NoPeer}, id : Nat,
             at : Nat, n : Nat]
Remains  == [n : Nat, addr : Peers \cup {NoPeer}]

TypeOK ==
    /\ outlet \in Outlets \cup {""}
    /\ inbox \in Seq(Datagram)
    /\ sent \in Nat
    /\ remain \in Remains
    /\ piece \in Pieces

(* A datagram that has not been touched, and comes after the last read.    *)
Fresh(d) == d.head /\ d.at = 1 /\ d.id > piece.id

(* Datagrams wait in the order they were sent.                             *)
InOrder ==
    /\ piece.id <= sent
    /\ \A i \in 1..Len(inbox) : inbox[i].id <= sent
    /\ \A i, j \in 1..Len(inbox) : i < j => inbox[i].id < inbox[j].id

(* All are untouched but the first one, of which remain counts the bytes   *)
(* that follow those last read.                                            *)
RestIsFirst ==
    /\ \A i \in 1..Len(inbox) : i # 1 \/ remain.n = 0 => Fresh(inbox[i])
    /\ remain.n # 0 =>
        /\ outlet = "trojan" /\ inbox # <<>>
        /\ ~inbox[1].head /\ inbox[1].id = piece.id
        /\ inbox[1].at = piece.at + piece.n
        /\ inbox[1].n = remain.n /\ inbox[1].from = remain.addr

DgramInv == TypeOK /\ InOrder /\ RestIsFirst

(* What a step may do to the piece last read.                              *)
OwnPiece ==
    /\ piece' # piece =>
           /\ piece'.addr = piece'.from
           /\ \/ piece'.id = piece.id /\ piece'.at = piece.at + piece.n
              \/ piece'.id > piece.id /\ piece'.at = 1
    /\ relay' # "format"

-----------------------------------------------------------------------------
(* A wait that is over leaves the others in their order.                   *)
LEMMA Rest ==
    ASSUME NEW s \in Seq(Datagram), s # <<>>
    PROVE  /\ Head(s) = s[1] /\ s[1] \in Datagram
           /\ Tail(s) \in Seq(Datagram) /\ Len(Tail(s)) = Len(s) - 1
           /\ \A i \in 1..Len(Tail(s)) : Tail(s)[i] = s[i + 1]
           /\ Len(s) \in Nat \ {0}
  OBVIOUS

(* A datagram read in part stays in its place.                             *)
LEMMA Replaced ==
    ASSUME NEW s \in Seq(Datagram), s # <<>>, NEW d \in Datagram
    PROVE  /\ <<d>> \o Tail(s) \in Seq(Datagram)
           /\ Len(<<d>> \o Tail(s)) = Len(s)
           /\ (<<d>> \o Tail(s))[1] = d
           /\ \A i \in 1..Len(s) : i # 1 => (<<d>> \o Tail(s))[i] = s[i]
  OBVIOUS

(* The types of what waits.                                                *)
LEMMA Waiting ==
    ASSUME DgramInv, NEW i \in 1..Len(inbox)
    PROVE  /\ inbox[i] \in Datagram /\ inbox[i].from \in Peers
           /\ inbox[i].id \in Nat /\ inbox[i].at \in Nat
           /\ inbox[i].n \in Nat \ {0} /\ inbox[i].head \in BOOLEAN
<1>1. inbox \in Seq(Datagram)
  BY DEF DgramInv, TypeOK
<1>2. inbox[i] \in Datagram
  BY <1>1
<1> QED
  BY <1>2 DEF Datagram

(* The list is a sequence, and there is a first one.                       *)
LEMMA First ==
    ASSUME DgramInv, inbox # <<>>
    PROVE  /\ inbox \in Seq(Datagram) /\ Head(inbox) = inbox[1]
           /\ 1 \in 1..Len(inbox) /\ Len(inbox) \in Nat
<1>1. inbox \in Seq(Datagram)
  BY DEF DgramInv, TypeOK
<1> QED
  BY <1>1

-----------------------------------------------------------------------------
(* Every ReadFrom returns the next n bytes of the first datagram with its  *)
(* address, and either ends it or remembers how much of it is left.        *)
ReadsFirst(n) ==
    LET d == inbox[1]
    IN  /\ n \in 1..d.n
        /\ Fresh(d) \/ (d.id = piece.id /\ d.at = piece.at + piece.n)
        /\ piece' = [addr |-> d.from, from |-> d.from, id |-> d.id,
                     at |-> d.at, n |-> n]
        /\ \/ /\ outlet = "trojan" /\ n < d.n
              /\ inbox' = <<[d EXCEPT !.at = @ + n, !.n = @ - n,
                                      !.head = FALSE]>> \o Tail(inbox)
              /\ remain' = [n |-> d.n - n, addr |-> d.from]
           \/ /\ inbox' = Tail(inbox)
              /\ remain' \in Remains /\ remain'.n = 0

(* The packet connection of trojan returns a datagram in pieces.           *)
LEMMA TrojanReadsFirst ==
    ASSUME DgramInv, inbox # <<>>, TrojanRead
    PROVE  \E n : ReadsFirst(n)
<1> DEFINE d == inbox[1]
<1>1. Head(inbox) = d /\ d \in Datagram /\ 1 \in 1..Len(inbox)
  BY First, Waiting
<1>2. d.n \in Nat \ {0} /\ d.from \in Peers
  BY <1>1 DEF Datagram
<1>3. remain \in Remains /\ remain.n \in Nat
  BY DEF DgramInv, TypeOK, Remains
<1> HIDE DEF d
<1>4. CASE remain.n # 0
  <2>1. d.id = piece.id /\ d.at = piece.at + piece.n /\ d.n = remain.n
        /\ d.from = remain.addr /\ outlet = "trojan"
    BY <1>4 DEF DgramInv, RestIsFirst, d
  <2>2. PICK n \in 1..Smaller(remain.n, BufSize) :
            /\ Returned(remain.addr, n, TRUE)
            /\ remain' = Remaining(remain.n - n, remain.addr)
    BY <1>4 DEF TrojanRead
  <2>3. n \in 1..d.n
    BY <1>2, <2>1, <2>2, DatagramsAssumption DEF Smaller
  <2>4. CASE n < d.n
    <3>1. remain' = [n |-> d.n - n, addr |-> d.from]
      BY <1>2, <2>1, <2>2, <2>3, <2>4 DEF Remaining
    <3> QED
      BY <1>1, <2>1, <2>2, <2>3, <2>4, <3>1 DEF ReadsFirst, Returned, d
  <2>5. CASE ~(n < d.n)
    <3>1. remain' = NoRemain
      BY <1>2, <2>1, <2>2, <2>3, <2>5 DEF Remaining
    <3>2. remain' \in Remains /\ remain'.n = 0
      BY <3>1 DEF NoRemain, Remains
    <3> QED
      BY <1>1, <2>1, <2>2, <2>3, <2>5, <3>2 DEF ReadsFirst, Returned, d
  <2> QED
    BY <2>4, <2>5
<1>5. CASE remain.n = 0
  <2> DEFINE n == Smaller(d.n, BufSize)
  <2>1. Fresh(d)
    BY <1>1, <1>5 DEF DgramInv, RestIsFirst, d
  <2>2. outlet = "trojan" /\ Returned(d.from, n, TRUE)
        /\ remain' = Remaining(d.n - n, d.from)
    BY <1>1, <1>5 DEF TrojanRead
  <2>3. n \in 1..d.n
    BY <1>2, DatagramsAssumption DEF Smaller
  <2> HIDE DEF n
  <2>4. CASE n < d.n
    <3>1. remain' = [n |-> d.n - n, addr |-> d.from]
      BY <1>2, <2>2, <2>3, <2>4 DEF Remaining
    <3> QED
      BY <1>1, <2>1, <2>2, <2>3, <2>4, <3>1 DEF ReadsFirst, Returned, d
  <2>5. CASE ~(n < d.n)
    <3>1. remain' = NoRemain
      BY <1>2, <2>2, <2>3, <2>5 DEF Remaining
    <3>2. remain' \in Remains /\ remain'.n = 0
      BY <3>1 DEF NoRemain, Remains
    <3> QED
      BY <1>1, <2>1, <2>2, <2>3, <2>5, <3>2 DEF ReadsFirst, Returned, d
  <2> QED
    BY <2>4, <2>5
<1> QED
  BY <1>4, <1>5

(* The others drop what there is no room for.                              *)
LEMMA OthersReadFirst ==
    ASSUME DgramInv, inbox # <<>>, outlet # "trojan",
           NEW room \in Nat \ {0},
           Returned(Head(inbox).from, Smaller(Head(inbox).n, room), FALSE),
           UNCHANGED remain
    PROVE  \E n : ReadsFirst(n)
<1> DEFINE d == inbox[1]
           n == Smaller(d.n, room)
<1>1. Head(inbox) = d /\ d \in Datagram /\ 1 \in 1..Len(inbox)
  BY First, Waiting
<1>2. n \in 1..d.n
  BY <1>1 DEF Datagram, Smaller
<1>3. remain \in Remains /\ remain.n = 0
  BY DEF DgramInv, TypeOK, RestIsFirst
<1>4. Fresh(d)
  BY <1>1, <1>3 DEF DgramInv, RestIsFirst
<1>5. inbox' = Tail(inbox)
      /\ piece' = [addr |-> d.from, from |-> d.from, id |-> d.id, at |-> d.at,
                   n |-> n]
  BY <1>1 DEF Returned
<1> HIDE DEF n
<1> QED
  BY <1>2, <1>3, <1>4, <1>5 DEF ReadsFirst

(* So does each of the packet connections.                                 *)
LEMMA ReadFromReadsFirst ==
    ASSUME DgramInv, inbox # <<>>, ReadFrom
    PROVE  \E n : ReadsFirst(n)
<1>1. CASE TrojanRead
  BY <1>1, TrojanReadsFirst
<1>2. CASE SnellReadFrom
  BY <1>2, OthersReadFirst, DatagramsAssumption DEF SnellReadFrom
<1>3. CASE SocksRead \/ SsAeadRead \/ SsStreamRead \/ SsrRead
  <2>1. BufSize - 1 \in Nat \ {0}
    BY DatagramsAssumption
  <2>2. SocketRead /\ outlet # "trojan"
    BY <1>3 DEF SocksRead, SsAeadRead, SsStreamRead, SsrRead
  <2> QED
    BY <2>1, <2>2, OthersReadFirst DEF SocketRead
<1> QED
  BY <1>1, <1>2, <1>3 DEF ReadFrom

(* So a read keeps the invariant, and its piece is one of its own.         *)
LEMMA ReadKeeps ==
    ASSUME DgramInv, inbox # <<>>, NEW n, ReadsFirst(n),
           UNCHANGED <<outlet, sent>>
    PROVE  /\ DgramInv'
           /\ piece'.addr = piece'.from
           /\ \/ piece'.id = piece.id /\ piece'.at = piece.at + piece.n
              \/ piece'.id > piece.id /\ piece'.at = 1
<1> DEFINE d == inbox[1]
<1>1. /\ inbox \in Seq(Datagram) /\ d \in Datagram /\ 1 \in 1..Len(inbox)
      /\ Len(inbox) \in Nat
  BY First, Waiting
<1>2. /\ d.from \in Peers /\ d.id \in Nat /\ d.at \in Nat /\ d.n \in Nat \ {0}
      /\ n \in Nat \ {0}
  BY <1>1 DEF Datagram, ReadsFirst
<1>3. piece' = [addr |-> d.from, from |-> d.from, id |-> d.id, at |-> d.at,
                n |-> n]
  BY DEF ReadsFirst
<1> HIDE DEF d
<1>4. piece' \in Pieces
  BY <1>2, <1>3 DEF Pieces
<1>5. Fresh(d) \/ (d.id = piece.id /\ d.at = piece.at + piece.n)
  BY DEF ReadsFirst, d
<1>6. piece'.id <= sent'
  BY <1>1, <1>3 DEF DgramInv, InOrder, d
<1>7. CASE /\ outlet = "trojan" /\ n < d.n
           /\ inbox' = <<[d EXCEPT !.at = @ + n, !.n = @ - n,
                                   !.head = FALSE]>> \o Tail(inbox)
           /\ remain' = [n |-> d.n - n, addr |-> d.from]
  <2> DEFINE e == [d EXCEPT !.at = @ + n, !.n = @ - n, !.head = FALSE]
  <2>1. /\ e \in Datagram /\ e.id = d.id /\ e.at = d.at + n /\ e.n = d.n - n
        /\ ~e.head /\ e.from = d.from
    <3>1. /\ e = [x \in {"from", "id", "at", "n", "head"} |-> e[x]]
          /\ e.id = d.id /\ e.at = d.at + n /\ e.n = d.n - n
          /\ e.head = FALSE /\ e.from = d.from
      BY <1>1 DEF Datagram
    <3>2. d.at + n \in Nat /\ d.n - n \in Nat \ {0}
      BY <1>2, <1>7
    <3> HIDE DEF e
    <3>3. e = [from |-> e.from, id |-> e.id, at |-> e.at, n |-> e.n,
               head |-> e.head]
      BY <3>1
    <3>4. e \in Datagram
      BY <1>2, <3>1, <3>2, <3>3, Zenon DEF Datagram
    <3> QED
      BY <3>1, <3>4
  <2> HIDE DEF e
  <2>2. /\ inbox' \in Seq(Datagram) /\ Len(inbox') = Len(inbox)
        /\ inbox'[1] = e
        /\ \A i \in 1..Len(inbox) : i # 1 => inbox'[i] = inbox[i]
    BY <1>1, <1>7, <2>1, Replaced DEF e
  <2>3. remain' \in Remains /\ remain'.n = d.n - n /\ remain'.addr = d.from
        /\ remain'.n # 0
    BY <1>2, <1>7 DEF Remains
  <2>4. TypeOK'
    BY <1>4, <2>2, <2>3 DEF DgramInv, TypeOK
  <2>5. InOrder'
    <3>1. \A i \in 1..Len(inbox) : inbox'[i].id = inbox[i].id
      BY <1>1, <2>1, <2>2 DEF d
    <3> QED
      BY <1>6, <2>2, <3>1 DEF DgramInv, InOrder
  <2>6. \A i \in 1..Len(inbox') : i # 1 => Fresh(inbox[i])'
    <3> SUFFICES ASSUME NEW i \in 1..Len(inbox), i # 1
                 PROVE  inbox'[i].head /\ inbox'[i].at = 1
                        /\ inbox'[i].id > piece'.id
      BY <2>2 DEF Fresh
    <3>1. Fresh(inbox[i]) /\ inbox[1].id < inbox[i].id
      BY <1>1 DEF DgramInv, RestIsFirst, InOrder
    <3>2. inbox[i].id \in Nat
      BY Waiting
    <3> QED
      BY <1>2, <1>3, <2>2, <3>1, <3>2 DEF Fresh, d
  <2>7. RestIsFirst'
    <3>1. inbox' # <<>>
      BY <1>1, <2>2
    <3>2. /\ ~inbox'[1].head /\ inbox'[1].id = piece'.id
          /\ inbox'[1].at = piece'.at + piece'.n
          /\ inbox'[1].n = remain'.n /\ inbox'[1].from = remain'.addr
      BY <1>3, <2>1, <2>2, <2>3
    <3> QED
      BY <1>7, <2>3, <2>6, <3>1, <3>2 DEF RestIsFirst
  <2> QED
    BY <1>3, <1>5, <2>4, <2>5, <2>7 DEF DgramInv, Fresh
<1>8. CASE inbox' = Tail(inbox) /\ remain' \in Remains /\ remain'.n = 0
  <2>1. /\ inbox' \in Seq(Datagram) /\ Len(inbox') = Len(inbox) - 1
        /\ \A i \in 1..Len(inbox') : inbox'[i] = inbox[i + 1]
    BY <1>1, <1>8, Rest
  <2>2. TypeOK'
    BY <1>4, <1>8, <2>1 DEF DgramInv, TypeOK
  <2>3. InOrder'
    <3>1. ASSUME NEW i \in 1..Len(inbox') PROVE inbox'[i].id <= sent'
      <4>1. i + 1 \in 1..Len(inbox) /\ inbox'[i] = inbox[i + 1]
        BY <1>1, <2>1
      <4> QED
        BY <4>1 DEF DgramInv, InOrder
    <3>2. ASSUME NEW i \in 1..Len(inbox'), NEW j \in 1..Len(inbox'), i < j
          PROVE  inbox'[i].id < inbox'[j].id
      <4>1. /\ i + 1 \in 1..Len(inbox) /\ inbox'[i] = inbox[i + 1]
            /\ j + 1 \in 1..Len(inbox) /\ inbox'[j] = inbox[j + 1]
            /\ i + 1 < j + 1
        BY <1>1, <2>1, <3>2
      <4> QED
        BY <4>1 DEF DgramInv, InOrder
    <3> QED
      BY <1>6, <3>1, <3>2 DEF InOrder
  <2>4. RestIsFirst'
    <3> SUFFICES ASSUME NEW i \in 1..Len(inbox')
                 PROVE  inbox'[i].head /\ inbox'[i].at = 1
                        /\ inbox'[i].id > piece'.id
      BY <1>8 DEF RestIsFirst, Fresh
    <3>1. i + 1 \in 1..Len(inbox) /\ i + 1 # 1
      BY <1>1, <2>1
    <3>2. Fresh(inbox[i + 1]) /\ inbox[1].id < inbox[i + 1].id
      BY <1>1, <3>1 DEF DgramInv, RestIsFirst, InOrder
    <3>3. inbox[i + 1].id \in Nat
      BY <3>1, Waiting
    <3> QED
      BY <1>2, <1>3, <2>1, <3>2, <3>3 DEF Fresh, d
  <2> QED
    BY <1>3, <1>5, <2>2, <2>3, <2>4 DEF DgramInv, Fresh
<1> QED
  BY <1>7, <1>8 DEF ReadsFirst, d

-----------------------------------------------------------------------------
(* The other steps.                                                        *)

(* Nothing waits before the packet connection is made.                     *)
LEMMA InitInv == DgramInit => DgramInv
<1> SUFFICES ASSUME DgramInit PROVE DgramInv
  OBVIOUS
<1>1. TypeOK
  <2>1. NoRemain \in Remains
    BY DEF NoRemain, Remains
  <2>2. NoPiece \in Pieces
    BY DEF NoPiece, Pieces
  <2>3. inbox \in Seq(Datagram)
    <3>1. inbox = <<>>
      BY DEF DgramInit
    <3> QED
      BY <3>1
  <2> QED
    BY <2>1, <2>2, <2>3 DEF DgramInit, TypeOK
<1>2. InOrder /\ RestIsFirst
  <2>1. inbox = <<>> /\ remain.n = 0 /\ piece.id = 0 /\ sent = 0
    BY DEF DgramInit, NoRemain, NoPiece
  <2>2. 1..Len(inbox) = {}
    BY <2>1
  <2> QED
    BY <2>1, <2>2 DEF InOrder, RestIsFirst
<1> QED
  BY <1>1, <1>2 DEF DgramInv

(* A datagram of the server waits behind the others.                       *)
LEMMA ServerSendsKeeps ==
    ASSUME DgramInv, NEW from \in Peers, NEW n \in Sizes, ServerSends(from, n)
    PROVE  DgramInv'
<1> DEFINE d == [from |-> from, id |-> sent + 1, at |-> 1, n |-> n,
                 head |-> TRUE]
<1>1. /\ inbox \in Seq(Datagram) /\ Len(inbox) \in Nat /\ sent \in Nat
      /\ d \in Datagram
  <2>1. n \in Nat \ {0}
    BY DatagramsAssumption
  <2>2. sent \in Nat /\ inbox \in Seq(Datagram)
    BY DEF DgramInv, TypeOK
  <2> QED
    BY <2>1, <2>2 DEF Datagram
<1>2. /\ d.id = sent + 1 /\ d.head /\ d.at = 1 /\ sent' = sent + 1
      /\ inbox' = Append(inbox, d)
      /\ UNCHANGED <<outlet, remain, piece>>
  BY DEF ServerSends
<1> HIDE DEF d
<1>3. /\ inbox' \in Seq(Datagram) /\ Len(inbox') = Len(inbox) + 1
      /\ \A i \in 1..Len(inbox) : inbox'[i] = inbox[i]
      /\ inbox'[Len(inbox) + 1] = d
  BY <1>1, <1>2
<1>4. TypeOK'
  <2>1. sent' \in Nat
    BY <1>1, <1>2
  <2> QED
    BY <1>2, <1>3, <2>1 DEF DgramInv, TypeOK
<1>5. InOrder'
  <2>1. piece.id <= sent /\ piece.id \in Nat
    BY DEF DgramInv, InOrder, TypeOK, Pieces
  <2>2. \A i \in 1..Len(inbox) : inbox[i].id <= sent /\ inbox[i].id \in Nat
    BY Waiting DEF DgramInv, InOrder
  <2>3. \A i \in 1..Len(inbox') : i \in 1..Len(inbox) \/ i = Len(inbox) + 1
    BY <1>1, <1>3
  <2>4. \A i \in 1..Len(inbox') : inbox'[i].id <= sent'
    BY <1>1, <1>2, <1>3, <2>2, <2>3
  <2>5. ASSUME NEW i \in 1..Len(inbox'), NEW j \in 1..Len(inbox'), i < j
        PROVE  inbox'[i].id < inbox'[j].id
    <3>1. i \in 1..Len(inbox)
      BY <1>1, <1>3, <2>5
    <3>2. CASE j \in 1..Len(inbox)
      BY <1>3, <2>5, <3>1, <3>2 DEF DgramInv, InOrder
    <3>3. CASE j = Len(inbox) + 1
      BY <1>1, <1>2, <1>3, <2>2, <3>1, <3>3
    <3> QED
      BY <2>3, <3>2, <3>3
  <2> QED
    BY <1>1, <1>2, <2>1, <2>4, <2>5 DEF InOrder
<1>6. RestIsFirst'
  <2>1. piece.id <= sent /\ piece.id \in Nat
    BY DEF DgramInv, InOrder, TypeOK, Pieces
  <2>2. Fresh(d)
    BY <1>1, <1>2, <2>1 DEF Fresh
  <2>3. ASSUME NEW i \in 1..Len(inbox'), i # 1 \/ remain.n = 0
        PROVE  Fresh(inbox[i])'
    <3>1. CASE i \in 1..Len(inbox)
      BY <1>2, <1>3, <2>3, <3>1 DEF DgramInv, RestIsFirst, Fresh
    <3>2. CASE i = Len(inbox) + 1
      BY <1>2, <1>3, <2>2, <3>2 DEF Fresh
    <3> QED
      BY <1>1, <1>3, <3>1, <3>2
  <2>4. CASE remain.n # 0
    <3>1. inbox # <<>>
      BY <2>4 DEF DgramInv, RestIsFirst
    <3>2. inbox' # <<>> /\ inbox'[1] = inbox[1]
      BY <1>1, <1>3, <3>1
    <3> QED
      BY <1>2, <2>3, <2>4, <3>2 DEF DgramInv, RestIsFirst
  <2>5. CASE remain.n = 0
    BY <1>2, <2>3, <2>5 DEF RestIsFirst
  <2> QED
    BY <2>4, <2>5
<1> QED
  BY <1>4, <1>5, <1>6 DEF DgramInv

(* A step that leaves the pieces alone.                                    *)
LEMMA AsideKeeps ==
    ASSUME DgramInv, UNCHANGED <<inbox, sent, remain, piece>>,
           outlet' = outlet \/ (outlet = "" /\ outlet' \in Outlets)
    PROVE  DgramInv'
  BY DEF DgramInv, TypeOK, InOrder, RestIsFirst, Fresh

(* Every step keeps the invariant, and returns a piece of its own.         *)
LEMMA NextInv ==
    ASSUME DgramInv, [DgramNext]_dgramVars
    PROVE  DgramInv' /\ [OwnPiece]_dgramVars
<1>1. CASE \E type \in Outlets : ListenPacketContext(type)
  BY <1>1, AsideKeeps DEF ListenPacketContext, OwnPiece
<1>2. CASE \E from \in Peers, n \in Sizes : ServerSends(from, n)
  BY <1>2, ServerSendsKeeps DEF ServerSends, OwnPiece
<1>3. CASE WriteTo \/ TimeOut \/ WritePacket
  BY <1>3, AsideKeeps DEF WriteTo, TimeOut, WritePacket, OwnPiece
<1>4. CASE ReadPacket
  <2>1. PICK n : ReadsFirst(n)
    BY <1>4, ReadFromReadsFirst DEF ReadPacket
  <2>2. UNCHANGED <<outlet, sent>> /\ inbox # <<>> /\ relay' # "format"
    BY <1>4 DEF ReadPacket, Gather
  <2> QED
    BY <2>1, <2>2, ReadKeeps DEF OwnPiece
<1>5. CASE ReadErrs
  <2>1. ~BadFormat
    <3>1. inbox # <<>>
      BY <1>5 DEF ReadErrs
    <3> QED
      BY <3>1, First DEF BadFormat, DgramInv, RestIsFirst, Fresh
  <2> QED
    BY <1>5, <2>1, AsideKeeps DEF ReadErrs, OwnPiece
<1>6. CASE UNCHANGED dgramVars
  BY <1>6, AsideKeeps DEF dgramVars, OwnPiece
<1> QED
  BY <1>1, <1>2, <1>3, <1>4, <1>5, <1>6 DEF DgramNext

(* What waits, what remains of a datagram and what was read fit together.  *)
THEOREM RemainsFit == DgramSpec => []DgramInv
<1>1. DgramInv /\ [DgramNext]_dgramVars => DgramInv'
  BY NextInv
<1> QED
  BY <1>1, InitInv, PTL DEF DgramSpec

(* However large the datagrams and however small the buffer, every read    *)
(* continues the last one or begins a later datagram, and a header is only *)
(* read where one is.                                                      *)
THEOREM EveryPieceIsOwn == DgramSpec => PiecesAreOwn
<1>1. DgramInv /\ [DgramNext]_dgramVars =>
          [/\ piece' # piece =>
                  /\ piece'.addr = piece'.from
                  /\ \/ piece'.id = piece.id /\ piece'.at = piece.at + piece.n
                     \/ piece'.id > piece.id /\ piece'.at = 1
           /\ relay' # "format"]_dgramVars
  BY NextInv DEF OwnPiece
<1> QED
  BY <1>1, RemainsFit, PTL DEF DgramSpec, PiecesAreOwn

-----------------------------------------------------------------------------
(* The groups.                                                             *)

Using == [at : {"idle", "waiting", "electing", "dialing"}, i : Nat,
           fast : Members \cup {NoPick}, min : 0..Unknown,
           pick : Members \cup {NoPick}]

GroupTypeOK ==
    /\ kind \in {"", "url-test", "fallback", "load-balance"}
    /\ alive \in [Members -> BOOLEAN] /\ last \in [Members -> 0..MaxDelay]
    /\ node \in Members \cup {NoPick} /\ kept \in Members \cup {NoPick}
    /\ user \in [Users -> Using]
    /\ steady \in [Users -> [good : SUBSET Members, dead : SUBSET Members]]

(* What was so all the while is so now.                                    *)
SteadyNow ==
    \A u \in Users : /\ steady[u].good \subseteq Good
                     /\ steady[u].dead \subseteq Dead

(* What the loop e of an election knows, when the proxies of s were good   *)
(* and dead all the while: it has met no good one, or holds one that is    *)
(* not dead.                                                               *)
Passed(e, s, n) == \A j \in 1..n : Proxies[j] \notin s.good
FastFits(e, s) ==
    /\ e.i \in 1..(Len(Proxies) + 1)
    /\ e.min <= MaxDelay \/ Passed(e, s, e.i - 1)
    /\ e.i > 1 => e.fast \in Members
    /\ e.i > 1 /\ e.min <= MaxDelay => e.fast \notin s.dead
FirstFits(e, s) == e.i \in 1..Len(Proxies) /\ Passed(e, s, e.i - 1)
HashFits(e, s)  == e.i \in 1..(Len(Proxies) + 1) /\ Passed(e, s, e.i - 2)

ElectionFits(k, e, s) ==
    e.at = "electing" =>
        \/ k = "url-test" /\ FastFits(e, s)
        \/ k = "fallback" /\ FirstFits(e, s)
        \/ k = "load-balance" /\ HashFits(e, s)

GroupInv ==
    /\ GroupTypeOK /\ SteadyNow
    /\ \A u \in Users : ElectionFits(kind, user[u], steady[u])

(* The steps that leave the users alone, and those of one user.            *)
Checks ==
    \/ \E k \in {"url-test", "fallback", "load-balance"} : ParseProxyGroup(k)
    \/ CheckTick \/ Expire
    \/ \E p \in Members : StartTest(p) \/ TestDials(p) \/ TestStores(p)
                          \/ TestRecords(p)

(* A group has members, and no pick is not one of them.                    *)
LEMMA MembersAre ==
    /\ Len(Proxies) \in Nat \ {0}
    /\ \A i \in 1..Len(Proxies) : Proxies[i] \in Members
    /\ \A p \in Members : \E i \in 1..Len(Proxies) : Proxies[i] = p
    /\ MaxDelay \in Nat \ {0} /\ NoPick \notin Members
  BY GroupsAssumption DEF Members

(* The delay of a member tells whether it is good or dead.                 *)
LEMMA DelayType ==
    ASSUME GroupTypeOK, NEW p \in Members
    PROVE  /\ LastDelay(p) \in 1..Unknown
           /\ LastDelay(p) <= MaxDelay <=> p \in Good
           /\ p \in Dead <=> ~alive[p]
<1>1. last[p] \in 0..MaxDelay /\ alive[p] \in BOOLEAN /\ MaxDelay \in Nat \ {0}
  BY GroupsAssumption DEF GroupTypeOK
<1>2. p \in Good <=> alive[p] /\ last[p] > 0
  BY DEF Good
<1>3. p \in Dead <=> ~alive[p]
  BY DEF Dead
<1>4. CASE alive[p] /\ last[p] > 0
  BY <1>1, <1>2, <1>3, <1>4 DEF LastDelay, Unknown
<1>5. CASE ~(alive[p] /\ last[p] > 0)
  <2>1. LastDelay(p) = Unknown
    BY <1>1, <1>5 DEF LastDelay
  <2> QED
    BY <1>1, <1>2, <1>3, <1>5, <2>1 DEF Unknown
<1> QED
  BY <1>4, <1>5

(* What Watch records.                                                     *)
LEMMA WatchIsSteady ==
    ASSUME GroupTypeOK, GroupTypeOK', Watch
    PROVE  /\ SteadyNow'
           /\ \A u \in Users : user[u].at = "electing" =>
                 /\ steady'[u].good \subseteq steady[u].good
                 /\ steady'[u].dead \subseteq steady[u].dead
<1>1. ASSUME NEW u \in Users
      PROVE  steady'[u] = IF user[u].at = "electing"
                          THEN [good |-> steady[u].good \cap Good',
                                dead |-> steady[u].dead \cap Dead']
                          ELSE [good |-> Good', dead |-> Dead']
  BY DEF Watch, At
<1>2. ASSUME NEW u \in Users
      PROVE  /\ steady'[u].good \subseteq Good'
             /\ steady'[u].dead \subseteq Dead'
             /\ user[u].at = "electing" =>
                  /\ steady'[u].good \subseteq steady[u].good
                  /\ steady'[u].dead \subseteq steady[u].dead
  <2>1. CASE user[u].at = "electing"
    <3>1. steady'[u] = [good |-> steady[u].good \cap Good',
                        dead |-> steady[u].dead \cap Dead']
      BY <1>1, <2>1
    <3> QED
      BY <2>1, <3>1
  <2>2. CASE user[u].at # "electing"
    <3>1. steady'[u] = [good |-> Good', dead |-> Dead']
      BY <1>1, <2>2
    <3> QED
      BY <2>2, <3>1
  <2> QED
    BY <2>1, <2>2
<1> QED
  BY <1>2 DEF SteadyNow

(* What was steady while a user picks is a set of members.                 *)
LEMMA WatchType ==
    ASSUME GroupTypeOK, Watch
    PROVE  steady' \in [Users ->
                           [good : SUBSET Members, dead : SUBSET Members]]
<1>1. Good' \subseteq Members /\ Dead' \subseteq Members
  BY DEF Good, Dead
<1> QED
  BY <1>1 DEF Watch, GroupTypeOK

(* An election that waits while flags change knows what it knew.           *)
LEMMA ElectionKept ==
    ASSUME NEW k, NEW e, NEW s, NEW s2, ElectionFits(k, e, s),
           s2.good \subseteq s.good, s2.dead \subseteq s.dead
    PROVE  ElectionFits(k, e, s2)
  BY DEF ElectionFits, FastFits, FirstFits, HashFits, Passed

(* So a step of the invariant is one of types, and of the users it moves.  *)
LEMMA OthersWait ==
    ASSUME GroupInv, GroupTypeOK', Watch, kind' = kind \/ kind = "",
           \A u \in Users : \/ user'[u] = user[u]
                            \/ ElectionFits(kind', user'[u], steady'[u])
    PROVE  GroupInv'
<1>1. SteadyNow'
  BY WatchIsSteady DEF GroupInv
<1>2. ASSUME NEW u \in Users PROVE ElectionFits(kind', user'[u], steady'[u])
  <2>1. SUFFICES ASSUME user'[u] = user[u], user[u].at = "electing"
                 PROVE  ElectionFits(kind', user'[u], steady'[u])
    BY DEF ElectionFits
  <2>2. ElectionFits(kind, user[u], steady[u])
    BY DEF GroupInv
  <2>3. kind' = kind
    BY <2>1, <2>2 DEF ElectionFits
  <2>4. /\ steady'[u].good \subseteq steady[u].good
        /\ steady'[u].dead \subseteq steady[u].dead
    BY <2>1, WatchIsSteady DEF GroupInv
  <2> QED
    BY <2>1, <2>2, <2>3, <2>4, ElectionKept
<1> QED
  BY <1>1, <1>2 DEF GroupInv

(* The invariant holds before the first check.                             *)
LEMMA InitGroup == GroupInit => GroupInv
<1> SUFFICES ASSUME GroupInit PROVE GroupInv
  OBVIOUS
<1>1. Idle \in Using
  BY GroupsAssumption DEF Idle, Using, Unknown
<1>2. alive \in [Members -> BOOLEAN]
  BY Zenon DEF GroupInit
<1>3. last \in [Members -> 0..MaxDelay]
  <2>1. 0 \in 0..MaxDelay
    BY GroupsAssumption
  <2> QED
    BY <2>1 DEF GroupInit
<1>4. GroupTypeOK
  BY <1>1, <1>2, <1>3 DEF GroupInit, GroupTypeOK
<1> QED
  BY <1>4 DEF GroupInit, GroupInv, SteadyNow, ElectionFits, Idle

(* A check of the members keeps the invariant.                             *)
LEMMA ChecksKeep ==
    ASSUME GroupInv, Checks, Watch PROVE GroupInv'
<1>1. user' = user /\ (kind' = kind \/ kind = "")
  BY DEF Checks, ParseProxyGroup, CheckTick, Expire, StartTest, TestDials,
     TestStores,
     TestRecords
<1>2. kind' \in {"", "url-test", "fallback", "load-balance"}
  BY DEF GroupInv, GroupTypeOK, Checks, ParseProxyGroup, CheckTick, Expire,
     StartTest, TestDials, TestStores, TestRecords
<1>3. alive' \in [Members -> BOOLEAN]
  <2>1. \/ alive' = alive
        \/ \E p \in Members : \E ok \in BOOLEAN :
              alive' = [alive EXCEPT ![p] = ok]
    BY DEF Checks, ParseProxyGroup, CheckTick, Expire, StartTest, TestDials,
     TestStores,
       TestRecords
  <2> QED
    BY <2>1, Zenon DEF GroupInv, GroupTypeOK
<1>4. last' \in [Members -> 0..MaxDelay]
  <2>1. \/ last' = last
        \/ \E p \in Members : \E d \in 0..MaxDelay :
              last' = [last EXCEPT ![p] = d]
    <3>1. \A p \in Members : TestRecords(p) =>
             \E d \in 0..MaxDelay : last' = [last EXCEPT ![p] = d]
      <4>1. 1..MaxDelay \subseteq 0..MaxDelay /\ {0} \subseteq 0..MaxDelay
        BY GroupsAssumption
      <4> QED
        BY <4>1, Zenon DEF TestRecords
    <3> QED
      BY <3>1 DEF Checks, ParseProxyGroup, CheckTick, Expire, StartTest,
         TestDials, TestStores
  <2> QED
    BY <2>1 DEF GroupInv, GroupTypeOK
<1>5. node' = node /\ kept' \in {kept, NoPick}
  BY DEF Checks, ParseProxyGroup, CheckTick, Expire, StartTest, TestDials,
     TestStores,
     TestRecords
<1>6. GroupTypeOK'
  BY <1>1, <1>2, <1>3, <1>4, <1>5, WatchType DEF GroupInv, GroupTypeOK
<1> QED
  BY <1>1, <1>6, OthersWait

(* The steps of a user change no flag, but for the dial that ends.         *)
LEMMA UserStepTypes ==
    ASSUME GroupInv, Watch, UNCHANGED <<kind, alive, last>>,
           node' \in Members \cup {NoPick}, kept' \in Members \cup {NoPick},
           user' \in [Users -> Using]
    PROVE  GroupTypeOK'
  BY WatchType DEF GroupInv, GroupTypeOK

(* A user that has picked is dialing.                                      *)
LEMMA PickedType ==
    ASSUME NEW p \in Members \cup {NoPick}
    PROVE  /\ Picked(p) \in Using /\ Picked(p).at = "dialing"
           /\ Picked(p).pick = p
<1>1. 0 \in 0..Unknown
  BY GroupsAssumption DEF Unknown
<1>2. Idle \in Using
  BY <1>1 DEF Idle, Using
<1>3. Picked(p) \in Using
  BY <1>2 DEF Picked, Using
<1> QED
  BY <1>2, <1>3 DEF Picked, Idle

(* A user that is given a pick, or begins an election.                     *)
LEMMA AskKeeps ==
    ASSUME GroupInv, Watch, NEW u \in Users, Ask(u) PROVE GroupInv'
<1>1. /\ UNCHANGED <<kind, alive, last, node, kept>> /\ kind # ""
      /\ user \in [Users -> Using] /\ kept \in Members \cup {NoPick}
      /\ node \in Members \cup {NoPick}
  BY DEF Ask, GroupInv, GroupTypeOK
<1>2. PICK e \in Using :
         /\ user' = [user EXCEPT ![u] = e]
         /\ e.at = "electing" => e.i = 1
  <2>1. CASE user' = [user EXCEPT ![u] = Picked(kept)]
    <3>1. Picked(kept) \in Using /\ Picked(kept).at = "dialing"
      BY <1>1, PickedType
    <3> QED
      BY <2>1, <3>1
  <2>2. CASE user' = [user EXCEPT ![u].at = "waiting"]
    <3> DEFINE e == [user[u] EXCEPT !.at = "waiting"]
    <3>1. e \in Using /\ e.at = "waiting"
      BY <1>1 DEF Using
    <3> QED
      BY <2>2, <3>1
  <2>3. CASE user' = [user EXCEPT ![u].at = "electing", ![u].i = 1]
    <3> DEFINE e == [user[u] EXCEPT !.at = "electing", !.i = 1]
    <3>1. e \in Using /\ e.i = 1
      BY <1>1 DEF Using
    <3>2. user' = [user EXCEPT ![u] = e]
      BY <1>1, <2>3
    <3> QED
      BY <3>1, <3>2
  <2> QED
    BY <2>1, <2>2, <2>3 DEF Ask
<1>3. user' \in [Users -> Using]
  BY <1>1, <1>2
<1>4. GroupTypeOK'
  BY <1>1, <1>3, UserStepTypes
<1>5. \A v \in Users : v # u => user'[v] = user[v]
  BY <1>1, <1>2
<1>6. ElectionFits(kind', user'[u], steady'[u])
  <2>1. user'[u] = e /\ kind' \in {"url-test", "fallback", "load-balance"}
    BY <1>1, <1>2, <1>4 DEF GroupTypeOK
  <2>2. SUFFICES ASSUME e.at = "electing", e.i = 1
                 PROVE  ElectionFits(kind', e, steady'[u])
    BY <1>2, <2>1 DEF ElectionFits
  <2>3. Len(Proxies) \in Nat \ {0}
    BY MembersAre
  <2>4. Passed(e, steady'[u], e.i - 1) /\ Passed(e, steady'[u], e.i - 2)
    BY <2>2 DEF Passed
  <2> QED
    BY <2>1, <2>2, <2>3, <2>4 DEF ElectionFits, FastFits, FirstFits, HashFits
<1> QED
  BY <1>1, <1>4, <1>5, <1>6, OthersWait

(* The loop of url-test looks at one proxy more.                           *)
LEMMA CompareKeeps ==
    ASSUME GroupInv, Watch, NEW u \in Users, Compare(u) PROVE GroupInv'
<1> DEFINE e  == user[u]
           p  == Proxies[e.i]
           s  == steady[u]
           better == e.i = 1 \/ (alive[p] /\ LastDelay(p) < e.min)
           e2 == [e EXCEPT !.i = @ + 1,
                           !.fast = IF better THEN p ELSE @,
                           !.min = IF better THEN LastDelay(p) ELSE @]
<1>1. /\ UNCHANGED <<kind, alive, last, node, kept>>
      /\ kind = "url-test" /\ e.at = "electing" /\ e.i <= Len(Proxies)
      /\ user' = [user EXCEPT ![u] = e2]
  <2>1. user' = [user EXCEPT ![u].i = @ + 1,
                             ![u].fast = IF better THEN p ELSE @,
                             ![u].min = IF better THEN LastDelay(p) ELSE @]
    BY DEF Compare
  <2>2. user' = [user EXCEPT ![u] = e2]
    BY <2>1
  <2> QED
    BY <2>2 DEF Compare, Picks, At
<1>2. /\ user \in [Users -> Using] /\ e \in Using
      /\ kept \in Members \cup {NoPick} /\ node \in Members \cup {NoPick}
      /\ GroupTypeOK
  BY DEF GroupInv, GroupTypeOK
<1>3. FastFits(e, s)
  BY <1>1 DEF GroupInv, ElectionFits
<1>4. e.i \in 1..Len(Proxies) /\ p \in Members
  BY <1>1, <1>3, MembersAre DEF FastFits
<1>5. /\ LastDelay(p) \in 1..Unknown
      /\ LastDelay(p) <= MaxDelay <=> p \in Good
      /\ p \in Dead <=> ~alive[p]
  BY <1>2, <1>4, DelayType
<1>6. Unknown = MaxDelay + 1 /\ MaxDelay \in Nat /\ Len(Proxies) \in Nat
  BY MembersAre DEF Unknown
<1>7. /\ e2.at = "electing" /\ e2.i = e.i + 1
      /\ e2.fast = IF better THEN p ELSE e.fast
      /\ e2.min = IF better THEN LastDelay(p) ELSE e.min
      /\ e2 \in Using /\ e.min \in 0..Unknown
  <2> DEFINE f == IF better THEN p ELSE e.fast
             m == IF better THEN LastDelay(p) ELSE e.min
  <2>1. e2 = [e EXCEPT !.i = e.i + 1, !.fast = f, !.min = m]
    BY <1>2 DEF Using
  <2>2. f \in Members \cup {NoPick}
    BY <1>2, <1>4 DEF Using
  <2>3. m \in 0..Unknown /\ e.min \in 0..Unknown
    BY <1>2, <1>5, <1>6 DEF Using
  <2>4. e.i + 1 \in Nat
    BY <1>4, <1>6
  <2> HIDE DEF e2, f, m
  <2>5. /\ e2.at = "electing" /\ e2.i = e.i + 1 /\ e2.fast = f /\ e2.min = m
        /\ e2 \in Using
    BY <1>1, <1>2, <2>1, <2>2, <2>3, <2>4 DEF Using
  <2> QED
    BY <2>3, <2>5 DEF f, m
<1>8. s.good \subseteq Good /\ s.dead \subseteq Dead
  BY DEF GroupInv, SteadyNow
<1> HIDE DEF e2, p, better
<1>9. FastFits(e2, s)
  <2>1. e2.i \in 1..(Len(Proxies) + 1)
    BY <1>4, <1>6, <1>7
  <2>2. e2.min <= MaxDelay \/ Passed(e2, s, e2.i - 1)
    <3>1. SUFFICES ASSUME ~(e2.min <= MaxDelay) PROVE Passed(e2, s, e.i)
      BY <1>4, <1>7
    <3>2. p \notin s.good
      <4>1. SUFFICES ASSUME p \in s.good PROVE FALSE
        OBVIOUS
      <4>2. LastDelay(p) <= MaxDelay /\ alive[p]
        BY <1>5, <1>8, <4>1 DEF Good
      <4> QED
        BY <1>5, <1>6, <1>7, <3>1, <4>2 DEF better
    <3>3. Passed(e, s, e.i - 1)
      <4>1. CASE e.i = 1
        BY <4>1 DEF Passed
      <4>2. CASE e.i # 1 /\ better
        BY <1>2, <1>5, <1>6, <1>7, <3>1, <1>3, <4>2
           DEF better, FastFits, Using
      <4>3. CASE ~better
        BY <1>3, <1>7, <3>1, <4>3 DEF FastFits
      <4> QED
        BY <4>1, <4>2, <4>3
    <3> QED
      BY <1>4, <3>2, <3>3 DEF Passed, p
  <2>3. e2.fast \in Members
    BY <1>3, <1>4, <1>7 DEF FastFits, better
  <2>4. e2.min <= MaxDelay => e2.fast \notin s.dead
    <3>1. CASE better
      BY <1>5, <1>7, <1>8, <3>1 DEF Good, Dead
    <3>2. CASE ~better
      BY <1>3, <1>4, <1>7, <3>2 DEF FastFits, better
    <3> QED
      BY <3>1, <3>2
  <2> QED
    BY <2>1, <2>2, <2>3, <2>4 DEF FastFits
<1>10. user' \in [Users -> Using] /\ user'[u] = e2
       /\ \A v \in Users : v # u => user'[v] = user[v]
  BY <1>1, <1>2, <1>7
<1>11. GroupTypeOK'
  BY <1>1, <1>2, <1>10, UserStepTypes
<1>12. ElectionFits(kind', user'[u], steady'[u])
  <2>1. ElectionFits(kind, e2, s)
    BY <1>1, <1>9 DEF ElectionFits
  <2>2. steady'[u].good \subseteq s.good /\ steady'[u].dead \subseteq s.dead
    BY <1>1, <1>2, <1>11, WatchIsSteady
  <2>3. ElectionFits(kind, e2, steady'[u])
    BY <2>1, <2>2, ElectionKept
  <2> QED
    BY <1>1, <1>10, <2>3
<1> QED
  BY <1>1, <1>10, <1>11, <1>12, OthersWait

(* What PicksLiveProxy says of a step.                                     *)
LivePick ==
    \A u \in Users :
        (At(u, "electing") /\ user'[u].at = "dialing" /\ steady[u].good # {})
            => user'[u].pick \notin steady[u].dead

(* The loop of url-test ends, for all who wait for it.                     *)
LEMMA fastKeeps ==
    ASSUME GroupInv, Watch, NEW u \in Users, fast(u)
    PROVE  GroupInv' /\ LivePick
<1> DEFINE e == user[u]
           s == steady[u]
           exists == \E i \in 2..Len(Proxies) : Proxies[i] = node
           pick == IF node = NoPick \/ ~exists \/ ~alive[node]
                      \/ LastDelay(node) > LastDelay(e.fast)
                   THEN e.fast ELSE node
<1>1. /\ UNCHANGED <<kind, alive, last>> /\ kind = "url-test"
      /\ e.at = "electing" /\ e.i > Len(Proxies)
      /\ node' = pick /\ kept' = pick
      /\ user' = [v \in Users |-> IF v = u \/ At(v, "waiting")
                                  THEN Picked(pick) ELSE user[v]]
  BY DEF fast, Picks, At
<1>2. /\ user \in [Users -> Using] /\ e \in Using
      /\ node \in Members \cup {NoPick} /\ GroupTypeOK
  BY DEF GroupInv, GroupTypeOK
<1>3. FastFits(e, s)
  BY <1>1 DEF GroupInv, ElectionFits
<1>4. /\ Len(Proxies) \in Nat \ {0} /\ MaxDelay \in Nat
      /\ \A p \in Members : \E i \in 1..Len(Proxies) : Proxies[i] = p
  BY MembersAre
<1>5. e.i - 1 = Len(Proxies) /\ e.i > 1 /\ e.fast \in Members
  BY <1>1, <1>3, <1>4 DEF FastFits
<1>6. pick \in Members
  BY <1>2, <1>5
<1>7. s.good # {} => pick \notin s.dead
  <2>1. SUFFICES ASSUME s.good # {} PROVE pick \notin s.dead
    OBVIOUS
  <2>2. s.good \subseteq Members /\ s.dead \subseteq Dead
    BY DEF GroupInv, GroupTypeOK, SteadyNow
  <2>3. ~Passed(e, s, Len(Proxies))
    BY <1>4, <2>1, <2>2 DEF Passed
  <2>4. e.fast \notin s.dead
    BY <1>3, <1>5, <2>3 DEF FastFits
  <2>5. pick = e.fast \/ (pick = node /\ alive[node])
    OBVIOUS
  <2> QED
    BY <2>2, <2>4, <2>5 DEF Dead
<1> HIDE DEF pick
<1>8. Picked(pick) \in Using /\ Picked(pick).at = "dialing"
      /\ Picked(pick).pick = pick
  BY <1>6, PickedType
<1>9. user' \in [Users -> Using]
  BY <1>1, <1>2, <1>8
<1>10. \A v \in Users : \/ user'[v] = user[v] /\ v # u
                        \/ /\ user'[v] = Picked(pick)
                           /\ v = u \/ user[v].at = "waiting"
  BY <1>1 DEF At
<1>11. GroupTypeOK'
  BY <1>1, <1>6, <1>9, UserStepTypes
<1>12. GroupInv'
  BY <1>1, <1>8, <1>10, <1>11, OthersWait DEF ElectionFits
<1>13. LivePick
  BY <1>7, <1>8, <1>10 DEF LivePick, At
<1> QED
  BY <1>12, <1>13

(* A step of the loops of fallback and load-balance: e2 is what u is then. *)
LEMMA LoopKeeps ==
    ASSUME GroupInv, Watch, NEW u \in Users, NEW e2 \in Using,
           UNCHANGED <<kind, alive, last, node, kept>>,
           user' = [user EXCEPT ![u] = e2], user[u].at = "electing",
           ElectionFits(kind, e2, steady[u]),
           e2.at = "dialing" /\ steady[u].good # {} =>
               e2.pick \notin steady[u].dead
    PROVE  GroupInv' /\ LivePick
<1>1. /\ user' \in [Users -> Using] /\ user'[u] = e2
      /\ \A v \in Users : v # u => user'[v] = user[v]
  BY DEF GroupInv, GroupTypeOK
<1>2. GroupTypeOK'
  BY <1>1, UserStepTypes DEF GroupInv, GroupTypeOK
<1>3. ElectionFits(kind', user'[u], steady'[u])
  <2>1. /\ steady'[u].good \subseteq steady[u].good
        /\ steady'[u].dead \subseteq steady[u].dead
    BY <1>2, WatchIsSteady DEF GroupInv
  <2>2. ElectionFits(kind, e2, steady'[u])
    BY <2>1, ElectionKept
  <2> QED
    BY <1>1, <2>2
<1>4. GroupInv'
  BY <1>1, <1>2, <1>3, OthersWait
<1>5. LivePick
  BY <1>1 DEF LivePick, At
<1> QED
  BY <1>4, <1>5

(* The loop for a proxy that is alive picks no dead one for a good one.    *)
LEMMA FindAliveProxyKeeps ==
    ASSUME GroupInv, Watch, NEW u \in Users, findAliveProxy(u)
    PROVE  GroupInv' /\ LivePick
<1> DEFINE e == user[u]
           s == steady[u]
           p == Proxies[e.i]
           more == [e EXCEPT !.i = @ + 1]
           e2 == IF alive[p] THEN Picked(p)
                 ELSE IF e.i = Len(Proxies) THEN Picked(Proxies[1]) ELSE more
<1>1. /\ UNCHANGED <<kind, alive, last, node, kept>> /\ kind = "fallback"
      /\ e.at = "electing" /\ user' = [user EXCEPT ![u] = e2]
  BY DEF findAliveProxy, Picks, At
<1>2. e \in Using /\ s.good \subseteq Good /\ s.dead \subseteq Dead
  BY DEF GroupInv, GroupTypeOK, SteadyNow
<1>3. e.i \in 1..Len(Proxies) /\ Passed(e, s, e.i - 1)
  BY <1>1 DEF GroupInv, ElectionFits, FirstFits
<1>4. /\ p \in Members /\ Proxies[1] \in Members
      /\ Len(Proxies) \in Nat \ {0}
      /\ \A q \in Members : \E i \in 1..Len(Proxies) : Proxies[i] = q
  BY <1>3, MembersAre
<1>5. \A q \in Members : /\ Picked(q) \in Using /\ Picked(q).at = "dialing"
                         /\ Picked(q).pick = q
  BY PickedType
<1>6. ~alive[p] => Passed(e, s, e.i)
  BY <1>2, <1>3 DEF Good, Passed
<1>7. more \in Using /\ more.at = "electing" /\ more.i = e.i + 1
  BY <1>1, <1>2 DEF Using
<1> HIDE DEF p, more
<1>8. e2 \in Using
  BY <1>4, <1>5, <1>7
<1>9. ElectionFits(kind, e2, s)
  <2>1. CASE e2 = more /\ ~alive[p] /\ e.i # Len(Proxies)
    <3>1. more.i \in 1..Len(Proxies) /\ Passed(more, s, more.i - 1)
      BY <1>3, <1>4, <1>6, <1>7, <2>1 DEF Passed
    <3> QED
      BY <1>1, <2>1, <3>1 DEF ElectionFits, FirstFits
  <2>2. CASE e2.at = "dialing"
    BY <2>2 DEF ElectionFits
  <2> QED
    BY <1>4, <1>5, <2>1, <2>2
<1>10. e2.at = "dialing" /\ s.good # {} => e2.pick \notin s.dead
  <2>1. CASE alive[p]
    BY <1>2, <1>4, <1>5, <2>1 DEF Dead
  <2>2. CASE ~alive[p] /\ e.i = Len(Proxies)
    <3>1. s.good \subseteq Members
      BY <1>2 DEF Good
    <3>2. s.good = {}
      BY <1>4, <1>6, <2>2, <3>1 DEF Passed
    <3> QED
      BY <3>2
  <2>3. CASE ~alive[p] /\ e.i # Len(Proxies)
    BY <1>7, <2>3
  <2> QED
    BY <2>1, <2>2, <2>3
<1> HIDE DEF e2
<1> QED
  BY <1>1, <1>8, <1>9, <1>10, LoopKeeps

(* Nor does consistent hashing.                                            *)
LEMMA HashingKeeps ==
    ASSUME GroupInv, Watch, NEW u \in Users, strategyConsistentHashing(u)
    PROVE  GroupInv' /\ LivePick
<1> DEFINE e == user[u]
           s == steady[u]
<1>1. /\ UNCHANGED <<kind, alive, last, node, kept>> /\ kind = "load-balance"
      /\ e.at = "electing"
  BY DEF strategyConsistentHashing, Picks, At
<1>2. e \in Using /\ s.good \subseteq Good /\ s.dead \subseteq Dead
  BY DEF GroupInv, GroupTypeOK, SteadyNow
<1>3. e.i \in 1..(Len(Proxies) + 1) /\ Passed(e, s, e.i - 2)
  BY <1>1 DEF GroupInv, ElectionFits, HashFits
<1>4. /\ Len(Proxies) \in Nat \ {0}
      /\ \A i \in 1..Len(Proxies) : Proxies[i] \in Members
      /\ \A q \in Members : \E i \in 1..Len(Proxies) : Proxies[i] = q
  BY MembersAre
<1>5. \A q \in Members : /\ Picked(q) \in Using /\ Picked(q).at = "dialing"
                         /\ Picked(q).pick = q
  BY PickedType
<1>6. \A q \in Members : alive[q] => Picked(q).pick \notin s.dead
  BY <1>2, <1>5 DEF Dead
<1>7. CASE e.i = 1
  <2> DEFINE more == [e EXCEPT !.i = 2]
  <2>1. PICK p \in Members :
           user' = [user EXCEPT ![u] = IF alive[p] THEN Picked(p) ELSE more]
    BY <1>7 DEF strategyConsistentHashing
  <2>2. more \in Using /\ more.at = "electing" /\ more.i = 2
    BY <1>1, <1>2 DEF Using
  <2> HIDE DEF more
  <2> DEFINE e2 == IF alive[p] THEN Picked(p) ELSE more
  <2>3. e2 \in Using
    BY <1>5, <2>2
  <2>4. ElectionFits(kind, e2, s)
    <3>1. more.i \in 1..(Len(Proxies) + 1) /\ Passed(more, s, more.i - 2)
      BY <1>4, <2>2 DEF Passed
    <3> QED
      BY <1>1, <1>5, <3>1 DEF ElectionFits, HashFits
  <2>5. e2.at = "dialing" => e2.pick \notin s.dead
    BY <1>6, <2>2
  <2>6. user' = [user EXCEPT ![u] = e2]
    BY <2>1
  <2> HIDE DEF e2
  <2> QED
    BY <1>1, <2>3, <2>4, <2>5, <2>6, LoopKeeps
<1>8. CASE e.i # 1
  <2> DEFINE p == Proxies[e.i - 1]
             more == [e EXCEPT !.i = @ + 1]
             e2 == IF alive[p] THEN Picked(p)
                   ELSE IF e.i > Len(Proxies) THEN Picked(Proxies[1]) ELSE more
  <2>1. user' = [user EXCEPT ![u] = e2]
    BY <1>8 DEF strategyConsistentHashing
  <2>2. p \in Members /\ Proxies[1] \in Members
    BY <1>3, <1>4, <1>8
  <2>3. ~alive[p] => Passed(e, s, e.i - 1)
    BY <1>2, <1>3, <1>8 DEF Good, Passed
  <2>4. more \in Using /\ more.at = "electing" /\ more.i = e.i + 1
    BY <1>1, <1>2 DEF Using
  <2> HIDE DEF p, more
  <2>5. e2 \in Using
    BY <1>5, <2>2, <2>4
  <2>6. ElectionFits(kind, e2, s)
    <3>1. CASE e2 = more /\ ~alive[p] /\ ~(e.i > Len(Proxies))
      <4>1. more.i \in 1..(Len(Proxies) + 1) /\ Passed(more, s, more.i - 2)
        BY <1>3, <1>4, <2>3, <2>4, <3>1 DEF Passed
      <4> QED
        BY <1>1, <3>1, <4>1 DEF ElectionFits, HashFits
    <3>2. CASE e2.at = "dialing"
      BY <3>2 DEF ElectionFits
    <3> QED
      BY <1>5, <2>2, <3>1, <3>2
  <2>7. e2.at = "dialing" /\ s.good # {} => e2.pick \notin s.dead
    <3>1. CASE alive[p]
      BY <1>6, <2>2, <3>1
    <3>2. CASE ~alive[p] /\ e.i > Len(Proxies)
      <4>1. s.good \subseteq Members /\ Passed(e, s, Len(Proxies))
        BY <1>2, <1>3, <1>4, <2>3, <3>2 DEF Good
      <4>2. s.good = {}
        BY <1>4, <4>1 DEF Passed
      <4> QED
        BY <4>2
    <3>3. CASE ~alive[p] /\ ~(e.i > Len(Proxies))
      BY <2>4, <3>3
    <3> QED
      BY <3>1, <3>2, <3>3
  <2> HIDE DEF e2
  <2> QED
    BY <1>1, <2>1, <2>5, <2>6, <2>7, LoopKeeps
<1> QED
  BY <1>7, <1>8

(* A dial marks the proxy it used.                                         *)
LEMMA DialEndsKeeps ==
    ASSUME GroupInv, Watch, NEW u \in Users, DialEnds(u) PROVE GroupInv'
<1>1. /\ UNCHANGED <<kind, last, node, kept>>
      /\ user' = [user EXCEPT ![u] = Idle]
  BY DEF DialEnds
<1>2. Idle \in Using /\ Idle.at = "idle"
  BY GroupsAssumption DEF Idle, Using, Unknown
<1>3. /\ user' \in [Users -> Using] /\ user'[u] = Idle
      /\ \A v \in Users : v # u => user'[v] = user[v]
  BY <1>1, <1>2 DEF GroupInv, GroupTypeOK
<1>4. alive' \in [Members -> BOOLEAN]
  <2>1. \/ alive' = alive
        \/ \E ok \in BOOLEAN : alive' = [alive EXCEPT ![user[u].pick] = ok]
    BY DEF DialEnds
  <2> QED
    BY <2>1, Zenon DEF GroupInv, GroupTypeOK
<1>5. GroupTypeOK'
  BY <1>1, <1>3, <1>4, WatchType DEF GroupInv, GroupTypeOK
<1> QED
  BY <1>1, <1>2, <1>3, <1>5, OthersWait DEF ElectionFits

(* Every step of a group keeps the invariant and picks well.               *)
LEMMA GroupNextKeeps ==
    ASSUME GroupInv, GroupNext PROVE GroupInv' /\ LivePick
<1> USE DEF GroupNext
<1>1. CASE Checks
  <2>1. user' = user
    BY <1>1 DEF Checks, ParseProxyGroup, CheckTick, Expire, StartTest,
       TestDials, TestStores, TestRecords
  <2>2. LivePick
    BY <2>1 DEF LivePick, At
  <2> QED
    BY <1>1, <2>2, ChecksKeep
<1>2. ASSUME NEW u \in Users, Ask(u) PROVE GroupInv' /\ LivePick
  <2>1. user[u].at = "idle" /\ \A v \in Users : v # u => user'[v] = user[v]
    BY <1>2 DEF Ask, At, GroupInv, GroupTypeOK
  <2>2. LivePick
    BY <2>1 DEF LivePick, At
  <2> QED
    BY <1>2, <2>2, AskKeeps
<1>3. ASSUME NEW u \in Users, Compare(u) PROVE GroupInv' /\ LivePick
  <2>1. \A v \in Users : user'[v].at = user[v].at
    <3>1. PICK i, f, m :
             user' = [user EXCEPT ![u].i = i, ![u].fast = f, ![u].min = m]
      BY <1>3 DEF Compare
    <3>2. user \in [Users -> Using]
      BY DEF GroupInv, GroupTypeOK
    <3> QED
      BY <3>1, <3>2 DEF Using
  <2>2. LivePick
    BY <2>1 DEF LivePick, At
  <2> QED
    BY <1>3, <2>2, CompareKeeps
<1>4. ASSUME NEW u \in Users, DialEnds(u) PROVE GroupInv' /\ LivePick
  <2>1. user[u].at = "dialing" /\ \A v \in Users : v # u => user'[v] = user[v]
    BY <1>4 DEF DialEnds, At, GroupInv, GroupTypeOK
  <2>2. LivePick
    BY <2>1 DEF LivePick, At
  <2> QED
    BY <1>4, <2>2, DialEndsKeeps
<1> QED
  BY <1>1, <1>2, <1>3, <1>4, fastKeeps, FindAliveProxyKeeps, HashingKeeps
     DEF GroupStep, Checks

(* However many proxies a group has, whoever uses it and whatever the      *)
(* health check and the dials write while it picks: a proxy that was dead  *)
(* all the while is not picked when another was good all the while.        *)
THEOREM LiveProxiesArePicked == GroupSpec => PicksLiveProxy
<1>1. GroupInv /\ [GroupNext]_groupVars => GroupInv'
  <2>1. GroupInv /\ UNCHANGED groupVars => GroupInv'
    BY DEF groupVars, GroupInv, GroupTypeOK, SteadyNow, Good, Dead,
       ElectionFits, FastFits, FirstFits, HashFits, Passed
  <2> QED
    BY <2>1, GroupNextKeeps
<1>2. GroupInv /\ [GroupNext]_groupVars =>
         [\A u \in Users :
            (At(u, "electing") /\ user'[u].at = "dialing"
                /\ steady[u].good # {})
              => user'[u].pick \notin steady[u].dead]_groupVars
  BY GroupNextKeeps DEF LivePick
<1> QED
  BY <1>1, <1>2, InitGroup, PTL DEF GroupSpec, PicksLiveProxy

-----------------------------------------------------------------------------
(* The upstream resolvers.                                                 *)

Records == [ttls : Seq(Nat), ns : Seq(Nat)]
Replies == {"none", "dialing", "asked", "returned"}
Flights == [members : SUBSET Askers, cancelled : BOOLEAN, result : Records,
            good : BOOLEAN, client : [Servers -> Replies]]

AskerStates ==
    [at : {"idle", "missed", "waiting", "told", "failed", "literal"},
     ttls : Seq(Nat), rec : Records, since : Int]

(* What is kept expires with the first of its records.                     *)
EntryFits(e) ==
    /\ e.rec \in Records /\ e.rec.ttls \o e.rec.ns # <<>>
    /\ e.fetched \in Nat /\ e.fetched <= now
    /\ e.expires = e.fetched + minimalTTL(e.rec.ttls \o e.rec.ns)

UpInv ==
    /\ now \in Nat /\ flight \in Flights
    /\ asker \in [Askers -> AskerStates]
    /\ lruCache # NoEntry => EntryFits(lruCache)

(* A set of numbers has a least one.                                       *)
LEMMA LeastOf ==
    ASSUME NEW S, S \subseteq Nat, S # {}
    PROVE  \E i \in S : \A j \in S : i <= j
<1>1. PICK i \in S : \A j \in S : <<j, i>> \notin OpToRel(<, Nat)
  BY WFMin, NatLessThanWellFounded
<1>2. \A j \in S : ~(j < i)
  BY <1>1, Zenon DEF OpToRel
<1> QED
  BY <1>2

(* What minimalTTL returns.                                                *)
LEMMA MinimalIsLeast ==
    ASSUME NEW ttls \in Seq(Nat), ttls # <<>>
    PROVE  /\ minimalTTL(ttls) \in Nat
           /\ \E i \in 1..Len(ttls) : minimalTTL(ttls) = ttls[i]
           /\ \A i \in 1..Len(ttls) : minimalTTL(ttls) <= ttls[i]
<1> DEFINE T == {ttls[i] : i \in DOMAIN ttls}
<1>1. DOMAIN ttls = 1..Len(ttls) /\ Len(ttls) \in Nat \ {0}
      /\ \A i \in 1..Len(ttls) : ttls[i] \in Nat
  OBVIOUS
<1>2. T \subseteq Nat /\ T # {}
  BY <1>1
<1>3. \E t \in T : \A u \in T : t <= u
  <2> HIDE DEF T
  <2> QED
    BY <1>2, LeastOf
<1>4. \E t \in T : \A i \in DOMAIN ttls : t <= ttls[i]
  BY <1>3
<1>5. minimalTTL(ttls) = CHOOSE t \in T : \A i \in DOMAIN ttls : t <= ttls[i]
  BY DEF minimalTTL
<1> DEFINE m == CHOOSE t \in T : \A i \in DOMAIN ttls : t <= ttls[i]
<1>6. m \in T /\ \A i \in DOMAIN ttls : m <= ttls[i]
  BY <1>4
<1> QED
  BY <1>1, <1>2, <1>5, <1>6

(* More records expire no later.                                           *)
LEMMA MinimalOfMore ==
    ASSUME NEW r \in Records, r.ttls \o r.ns # <<>>
    PROVE  /\ minimalTTL(r.ttls \o r.ns) \in Nat
           /\ r.ttls # <<>> =>
                /\ minimalTTL(r.ttls) \in Nat
                /\ minimalTTL(r.ttls \o r.ns) <= minimalTTL(r.ttls)
<1> DEFINE all == r.ttls \o r.ns
<1>1. /\ r.ttls \in Seq(Nat) /\ r.ns \in Seq(Nat) /\ all \in Seq(Nat)
      /\ all # <<>>
  BY DEF Records
<1>2. /\ Len(all) = Len(r.ttls) + Len(r.ns)
      /\ Len(r.ttls) \in Nat /\ Len(r.ns) \in Nat
      /\ \A i \in 1..Len(r.ttls) : i \in 1..Len(all) /\ all[i] = r.ttls[i]
  <2> DEFINE s == r.ttls
             t == r.ns
  <2>1. s \in Seq(Nat) /\ t \in Seq(Nat) /\ all = s \o t
    BY <1>1
  <2> HIDE DEF s, t, all
  <2>2. /\ Len(all) = Len(s) + Len(t) /\ Len(s) \in Nat /\ Len(t) \in Nat
        /\ \A i \in 1..Len(s) : all[i] = s[i]
    BY <2>1
  <2>3. \A i \in 1..Len(s) : i \in 1..Len(all)
    BY <2>2
  <2> QED
    BY <2>2, <2>3 DEF s, t
<1> HIDE DEF all
<1>3. /\ minimalTTL(all) \in Nat
      /\ \A i \in 1..Len(all) : minimalTTL(all) <= all[i]
  BY <1>1, MinimalIsLeast
<1>4. ASSUME r.ttls # <<>>
      PROVE  /\ minimalTTL(r.ttls) \in Nat
             /\ minimalTTL(all) <= minimalTTL(r.ttls)
  <2>1. PICK i \in 1..Len(r.ttls) : minimalTTL(r.ttls) = r.ttls[i]
    BY <1>1, <1>4, MinimalIsLeast
  <2>2. minimalTTL(r.ttls) \in Nat
    BY <1>1, <1>4, MinimalIsLeast
  <2>3. i \in 1..Len(all) /\ all[i] = r.ttls[i]
    BY <1>2
  <2> QED
    BY <1>3, <2>1, <2>2, <2>3
<1> QED
  BY <1>3, <1>4 DEF all

(* What updateMsgTTL makes of an entry: no record is kept too long.        *)
LEMMA UpdatedExpires ==
    ASSUME now \in Nat, NEW e, EntryFits(e), NEW i \in DOMAIN e.rec.ttls,
           e.expires - now >= 0
    PROVE  LET t == updateMsgTTL(e.rec.ttls, e.expires - now)[i]
           IN  now + t <= e.fetched + e.rec.ttls[i] \/ t <= 1
<1> DEFINE ttls == e.rec.ttls
           least == minimalTTL(ttls)
           all  == minimalTTL(ttls \o e.rec.ns)
           left == e.expires - now
           v == ttls[i] - (least - left)
<1>1. ttls \in Seq(Nat) /\ e.rec \in Records /\ i \in 1..Len(ttls)
  BY DEF EntryFits, Records
<1>2. ttls # <<>> /\ ttls[i] \in Nat
  BY <1>1
<1>3. least \in Nat /\ all \in Nat /\ all <= least
  BY <1>1, <1>2, MinimalOfMore DEF EntryFits
<1>4. e.expires = e.fetched + all /\ e.fetched \in Nat /\ e.fetched <= now
  BY DEF EntryFits
<1>5. updateMsgTTL(ttls, left)[i] = Clamp(v, 1, ttls[i])
  BY DEF updateMsgTTL
<1> HIDE DEF least, all, ttls
<1>6. v \in Int /\ v <= ttls[i] /\ now + v <= e.fetched + ttls[i]
  BY <1>2, <1>3, <1>4
<1>7. Clamp(v, 1, ttls[i]) = v \/ Clamp(v, 1, ttls[i]) = 1
  BY <1>2, <1>6 DEF Clamp
<1> HIDE DEF v
<1> QED
  BY <1>5, <1>6, <1>7 DEF ttls

(* There is no answer and no flight at first.                              *)
LEMMA FlightStarts == NoAnswer \in Records /\ NoFlight \in Flights
<1>1. <<>> \in Seq(Nat)
  OBVIOUS
<1>2. NoAnswer \in Records
  BY <1>1 DEF NoAnswer, Records
<1> QED
  BY <1>2 DEF NoFlight, Flights, Replies

(* A client that returns leaves a flight.                                  *)
LEMMA ReturnsType ==
    ASSUME flight \in Flights, NEW s \in Servers, NEW good \in BOOLEAN,
           NEW rec \in Records, ClientReturns(s, good, rec)
    PROVE  flight' \in Flights
<1> DEFINE client == [flight.client EXCEPT ![s] = "returned"]
           result == IF good /\ ~flight.good THEN rec ELSE flight.result
           isGood == flight.good \/ good
           over   == flight.cancelled \/ good
<1>1. flight' = [flight EXCEPT !.client = client, !.result = result,
                               !.good = isGood, !.cancelled = over]
  BY DEF ClientReturns, Flights
<1>2. client \in [Servers -> Replies] /\ result \in Records
  BY DEF Flights, Replies
<1>3. isGood \in BOOLEAN /\ over \in BOOLEAN
  BY DEF Flights
<1> HIDE DEF client, result, isGood, over
<1> QED
  BY <1>1, <1>2, <1>3 DEF Flights

(* What the requests of an exchange bring is an answer.                    *)
LEMMA FlightType ==
    ASSUME UpInv, UpNext PROVE flight' \in Flights
<1>1. flight \in Flights /\ NoAnswer \in Records /\ NoFlight \in Flights
  BY FlightStarts DEF UpInv
<1>2. ASSUME NEW s \in Servers, Fails(s) PROVE flight' \in Flights
  BY <1>1, <1>2, ReturnsType DEF Fails
<1>3. ASSUME NEW s \in Servers,
             flight' = [flight EXCEPT !.client[s] = "asked"]
      PROVE  flight' \in Flights
  BY <1>1, <1>3 DEF Flights, Replies
<1>4. ASSUME NEW s \in Servers, ServerStep(s) PROVE flight' \in Flights
  <2>1. CASE FakeIpExchange(s)
    <3>1. PICK ttls \in {<<1>>, <<>>} :
             ClientReturns(s, TRUE, [NoAnswer EXCEPT !.ttls = ttls])
      BY <2>1 DEF FakeIpExchange
    <3>2. ttls \in Seq(Nat)
      <4>1. <<1>> \in Seq(Nat) /\ <<>> \in Seq(Nat)
        OBVIOUS
      <4> QED
        BY <4>1, Zenon
    <3>3. [NoAnswer EXCEPT !.ttls = ttls] \in Records
      BY <1>1, <3>2 DEF Records
    <3> QED
      BY <1>1, <3>1, <3>3, ReturnsType
  <2>2. CASE Answer(s)
    <3>1. CASE Fails(s)
      BY <1>2, <3>1
    <3>2. CASE \E r \in Answers : ClientReturns(s, TRUE, r)
      <4>1. PICK r \in Answers : ClientReturns(s, TRUE, r)
        BY <3>2
      <4>2. r \in Records
        BY UpstreamAssumption DEF Records
      <4> QED
        BY <1>1, <4>1, <4>2, ReturnsType
    <3> QED
      BY <2>2, <3>1, <3>2 DEF Answer
  <2> QED
    BY <1>2, <1>3, <1>4, <2>1, <2>2 DEF ServerStep, Dial, DoRequest,
       SystemExchange, ContextDone
<1>5. ASSUME NEW who \in SUBSET Askers, Exchanging(who)
      PROVE  flight' \in Flights
  <2>1. CASE Flying
    BY <1>1, <1>5, <2>1 DEF Exchanging, Flights
  <2>2. CASE ~Flying
    <3> DEFINE client == [s \in Servers |-> "dialing"]
    <3>1. client \in [Servers -> Replies]
      BY DEF Replies
    <3>2. flight' = [NoFlight EXCEPT !.members = who, !.client = client]
      BY <1>5, <2>2 DEF Exchanging
    <3> HIDE DEF client
    <3> QED
      BY <1>1, <3>1, <3>2 DEF Flights
  <2> QED
    BY <2>1, <2>2
<1>6. ASSUME NEW a \in Askers, AskerStep(a) PROVE flight' \in Flights
  <2>1. CASE exchangeWithoutCache(a)
    BY <1>5, <2>1 DEF exchangeWithoutCache
  <2> QED
    BY <1>1, <1>6, <2>1 DEF AskerStep, ExchangeContext, LookupIPv4,
       LookupIPv6, DnsMapExchange, Return
<1>7. Refresh => flight' \in Flights
  BY <1>5 DEF Refresh
<1>8. Deadline => flight' \in Flights
  BY <1>1 DEF Deadline, Flights
<1>9. NewResolver \/ Second \/ batchExchange => flight' \in Flights
  BY <1>1 DEF NewResolver, Second, batchExchange
<1> QED
  BY <1>4, <1>6, <1>7, <1>8, <1>9 DEF UpNext

(* What is kept expires with its first record, counted from its end.       *)
LEMMA EntryKept ==
    ASSUME UpInv, UpNext
    PROVE  now' \in Nat /\ (lruCache' # NoEntry => EntryFits(lruCache)')
<1>1. now' \in Nat /\ now <= now' /\ now \in Nat
  <2>1. now' = now \/ now' = now + 1
    <3>1. ~Second => now' = now
      BY DEF UpNext, AskerStep, ServerStep, ExchangeContext, LookupIPv4,
         LookupIPv6, DnsMapExchange, exchangeWithoutCache, Return, Dial,
         DoRequest, SystemExchange, FakeIpExchange, Answer, ContextDone,
         NewResolver, Refresh, Deadline, batchExchange
    <3> QED
      BY <3>1 DEF Second
  <2> QED
    BY <2>1 DEF UpInv
<1>2. ASSUME lruCache' = lruCache, lruCache' # NoEntry
      PROVE  EntryFits(lruCache)'
  BY <1>1, <1>2 DEF UpInv, EntryFits
<1>3. CASE batchExchange
  <2> DEFINE r == flight.result
             ttl == minimalTTL(r.ttls \o r.ns)
  <2>1. now' = now
    BY <1>3 DEF batchExchange
  <2>2. r \in Records
    BY DEF UpInv, Flights
  <2>3. CASE flight.good /\ ttl # 0
    <3>1. lruCache' = [rec |-> r, expires |-> now + ttl, fetched |-> now]
      BY <1>3, <2>3 DEF batchExchange, putMsgToCache
    <3>2. r.ttls \o r.ns # <<>>
      BY <2>3 DEF minimalTTL
    <3> HIDE DEF r
    <3> QED
      BY <1>1, <2>1, <2>2, <3>1, <3>2 DEF EntryFits
  <2>4. CASE ~(flight.good /\ ttl # 0)
    <3>1. lruCache' = lruCache
      BY <1>3, <2>4 DEF batchExchange, putMsgToCache
    <3> QED
      BY <1>1, <1>2, <3>1
  <2> QED
    BY <1>1, <2>3, <2>4
<1>4. ~batchExchange => lruCache' = lruCache
  BY DEF UpNext, AskerStep, ServerStep, ExchangeContext, LookupIPv4,
     LookupIPv6, DnsMapExchange, exchangeWithoutCache, Return, Dial,
     DoRequest, SystemExchange, FakeIpExchange, Answer, ContextDone,
     NewResolver, Refresh, Deadline, Second
<1> QED
  BY <1>1, <1>2, <1>3, <1>4

(* What updateMsgTTL and setMsgTTL make are TTLs.                          *)
LEMMA UpdatedType ==
    ASSUME NEW ttls \in Seq(Nat), NEW left \in Int
    PROVE  /\ updateMsgTTL(ttls, left) \in Seq(Nat)
           /\ DOMAIN updateMsgTTL(ttls, left) = DOMAIN ttls
           /\ setMsgTTL(ttls) \in Seq(Nat)
<1>1. ASSUME NEW i \in DOMAIN ttls
      PROVE  Clamp(ttls[i] - (minimalTTL(ttls) - left), 1, ttls[i]) \in Nat
  <2>1. ttls[i] \in Nat /\ ttls # <<>>
    OBVIOUS
  <2>2. minimalTTL(ttls) \in Nat
    BY <2>1, MinimalIsLeast
  <2> QED
    BY <2>1, <2>2 DEF Clamp
<1>2. \A f \in [DOMAIN ttls -> Nat] : f \in Seq(Nat)
  <2>1. DOMAIN ttls = 1..Len(ttls) /\ Len(ttls) \in Nat
    OBVIOUS
  <2> QED
    BY <2>1, SeqDef
<1>3. updateMsgTTL(ttls, left) \in [DOMAIN ttls -> Nat]
  BY <1>1 DEF updateMsgTTL
<1>4. setMsgTTL(ttls) \in [DOMAIN ttls -> Nat]
  BY DEF setMsgTTL
<1> QED
  BY <1>2, <1>3, <1>4

(* What AnswersExpire says of an asker that is told something.             *)
ToldFits(t) ==
    \A i \in DOMAIN t.ttls : \/ now + t.ttls[i] <= t.since + t.rec.ttls[i]
                             \/ t.ttls[i] <= 1

(* A caller that is told an answer has its record and its TTLs.            *)
LEMMA ToldType ==
    ASSUME NEW ttls \in Seq(Nat), NEW e, e.rec \in Records, e.fetched \in Int
    PROVE  /\ Told(ttls, e) \in AskerStates /\ Told(ttls, e).ttls = ttls
           /\ Told(ttls, e).rec = e.rec /\ Told(ttls, e).since = e.fetched
  BY DEF Told, AskerStates

(* The cache tells what is left of its entry.                              *)
LEMMA CacheTells ==
    ASSUME UpInv, NEW a \in Askers, ExchangeContext(a)
    PROVE  \E e \in AskerStates :
              /\ asker' = [asker EXCEPT ![a] = e]
              /\ e.at = "told" => ToldFits(e)
<1> DEFINE ttls == lruCache.rec.ttls
           left == lruCache.expires - now
<1>1. CASE lruCache = NoEntry
  <2> DEFINE e == [asker[a] EXCEPT !.at = "missed"]
  <2>1. e \in AskerStates /\ e.at = "missed"
    BY DEF UpInv, AskerStates
  <2>2. asker' = [asker EXCEPT ![a] = e]
    BY <1>1 DEF ExchangeContext
  <2> QED
    BY <2>1, <2>2
<1>2. CASE lruCache # NoEntry
  <2>1. EntryFits(lruCache) /\ now \in Nat
    BY <1>2 DEF UpInv
  <2>2. /\ lruCache.rec \in Records /\ ttls \in Seq(Nat)
        /\ lruCache.fetched \in Int /\ left \in Int
    BY <2>1, MinimalOfMore DEF EntryFits, Records
  <2>3. /\ updateMsgTTL(ttls, left) \in Seq(Nat)
        /\ DOMAIN updateMsgTTL(ttls, left) = DOMAIN ttls
        /\ setMsgTTL(ttls) \in Seq(Nat)
    BY <2>2, UpdatedType
  <2>4. CASE left < 0
    <3> DEFINE e == Told(setMsgTTL(ttls), lruCache)
    <3>1. asker' = [asker EXCEPT ![a] = e]
      BY <1>2, <2>4 DEF ExchangeContext
    <3>2. e \in AskerStates /\ e.ttls = setMsgTTL(ttls)
      BY <2>2, <2>3, ToldType
    <3>3. ToldFits(e)
      BY <3>2 DEF ToldFits, setMsgTTL
    <3> QED
      BY <3>1, <3>2, <3>3
  <2>5. CASE ~(left < 0)
    <3> DEFINE e == Told(updateMsgTTL(ttls, left), lruCache)
    <3>1. asker' = [asker EXCEPT ![a] = e]
      BY <1>2, <2>5 DEF ExchangeContext
    <3>2. /\ e \in AskerStates /\ e.ttls = updateMsgTTL(ttls, left)
          /\ e.rec = lruCache.rec /\ e.since = lruCache.fetched
      BY <2>2, <2>3, ToldType
    <3>3. left >= 0
      BY <2>2, <2>5
    <3>4. \A i \in DOMAIN ttls :
             LET t == updateMsgTTL(ttls, left)[i]
             IN  now + t <= lruCache.fetched + ttls[i] \/ t <= 1
      BY <2>1, <3>3, UpdatedExpires
    <3> HIDE DEF e
    <3>5. ToldFits(e)
      BY <2>3, <3>2, <3>4 DEF ToldFits
    <3> QED
      BY <3>1, <3>2, <3>5 DEF e
  <2> QED
    BY <2>4, <2>5
<1> QED
  BY <1>1, <1>2

(* An exchange tells its members what it has brought.                      *)
LEMMA ExchangeTells ==
    ASSUME UpInv, batchExchange
    PROVE  /\ asker' \in [Askers -> AskerStates]
           /\ \A a \in Askers : \/ asker'[a] = asker[a]
                                \/ asker'[a].at = "told" => ToldFits(asker'[a])
<1> DEFINE t == Told(flight.result.ttls, [NoEntry EXCEPT !.rec = flight.result,
                                                         !.fetched = now])
           f == [IdleAsker EXCEPT !.at = "failed"]
<1>1. /\ flight.result \in Records /\ flight.result.ttls \in Seq(Nat)
      /\ now \in Nat /\ asker \in [Askers -> AskerStates]
  BY DEF UpInv, Flights, Records
<1>2. /\ t \in AskerStates /\ t.ttls = flight.result.ttls
      /\ t.rec = flight.result /\ t.since = now
  <2> DEFINE e == [NoEntry EXCEPT !.rec = flight.result, !.fetched = now]
  <2>1. e.rec = flight.result /\ e.fetched = now
    BY DEF NoEntry
  <2> HIDE DEF e
  <2> DEFINE o == Told(flight.result.ttls, e)
  <2>2. /\ o \in AskerStates /\ o.ttls = flight.result.ttls
        /\ o.rec = flight.result /\ o.since = now
    BY <1>1, <2>1, ToldType
  <2>3. t = o
    BY DEF e
  <2> HIDE DEF t, o
  <2> QED
    BY <2>2, <2>3
<1>3. f \in AskerStates /\ f.at = "failed"
  <2>1. NoAnswer \in Records /\ <<>> \in Seq(Nat)
    BY FlightStarts
  <2>2. IdleAsker \in AskerStates
    BY <2>1 DEF IdleAsker, AskerStates
  <2> QED
    BY <2>2 DEF AskerStates
<1>4. asker' = [a \in Askers |-> IF a \notin flight.members THEN asker[a]
                                 ELSE IF flight.good THEN t ELSE f]
  BY DEF batchExchange
<1>5. ToldFits(t)
  <2>1. \A i \in DOMAIN t.ttls : t.ttls[i] \in Nat
    BY <1>1, <1>2
  <2> HIDE DEF t
  <2> QED
    BY <1>1, <1>2, <2>1 DEF ToldFits
<1> HIDE DEF t, f
<1>6. asker' \in [Askers -> AskerStates]
  BY <1>1, <1>2, <1>3, <1>4
<1>7. ASSUME NEW a \in Askers
      PROVE  asker'[a] \in {asker[a], t, f}
  BY <1>4
<1> QED
  BY <1>3, <1>5, <1>6, <1>7

(* The others that ask are told nothing.                                   *)
Asks(a) == LookupIPv4(a) \/ LookupIPv6(a) \/ DnsMapExchange(a)
              \/ exchangeWithoutCache(a) \/ Return(a)

(* A caller that a step moves is told an answer that fits, or none.        *)
LEMMA AskerMoves ==
    ASSUME UpInv, UpNext
    PROVE  /\ asker' \in [Askers -> AskerStates]
           /\ \A a \in Askers : \/ asker'[a] = asker[a]
                                \/ asker'[a].at = "told" => ToldFits(asker'[a])
<1> USE DEF UpInv
<1>1. ASSUME NEW a \in Askers, NEW e \in AskerStates,
             asker' = [asker EXCEPT ![a] = e], e.at = "told" => ToldFits(e)
      PROVE  /\ asker' \in [Askers -> AskerStates]
             /\ \A b \in Askers :
                   \/ asker'[b] = asker[b]
                   \/ asker'[b].at = "told" => ToldFits(asker'[b])
  BY <1>1
<1>2. ASSUME NEW a \in Askers, Asks(a)
      PROVE  \E e \in AskerStates :
                asker' = [asker EXCEPT ![a] = e] /\ e.at # "told"
  <2>1. ASSUME NEW s \in {"missed", "waiting", "failed", "literal"},
               asker' = [asker EXCEPT ![a].at = s]
        PROVE  \E e \in AskerStates :
                  asker' = [asker EXCEPT ![a] = e] /\ e.at # "told"
    <3> DEFINE e == [asker[a] EXCEPT !.at = s]
    <3>1. asker' = [asker EXCEPT ![a] = e]
      BY <2>1
    <3>2. e \in AskerStates /\ e.at # "told"
      BY DEF AskerStates
    <3> QED
      BY <3>1, <3>2
  <2>2. CASE Return(a)
    <3>1. NoAnswer \in Records /\ <<>> \in Seq(Nat)
      BY FlightStarts
    <3>2. IdleAsker \in AskerStates /\ IdleAsker.at # "told"
      BY <3>1 DEF IdleAsker, AskerStates
    <3> QED
      BY <2>2, <3>2 DEF Return
  <2>3. CASE DnsMapExchange(a)
    <3>1. PICK at \in {"literal", "failed"} :
             asker' = [asker EXCEPT ![a].at = at]
      BY <2>3 DEF DnsMapExchange
    <3> QED
      BY <2>1, <3>1
  <2> QED
    BY <1>2, <2>1, <2>2, <2>3 DEF Asks, LookupIPv4, LookupIPv6,
       exchangeWithoutCache
<1>3. ASSUME ~(\E a \in Askers : Asks(a) \/ ExchangeContext(a)), ~batchExchange
      PROVE  asker' = asker
  BY <1>3 DEF UpNext, AskerStep, Asks, ServerStep, Dial, DoRequest,
     SystemExchange, FakeIpExchange, Answer, ContextDone, NewResolver,
     Refresh, Deadline, Second
<1>4. CASE \E a \in Askers : Asks(a)
  BY <1>1, <1>2, <1>4
<1>5. CASE \E a \in Askers : ExchangeContext(a)
  <2>1. PICK a \in Askers : ExchangeContext(a)
    BY <1>5
  <2>2. PICK e \in AskerStates :
           /\ asker' = [asker EXCEPT ![a] = e]
           /\ e.at = "told" => ToldFits(e)
    BY <2>1, CacheTells
  <2> QED
    BY <1>1, <2>2
<1> QED
  BY <1>3, <1>4, <1>5, ExchangeTells

(* Whatever is asked, answered and lost, and however the clock runs: nobody *)
(* is told to keep a record beyond the second in which it expires, but for  *)
(* the one more second that an expired answer is given for.                 *)
THEOREM ToldAnswersExpire == UpSpec => AnswersExpire
<1>1. UpInit => UpInv
  <2>1. NoAnswer \in Records /\ <<>> \in Seq(Nat) /\ NoFlight \in Flights
    BY FlightStarts
  <2>2. IdleAsker \in AskerStates
    BY <2>1 DEF IdleAsker, AskerStates
  <2> QED
    BY <2>1, <2>2 DEF UpInit, UpInv
<1>2. UpInv /\ [UpNext]_upVars => UpInv'
  <2>1. UpInv /\ UpNext => UpInv'
    BY FlightType, EntryKept, AskerMoves DEF UpInv
  <2>2. UpInv /\ UNCHANGED upVars => UpInv'
    BY DEF UpInv, upVars, EntryFits
  <2> QED
    BY <2>1, <2>2
<1>3. UpInv /\ [UpNext]_upVars =>
         [\A a \in Askers : asker[a].at # "told" /\ asker'[a].at = "told" =>
            LET t == asker'[a]
            IN  \A i \in DOMAIN t.ttls :
                    \/ now + t.ttls[i] <= t.since + t.rec.ttls[i]
                    \/ t.ttls[i] <= 1]_upVars
  BY AskerMoves DEF ToldFits
<1> QED
  BY <1>1, <1>2, <1>3, PTL DEF UpSpec, AnswersExpire
=============================================================================
