------------------------------ MODULE Datagrams -------------------------------
(***************************************************************************)
(* A relayed UDP flow: the packet connections of the outbounds, some of    *)
(* which carry datagrams over a stream, under the loop of                  *)
(* CopyablePacketConn.ReadPacket, which gathers what they return in one    *)
(* buffer until nothing has come for five seconds; bufio.CopyPacket then   *)
(* writes the buffer to the client.                                        *)
(*                                                                         *)
(* A datagram is its size.  What a protocol puts before it counts as one,  *)
(* and it arrives whole: a deadline that cuts one is not modelled.         *)
(***************************************************************************)
EXTENDS Naturals, Sequences

CONSTANTS
    Peers,        \* who the datagrams come from
    NoPeer,
    Sizes,        \* bound: the sizes of the datagrams
    BufSize,      \* the size of the buffer given to ReadFrom
    PacketRoom,   \* the size of the buffer that gathers
    MaxSent       \* bound: the datagrams the server sends

ASSUME DatagramsAssumption ==
    /\ NoPeer \notin Peers /\ Sizes \subseteq Nat \ {0}
    /\ BufSize \in Nat \ {0, 1} /\ PacketRoom \in Nat \ {0} /\ MaxSent \in Nat

VARIABLES
    outlet,    \* the type of the packet connection, "" before it is made
    asked,     \* whether a datagram of the client has left
    inbox,     \* datagrams that have come and are not read to their end:
               \* [from, id, at, n, head], n bytes from the at-th one on
    sent,      \* how many the server has sent
    remain,    \* trojan.PacketConn: remain and rAddr
    gathered,  \* the bytes in the buffer
    piece,     \* history: the last read, and the address it returned
    relay      \* "reading", "writing", or why it ended

dgramVars == <<outlet, asked, inbox, sent, remain, gathered, piece, relay>>

NoRemain == [n |-> 0, addr |-> NoPeer]
NoPiece  == [addr |-> NoPeer, from |-> NoPeer, id |-> 0, at |-> 0, n |-> 0]
Outlets  == {"direct", "socks5", "ssStream", "ssAead", "ssr", "snell",
             "trojan", "vmess"}
Smaller(x, y) == IF x < y THEN x ELSE y

ListenPacketContext(type) ==
    /\ outlet = "" /\ outlet' = type
    /\ relay' = "reading"
    /\ UNCHANGED <<asked, inbox, sent, remain, gathered, piece>>

\* The client's datagram.  WritePacket hands WriteTo the address as the
\* M.Socksaddr it is: the outbounds that write the address before the datagram
\* format it, but a socket of package net takes only a *net.UDPAddr, and
\* vmessPacketConn asserts that it is one.
WriteTo ==
    /\ relay = "reading" /\ ~asked
    /\ \/ /\ outlet \notin {"direct", "vmess"}
          /\ asked' = TRUE /\ UNCHANGED relay
       \/ outlet = "direct" /\ relay' = "invalid" /\ UNCHANGED asked
       \/ outlet = "vmess" /\ relay' = "panic" /\ UNCHANGED asked
    /\ UNCHANGED <<outlet, inbox, sent, remain, gathered, piece>>

ServerSends(from, n) ==
    /\ relay = "reading" /\ asked /\ sent < MaxSent
    /\ sent' = sent + 1
    /\ inbox' = Append(inbox, [from |-> from, id |-> sent + 1, at |-> 1,
                               n |-> n, head |-> TRUE])
    /\ UNCHANGED <<outlet, asked, remain, gathered, piece, relay>>

-------------------------------------------------------------------------------
(* ReadFrom.                                                               *)

\* n bytes are returned with an address, the rest of the datagram stays or
\* is dropped.
Returned(addr, n, stays) ==
    LET d == Head(inbox)
    IN  /\ piece' = [addr |-> addr, from |-> d.from, id |-> d.id, at |-> d.at,
                     n |-> n]
        /\ inbox' = IF stays /\ n < d.n
                    THEN <<[d EXCEPT !.at = @ + n, !.n = @ - n,
                                     !.head = FALSE]>> \o Tail(inbox)
                    ELSE Tail(inbox)

(* Mutant: the rest of a datagram larger than the buffer is not counted.   *)
ForgetRemain(n, addr) == NoRemain

Remaining(n, addr) == IF n = 0 THEN NoRemain ELSE [n |-> n, addr |-> addr]

\* The header and as much as there is room for, or more of what remains.
TrojanRead ==
    LET d == Head(inbox)
        n == Smaller(d.n, BufSize)
    IN  /\ outlet = "trojan"
        /\ IF remain.n # 0
           THEN \E k \in 1..Smaller(remain.n, BufSize) :
                    /\ Returned(remain.addr, k, TRUE)
                    /\ remain' = Remaining(remain.n - k, remain.addr)
           ELSE /\ d.head
                /\ Returned(d.from, n, TRUE)
                /\ remain' = Remaining(d.n - n, d.from)

\* A record is a datagram, whose end is dropped when it is too large.
SnellReadFrom ==
    /\ outlet = "snell"
    /\ Returned(Head(inbox).from, Smaller(Head(inbox).n, BufSize), FALSE)
    /\ UNCHANGED remain

\* The sockets drop what there is no room for.  There is a header before the
\* datagram.
SocketRead ==
    /\ Returned(Head(inbox).from, Smaller(Head(inbox).n, BufSize - 1), FALSE)
    /\ UNCHANGED remain

SocksRead == outlet = "socks5" /\ SocketRead

Cut == Head(inbox).n > BufSize - 1

\* A datagram that was cut cannot be authenticated; one that only a stream
\* cipher or the protocol "origin" protects can be read.
SsAeadRead   == outlet = "ssAead" /\ ~Cut /\ SocketRead
SsStreamRead == outlet = "ssStream" /\ SocketRead
SsrRead      == outlet = "ssr" /\ SocketRead

ReadFrom == TrojanRead \/ SnellReadFrom \/ SocksRead \/ SsAeadRead
                \/ SsStreamRead \/ SsrRead

\* What is no datagram where one should begin.
BadFormat ==
    outlet = "trojan" /\ remain.n = 0 /\ ~Head(inbox).head
Undecipherable == outlet \in {"ssAead", "ssr"} /\ Cut

-------------------------------------------------------------------------------
(* ReadPacket and CopyPacket.                                              *)

\* buf.Buffer takes what it has room for; it refuses when it is full.
Gather(n) ==
    IF gathered = PacketRoom
    THEN relay' = "full" /\ UNCHANGED gathered
    ELSE gathered' = Smaller(gathered + n, PacketRoom) /\ UNCHANGED relay

\* What ReadFrom returned goes into the buffer, and the loop goes round.
ReadPacket ==
    /\ relay = "reading" /\ inbox # <<>>
    /\ ReadFrom /\ Gather(piece'.n)
    /\ UNCHANGED <<outlet, asked, sent>>

\* Any other error ends the relay, and what was gathered is gone.
ReadErrs ==
    /\ relay = "reading" /\ inbox # <<>>
    /\ \/ BadFormat /\ relay' = "format"
       \/ Undecipherable /\ relay' = "cipher"
    /\ UNCHANGED <<outlet, asked, inbox, sent, remain, gathered, piece>>

(* Mutant: reads have no deadline.                                         *)
NoDeadline == FALSE

\* Nothing has come for five seconds.  ReadPacket returns at a timeout; but
\* that of trojan.ReadPacket is not one any more, it is "read addr error".
TimeOut ==
    /\ relay = "reading" /\ inbox = <<>>
    /\ relay' = IF outlet = "trojan" /\ remain.n = 0 THEN "timeout"
                ELSE "writing"
    /\ UNCHANGED <<outlet, asked, inbox, sent, remain, gathered, piece>>

\* The client's connection takes the packet, an empty one too, or it is closed.
WritePacket ==
    /\ relay = "writing"
    /\ relay' \in {"reading", "closed"}
    /\ gathered' = 0
    /\ UNCHANGED <<outlet, asked, inbox, sent, remain, piece>>

-------------------------------------------------------------------------------
DgramInit ==
    /\ outlet = "" /\ asked = FALSE /\ inbox = <<>> /\ sent = 0
    /\ remain = NoRemain /\ gathered = 0 /\ piece = NoPiece /\ relay = "none"

DgramNext ==
    \/ \E type \in Outlets : ListenPacketContext(type)
    \/ \E from \in Peers, n \in Sizes : ServerSends(from, n)
    \/ WriteTo \/ ReadPacket \/ ReadErrs \/ TimeOut \/ WritePacket

DgramFairness == WF_dgramVars(ReadPacket) /\ WF_dgramVars(ReadErrs)
                    /\ WF_dgramVars(TimeOut) /\ WF_dgramVars(WritePacket)

DgramSpec == DgramInit /\ [][DgramNext]_dgramVars /\ DgramFairness

-------------------------------------------------------------------------------
(* However large the datagrams are, a read returns bytes of one datagram,  *)
(* those behind the ones last read or the first of a later datagram, with  *)
(* the address it came from; and where the packet connection looks for the *)
(* header of a datagram, there is one.                                     *)
PiecesAreOwn ==
    [][/\ piece' # piece =>
              /\ piece'.addr = piece'.from
              /\ \/ piece'.id = piece.id /\ piece'.at = piece.at + piece.n
                 \/ piece'.id > piece.id /\ piece'.at = 1
       /\ relay' # "format"]_dgramVars

(* What has been gathered is written to the client once the server pauses  *)
(* for five seconds, unless the relay ends before.                         *)
GatheredIsWritten ==
    gathered > 0 /\ relay = "reading" ~> gathered = 0 \/ relay # "reading"

(* "ignore simple error" (udp.go): a read that times out does not end the  *)
(* relay.                                                                  *)
TimeoutIsIgnored == relay # "timeout"

(* "we verify if addr matches uc.rAddr, and drop the packet if not"        *)
(* (vmess.go): whatever address a datagram goes to, the program goes on.   *)
AddressIsVerified == relay # "panic"
===============================================================================
