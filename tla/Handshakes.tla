------------------------------ MODULE Handshakes -------------------------------
(***************************************************************************)
(* The handshakes of the proxy protocols: those a client of this program   *)
(* (the SOCKS5 and HTTP outbounds) makes with a proxy server, and those    *)
(* its mixed listener makes with a program that uses it as a proxy.        *)
(*                                                                         *)
(* A message is one item on the wire, and so is a part of the payload; a   *)
(* read through a bufio.Reader takes any number of the items that have     *)
(* come, any other read takes what it needs.  The listener has no          *)
(* authenticator (nothing sets one); the proxy servers of the outbounds    *)
(* may have one, and are taken to do what the listener would do then.      *)
(***************************************************************************)
EXTENDS Naturals, Sequences

CONSTANT MaxData   \* bound: the parts of the payload in each direction

ASSUME HandshakesAssumption == MaxData \in Nat \ {0}

VARIABLES
    peer,      \* who the client is and what it wants
    client,    \* the state of the client
    listener,  \* and of the server
    toServer, toClient,    \* the items on the wire
    buffer,    \* the items in the server's BufferedConn
    sentUp, sentDown,      \* the parts of the payload sent,
    tunnelGot, clientGot,  \* read by the tunnel and by the client,
    eaten      \* and taken by the reader that shakeHand drops

shakeVars == <<peer, client, listener, toServer, toClient, buffer, sentUp,
               sentDown, tunnelGot, clientGot, eaten>>

Logins  == {"none", "good", "bad"}
NoDial  == [own |-> FALSE, speaks |-> "", cmd |-> "", login |-> "none",
            asks |-> FALSE, keep |-> FALSE]
Dials(own, speaks, cmds, logins, asks, keeps) ==
    [own : {own}, speaks : {speaks}, cmd : cmds, login : logins, asks : asks,
     keep : keeps]

\* The outbounds, and the programs that use the listener.
OwnDials == Dials(TRUE, "socks5", {"connect", "udp"}, Logins, BOOLEAN, {TRUE})
            \cup Dials(TRUE, "http", {"connect"}, Logins, BOOLEAN, {TRUE})
AppDials == Dials(FALSE, "socks5", {"connect", "udp", "bind"}, Logins,
                  {FALSE}, {TRUE})
            \cup Dials(FALSE, "socks4", {"connect", "bind"}, {"none"},
                       {FALSE}, {TRUE})
            \cup Dials(FALSE, "http", {"connect", "get", "upgrade"}, {"none"},
                       {FALSE}, BOOLEAN)

Data(i)       == [kind |-> "data", i |-> i]
Payload(i, j) == [x \in 1..(j + 1 - i) |-> Data(i + x - 1)]
SendsUp(m)    == toServer' = Append(toServer, m)
Replies(m)    == toClient' = Append(toClient, m)

Hello      == [kind |-> "v5"]
Login      == [kind |-> "login", good |-> peer.login = "good"]
Request(c) == [kind |-> "request", cmd |-> c]
Verdict(g) == [kind |-> "verdict", good |-> g]
Asked(p)   == IF p.speaks = "socks4" THEN [kind |-> "v4", cmd |-> p.cmd]
              ELSE [kind |-> "http", cmd |-> p.cmd, login |-> p.login]

-------------------------------------------------------------------------------
(* The client.                                                             *)

ShakeInit ==
    /\ peer = NoDial /\ client = "new" /\ listener = "accepted"
    /\ toServer = <<>> /\ toClient = <<>> /\ buffer = <<>>
    /\ sentUp = 0 /\ sentDown = 0 /\ tunnelGot = 0 /\ clientGot = 0 /\ eaten = 0

Begin(p) ==
    /\ client = "new" /\ peer' = p
    /\ IF p.speaks = "socks5"
       THEN SendsUp(Hello) /\ client' = "greeted"
       ELSE SendsUp(Asked(p)) /\ client' = "requested"
    /\ UNCHANGED <<listener, toClient, buffer, sentUp, sentDown, tunnelGot,
                   clientGot, eaten>>

ClientReads ==
    /\ toClient # <<>> /\ toClient' = Tail(toClient)
    /\ UNCHANGED <<peer, listener, buffer, sentUp, sentDown, tunnelGot, eaten>>

\* ClientHandshake, after each of the three answers it waits for.
ReadMethod ==
    /\ client = "greeted" /\ ClientReads /\ UNCHANGED clientGot
    /\ IF Head(toClient).asks
       THEN IF peer.login = "none"
            THEN client' = "closed" /\ UNCHANGED toServer
            ELSE SendsUp(Login) /\ client' = "authorizing"
       ELSE SendsUp(Request(peer.cmd)) /\ client' = "requested"

ReadVerdict ==
    /\ client = "authorizing" /\ ClientReads /\ UNCHANGED clientGot
    /\ IF Head(toClient).good
       THEN SendsUp(Request(peer.cmd)) /\ client' = "requested"
       ELSE client' = "closed" /\ UNCHANGED toServer

\* A SOCKS client does not look past the version: any reply will do.  The other
\* clients close at an answer that is not the one they hope for.
ReadReply ==
    /\ client = "requested" /\ ClientReads /\ UNCHANGED <<toServer, clientGot>>
    /\ ~(peer.own /\ peer.speaks = "http") /\ peer.cmd # "get"
    /\ client' = IF peer.speaks = "socks5" \/ Head(toClient).good
                 THEN "connected" ELSE "closed"

\* The reader that parses the response of the proxy is dropped with what it has
\* read beyond it.
shakeHand ==
    /\ client = "requested" /\ peer.own /\ peer.speaks = "http"
    /\ \E k \in 1..Len(toClient) :
          /\ toClient' = SubSeq(toClient, k + 1, Len(toClient))
          /\ eaten' = k - 1
    /\ client' = IF Head(toClient).good THEN "connected" ELSE "closed"
    /\ UNCHANGED <<peer, listener, toServer, buffer, sentUp, sentDown,
                   tunnelGot, clientGot>>

\* A client that fetches takes the response, and asks again or closes.
ReadResponse ==
    /\ client = "requested" /\ peer.cmd = "get"
    /\ ClientReads /\ UNCHANGED clientGot
    /\ \/ peer.keep /\ SendsUp(Asked(peer)) /\ UNCHANGED client
       \/ client' = "closed" /\ UNCHANGED toServer

\* A program that uses the listener need not wait for the reply.
ClientSends ==
    /\ \/ client = "connected" /\ peer.cmd # "udp"
       \/ client = "requested" /\ ~peer.own /\ peer.cmd = "connect"
    /\ sentUp < MaxData /\ sentUp' = sentUp + 1
    /\ SendsUp(Data(sentUp + 1))
    /\ UNCHANGED <<peer, client, listener, toClient, buffer, sentDown,
                   tunnelGot, clientGot, eaten>>

ClientGets ==
    /\ client = "connected" /\ ClientReads
    /\ clientGot' = clientGot + 1 /\ UNCHANGED <<client, toServer>>

\* Its user closes the connection, or the server has.
ClientCloses ==
    /\ client \notin {"new", "closed"} /\ client' = "closed"
    /\ \/ client = "connected"
       \/ listener = "closed" /\ toClient = <<>>
    /\ UNCHANGED <<peer, listener, toServer, toClient, buffer, sentUp,
                   sentDown, tunnelGot, clientGot, eaten>>

-------------------------------------------------------------------------------
(* The mixed listener.                                                     *)

\* A read of the BufferedConn fills its buffer when it is empty.
Fills     == IF buffer = <<>> THEN 1..Len(toServer) ELSE {0}
Stock(k)  == IF buffer = <<>> THEN SubSeq(toServer, 1, k) ELSE buffer
Beyond(k) == IF buffer = <<>> THEN SubSeq(toServer, k + 1, Len(toServer))
             ELSE toServer

ServerReads(k) ==
    /\ buffer' = Tail(Stock(k)) /\ toServer' = Beyond(k)
    /\ UNCHANGED <<peer, client, sentUp, sentDown, clientGot, eaten>>

(* Mutant: the tunnel is given the connection under the BufferedConn.      *)
RawConn(b) == <<>>

Given(b) == b

\* handleConn looks at the first byte without taking it.
Peek ==
    /\ listener = "accepted"
    /\ \E k \in Fills :
          /\ buffer' = Stock(k) /\ toServer' = Beyond(k)
          /\ listener' = CASE Head(Stock(k)).kind = "v4" -> "socks4"
                         [] Head(Stock(k)).kind = "v5" -> "socks5"
                         [] OTHER -> "http"
    /\ UNCHANGED <<peer, client, toClient, sentUp, sentDown, tunnelGot,
                   clientGot, eaten>>

ReadHello ==
    /\ listener = "socks5"
    /\ \E k \in Fills : ServerReads(k)
    /\ Replies([kind |-> "method", asks |-> peer.asks])
    /\ listener' = IF peer.asks THEN "login" ELSE "command"
    /\ UNCHANGED tunnelGot

Verify ==
    /\ listener = "login"
    /\ \E k \in Fills :
          /\ ServerReads(k)
          /\ Replies(Verdict(Head(Stock(k)).good))
          /\ listener' = IF Head(Stock(k)).good THEN "command" ELSE "closed"
    /\ UNCHANGED tunnelGot

\* No reply to a command that is not supported.
ReadCommand ==
    /\ listener = "command"
    /\ \E k \in Fills :
          LET cmd == Head(Stock(k)).cmd
          IN  /\ ServerReads(k)
              /\ IF cmd = "bind"
                 THEN listener' = "closed" /\ UNCHANGED toClient
                 ELSE /\ Replies([kind |-> "reply"])
                      /\ listener' = IF cmd = "udp" THEN "associated"
                                     ELSE "granted"
    /\ UNCHANGED tunnelGot

HandleSocks4 ==
    /\ listener = "socks4"
    /\ \E k \in Fills :
          /\ ServerReads(k)
          /\ IF Head(Stock(k)).cmd = "connect"
             THEN Replies(Verdict(TRUE)) /\ listener' = "granted"
             ELSE listener' = "closed" /\ UNCHANGED toClient
    /\ UNCHANGED tunnelGot

\* One round of HandleConn: who is not let in is told so, and may try again.
\* A fetch has a response of its target, or one that says it has none.
HandleConn ==
    /\ listener = "http"
    /\ \E k \in Fills :
          LET r == Head(Stock(k))
          IN  /\ ServerReads(k)
              /\ IF peer.asks /\ r.login # "good"
                 THEN /\ Replies(Verdict(FALSE))
                      /\ listener' = IF peer.keep THEN "http" ELSE "closed"
                 ELSE \/ /\ r.cmd = "connect"
                         /\ Replies(Verdict(TRUE)) /\ listener' = "granted"
                      \/ /\ r.cmd = "upgrade"
                         /\ UNCHANGED toClient /\ listener' = "upgrading"
                      \/ /\ r.cmd = "get"
                         /\ \E good \in BOOLEAN : Replies(Verdict(good))
                         /\ listener' = IF peer.keep THEN "http" ELSE "closed"
    /\ UNCHANGED tunnelGot

\* The response decides whether handleUpgrade relays.
handleUpgrade ==
    /\ listener = "upgrading"
    /\ \E good \in BOOLEAN :
          /\ Replies(Verdict(good))
          /\ listener' = IF good THEN "relaying" ELSE "closed"
    /\ UNCHANGED <<peer, client, toServer, buffer, sentUp, sentDown,
                   tunnelGot, clientGot, eaten>>

\* The connection goes to the tunnel, with what is in its buffer.
HandOver ==
    /\ listener = "granted" /\ listener' = "relaying" /\ buffer' = Given(buffer)
    /\ UNCHANGED <<peer, client, toServer, toClient, sentUp, sentDown,
                   tunnelGot, clientGot, eaten>>

TunnelReads ==
    /\ listener = "relaying"
    /\ \E k \in Fills : ServerReads(k)
    /\ tunnelGot' = tunnelGot + 1 /\ UNCHANGED <<listener, toClient>>

TunnelWrites ==
    /\ listener = "relaying" /\ sentDown < MaxData
    /\ sentDown' = sentDown + 1 /\ Replies(Data(sentDown + 1))
    /\ UNCHANGED <<peer, client, listener, toServer, buffer, sentUp,
                   tunnelGot, clientGot, eaten>>

\* A read fails when the client has closed; an association ends then.
ServerCloses ==
    /\ listener \notin {"granted", "upgrading", "closed"}
    /\ client = "closed" /\ toServer = <<>> /\ buffer = <<>>
    /\ listener' = "closed"
    /\ UNCHANGED <<peer, client, toServer, toClient, buffer, sentUp, sentDown,
                   tunnelGot, clientGot, eaten>>

ShakeNext ==
    \/ \E p \in OwnDials \cup AppDials : Begin(p)
    \/ ReadMethod \/ ReadVerdict \/ ReadReply \/ shakeHand \/ ReadResponse
    \/ ClientSends \/ ClientGets \/ ClientCloses
    \/ Peek \/ ReadHello \/ Verify \/ ReadCommand \/ HandleSocks4 \/ HandleConn
    \/ handleUpgrade \/ HandOver \/ TunnelReads \/ TunnelWrites \/ ServerCloses

ShakeSpec == ShakeInit /\ [][ShakeNext]_shakeVars

-------------------------------------------------------------------------------
(* However reads and segments meet, and whether or not the client waits    *)
(* for the reply, the tunnel reads the payload from its first part on, and *)
(* a client that takes its connection for made has been granted it and     *)
(* reads the payload from its first part on; the HTTP outbound alone may   *)
(* miss what came along with the response.                                 *)
HandshakeTakesNoPayload ==
    /\ listener = "relaying" =>
          buffer \o toServer = Payload(tunnelGot + 1, sentUp)
    /\ client = "connected" =>
          /\ listener \in {"granted", "relaying", "associated", "closed"}
          /\ toClient = Payload(clientGot + eaten + 1, sentDown)
    /\ eaten > 0 => peer.own /\ peer.speaks = "http"
===============================================================================
