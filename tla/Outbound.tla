------------------------------- MODULE Outbound --------------------------------
(***************************************************************************)
(* How an outbound makes a connection (DialContext) or a packet connection *)
(* (ListenPacketContext): it opens sockets, wraps them in the layers of    *)
(* its protocol, any of which may fail, and on an error closes what it     *)
(* opened, by a deferred call or on the spot.  The TCP dial races an       *)
(* attempt over IPv4 against one over IPv6 and keeps the first that        *)
(* succeeds.  This program passes no dialer options to an outbound, so a   *)
(* gRPC transport and the pool of a Snell version 2 proxy are used as soon *)
(* as they are configured.  The layers themselves are in Framing.          *)
(***************************************************************************)
EXTENDS Naturals, Sequences

VARIABLES
    proxy,   \* the configured proxy, NoProxy before it is
    call,    \* "stream": DialContext; "packet": ListenPacketContext
    at,      \* the step of its plan that is next
    racers,  \* of each IP version: what its attempt is doing
    lost,    \* the attempts that delivered an error
    open,    \* the sockets that are open
    result,  \* "dialing", "conn", "error"; "closed": by its user
    copier   \* the goroutine that watches a SOCKS5 association

outVars == <<proxy, call, at, racers, lost, open, result, copier>>

Versions == {"tcp4", "tcp6"}
NoProxy  == [type |-> "none", network |-> "", tls |-> FALSE, version |-> 0]

-------------------------------------------------------------------------------
(* The configurations that the constructors accept.                        *)

Kind(t, ns, ss, vs) == [type : {t}, network : ns, tls : ss, version : vs]

\* network is the obfuscation of the plugin.
NewShadowSocks  == Kind("ss", {"", "tls", "http", "websocket"}, {FALSE}, {0})
NewShadowSocksR == Kind("ssr", {""}, {FALSE}, {0})
NewTrojan == Kind("trojan", {"", "ws", "grpc"}, {TRUE}, {0})
newVmess  == {k \in Kind("vmess", {"", "ws", "http", "h2", "grpc"}, BOOLEAN,
                         {0}) :
                 k.network \in {"h2", "grpc"} => k.tls}
NewSnell  == Kind("snell", {"", "tls", "http"}, {FALSE}, 1..3)
NewSocks5 == Kind("socks5", {""}, BOOLEAN, {0})
NewHttp   == Kind("http", {""}, BOOLEAN, {0})
NewDirect == Kind("direct", {""}, {FALSE}, {0})

\* ParseProxy, and the direct outbound.
ParseProxy == NewShadowSocks \cup NewShadowSocksR \cup NewTrojan \cup newVmess
              \cup NewSnell \cup NewSocks5 \cup NewHttp \cup NewDirect

\* Snell carries datagrams from version 3 on.
SupportsUDP(p) == p.type = "snell" => p.version = 3

-------------------------------------------------------------------------------
(* Plans: the steps that can fail, in their order.                         *)

Tls(p) == IF p.tls THEN <<"tls">> ELSE <<>>

SsStream(p) == (IF p.network = "websocket" THEN <<"websocket">> ELSE <<>>)
               \o <<"header">>
SsrStream   == <<"iv", "header">>
PlainStream(p) == IF p.network = "ws" THEN <<"websocket">> ELSE <<"tls">>
TrojanStream(p) == PlainStream(p) \o <<"header">>
VmessStream(p) ==
    CASE p.network = "ws" -> <<"websocket", "request">>
      [] p.network = "h2" -> <<"tls", "h2", "request">>
      [] OTHER            -> Tls(p) \o <<"request">>
SnellStream == <<"header">>
SocksStream(p) == Tls(p) \o <<"handshake">>
HttpStream(p)  == Tls(p) \o <<"handshake">>

SsDial(p)     == <<"dial">> \o SsStream(p)
SsrDial       == <<"dial">> \o SsrStream
TrojanDial(p) == IF p.network = "grpc" THEN <<"gun", "header">>
                 ELSE <<"dial">> \o TrojanStream(p)
VmessDial(p)  == IF p.network = "grpc" THEN <<"gun", "request">>
                 ELSE <<"dial">> \o VmessStream(p)
SnellDial(p)  == IF p.version = 2 THEN <<"pool", "header">>
                 ELSE <<"dial">> \o SnellStream
SocksDial(p)  == <<"dial">> \o SocksStream(p)
HttpDial(p)   == <<"dial">> \o HttpStream(p)
DirectDial    == <<"dial">>

SsListen        == <<"listen", "resolve">>
SsrListen       == <<"listen", "resolve">>
TrojanListen(p) == IF p.network = "grpc" THEN <<"gun", "header">>
                   ELSE <<"dial">> \o PlainStream(p) \o <<"header">>
VmessListen(p)  == <<"resolve">> \o VmessDial(p)
SnellListen     == <<"dial", "header">>
\* A failed TLS handshake surfaces in the first write of the SOCKS handshake.
SocksListen(p)  == <<"dial">> \o Tls(p)
                   \o <<"handshake", "associate", "resolve">>
DirectListen    == <<"listen">>
BaseListen      == <<"unsupported">>

Plan(p, c) ==
    CASE p.type = "ss"     -> IF c = "stream" THEN SsDial(p) ELSE SsListen
      [] p.type = "ssr"    -> IF c = "stream" THEN SsrDial ELSE SsrListen
      [] p.type = "trojan" -> IF c = "stream" THEN TrojanDial(p)
                              ELSE TrojanListen(p)
      [] p.type = "vmess"  -> IF c = "stream" THEN VmessDial(p)
                              ELSE VmessListen(p)
      [] p.type = "snell"  -> IF c = "stream" THEN SnellDial(p) ELSE SnellListen
      [] p.type = "socks5" -> IF c = "stream" THEN SocksDial(p)
                              ELSE SocksListen(p)
      [] p.type = "http"   -> IF c = "stream" THEN HttpDial(p) ELSE BaseListen
      [] p.type = "direct" -> IF c = "stream" THEN DirectDial ELSE DirectListen

Coming    == Plan(proxy, call)[at]
AtStep(s) == proxy # NoProxy /\ result = "dialing" /\ Coming = s

\* ListenPacketContext of a Snell proxy returns without closing.
ClosesOnError(p, c) == ~(p.type = "snell" /\ c = "packet")

\* Mux.Close writes a last frame and h2Conn.Close shuts its client down first,
\* and each returns the error of that; every other Close closes the socket.
ClosesAlways(p, c) ==
    /\ ~(p.type = "ss" /\ p.network = "websocket" /\ c = "stream")
    /\ ~(p.type = "vmess" /\ p.network = "h2")

(* Mutant: the deferred closure sees another err than the one returned.    *)
ShadowedError(opened) == opened

\* The deferred closure, or the close before the return.
safeConnClose(opened) == IF ClosesOnError(proxy, call) THEN {} ELSE opened

\* The sockets that a goroutine will close: that of an attempt which has not
\* delivered it, the UDP socket of an association.
LeftToOthers == {v \in Versions : racers[v] # "done"}
                \cup (IF copier = "copying" THEN {"udp"} ELSE {})

Fail(opened) ==
    /\ result' = "error" /\ UNCHANGED at
    /\ open' = (opened \cap LeftToOthers)
                \cup safeConnClose(opened \ LeftToOthers)

Succeed(opened) ==
    /\ open' = opened /\ at' = at + 1
    /\ result' = IF at = Len(Plan(proxy, call)) THEN "conn" ELSE "dialing"

-------------------------------------------------------------------------------
OutInit ==
    /\ proxy = NoProxy /\ call = "stream" /\ at = 1
    /\ racers = [v \in Versions |-> "idle"] /\ lost = {}
    /\ open = {} /\ result = "dialing" /\ copier = "none"

DialOut(p, c) ==
    /\ proxy = NoProxy
    /\ c = "packet" => SupportsUDP(p)
    /\ proxy' = p /\ call' = c
    /\ UNCHANGED <<at, racers, lost, open, result, copier>>

\* dualStackDialContext starts both attempts before it waits.
StartRace ==
    /\ AtStep("dial") /\ racers["tcp4"] = "idle"
    /\ racers' = [v \in Versions |-> "resolving"]
    /\ UNCHANGED <<proxy, call, at, lost, open, result, copier>>

RacerResolves(v) ==
    /\ racers[v] = "resolving"
    /\ racers' \in {[racers EXCEPT ![v] = s] : s \in {"connecting", "failed"}}
    /\ UNCHANGED <<proxy, call, at, lost, open, result, copier>>

\* dialContext: binding to the interface may fail as well.
RacerConnects(v) ==
    /\ racers[v] = "connecting"
    /\ \/ racers' = [racers EXCEPT ![v] = "connected"] /\ open' = open \cup {v}
       \/ racers' = [racers EXCEPT ![v] = "failed"] /\ UNCHANGED open
    /\ UNCHANGED <<proxy, call, at, lost, result, copier>>

\* results <- result, while the dial waits for one: it takes the first that
\* succeeded, and fails when the other attempt has failed too.
Deliver(v) ==
    /\ AtStep("dial") /\ racers[v] \in {"connected", "failed"}
    /\ racers' = [racers EXCEPT ![v] = "done"]
    /\ \/ racers[v] = "connected" /\ Succeed(open) /\ UNCHANGED lost
       \/ /\ racers[v] = "failed" /\ lost' = lost \cup {v}
          /\ IF lost' = Versions THEN Fail(open)
             ELSE UNCHANGED <<at, open, result>>
    /\ UNCHANGED <<proxy, call, copier>>

\* <-returned: the dial has its connection; the loser is closed.
GiveUp(v) ==
    /\ racers[v] \in {"connected", "failed"} /\ ~AtStep("dial")
    /\ racers' = [racers EXCEPT ![v] = "done"]
    /\ open' = open \ {v}
    /\ UNCHANGED <<proxy, call, at, lost, result, copier>>

\* The dial of the transport is in the background, StreamGunWithTransport
\* does not fail.
OpenGun ==
    /\ AtStep("gun") /\ Succeed(open \cup {"gun"})
    /\ UNCHANGED <<proxy, call, racers, lost, copier>>

\* An idle connection of the pool, or a new one; returned to it by Close.
TakeFromPool ==
    /\ AtStep("pool") /\ (Succeed(open \cup {"pooled"}) \/ Fail(open))
    /\ UNCHANGED <<proxy, call, racers, lost, copier>>

ListenPacket ==
    /\ AtStep("listen") /\ (Succeed(open \cup {"udp"}) \/ Fail(open))
    /\ UNCHANGED <<proxy, call, racers, lost, copier>>

\* The socket of a SOCKS5 association comes with a goroutine that closes it
\* when the TCP connection ends.
Associate ==
    /\ AtStep("associate")
    /\ \/ Succeed(open \cup {"udp"}) /\ copier' = "copying"
       \/ Fail(open) /\ UNCHANGED copier
    /\ UNCHANGED <<proxy, call, racers, lost>>

\* Every other step: it wraps the connection, or fails.
Wrap ==
    /\ proxy # NoProxy /\ result = "dialing"
    /\ Coming \notin {"dial", "gun", "pool", "listen", "associate"}
    /\ \/ Coming # "unsupported" /\ Succeed(open)
       \/ Fail(open)
    /\ UNCHANGED <<proxy, call, racers, lost, copier>>

\* The server ends the TCP connection, or the other end of it is closed here.
AssociationEnds ==
    /\ copier = "copying" /\ copier' = "ended"
    /\ open' = open \cap (LeftToOthers \ {"udp"})
    /\ UNCHANGED <<proxy, call, at, racers, lost, result>>

\* Its user closes what was returned: all but what an attempt still holds,
\* or nothing where Close returns an error before it closes the socket.
CloseOut ==
    /\ result = "conn" /\ result' = "closed"
    /\ \/ open' = open \cap (LeftToOthers \ {"udp"})
       \/ ~ClosesAlways(proxy, call) /\ UNCHANGED open
    /\ UNCHANGED <<proxy, call, at, racers, lost, copier>>

OutNext ==
    \/ \E p \in ParseProxy, c \in {"stream", "packet"} : DialOut(p, c)
    \/ StartRace
    \/ \E v \in Versions : RacerResolves(v) \/ RacerConnects(v)
                           \/ Deliver(v) \/ GiveUp(v)
    \/ OpenGun \/ TakeFromPool \/ ListenPacket \/ Associate \/ Wrap
    \/ AssociationEnds \/ CloseOut

OutSpec == OutInit /\ [][OutNext]_outVars

-------------------------------------------------------------------------------
\* The goroutines that a dial started have ended.
Settled == /\ \A v \in Versions : racers[v] \in {"idle", "done"}
           /\ copier # "copying"

(* A dial that fails, at whatever step and whichever attempt won the race, *)
(* leaves no socket open once its goroutines have ended, nor does one      *)
(* whose connection was closed; one that succeeds holds a single TCP       *)
(* connection, open.  Two exceptions: ListenPacketContext of a Snell proxy *)
(* forgets its connection when the header cannot be written, and Close of  *)
(* a multiplexer or of an HTTP/2 connection may fail before the socket is  *)
(* closed.                                                                 *)
DialLeavesNothing ==
    Settled =>
        /\ result = "error" /\ ClosesOnError(proxy, call) => open = {}
        /\ result = "closed" /\ ClosesAlways(proxy, call) => open = {}
        /\ result = "conn" /\ copier = "none" =>
               \E s \in Versions \cup {"gun", "pooled", "udp"} : open = {s}
===============================================================================
