------------------------------- MODULE Framing --------------------------------
(***************************************************************************)
(* The stream transports of the outbounds.  Each wraps the connection to   *)
(* the server of a proxy: its Write puts a handshake and framed bytes on   *)
(* the wire, its Read finds the bytes again in whatever pieces they come,  *)
(* and hands them out in whatever pieces the relay asks for.               *)
(*                                                                         *)
(* A wire is a sequence of atoms: bytes of the application, numbered as    *)
(* they were written, and the parts of headers.  Ciphers, encodings and    *)
(* padding are left out.  A plain Read of the connection below returns any *)
(* number of atoms that are there, io.ReadFull all that it asks for.  A    *)
(* Read is one step: it has a single caller, and it blocks until the wire  *)
(* holds what it waits for.  The server is external.                       *)
(***************************************************************************)
EXTENDS Naturals, Sequences

CONSTANTS
    Chunk,    \* bound: the largest payload of a record, 0x3FFF, 8100, 2800
    Early,    \* MaxEarlyData of a websocket
    Rooms,    \* the sizes of the buffers that Read is called with
    MaxUp,    \* bound: bytes the application writes
    MaxDown   \* bound: bytes the server writes

ASSUME FramingAssumption ==
    /\ Chunk \in Nat \ {0} /\ Rooms \subseteq Nat \ {0}
    /\ Early \in Nat /\ MaxUp \in Nat /\ MaxDown \in Nat

\* Those that answer in records with an identifier, and all that decode them
\* from a buffer of their own.
Numbered == {"authAes128", "authChain"}
Ssr      == Numbered \cup {"authSha1"}
Vmess    == {"vmessRaw", "vmessChunk", "vmessAead", "vless"}
Layers == Ssr \cup Vmess \cup
    {"ssAead", "ssStream", "obfsTls", "obfsHttp", "websocket", "earlyData",
     "vmessHttp", "h2", "gun", "snell", "trojan", "mux", "ssrHttp"}

VARIABLES
    layer,    \* the transport of this connection, "" before it is made
    up,       \* the wire to the server
    wrote,    \* the application's bytes handed to Write
    started,  \* Write was called
    link,     \* the wire from the server and what Read keeps between calls
    answered, \* the server has sent its side of the handshake
    heard,    \* the server's bytes
    packs,    \* records the server sent
    got,      \* what Read returned
    astray    \* Read has lost the beginnings of the frames

frameVars == <<layer, up, wrote, started, link, answered, heard, packs, got,
               astray>>

Atom(k, n) == [k |-> k, n |-> n]
Mark       == Atom("mark", 1)   \* a part of a header
Refusal    == Atom("mark", 0)
Size(n)    == Atom("size", n)
Bytes(a, b) == [i \in 1..(b - a + 1) |-> Atom("data", a + i - 1)]
Header     == <<Mark, Mark>>

Least(m, n)   == IF m < n THEN m ELSE n
Upto(s, n)   == SubSeq(s, 1, Least(n, Len(s)))
After(s, n)   == SubSeq(s, n + 1, Len(s))

\* The loop of a Write cuts pieces of Chunk, and a last one of the rest.
Pieces(bs)   == (Len(bs) + Chunk - 1) \div Chunk
Piece(bs, i) == Upto(After(bs, (i - 1) * Chunk), Chunk)

Record(bs) == <<Size(Len(bs))>> \o bs
Records(bs) ==
    LET sent[i \in 0..Pieces(bs)] ==
            IF i = 0 THEN <<>> ELSE sent[i - 1] \o Record(Piece(bs, i))
    IN  sent[Pieces(bs)]

-------------------------------------------------------------------------------
(* What Write puts on the wire.  first: it is the first call.              *)

AeadWrite(bs, first)   == (IF first THEN Header ELSE <<>>) \o Records(bs)
StreamWrite(bs, first) == (IF first THEN Header ELSE <<>>) \o bs
ChunkWrite(bs)         == Records(bs)
VmessAeadWrite(bs)     == Records(bs)

\* The ClientHello carries the first piece in its session ticket.
TlsWrite(bs, first) == (IF first THEN Header ELSE <<>>) \o Records(bs)

\* The whole of the first write is the body of the request.
ObfsHttpWrite(bs, first)  == (IF first THEN Header ELSE <<>>) \o bs
VmessHttpWrite(bs, first) == (IF first THEN Header ELSE <<>>) \o bs

WebsocketWrite(bs) == Record(bs)

\* The request carries as much as it may, the first message the rest.
EarlyDial(bs) ==
    Header \o Record(Upto(bs, Early))
           \o (IF Len(bs) > Early THEN WebsocketWrite(After(bs, Early))
               ELSE <<>>)

EarlyWrite(bs, first) == IF first THEN EarlyDial(bs) ELSE WebsocketWrite(bs)

H2Write(bs, first)  == (IF first THEN Header ELSE <<>>) \o bs
GunWrite(bs, first) == (IF first THEN Header ELSE <<>>) \o Record(bs)

MuxFrame(status, option) == <<Atom("status", status), Atom("option", option)>>
MuxWrite(bs, first) ==
    (IF first THEN MuxFrame(1, 0) ELSE <<>>) \o MuxFrame(2, 1) \o Record(bs)

\* The first packet carries the head of the data, of a random length.
AuthPacked(bs, first) ==
    IF first THEN {Header \o Record(Upto(bs, n)) \o Records(After(bs, n)) :
                      n \in 1..Len(bs)}
    ELSE {Records(bs)}
AuthSha1Encode(bs, first)  == AuthPacked(bs, first)
AuthAesEncode(bs, first)   == AuthPacked(bs, first)
AuthChainEncode(bs, first) == AuthPacked(bs, first)

\* The head of the first write is in the path of the request, the rest behind.
SsrHttpWrite(bs, first) ==
    IF first THEN {Header \o Record(Upto(bs, n)) \o After(bs, n) :
                      n \in 1..Len(bs)}
    ELSE {bs}

\* What is written when the connection is made, before any Write.
VmessRequest    == Header
WebsocketDial   == Header
TrojanHeader    == Header
SnellHeader     == AeadWrite(<<Mark>>, TRUE)
NewConn(l) ==
    CASE l \in Vmess -> VmessRequest
      [] l = "websocket" -> WebsocketDial
      [] l = "trojan"    -> TrojanHeader
      [] l = "snell"     -> SnellHeader
      [] OTHER           -> <<>>

Written(bs, first) ==
    CASE layer = "ssAead"     -> {AeadWrite(bs, first)}
      [] layer = "snell"      -> {AeadWrite(bs, FALSE)}
      [] layer = "ssStream"   -> {StreamWrite(bs, first)}
      [] layer = "vmessChunk" -> {ChunkWrite(bs)}
      [] layer = "vmessAead"  -> {VmessAeadWrite(bs)}
      [] layer = "obfsTls"    -> {TlsWrite(bs, first)}
      [] layer = "obfsHttp"   -> {ObfsHttpWrite(bs, first)}
      [] layer = "vmessHttp"  -> {VmessHttpWrite(bs, first)}
      [] layer = "websocket"  -> {WebsocketWrite(bs)}
      [] layer = "earlyData"  -> {EarlyWrite(bs, first)}
      [] layer = "h2"         -> {H2Write(bs, first)}
      [] layer = "gun"        -> {GunWrite(bs, first)}
      [] layer = "mux"        -> {MuxWrite(bs, first)}
      [] layer = "authSha1"   -> AuthSha1Encode(bs, first)
      [] layer = "authAes128" -> AuthAesEncode(bs, first)
      [] layer = "authChain"  -> AuthChainEncode(bs, first)
      [] layer = "ssrHttp"    -> SsrHttpWrite(bs, first)
      [] OTHER                -> {bs}

-------------------------------------------------------------------------------
(* What Read makes of a link: the set of its outcomes, empty while it      *)
(* blocks.  held are bytes it has and did not hand out, under what it has  *)
(* and did not decode, remain the bytes of the record it is in that are    *)
(* still on the wire.                                                      *)

Outcome(out, l) == [out |-> out, link |-> l]
Broken(l)       == Outcome(<<>>, [l EXCEPT !.failed = TRUE])

\* A plain Read, and io.ReadFull.
Some(l, room) == {Outcome(Upto(l.wire, k), [l EXCEPT !.wire = After(@, k)]) :
                     k \in 1..Least(room, Len(l.wire))}
Full(l, n) == {o \in Some(l, n) : Len(o.out) = n}

\* copy(b, held).
Copy(l, room) == Outcome(Upto(l.held, room), [l EXCEPT !.held = After(@, room)])

\* The size of the record that the wire begins with.
Length(l) == l.wire[1].n

\* The link with its record, when it is there to the end, in held.
Fetched(l) ==
    IF l.wire = <<>> THEN {}
    ELSE {[o.link EXCEPT !.held = After(o.out, 1)] :
             o \in Full(l, 1 + Length(l))}

\* The link behind the server's side of the handshake.
Opened(l) == IF l.opened THEN {l}
             ELSE {[o.link EXCEPT !.opened = TRUE] : o \in Full(l, 2)}

RecvResponse(l) ==
    IF ~l.opened /\ l.wire # <<>> /\ l.wire[1] = Refusal
    THEN {[l EXCEPT !.failed = TRUE]} ELSE Opened(l)

HoldRecord(l, room) == IF l.held # <<>> THEN {Copy(l, room)}
                       ELSE {Copy(m, room) : m \in Fetched(l)}

AeadRead(l, room)      == UNION {HoldRecord(m, room) : m \in Opened(l)}
StreamRead(l, room)    == UNION {Some(m, room) : m \in Opened(l)}
ChunkRead(l, room)     == HoldRecord(l, room)
VmessAeadRead(l, room) == HoldRecord(l, room)

VmessRead(l, room) ==
    UNION {IF m.failed THEN {Broken(m)}
           ELSE CASE layer = "vmessChunk" -> ChunkRead(m, room)
                  [] layer = "vmessAead"  -> VmessAeadRead(m, room)
                  [] OTHER                -> Some(m, room) :
              m \in RecvResponse(l)}

(* Mutant: what is left of the record is read as the next one.             *)
ForgetRest(l, outcomes) == {[o EXCEPT !.link.remain = 0] : o \in outcomes}

\* Reads at most what is left of the record.
Rest(l, outcomes) ==
    {[o EXCEPT !.link.remain = l.remain - Len(o.out)] : o \in outcomes}

\* The link in the record that the wire begins with.
Begun(l) == IF l.wire = <<>> THEN {}
            ELSE {[l EXCEPT !.wire = Tail(@), !.remain = Length(l)]}

\* A record that does not fit is read in part.
TlsBody(l, room) ==
    UNION {Rest(m, IF m.remain > room THEN Some(m, room)
                   ELSE Full(m, m.remain)) : m \in Begun(l)}

TlsRead(l, room) ==
    IF l.remain > 0 THEN Rest(l, Full(l, Least(l.remain, room)))
    ELSE UNION {TlsBody(m, room) : m \in Opened(l)}

\* The whole header must come with the first segment.
ObfsHttpRead(l, room) ==
    IF l.held # <<>> THEN {Copy(l, room)}
    ELSE IF l.opened THEN Some(l, room)
    ELSE {IF Len(o.out) < 2 THEN Broken(o.link)
          ELSE Copy([o.link EXCEPT !.opened = TRUE, !.held = After(o.out, 2)],
                    room) :
             o \in Some(l, Len(l.wire))}
SsrHttpRead(l, room) == ObfsHttpRead(l, room)

VmessHttpRead(l, room) == UNION {Some(m, room) : m \in Opened(l)}
H2Read(l, room)        == UNION {Some(m, room) : m \in Opened(l)}

\* getReader: the reader of the message, of the next one after its end.
WebsocketRead(l, room) ==
    UNION {Rest(m, Some(m, Least(m.remain, room))) :
              m \in IF l.remain = 0 THEN Begun(l) ELSE {l}}
\* The connection is there once the first Write has dialed.
EarlyRead(l, room) == IF started THEN WebsocketRead(l, room) ELSE {}

GunRead(l, room) ==
    UNION {Rest(m, Full(m, Least(m.remain, room))) :
              m \in IF l.remain > 0 THEN {l}
                    ELSE UNION {Begun(k) : k \in Opened(l)}}

\* The reply is the first byte that the server sends through the cipher.
SnellRead(l, room) ==
    IF l.replied THEN AeadRead(l, room)
    ELSE UNION {IF o.out = <<Mark>>
                THEN AeadRead([o.link EXCEPT !.replied = TRUE], room)
                ELSE {Broken(o.link)} : o \in AeadRead(l, 1)}

\* Frames without data are skipped.  Here the plain Read of the status and
\* the option returns both; Misread is the other case.
MuxRead(l, room) ==
    IF l.remain # 0 THEN Rest(l, Some(l, Least(l.remain, room)))
    ELSE LET At(i)  == l.wire[i]
             begins == {i \in 1..(Len(l.wire) - 2) : At(i).k = "status"
                                                     /\ At(i + 1).n = 1}
             first  == CHOOSE i \in begins : \A j \in begins : i <= j
             m      == [l EXCEPT !.wire = After(@, first + 2),
                                 !.remain = At(first + 2).n]
         IN  IF begins = {} THEN {} ELSE Rest(m, Some(m, Least(m.remain, room)))

\* What Read may do when it takes other bytes for the head of a frame: skip
\* any number of atoms, hand out those that follow, or find an invalid length.
Astray(l, room) ==
    {Broken(l)} \cup UNION {Some([l EXCEPT !.wire = After(@, i)], room) :
                              i \in 0..Len(l.wire)}

\* Decode: every record that is there to its end, from the one after recv.
Format(recv) ==
    CASE layer = "authSha1"   -> [head |-> 1, skip |-> 0]
      [] layer = "authAes128" -> [head |-> 2, skip |-> 0]
      [] layer = "authChain"  -> [head |-> 2,
                                  skip |-> IF recv = 1 THEN 1 ELSE 0]
DecodeOne(d) ==
    LET f   == Format(d.recv)
        u   == d.under
        end == f.head + u[f.head].n
    IN  IF Len(u) <= f.head \/ Len(u) < end THEN d
        ELSE [held  |-> d.held \o SubSeq(u, f.head + 1 + f.skip, end),
              under |-> After(u, end), recv |-> d.recv + 1,
              ok    |-> d.ok /\ (layer \in Numbered => u[1].n = d.recv)]
Decoded(u, recv) ==
    LET d[i \in 0..Len(u)] ==
            IF i = 0
            THEN [held |-> <<>>, under |-> u, recv |-> recv, ok |-> TRUE]
            ELSE DecodeOne(d[i - 1])
    IN  d[Len(u)]

AuthRead(l, room) ==
    IF l.held # <<>> THEN {Copy(l, room)}
    ELSE {LET d == Decoded(l.under \o o.out, l.recv)
          IN  IF ~d.ok THEN Broken(o.link)
              ELSE Copy([o.link EXCEPT !.held = d.held, !.under = d.under,
                                       !.recv = d.recv], room) :
             o \in Some(l, Len(l.wire))}

ReadOutcomes(room) ==
    CASE layer = "ssAead"   -> AeadRead(link, room)
      [] layer = "ssStream" -> StreamRead(link, room)
      [] layer \in Vmess     -> VmessRead(link, room)
      [] layer = "obfsTls"  -> TlsRead(link, room)
      [] layer = "obfsHttp" -> ObfsHttpRead(link, room)
      [] layer = "ssrHttp"  -> SsrHttpRead(link, room)
      [] layer = "vmessHttp" -> VmessHttpRead(link, room)
      [] layer = "websocket" -> WebsocketRead(link, room)
      [] layer = "earlyData" -> EarlyRead(link, room)
      [] layer = "h2"       -> H2Read(link, room)
      [] layer = "gun"      -> GunRead(link, room)
      [] layer = "snell"    -> SnellRead(link, room)
      [] layer = "trojan"   -> Some(link, room)
      [] layer = "mux"      -> MuxRead(link, room)
      [] layer \in Ssr      -> AuthRead(link, room)

-------------------------------------------------------------------------------
(* The server, which is external: in answer to the handshake it may refuse *)
(* (a VMess or Snell server), later it only sends bytes.                   *)

\* The first record begins with bytes that are not the application's.
NumberedRecord(bs, id) ==
    LET lead == IF layer = "authChain" /\ id = 1 THEN <<Mark>> ELSE <<>>
    IN  <<Atom("id", id)>> \o Record(lead \o bs)
NumberedRecords(bs, p) ==
    LET sent[i \in 0..Pieces(bs)] ==
            IF i = 0 THEN <<>>
            ELSE sent[i - 1] \o NumberedRecord(Piece(bs, i), p + i - 1)
    IN  sent[Pieces(bs)]

ServerFrames(bs, first) ==
    LET head == IF first THEN Header ELSE <<>>
    IN  CASE layer = "ssAead" -> AeadWrite(bs, first)
          [] layer = "snell"  -> IF first THEN Header \o Records(<<Mark>> \o bs)
                                 ELSE Records(bs)
          [] layer \in {"vmessChunk", "vmessAead"} -> head \o Records(bs)
          [] layer = "obfsTls" -> head \o Records(bs)
          [] layer \in {"websocket", "earlyData"} ->
                 IF bs = <<>> THEN <<>> ELSE Record(bs)
          [] layer = "gun" -> head \o (IF bs = <<>> THEN <<>> ELSE Record(bs))
          [] layer = "mux" -> IF bs = <<>> THEN MuxFrame(4, 0)
                              ELSE MuxFrame(2, 1) \o Record(bs)
          [] layer = "authSha1"  -> Records(bs)
          [] layer \in Numbered  -> NumberedRecords(bs, packs + 1)
          [] layer = "trojan"    -> bs
          [] OTHER               -> head \o bs

Refusals ==
    CASE layer = "snell" -> {Header \o Records(<<Refusal>>)}
      [] layer \in Vmess -> {<<Refusal>>}
      [] OTHER           -> {}

-------------------------------------------------------------------------------
FrameInit ==
    /\ layer = "" /\ up = <<>> /\ wrote = 0 /\ started = FALSE
    /\ link = [wire |-> <<>>, held |-> <<>>, under |-> <<>>, remain |-> 0,
               recv |-> 1, opened |-> FALSE, replied |-> FALSE,
               failed |-> FALSE]
    /\ answered = FALSE /\ heard = 0 /\ packs = 0 /\ got = <<>>
    /\ astray = FALSE

Connect ==
    /\ layer = ""
    /\ layer' \in Layers
    /\ up' = NewConn(layer')
    /\ UNCHANGED <<wrote, started, link, answered, heard, packs, got, astray>>

Write(n) ==
    /\ layer # "" /\ wrote + n <= MaxUp
    /\ wrote' = wrote + n /\ started' = TRUE
    /\ \E bs \in Written(Bytes(wrote + 1, wrote + n), ~started) : up' = up \o bs
    /\ UNCHANGED <<layer, link, answered, heard, packs, got, astray>>

\* The server knows the layer when the request is there.
ServerWrites(n) ==
    /\ layer # "" /\ up # <<>> /\ heard + n <= MaxDown
    /\ n = 0 => ~answered
    /\ \/ LET bs == Bytes(heard + 1, heard + n)
          IN  /\ link' = [link EXCEPT !.wire = @ \o ServerFrames(bs, ~answered)]
              /\ packs' = packs + (IF layer \in Numbered THEN Pieces(bs) ELSE 0)
              /\ heard' = heard + n
       \/ /\ ~answered
          /\ \E r \in Refusals : link' = [link EXCEPT !.wire = @ \o r]
          /\ UNCHANGED <<packs, heard>>
    /\ ~(answered /\ link.wire # <<>> /\ link.wire[1] = Refusal)
    /\ answered' = TRUE
    /\ UNCHANGED <<layer, up, wrote, started, got, astray>>

Read(room) ==
    /\ layer # "" /\ ~link.failed /\ ~astray
    /\ \E o \in ReadOutcomes(room) : link' = o.link /\ got' = got \o o.out
    /\ UNCHANGED <<layer, up, wrote, started, answered, heard, packs, astray>>

\* The Read of the mux, when the plain Read of the status returns one byte:
\* this is no error, and the option of an earlier frame is taken for that of
\* this one.  So the frame is skipped, and its data parsed as heads of frames,
\* or its option and half of its size are taken for a size, and what follows
\* for data.  Which of them, and what later Reads return, depends on the
\* values of bytes: the Reads of this link are not followed any further.
Misread(room) ==
    /\ layer = "mux" /\ ~link.failed /\ ~astray
    /\ link.remain = 0 /\ link.wire # <<>>
    /\ \E o \in Astray(link, room) : link' = o.link /\ got' = got \o o.out
    /\ astray' = TRUE
    /\ UNCHANGED <<layer, up, wrote, started, answered, heard, packs>>

FrameNext == \/ Connect
             \/ \E n \in 1..MaxUp : Write(n)
             \/ \E n \in 0..MaxDown : ServerWrites(n)
             \/ \E room \in Rooms : Read(room) \/ Misread(room)

FrameSpec == FrameInit /\ [][FrameNext]_frameVars

-------------------------------------------------------------------------------
\* The application's bytes on a wire.
DataOf(w) ==
    LET found[i \in 0..Len(w)] ==
            IF i = 0 THEN <<>>
            ELSE IF w[i].k = "data" THEN Append(found[i - 1], w[i])
            ELSE found[i - 1]
    IN  found[Len(w)]

\* Every size is followed by as many bytes, and no header is among them.
WellFramed(w) ==
    \A i \in DOMAIN w : w[i].k = "size" =>
        \A j \in 1..w[i].n : /\ i + j <= Len(w)
                             /\ w[i + j].k \in {"data", "mark"}

(* Whatever the sizes of writes, of the pieces that arrive and of the      *)
(* buffers given to Read, of each direction nothing is lost, repeated or   *)
(* reordered, and no part of a header is taken for a byte: what the        *)
(* application read, what the layer holds and what is on the wire are the  *)
(* bytes of the server.  A Read that fails (a refused connection, a header *)
(* of the HTTP obfuscations in two segments) leaves what was read before a *)
(* beginning of them.  The mux alone promises nothing of what is read once *)
(* a Read of its status was short.                                         *)
NothingLost ==
    /\ DataOf(up) = Bytes(1, wrote) /\ WellFramed(up)
    /\ (~astray /\ link.failed) => got = Bytes(1, Len(got))
    /\ (~astray /\ ~link.failed) =>
           got \o DataOf(link.held \o link.under \o link.wire)
               = Bytes(1, heard)
    /\ astray => layer = "mux"
===============================================================================
