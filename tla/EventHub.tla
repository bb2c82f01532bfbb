------------------------------- MODULE EventHub -------------------------------
(***************************************************************************)
(* The hub of the event websocket.  Hub.run owns the set of clients and is *)
(* the only goroutine that sends on or closes a client's send channel; it  *)
(* never blocks on one: a client whose channel is full is dropped.  Each   *)
(* client has a readPump, which hands what it reads to the hub, and a      *)
(* writePump, which writes what the hub sent, all of it that is waiting in *)
(* one frame.  Either pump closes the connection when it ends, which ends  *)
(* the other.                                                              *)
(***************************************************************************)
EXTENDS Naturals, Sequences

CONSTANTS
    Clients,
    SendCap,      \* the capacity of client.send, 256
    MaxMessages   \* bound: messages read from the clients

ASSUME HubAssumption == SendCap \in Nat \ {0} /\ MaxMessages \in Nat

VARIABLES
    members,    \* hub.clients
    send,       \* client -> what is in its channel
    sendOpen,   \* client -> the channel is not closed
    connOpen,   \* client -> the websocket is not closed
    readPump,   \* client -> "none", "reading", "sending", "leaving",
                \*           "closing" or "done"
    writePump,  \* client -> "none", "waiting", "frame", "closing" or "done"
    frame,      \* client -> messages taken from the channel, not yet written
    hubDead,    \* run closed a closed channel or sent on one: the end
    events,     \* history: the messages the hub has broadcast
    joinedAt,   \* history: client -> how many before it was registered
    written     \* history: client -> the messages in frames it was sent

hubVars == <<members, send, sendOpen, connOpen, readPump, writePump, frame,
             hubDead, events, joinedAt, written>>

HubInit ==
    /\ members = {}
    /\ send = [c \in Clients |-> <<>>]
    /\ sendOpen = [c \in Clients |-> TRUE]
    /\ connOpen = [c \in Clients |-> FALSE]
    /\ readPump = [c \in Clients |-> "none"]
    /\ writePump = [c \in Clients |-> "none"]
    /\ frame = [c \in Clients |-> <<>>]
    /\ hubDead = FALSE
    /\ events = <<>>
    /\ joinedAt = [c \in Clients |-> 0]
    /\ written = [c \in Clients |-> <<>>]

-------------------------------------------------------------------------------
(* Hub.run; each of its three channels is unbuffered, so that the goroutine *)
(* that sends on it moves in the same step.                                 *)

\* serveEvent: an upgraded connection is registered, then its pumps start.
Register(c) ==
    /\ ~hubDead /\ readPump[c] = "none"
    /\ members' = members \cup {c}
    /\ connOpen' = [connOpen EXCEPT ![c] = TRUE]
    /\ readPump' = [readPump EXCEPT ![c] = "reading"]
    /\ writePump' = [writePump EXCEPT ![c] = "waiting"]
    /\ joinedAt' = [joinedAt EXCEPT ![c] = Len(events)]
    /\ UNCHANGED <<send, sendOpen, frame, hubDead, events, written>>

(* Mutant: a client that was dropped is unregistered again.                *)
UnregisterAny(c) ==
    /\ ~hubDead /\ readPump[c] = "leaving"
    /\ members' = members \ {c}
    /\ sendOpen' = [sendOpen EXCEPT ![c] = FALSE]
    /\ hubDead' = ~sendOpen[c]
    /\ readPump' = [readPump EXCEPT ![c] = "closing"]
    /\ UNCHANGED <<send, connOpen, writePump, frame, events, joinedAt,
                   written>>

\* A client that is no longer in the map has its channel closed already.
Unregister(c) ==
    /\ ~hubDead /\ readPump[c] = "leaving"
    /\ members' = members \ {c}
    /\ sendOpen' = [sendOpen EXCEPT ![c] = @ /\ c \notin members]
    /\ hubDead' = (c \in members /\ ~sendOpen[c])
    /\ readPump' = [readPump EXCEPT ![c] = "closing"]
    /\ UNCHANGED <<send, connOpen, writePump, frame, events, joinedAt,
                   written>>

Full(c) == Len(send[c]) >= SendCap

(* Mutant: a message that does not fit is left out.                        *)
BroadcastSkips(m) ==
    /\ ~hubDead
    /\ send' = [c \in Clients |-> IF c \in members /\ ~Full(c)
                                  THEN Append(send[c], m) ELSE send[c]]
    /\ events' = Append(events, m)
    /\ hubDead' = \E c \in members : ~sendOpen[c]
    /\ UNCHANGED <<members, sendOpen, connOpen, writePump, frame, joinedAt,
                   written>>

Broadcast(m) ==
    /\ ~hubDead
    /\ send' = [c \in Clients |-> IF c \in members /\ ~Full(c)
                                  THEN Append(send[c], m) ELSE send[c]]
    /\ sendOpen' = [c \in Clients |->
                        sendOpen[c] /\ (c \in members => ~Full(c))]
    /\ members' = {c \in members : ~Full(c)}
    /\ events' = Append(events, m)
    /\ hubDead' = \E c \in members : ~sendOpen[c]
    /\ UNCHANGED <<connOpen, writePump, frame, joinedAt, written>>

-------------------------------------------------------------------------------
(* readPump                                                                *)
ReadMessage(c) ==
    /\ readPump[c] = "reading" /\ connOpen[c]
    /\ Len(events) < MaxMessages
    /\ readPump' = [readPump EXCEPT ![c] = "sending"]
    /\ UNCHANGED <<members, send, sendOpen, connOpen, writePump, frame,
                   hubDead, events, joinedAt, written>>

HandToHub(c) ==
    /\ readPump[c] = "sending"
    /\ Broadcast(Len(events) + 1)
    /\ readPump' = [readPump EXCEPT ![c] = "reading"]

\* The connection is closed, its peer went away, or no pong came in time.
ReadFails(c) ==
    /\ readPump[c] = "reading"
    /\ readPump' = [readPump EXCEPT ![c] = "leaving"]
    /\ UNCHANGED <<members, send, sendOpen, connOpen, writePump, frame,
                   hubDead, events, joinedAt, written>>

ReadPumpCloses(c) ==
    /\ readPump[c] = "closing"
    /\ readPump' = [readPump EXCEPT ![c] = "done"]
    /\ connOpen' = [connOpen EXCEPT ![c] = FALSE]
    /\ UNCHANGED <<members, send, sendOpen, writePump, frame, hubDead, events,
                   joinedAt, written>>

-------------------------------------------------------------------------------
(* writePump                                                               *)

\* It takes the first message and then as many as len(c.send) says: the hub
\* may add more, or close the channel, in the meantime.
TakeMessages(c) ==
    /\ writePump[c] = "waiting" /\ send[c] # <<>>
    /\ \E n \in 1..Len(send[c]) :
         /\ frame' = [frame EXCEPT ![c] = SubSeq(send[c], 1, n)]
         /\ send' = [send EXCEPT ![c] = SubSeq(@, n + 1, Len(@))]
    /\ writePump' = [writePump EXCEPT ![c] = "frame"]
    /\ UNCHANGED <<members, sendOpen, connOpen, readPump, hubDead, events,
                   joinedAt, written>>

WriteFrame(c) ==
    /\ writePump[c] = "frame" /\ connOpen[c]
    /\ written' = [written EXCEPT ![c] = @ \o frame[c]]
    /\ frame' = [frame EXCEPT ![c] = <<>>]
    /\ writePump' = [writePump EXCEPT ![c] = "waiting"]
    /\ UNCHANGED <<members, send, sendOpen, connOpen, readPump, hubDead,
                   events, joinedAt>>

\* A write fails on a closed connection, or ten seconds after it began; so
\* does the ping of an idle pump.
FrameFails(c) ==
    /\ writePump[c] \in {"waiting", "frame"}
    /\ writePump' = [writePump EXCEPT ![c] = "closing"]
    /\ UNCHANGED <<members, send, sendOpen, connOpen, readPump, frame,
                   hubDead, events, joinedAt, written>>

\* The channel is closed and empty: a close message ends the pump.
SendClosed(c) ==
    /\ writePump[c] = "waiting" /\ send[c] = <<>> /\ ~sendOpen[c]
    /\ writePump' = [writePump EXCEPT ![c] = "closing"]
    /\ UNCHANGED <<members, send, sendOpen, connOpen, readPump, frame,
                   hubDead, events, joinedAt, written>>

WritePumpCloses(c) ==
    /\ writePump[c] = "closing"
    /\ writePump' = [writePump EXCEPT ![c] = "done"]
    /\ connOpen' = [connOpen EXCEPT ![c] = FALSE]
    /\ UNCHANGED <<members, send, sendOpen, readPump, frame, hubDead, events,
                   joinedAt, written>>

-------------------------------------------------------------------------------
HubStep(c) ==
    \/ Unregister(c) \/ HandToHub(c) \/ ReadPumpCloses(c)
    \/ TakeMessages(c) \/ WriteFrame(c) \/ SendClosed(c) \/ WritePumpCloses(c)
    \/ ~connOpen[c] /\ ReadFails(c)
    \/ (~connOpen[c] \/ writePump[c] = "frame") /\ FrameFails(c)

HubNext ==
    \E c \in Clients : \/ Register(c) \/ ReadMessage(c)
                       \/ ReadFails(c) \/ FrameFails(c) \/ HubStep(c)

\* The goroutines of a client and of the hub run on; that a peer sends, or
\* that it goes away, is not assumed.
HubFairness == \A c \in Clients : WF_hubVars(HubStep(c))

HubSpec == HubInit /\ [][HubNext]_hubVars /\ HubFairness

-------------------------------------------------------------------------------
\* A client is sent every message broadcast since it was registered, once and
\* in order, for as long as it is in the hub; one that the hub dropped has
\* missed none before that.
MissesNothing ==
    \A c \in Clients :
        LET got  == written[c] \o frame[c] \o send[c]
            from == joinedAt[c]
        IN  /\ Len(got) <= Len(events) - from
            /\ got = SubSeq(events, from + 1, from + Len(got))
            /\ c \in members => Len(got) = Len(events) - from

\* When the hub drops a client, its peer goes away or a write fails, both of
\* its goroutines end, and the hub itself runs on: it closes no channel
\* twice and sends on none that is closed.
PumpsEnd ==
    \A c \in Clients :
        (\/ writePump[c] = "closing" \/ readPump[c] = "leaving"
         \/ writePump[c] # "none" /\ c \notin members)
        ~> readPump[c] = "done" /\ writePump[c] = "done"
===============================================================================
