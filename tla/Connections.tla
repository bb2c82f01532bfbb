----------------------------- MODULE Connections -----------------------------
(***************************************************************************)
(* The life of a proxied connection: proxy_handler receives it from the    *)
(* network stack and blocks on the bounded queue of package tunnel, whose  *)
(* workers start one handler goroutine per connection; the handler dials,  *)
(* registers a tracker with statistic.Manager, copies both directions and  *)
(* cleans up.  The manager keeps the trackers in an LRU cache that closes  *)
(* what it evicts; its connections are also closed one by one or all       *)
(* together by the API and by the executor.                                *)
(*                                                                         *)
(* tracker.Close is two steps: Leave, which removes the tracker from the   *)
(* cache, and the Close of the remote connection.  A tracker between the   *)
(* two is in "leaving", or in sweep.at when a sweep closes it.  The same   *)
(* holds of an evicted tracker, whose callback the cache calls after it    *)
(* has released its own lock.                                              *)
(***************************************************************************)
EXTENDS Naturals, Sequences, FiniteSets

CONSTANTS
    Tcp, Udp, DnsQueries,   \* the connections, by the handler that serves them
    Capacity,               \* of the LRU cache (256)
    QueueCap                \* of tcpQueue and of udpQueue (1024)

Conns == Tcp \cup Udp \cup DnsQueries

ASSUME KindsAssumption ==
    Tcp \cap Udp = {} /\ Tcp \cap DnsQueries = {} /\ Udp \cap DnsQueries = {}
ASSUME SizesAssumption == Capacity \in Nat \ {0} /\ QueueCap \in Nat \ {0}

VARIABLES
    st,         \* where the connection's goroutines are
    tcpQueue, udpQueue,
    local,      \* the side of the application
    remote,     \* the side of the proxy or of the destination
    in, out,    \* the copies remote -> local and local -> remote
    cleaned,    \* once.Do(cleanConn) of handleUdpConn has run
    returned,   \* NewConnectionEx / NewPacketConnectionEx has returned
    lru,        \* the keys of the cache, least recently used first
    leaving,    \* removed from the cache, not yet closed
    sweep       \* a CloseAllConnections under way

conns == <<st, local, remote, in, out, cleaned, returned>>
vars  == <<conns, tcpQueue, udpQueue, lru, leaving, sweep>>

NoSweep == [on |-> FALSE, todo |-> {}, snap |-> {}, at |-> {}]
Tracked == {lru[i] : i \in 1..Len(lru)}

Init ==
    /\ st = [k \in Conns |-> "idle"]
    /\ tcpQueue = <<>> /\ udpQueue = <<>>
    /\ local = [k \in Conns |-> "none"]
    /\ remote = [k \in Conns |-> "none"]
    /\ in = [k \in Conns |-> "none"]
    /\ out = [k \in Conns |-> "none"]
    /\ cleaned = [k \in Conns |-> FALSE]
    /\ returned = [k \in Conns |-> FALSE]
    /\ lru = <<>>
    /\ leaving = {}
    /\ sweep = NoSweep

Move(k, from, to) == st[k] = from /\ st' = [st EXCEPT ![k] = to]

-----------------------------------------------------------------------------
(* From the network stack to a handler.                                    *)

(* An IPv6 source is dropped without a word and without a Close.           *)
Arrive(k) ==
    /\ \/ Move(k, "idle", "blocked") /\ UNCHANGED returned
       \/ Move(k, "idle", "dropped") /\ returned' = [returned EXCEPT ![k] = TRUE]
    /\ local' = [local EXCEPT ![k] = "open"]
    /\ UNCHANGED <<remote, in, out, cleaned, tcpQueue, udpQueue, lru, leaving, sweep>>

Enqueue(k) ==
    /\ Move(k, "blocked", "queued")
    /\ IF k \in Tcp
       THEN /\ Len(tcpQueue) < QueueCap
            /\ tcpQueue' = Append(tcpQueue, k)
            /\ UNCHANGED udpQueue
       ELSE /\ Len(udpQueue) < QueueCap
            /\ udpQueue' = Append(udpQueue, k)
            /\ UNCHANGED tcpQueue
    /\ UNCHANGED <<local, remote, in, out, cleaned, returned, lru, leaving, sweep>>

ProcessTcp ==
    /\ tcpQueue # <<>>
    /\ Move(Head(tcpQueue), "queued", "dialing")
    /\ tcpQueue' = Tail(tcpQueue)
    /\ UNCHANGED <<local, remote, in, out, cleaned, returned, udpQueue, lru,
                   leaving, sweep>>

(* Mutant: the worker serves a connection itself, one at a time.           *)
ProcessOneUdp ==
    /\ udpQueue # <<>>
    /\ \A k \in Udp : st[k] # "relay"
    /\ Move(Head(udpQueue), "queued",
            IF Head(udpQueue) \in DnsQueries THEN "resolving" ELSE "dialing")
    /\ udpQueue' = Tail(udpQueue)
    /\ UNCHANGED <<local, remote, in, out, cleaned, returned, tcpQueue, lru,
                   leaving, sweep>>

ProcessUdp ==
    /\ udpQueue # <<>>
    /\ Move(Head(udpQueue), "queued",
            IF Head(udpQueue) \in DnsQueries THEN "resolving" ELSE "dialing")
    /\ udpQueue' = Tail(udpQueue)
    /\ UNCHANGED <<local, remote, in, out, cleaned, returned, tcpQueue, lru,
                   leaving, sweep>>

-----------------------------------------------------------------------------
(* The trackers.                                                           *)

Place(s, k) == CHOOSE i \in 1..Len(s) : s[i] = k

\* The list without the element of k, if there is one.
Remove(s, k) ==
    IF \A i \in 1..Len(s) : s[i] # k
    THEN s
    ELSE [i \in 1..(Len(s) - 1) |-> IF i < Place(s, k) THEN s[i] ELSE s[i + 1]]

(* tracker.Close and the eviction callback, up to the Close of the remote. *)
Leave(k) ==
    /\ lru' = Remove(lru, k)
    /\ leaving' = leaving \cup {k}

CloseRemote(k) ==
    /\ k \in leaving
    /\ remote' = [remote EXCEPT ![k] = "closed"]
    /\ leaving' = leaving \ {k}
    /\ UNCHANGED <<st, local, in, out, cleaned, returned, tcpQueue, udpQueue,
                   lru, sweep>>

(* Mutant: what the cache evicts is not closed.                            *)
JoinDropping(k) ==
    /\ Move(k, "dialed", "relay")
    /\ in' = [in EXCEPT ![k] = "copying"]
    /\ out' = [out EXCEPT ![k] = "copying"]
    /\ lru' = Append(IF Len(lru) < Capacity THEN lru ELSE Tail(lru), k)
    /\ UNCHANGED <<local, remote, cleaned, returned, tcpQueue, udpQueue,
                   leaving, sweep>>

(* Join adds the tracker; a full cache evicts the least recently used.     *)
Join(k) ==
    /\ Move(k, "dialed", "relay")
    /\ in' = [in EXCEPT ![k] = "copying"]
    /\ out' = [out EXCEPT ![k] = "copying"]
    /\ IF Len(lru) < Capacity
       THEN lru' = Append(lru, k) /\ UNCHANGED leaving
       ELSE lru' = Append(Tail(lru), k) /\ leaving' = leaving \cup {Head(lru)}
    /\ UNCHANGED <<local, remote, cleaned, returned, tcpQueue, udpQueue, sweep>>

(* Bytes are counted: PushUploaded and PushDownloaded look the tracker up. *)
Touch(k) ==
    /\ k \in Tracked
    /\ st[k] = "relay"
    /\ lru' = Append(Remove(lru, k), k)
    /\ UNCHANGED <<conns, tcpQueue, udpQueue, leaving, sweep>>

(* Mutant: a closed connection does not leave the cache.                   *)
CloseWithoutLeave(k) ==
    /\ k \in Tracked
    /\ leaving' = leaving \cup {k}
    /\ UNCHANGED <<conns, tcpQueue, udpQueue, lru, sweep>>

(* DELETE /connections/{id}.                                               *)
CloseConnection(k) ==
    /\ k \in Tracked
    /\ Leave(k)
    /\ UNCHANGED <<conns, tcpQueue, udpQueue, sweep>>

(* CloseAllConnections: a snapshot of the values, then one Close after the *)
(* other.  What joins after the snapshot is not closed.                    *)
BeginSweep ==
    /\ ~sweep.on
    /\ sweep' = [on |-> TRUE, todo |-> Tracked, snap |-> Tracked, at |-> {}]
    /\ UNCHANGED <<conns, tcpQueue, udpQueue, lru, leaving>>

SweepNext(k) ==
    /\ sweep.on /\ sweep.at = {} /\ k \in sweep.todo
    /\ lru' = Remove(lru, k)
    /\ sweep' = [sweep EXCEPT !.todo = @ \ {k}, !.at = {k}]
    /\ UNCHANGED <<conns, tcpQueue, udpQueue, leaving>>

SweepClose(k) ==
    /\ k \in sweep.at
    /\ remote' = [remote EXCEPT ![k] = "closed"]
    /\ sweep' = [sweep EXCEPT !.at = {}]
    /\ UNCHANGED <<st, local, in, out, cleaned, returned, tcpQueue, udpQueue,
                   lru, leaving>>

(* Mutant: the last Close runs on after the return.                        *)
EndSweepEarly ==
    /\ sweep.on /\ sweep.todo = {}
    /\ sweep' = [sweep EXCEPT !.on = FALSE]
    /\ UNCHANGED <<conns, tcpQueue, udpQueue, lru, leaving>>

EndSweep ==
    /\ sweep.on /\ sweep.todo = {} /\ sweep.at = {}
    /\ sweep' = [sweep EXCEPT !.on = FALSE]
    /\ UNCHANGED <<conns, tcpQueue, udpQueue, lru, leaving>>

-----------------------------------------------------------------------------
(* The handlers.                                                           *)

DialOk(k) ==
    /\ Move(k, "dialing", "dialed")
    /\ remote' = [remote EXCEPT ![k] = "open"]
    /\ UNCHANGED <<local, in, out, cleaned, returned, tcpQueue, udpQueue, lru,
                   leaving, sweep>>

DialFail(k) ==
    /\ Move(k, "dialing", "failed")
    /\ returned' = [returned EXCEPT ![k] = TRUE]
    /\ UNCHANGED <<local, remote, in, out, cleaned, tcpQueue, udpQueue, lru,
                   leaving, sweep>>

(* handleDnsConn returns whatever dns.Handle does.                         *)
Resolve(k) ==
    /\ Move(k, "resolving", "failed")
    /\ returned' = [returned EXCEPT ![k] = TRUE]
    /\ UNCHANGED <<local, remote, in, out, cleaned, tcpQueue, udpQueue, lru,
                   leaving, sweep>>

CloseLocal(k) ==
    /\ Move(k, "failed", "done")
    /\ local' = [local EXCEPT ![k] = "closed"]
    /\ UNCHANGED <<remote, in, out, cleaned, returned, tcpQueue, udpQueue, lru,
                   leaving, sweep>>

(* Mutant: a UDP connection is cleaned up like a TCP one, by the last copy. *)
CleanLast(k) ==
    IF k \in Udp /\ ~cleaned[k] /\ "ended" \in {in[k], out[k]}
    THEN cleaned' = [cleaned EXCEPT ![k] = TRUE] /\ Leave(k)
    ELSE UNCHANGED <<cleaned, lru, leaving>>

(* The first copy of a UDP connection to end cleans up for both: tracker,  *)
(* remote and then local connection.                                       *)
CleanUdp(k) ==
    IF k \in Udp /\ ~cleaned[k]
    THEN cleaned' = [cleaned EXCEPT ![k] = TRUE] /\ Leave(k)
    ELSE UNCHANGED <<cleaned, lru, leaving>>

CloseUdp(k) ==
    /\ cleaned[k] /\ k \notin leaving /\ local[k] = "open"
    /\ local' = [local EXCEPT ![k] = "closed"]
    /\ UNCHANGED <<st, remote, in, out, cleaned, returned, tcpQueue, udpQueue,
                   lru, leaving, sweep>>

EndIn(k) ==
    /\ in[k] = "copying"
    /\ in' = [in EXCEPT ![k] = "ended"]
    /\ CleanUdp(k)
    /\ UNCHANGED <<st, local, remote, out, returned, tcpQueue, udpQueue, sweep>>

EndOut(k) ==
    /\ out[k] = "copying"
    /\ out' = [out EXCEPT ![k] = "ended"]
    /\ CleanUdp(k)
    /\ UNCHANGED <<st, local, remote, in, returned, tcpQueue, udpQueue, sweep>>

(* Mutant: the handler waits for the application to close.                 *)
FinishAfterClose(k) ==
    /\ in[k] = "ended" /\ out[k] = "ended" /\ local[k] = "closed"
    /\ Move(k, "relay", "finished")
    /\ returned' = [returned EXCEPT ![k] = TRUE]
    /\ UNCHANGED <<local, remote, in, out, cleaned, tcpQueue, udpQueue, lru,
                   leaving, sweep>>

(* Both copies have ended: the caller in the network stack is released,    *)
(* then the TCP handler closes the local side and the tracker.             *)
Finish(k) ==
    /\ in[k] = "ended" /\ out[k] = "ended"
    /\ Move(k, "relay", "finished")
    /\ returned' = [returned EXCEPT ![k] = TRUE]
    /\ UNCHANGED <<local, remote, in, out, cleaned, tcpQueue, udpQueue, lru,
                   leaving, sweep>>

CloseTcp(k) ==
    /\ k \in Tcp /\ st[k] = "finished" /\ local[k] = "open"
    /\ local' = [local EXCEPT ![k] = "closed"]
    /\ Leave(k)
    /\ UNCHANGED <<st, remote, in, out, cleaned, returned, tcpQueue, udpQueue,
                   sweep>>

HandlerReturns(k) ==
    /\ local[k] = "closed" /\ k \notin leaving
    /\ Move(k, "finished", "done")
    /\ UNCHANGED <<local, remote, in, out, cleaned, returned, tcpQueue, udpQueue,
                   lru, leaving, sweep>>

-----------------------------------------------------------------------------
Next ==
    \/ \E k \in Conns :
        \/ Arrive(k) \/ Enqueue(k) \/ DialOk(k) \/ DialFail(k) \/ Resolve(k)
        \/ CloseLocal(k) \/ Join(k) \/ Touch(k) \/ CloseConnection(k)
        \/ CloseRemote(k) \/ SweepNext(k) \/ SweepClose(k) \/ EndIn(k) \/ EndOut(k)
        \/ Finish(k) \/ CloseTcp(k) \/ CloseUdp(k) \/ HandlerReturns(k)
    \/ ProcessTcp \/ ProcessUdp \/ BeginSweep \/ EndSweep

(* A read of a closed connection fails, so the copy from it ends.          *)
InMustEnd(k)  == remote[k] = "closed" /\ EndIn(k)
OutMustEnd(k) == local[k] = "closed" /\ EndOut(k)

(* Goroutines run, and senders on a full channel are served in turn.  A    *)
(* dial or a DNS exchange need not end, nor the first Close of a remote    *)
(* connection, for which some transports wait (see Outbound); a Close of   *)
(* what is closed returns.  Nothing makes a peer stop sending.             *)
Fairness ==
    /\ \A k \in Conns :
        /\ SF_vars(Enqueue(k))
        /\ WF_vars(remote[k] = "closed" /\ CloseRemote(k))
        /\ WF_vars(InMustEnd(k)) /\ WF_vars(OutMustEnd(k)) /\ WF_vars(Finish(k))
        /\ WF_vars(CloseTcp(k)) /\ WF_vars(CloseUdp(k)) /\ WF_vars(HandlerReturns(k))
    /\ WF_vars(ProcessTcp) /\ WF_vars(ProcessUdp)

SafeSpec == Init /\ [][Next]_vars
Spec     == SafeSpec /\ Fairness

-----------------------------------------------------------------------------
(* Properties.                                                             *)

(* A remote connection whose handler relays is known to the manager, or is *)
(* about to be closed: nothing flows that the API does not show and cannot *)
(* close.  Evictions, sweeps, single closes and handlers race for it.      *)
RelayedIsTracked ==
    \A k \in Conns : st[k] \in {"relay", "finished"} /\ remote[k] = "open" =>
        k \in Tracked \/ k \in leaving \/ k \in sweep.at

(* The other way round: what the manager keeps is live.  No tracker stays  *)
(* behind a handler that is gone, and none was closed before.              *)
TrackedIsLive ==
    \A k \in Tracked : st[k] \in {"relay", "finished"} /\ remote[k] = "open"

(* CloseAllConnections returns with every connection of its snapshot       *)
(* closed, also those that others were closing or evicting meanwhile.      *)
SweepCloses ==
    [][sweep.on /\ ~sweep'.on => \A k \in sweep.snap : remote[k] = "closed"]_vars

(* Whatever closes the remote side of a UDP connection, its handler ends   *)
(* without help from a peer.                                               *)
ClosedUdpReturns == \A k \in Udp : remote[k] = "closed" ~> st[k] = "done"

(* A TCP handler needs one more thing: that the application stops sending, *)
(* or sends into the closed connection.                                    *)
ClosedTcpReturns ==
    \A k \in Tcp :
        (remote[k] = "closed" ~> out[k] = "ended") =>
            (remote[k] = "closed" ~> st[k] = "done")

(* However full the queues, and although the dials of those before it may  *)
(* never end, an accepted connection gets its handler goroutine.           *)
AcceptedIsServed ==
    \A k \in Conns : st[k] = "blocked" ~> st[k] \notin {"blocked", "queued"}
=============================================================================
