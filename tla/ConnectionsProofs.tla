-------------------------- MODULE ConnectionsProofs --------------------------
(***************************************************************************)
(* What holds of Connections for any connections, any capacity of the      *)
(* cache and any length of the queues: what relays is tracked, what is     *)
(* tracked is live, and a sweep closes its snapshot.  And of Counters, for *)
(* any relays: the bytes they move are counted once.  And of Handshakes,   *)
(* for any payload: no handshake takes a part of it.                       *)
(***************************************************************************)
EXTENDS Connections, Counters, Handshakes, FiniteSetTheorems,
        SequenceTheorems, WellFoundedInduction, TLAPS

Places  == {"idle", "dropped", "blocked", "queued", "dialing", "resolving",
            "dialed", "failed", "relay", "finished", "done"}
Outside == Places \ {"relay", "finished", "done"}

TypeOK ==
    /\ st \in [Conns -> Places]
    /\ tcpQueue \in Seq(Conns) /\ udpQueue \in Seq(Conns)
    /\ local \in [Conns -> {"none", "open", "closed"}]
    /\ remote \in [Conns -> {"none", "open", "closed"}]
    /\ in \in [Conns -> {"none", "copying", "ended"}]
    /\ out \in [Conns -> {"none", "copying", "ended"}]
    /\ cleaned \in [Conns -> BOOLEAN] /\ returned \in [Conns -> BOOLEAN]
    /\ lru \in Seq(Conns)
    /\ leaving \subseteq Conns
    /\ sweep \in [on : BOOLEAN, todo : SUBSET Conns, snap : SUBSET Conns,
                  at : SUBSET Conns]

(* The list of the cache has one element per key.                          *)
Distinct(s) == \A i, j \in 1..Len(s) : s[i] = s[j] => i = j

(* Who is on the way to the Close of the remote connection.                *)
Closing == leaving \cup sweep.at

(* Before its handler joins, a connection is known to nobody, and only     *)
(* that handler has touched it.                                            *)
Unjoined ==
    \A k \in Conns : st[k] \in Outside =>
        /\ k \notin Tracked \cup Closing \cup sweep.todo
        /\ k \notin sweep.snap
        /\ in[k] = "none" /\ out[k] = "none" /\ ~cleaned[k]
        /\ st[k] = "dialed" => remote[k] = "open" /\ local[k] = "open"
        /\ st[k] = "failed" => local[k] = "open"
        /\ st[k] \in {"blocked", "queued", "dialing", "resolving"} =>
              local[k] = "open"

(* A tracker in the cache is one nobody closes: its relay goes on, and     *)
(* neither its handler nor its clean up has closed it.                     *)
TrackedIsOpen ==
    \A k \in Tracked :
        /\ k \notin Closing
        /\ local[k] = "open" /\ ~cleaned[k]

(* What a sweep has passed is closed, or about to be.                      *)
SweptIsClosed ==
    /\ sweep.on => \A k \in sweep.snap :
                       k \in sweep.todo \cup sweep.at \/ remote[k] = "closed"
    /\ sweep.at # {} => sweep.on
    /\ \A j, k \in sweep.at : j = k

IInv ==
    /\ TypeOK /\ Distinct(lru) /\ Unjoined /\ TrackedIsOpen /\ SweptIsClosed
    /\ TrackedIsLive /\ RelayedIsTracked

(* The keys of the cache are connections.                                  *)
LEMMA TrackedConns == TypeOK => Tracked \subseteq Conns
  BY DEF TypeOK, Tracked

-----------------------------------------------------------------------------
(* The list of the cache.                                                  *)

Keys(s) == {s[i] : i \in 1..Len(s)}

(* Unlinking a key takes it, and only it, out of the list.                 *)
LEMMA RemoveKey ==
    ASSUME NEW s \in Seq(Conns), Distinct(s), NEW k
    PROVE  /\ Remove(s, k) \in Seq(Conns) /\ Distinct(Remove(s, k))
           /\ Keys(Remove(s, k)) = Keys(s) \ {k}
<1>1. CASE \A i \in 1..Len(s) : s[i] # k
  BY <1>1 DEF Remove, Keys
<1>2. CASE \E i \in 1..Len(s) : s[i] = k
  <2> DEFINE p == Place(s, k)
             t == [i \in 1..(Len(s) - 1) |-> IF i < p THEN s[i] ELSE s[i + 1]]
  <2>1. p \in 1..Len(s) /\ s[p] = k
    BY <1>2 DEF Place
  <2>2. Remove(s, k) = t
    BY <1>2 DEF Remove
  <2> HIDE DEF p
  <2>3. Len(s) \in Nat /\ p \in Nat
    BY <2>1
  <2>4. /\ t \in Seq(Conns) /\ Len(t) = Len(s) - 1
        /\ \A i \in 1..Len(t) : t[i] = IF i < p THEN s[i] ELSE s[i + 1]
    BY <2>1, <2>3
  <2> HIDE DEF t
  <2>5. Distinct(t)
    <3> SUFFICES ASSUME NEW i \in 1..Len(t), NEW j \in 1..Len(t), t[i] = t[j]
                 PROVE  i = j
      BY DEF Distinct
    <3>1. CASE i < p /\ j < p
      BY <2>3, <2>4, <3>1 DEF Distinct
    <3>2. CASE i < p /\ ~(j < p)
      BY <2>3, <2>4, <3>2 DEF Distinct
    <3>3. CASE ~(i < p) /\ j < p
      BY <2>3, <2>4, <3>3 DEF Distinct
    <3>4. CASE ~(i < p) /\ ~(j < p)
      BY <2>3, <2>4, <3>4 DEF Distinct
    <3> QED
      BY <3>1, <3>2, <3>3, <3>4
  <2>6. ASSUME NEW x \in Keys(t) PROVE x \in Keys(s) \ {k}
    <3>1. PICK i \in 1..Len(t) : x = t[i]
      BY <2>6 DEF Keys
    <3>2. CASE i < p
      BY <2>1, <2>3, <2>4, <3>1, <3>2 DEF Keys, Distinct
    <3>3. CASE ~(i < p)
      BY <2>1, <2>3, <2>4, <3>1, <3>3 DEF Keys, Distinct
    <3> QED
      BY <3>2, <3>3
  <2>7. ASSUME NEW x \in Keys(s) \ {k} PROVE x \in Keys(t)
    <3>1. PICK i \in 1..Len(s) : x = s[i] /\ i # p
      BY <2>1, <2>7 DEF Keys
    <3>2. CASE i < p
      <4>1. i \in 1..Len(t) /\ t[i] = x
        BY <2>1, <2>3, <2>4, <3>1, <3>2
      <4> QED
        BY <4>1 DEF Keys
    <3>3. CASE ~(i < p)
      <4>1. i - 1 \in 1..Len(t) /\ t[i - 1] = x
        BY <2>1, <2>3, <2>4, <3>1, <3>3
      <4> QED
        BY <4>1 DEF Keys
    <3> QED
      BY <3>1, <3>2, <3>3
  <2> QED
    BY <2>2, <2>4, <2>5, <2>6, <2>7
<1> QED
  BY <1>1, <1>2

(* A new key goes to the end of the list.                                  *)
LEMMA AppendKey ==
    ASSUME NEW s \in Seq(Conns), Distinct(s), NEW k \in Conns, k \notin Keys(s)
    PROVE  /\ Append(s, k) \in Seq(Conns) /\ Distinct(Append(s, k))
           /\ Keys(Append(s, k)) = Keys(s) \cup {k}
<1> DEFINE t == Append(s, k)
<1>1. /\ t \in Seq(Conns) /\ Len(t) = Len(s) + 1 /\ Len(s) \in Nat
      /\ \A i \in 1..Len(s) : t[i] = s[i]
      /\ t[Len(s) + 1] = k
  OBVIOUS
<1> HIDE DEF t
<1>2. Distinct(t)
  BY <1>1 DEF Distinct, Keys
<1>3. Keys(t) = Keys(s) \cup {k}
  <2>1. 1..Len(t) = 1..Len(s) \cup {Len(s) + 1}
    BY <1>1
  <2> QED
    BY <1>1, <2>1 DEF Keys
<1> QED
  BY <1>1, <1>2, <1>3 DEF t

(* A full cache drops the key at the head of the list.                     *)
LEMMA DropKey ==
    ASSUME NEW s \in Seq(Conns), Distinct(s), s # <<>>
    PROVE  /\ Tail(s) \in Seq(Conns) /\ Distinct(Tail(s))
           /\ Head(s) \in Keys(s)
           /\ Keys(Tail(s)) = Keys(s) \ {Head(s)}
<1> DEFINE t == Tail(s)
<1>1. /\ t \in Seq(Conns) /\ Len(s) \in Nat \ {0} /\ Len(t) = Len(s) - 1
      /\ \A i \in 1..Len(t) : t[i] = s[i + 1]
      /\ Head(s) = s[1]
  OBVIOUS
<1> HIDE DEF t
<1>2. Distinct(t)
  BY <1>1 DEF Distinct
<1>3. Head(s) \in Keys(s)
  BY <1>1 DEF Keys
<1>4. ASSUME NEW x \in Keys(t) PROVE x \in Keys(s) \ {Head(s)}
  <2>1. PICK i \in 1..Len(t) : x = t[i]
    BY <1>4 DEF Keys
  <2>2. i + 1 \in 1..Len(s) /\ x = s[i + 1] /\ 1 \in 1..Len(s) /\ i + 1 # 1
    BY <1>1, <2>1
  <2> QED
    BY <1>1, <2>2 DEF Keys, Distinct
<1>5. ASSUME NEW x \in Keys(s) \ {Head(s)} PROVE x \in Keys(t)
  <2>1. PICK i \in 1..Len(s) : x = s[i] /\ i # 1
    BY <1>1, <1>5 DEF Keys
  <2>2. i - 1 \in 1..Len(t) /\ t[i - 1] = x
    BY <1>1, <2>1
  <2> QED
    BY <2>2 DEF Keys
<1> QED
  BY <1>1, <1>2, <1>3, <1>4, <1>5 DEF t

-----------------------------------------------------------------------------
(* The steps that leave the manager alone.                                 *)

(* The network stack hands a connection over or drops it.                  *)
LEMMA ArriveKeeps ==
    ASSUME IInv, NEW k \in Conns, Arrive(k) PROVE IInv'
<1>1. TypeOK'
  BY DEF Arrive, Move, IInv, TypeOK, Places
<1>2. Distinct(lru)' /\ Tracked' = Tracked /\ Closing' = Closing
  BY DEF Arrive, IInv, Tracked, Closing
<1>3. Unjoined'
  BY <1>2 DEF Arrive, Move, IInv, TypeOK, Unjoined, Outside
<1>4. TrackedIsOpen'
  BY <1>2 DEF Arrive, IInv, TrackedIsOpen
<1>5. SweptIsClosed'
  BY <1>2 DEF Arrive, IInv, SweptIsClosed
<1>6. TrackedIsLive'
  <2>1. k \notin Tracked
    BY DEF Arrive, Move, IInv, Unjoined, Outside, Places
  <2> QED
    BY <1>2, <2>1, TrackedConns DEF Arrive, Move, IInv, TypeOK, TrackedIsLive
<1>7. RelayedIsTracked'
  BY <1>2 DEF Arrive, Move, IInv, TypeOK, Closing, RelayedIsTracked
<1> QED
  BY <1>1, <1>2, <1>3, <1>4, <1>5, <1>6, <1>7 DEF IInv

(* A place in the queue.                                                   *)
LEMMA EnqueueKeeps ==
    ASSUME IInv, NEW k \in Conns, Enqueue(k) PROVE IInv'
<1>1. TypeOK'
  <2>1. st' \in [Conns -> Places]
    BY DEF Enqueue, Move, IInv, TypeOK, Places
  <2>2. tcpQueue' \in Seq(Conns) /\ udpQueue' \in Seq(Conns)
    <3>1. tcpQueue \in Seq(Conns) /\ udpQueue \in Seq(Conns)
      BY DEF IInv, TypeOK
    <3>2. CASE k \in Tcp
      <4>1. tcpQueue' = Append(tcpQueue, k) /\ udpQueue' = udpQueue
        BY <3>2 DEF Enqueue
      <4> QED
        BY <3>1, <4>1
    <3>3. CASE k \notin Tcp
      <4>1. udpQueue' = Append(udpQueue, k) /\ tcpQueue' = tcpQueue
        BY <3>3 DEF Enqueue
      <4> QED
        BY <3>1, <4>1
    <3> QED
      BY <3>2, <3>3
  <2> QED
    BY <2>1, <2>2 DEF Enqueue, IInv, TypeOK
<1>2. Distinct(lru)' /\ Tracked' = Tracked /\ Closing' = Closing
  BY DEF Enqueue, IInv, Tracked, Closing
<1>3. Unjoined'
  BY <1>2 DEF Enqueue, Move, IInv, TypeOK, Unjoined, Outside
<1>4. TrackedIsOpen'
  BY <1>2 DEF Enqueue, IInv, TrackedIsOpen
<1>5. SweptIsClosed'
  BY <1>2 DEF Enqueue, IInv, SweptIsClosed
<1>6. TrackedIsLive'
  BY <1>2 DEF Enqueue, Move, IInv, TrackedIsLive
<1>7. RelayedIsTracked'
  BY <1>2 DEF Enqueue, Move, IInv, Closing, RelayedIsTracked
<1> QED
  BY <1>1, <1>2, <1>3, <1>4, <1>5, <1>6, <1>7 DEF IInv

(* The dial opens the remote side.                                         *)
LEMMA DialOkKeeps ==
    ASSUME IInv, NEW k \in Conns, DialOk(k) PROVE IInv'
<1>1. TypeOK'
  BY DEF DialOk, Move, IInv, TypeOK, Places
<1>2. Distinct(lru)' /\ Tracked' = Tracked /\ Closing' = Closing
  BY DEF DialOk, IInv, Tracked, Closing
<1>3. Unjoined'
  BY <1>2 DEF DialOk, Move, IInv, TypeOK, Unjoined, Outside
<1>4. TrackedIsOpen'
  BY <1>2 DEF DialOk, IInv, TrackedIsOpen
<1>5. SweptIsClosed'
  BY <1>2 DEF DialOk, Move, IInv, TypeOK, Unjoined, SweptIsClosed, Outside
<1>6. TrackedIsLive'
  BY <1>2 DEF DialOk, Move, IInv, TrackedIsLive
<1>7. RelayedIsTracked'
  BY <1>2 DEF DialOk, Move, IInv, Closing, RelayedIsTracked
<1> QED
  BY <1>1, <1>2, <1>3, <1>4, <1>5, <1>6, <1>7 DEF IInv

(* The dial fails.                                                         *)
LEMMA DialFailKeeps ==
    ASSUME IInv, NEW k \in Conns, DialFail(k) PROVE IInv'
<1>1. TypeOK'
  BY DEF DialFail, Move, IInv, TypeOK, Places
<1>2. Distinct(lru)' /\ Tracked' = Tracked /\ Closing' = Closing
  BY DEF DialFail, IInv, Tracked, Closing
<1>3. Unjoined'
  BY <1>2 DEF DialFail, Move, IInv, TypeOK, Unjoined, Outside
<1>4. TrackedIsOpen'
  BY <1>2 DEF DialFail, IInv, TrackedIsOpen
<1>5. SweptIsClosed'
  BY <1>2 DEF DialFail, IInv, SweptIsClosed
<1>6. TrackedIsLive'
  BY <1>2 DEF DialFail, Move, IInv, TrackedIsLive
<1>7. RelayedIsTracked'
  BY <1>2 DEF DialFail, Move, IInv, Closing, RelayedIsTracked
<1> QED
  BY <1>1, <1>2, <1>3, <1>4, <1>5, <1>6, <1>7 DEF IInv

(* A DNS query is answered.                                                *)
LEMMA ResolveKeeps ==
    ASSUME IInv, NEW k \in Conns, Resolve(k) PROVE IInv'
<1>1. TypeOK'
  BY DEF Resolve, Move, IInv, TypeOK, Places
<1>2. Distinct(lru)' /\ Tracked' = Tracked /\ Closing' = Closing
  BY DEF Resolve, IInv, Tracked, Closing
<1>3. Unjoined'
  BY <1>2 DEF Resolve, Move, IInv, TypeOK, Unjoined, Outside
<1>4. TrackedIsOpen'
  BY <1>2 DEF Resolve, IInv, TrackedIsOpen
<1>5. SweptIsClosed'
  BY <1>2 DEF Resolve, IInv, SweptIsClosed
<1>6. TrackedIsLive'
  BY <1>2 DEF Resolve, Move, IInv, TrackedIsLive
<1>7. RelayedIsTracked'
  BY <1>2 DEF Resolve, Move, IInv, Closing, RelayedIsTracked
<1> QED
  BY <1>1, <1>2, <1>3, <1>4, <1>5, <1>6, <1>7 DEF IInv

(* The handler of a connection without a tracker closes it.                *)
LEMMA CloseLocalKeeps ==
    ASSUME IInv, NEW k \in Conns, CloseLocal(k) PROVE IInv'
<1>1. TypeOK'
  BY DEF CloseLocal, Move, IInv, TypeOK, Places
<1>2. Distinct(lru)' /\ Tracked' = Tracked /\ Closing' = Closing
  BY DEF CloseLocal, IInv, Tracked, Closing
<1>3. Unjoined'
  BY <1>2 DEF CloseLocal, Move, IInv, TypeOK, Unjoined, Outside
<1>4. TrackedIsOpen'
  BY <1>2 DEF CloseLocal, Move, IInv, Unjoined, TrackedIsOpen, Outside, Places
<1>5. SweptIsClosed'
  BY <1>2 DEF CloseLocal, IInv, SweptIsClosed
<1>6. TrackedIsLive'
  BY <1>2 DEF CloseLocal, Move, IInv, TrackedIsLive
<1>7. RelayedIsTracked'
  BY <1>2 DEF CloseLocal, Move, IInv, Closing, RelayedIsTracked
<1> QED
  BY <1>1, <1>2, <1>3, <1>4, <1>5, <1>6, <1>7 DEF IInv

(* The clean up closes the local side.                                     *)
LEMMA CloseUdpKeeps ==
    ASSUME IInv, NEW k \in Conns, CloseUdp(k) PROVE IInv'
<1>1. TypeOK'
  BY DEF CloseUdp, IInv, TypeOK
<1>2. Distinct(lru)' /\ Tracked' = Tracked /\ Closing' = Closing
  BY DEF CloseUdp, IInv, Tracked, Closing
<1>3. Unjoined'
  BY <1>2 DEF CloseUdp, IInv, Unjoined
<1>4. TrackedIsOpen'
  BY <1>2 DEF CloseUdp, IInv, TrackedIsOpen
<1>5. SweptIsClosed'
  BY <1>2 DEF CloseUdp, IInv, SweptIsClosed
<1>6. TrackedIsLive'
  BY <1>2 DEF CloseUdp, IInv, TrackedIsLive
<1>7. RelayedIsTracked'
  BY <1>2 DEF CloseUdp, IInv, Closing, RelayedIsTracked
<1> QED
  BY <1>1, <1>2, <1>3, <1>4, <1>5, <1>6, <1>7 DEF IInv

(* Both copies have ended.                                                 *)
LEMMA FinishKeeps ==
    ASSUME IInv, NEW k \in Conns, Finish(k) PROVE IInv'
<1>1. TypeOK'
  BY DEF Finish, Move, IInv, TypeOK, Places
<1>2. Distinct(lru)' /\ Tracked' = Tracked /\ Closing' = Closing
  BY DEF Finish, IInv, Tracked, Closing
<1>3. Unjoined'
  BY <1>2 DEF Finish, Move, IInv, Unjoined, Outside
<1>4. TrackedIsOpen'
  BY <1>2 DEF Finish, IInv, TrackedIsOpen
<1>5. SweptIsClosed'
  BY <1>2 DEF Finish, IInv, SweptIsClosed
<1>6. TrackedIsLive'
  BY <1>2 DEF Finish, Move, IInv, TrackedIsLive
<1>7. RelayedIsTracked'
  BY <1>2 DEF Finish, Move, IInv, Closing, RelayedIsTracked
<1> QED
  BY <1>1, <1>2, <1>3, <1>4, <1>5, <1>6, <1>7 DEF IInv

(* The handler returns, its tracker has left.                              *)
LEMMA HandlerReturnsKeeps ==
    ASSUME IInv, NEW k \in Conns, HandlerReturns(k) PROVE IInv'
<1>1. TypeOK'
  BY DEF HandlerReturns, Move, IInv, TypeOK, Places
<1>2. Distinct(lru)' /\ Tracked' = Tracked /\ Closing' = Closing
  BY DEF HandlerReturns, IInv, Tracked, Closing
<1>3. Unjoined'
  BY <1>2 DEF HandlerReturns, Move, IInv, Unjoined, Outside
<1>4. TrackedIsOpen'
  BY <1>2 DEF HandlerReturns, IInv, TrackedIsOpen
<1>5. SweptIsClosed'
  BY <1>2 DEF HandlerReturns, IInv, SweptIsClosed
<1>6. TrackedIsLive'
  BY <1>2 DEF HandlerReturns, Move, IInv, TrackedIsOpen, TrackedIsLive
<1>7. RelayedIsTracked'
  BY <1>2 DEF HandlerReturns, Move, IInv, Closing, RelayedIsTracked
<1> QED
  BY <1>1, <1>2, <1>3, <1>4, <1>5, <1>6, <1>7 DEF IInv

(* A worker takes a connection from the queue.                             *)
LEMMA ProcessTcpKeeps ==
    ASSUME IInv, ProcessTcp PROVE IInv'
<1>1. TypeOK'
  BY DEF ProcessTcp, Move, IInv, TypeOK, Places
<1>2. Distinct(lru)' /\ Tracked' = Tracked /\ Closing' = Closing
  BY DEF ProcessTcp, IInv, Tracked, Closing
<1>3. Unjoined'
  BY <1>2 DEF ProcessTcp, Move, IInv, TypeOK, Unjoined, Outside
<1>4. TrackedIsOpen'
  BY <1>2 DEF ProcessTcp, IInv, TrackedIsOpen
<1>5. SweptIsClosed'
  BY <1>2 DEF ProcessTcp, IInv, SweptIsClosed
<1>6. TrackedIsLive'
  BY <1>2 DEF ProcessTcp, Move, IInv, TrackedIsLive
<1>7. RelayedIsTracked'
  BY <1>2 DEF ProcessTcp, Move, IInv, Closing, RelayedIsTracked
<1> QED
  BY <1>1, <1>2, <1>3, <1>4, <1>5, <1>6, <1>7 DEF IInv

(* A worker takes a connection from the queue.                             *)
LEMMA ProcessUdpKeeps ==
    ASSUME IInv, ProcessUdp PROVE IInv'
<1>1. TypeOK'
  BY DEF ProcessUdp, Move, IInv, TypeOK, Places
<1>2. Distinct(lru)' /\ Tracked' = Tracked /\ Closing' = Closing
  BY DEF ProcessUdp, IInv, Tracked, Closing
<1>3. Unjoined'
  BY <1>2 DEF ProcessUdp, Move, IInv, TypeOK, Unjoined, Outside
<1>4. TrackedIsOpen'
  BY <1>2 DEF ProcessUdp, IInv, TrackedIsOpen
<1>5. SweptIsClosed'
  BY <1>2 DEF ProcessUdp, IInv, SweptIsClosed
<1>6. TrackedIsLive'
  BY <1>2 DEF ProcessUdp, Move, IInv, TrackedIsLive
<1>7. RelayedIsTracked'
  BY <1>2 DEF ProcessUdp, Move, IInv, Closing, RelayedIsTracked
<1> QED
  BY <1>1, <1>2, <1>3, <1>4, <1>5, <1>6, <1>7 DEF IInv

-----------------------------------------------------------------------------
(* The steps that change the cache, or close what left it.                 *)

(* A tracker leaves the cache and waits for its Close.                     *)
LEMMA LeaveKey ==
    ASSUME IInv, NEW k \in Conns, Leave(k)
    PROVE  /\ lru' \in Seq(Conns) /\ Distinct(lru)' /\ leaving' \subseteq Conns
           /\ Tracked' = Tracked \ {k}
<1>1. /\ Remove(lru, k) \in Seq(Conns) /\ Distinct(Remove(lru, k))
      /\ Keys(Remove(lru, k)) = Keys(lru) \ {k}
  BY RemoveKey DEF IInv, TypeOK
<1>2. Tracked' = Keys(lru') /\ Tracked = Keys(lru)
  BY DEF Tracked, Keys
<1> QED
  BY <1>1, <1>2 DEF Leave, IInv, TypeOK

(* The remote side is closed.                                              *)
LEMMA CloseRemoteKeeps ==
    ASSUME IInv, NEW k \in Conns, CloseRemote(k) PROVE IInv'
<1>1. lru' \in Seq(Conns) /\ Distinct(lru)' /\ Tracked' = Tracked
  BY DEF CloseRemote, IInv, TypeOK, Tracked
<1>2. TypeOK'
  BY <1>1 DEF CloseRemote, IInv, TypeOK
<1>3. Unjoined'
  BY <1>1 DEF CloseRemote, IInv, Unjoined, Closing
<1>4. TrackedIsOpen'
  BY <1>1 DEF CloseRemote, IInv, TrackedIsOpen, Closing
<1>5. SweptIsClosed'
  BY <1>1 DEF CloseRemote, IInv, SweptIsClosed
<1>6. TrackedIsLive'
  BY <1>1 DEF CloseRemote, IInv, TrackedIsOpen, Closing, TrackedIsLive
<1>7. RelayedIsTracked'
  BY <1>1 DEF CloseRemote, IInv, TypeOK, RelayedIsTracked
<1> QED
  BY <1>1, <1>2, <1>3, <1>4, <1>5, <1>6, <1>7 DEF IInv

(* The sweep closes the remote side.                                       *)
LEMMA SweepCloseKeeps ==
    ASSUME IInv, NEW k \in Conns, SweepClose(k) PROVE IInv'
<1>1. lru' \in Seq(Conns) /\ Distinct(lru)' /\ Tracked' = Tracked
  BY DEF SweepClose, IInv, TypeOK, Tracked
<1>2. TypeOK'
  BY <1>1 DEF SweepClose, IInv, TypeOK
<1>3. Unjoined'
  BY <1>1 DEF SweepClose, IInv, Unjoined, Closing
<1>4. TrackedIsOpen'
  BY <1>1 DEF SweepClose, IInv, TrackedIsOpen, Closing
<1>5. SweptIsClosed'
  BY <1>1 DEF SweepClose, IInv, TypeOK, SweptIsClosed
<1>6. TrackedIsLive'
  BY <1>1 DEF SweepClose, IInv, TrackedIsOpen, Closing, TrackedIsLive
<1>7. RelayedIsTracked'
  BY <1>1 DEF SweepClose, IInv, TypeOK, SweptIsClosed, RelayedIsTracked
<1> QED
  BY <1>1, <1>2, <1>3, <1>4, <1>5, <1>6, <1>7 DEF IInv

(* A sweep takes its snapshot.                                             *)
LEMMA BeginSweepKeeps ==
    ASSUME IInv, BeginSweep PROVE IInv'
<1>1. lru' \in Seq(Conns) /\ Distinct(lru)' /\ Tracked' = Tracked
  BY DEF BeginSweep, IInv, TypeOK, Tracked
<1>2. TypeOK'
  BY <1>1, TrackedConns DEF BeginSweep, conns, IInv, TypeOK
<1>3. Unjoined'
  BY <1>1 DEF BeginSweep, conns, IInv, Unjoined, Closing
<1>4. TrackedIsOpen'
  BY <1>1 DEF BeginSweep, conns, IInv, TrackedIsOpen, Closing
<1>5. SweptIsClosed'
  BY <1>1 DEF BeginSweep, SweptIsClosed
<1>6. TrackedIsLive'
  BY <1>1 DEF BeginSweep, conns, IInv, Closing, TrackedIsLive
<1>7. RelayedIsTracked'
  BY <1>1 DEF BeginSweep, conns, IInv, SweptIsClosed, RelayedIsTracked
<1> QED
  BY <1>1, <1>2, <1>3, <1>4, <1>5, <1>6, <1>7 DEF IInv

(* A sweep ends.                                                           *)
LEMMA EndSweepKeeps ==
    ASSUME IInv, EndSweep PROVE IInv'
<1>1. lru' \in Seq(Conns) /\ Distinct(lru)' /\ Tracked' = Tracked
  BY DEF EndSweep, IInv, TypeOK, Tracked
<1>2. TypeOK'
  BY <1>1 DEF EndSweep, conns, IInv, TypeOK
<1>3. Unjoined'
  BY <1>1 DEF EndSweep, conns, IInv, Unjoined, Closing
<1>4. TrackedIsOpen'
  BY <1>1 DEF EndSweep, conns, IInv, TrackedIsOpen, Closing
<1>5. SweptIsClosed'
  BY <1>1 DEF EndSweep, SweptIsClosed
<1>6. TrackedIsLive'
  BY <1>1 DEF EndSweep, conns, IInv, Closing, TrackedIsLive
<1>7. RelayedIsTracked'
  BY <1>1 DEF EndSweep, conns, IInv, RelayedIsTracked
<1> QED
  BY <1>1, <1>2, <1>3, <1>4, <1>5, <1>6, <1>7 DEF IInv

(* The API closes one connection.                                          *)
LEMMA CloseConnectionKeeps ==
    ASSUME IInv, NEW k \in Conns, CloseConnection(k) PROVE IInv'
<1>1. /\ lru' \in Seq(Conns) /\ Distinct(lru)' /\ leaving' \subseteq Conns
      /\ Tracked' = Tracked \ {k}
  BY LeaveKey DEF CloseConnection
<1>2. TypeOK'
  BY <1>1 DEF CloseConnection, conns, Leave, IInv, TypeOK
<1>3. Unjoined'
  BY <1>1 DEF CloseConnection, conns, Leave, IInv, Unjoined, Closing
<1>4. TrackedIsOpen'
  BY <1>1 DEF CloseConnection, conns, Leave, IInv, TrackedIsOpen, Closing
<1>5. SweptIsClosed'
  BY <1>1 DEF CloseConnection, conns, Leave, IInv, SweptIsClosed
<1>6. TrackedIsLive'
  BY <1>1 DEF CloseConnection, conns, Leave, IInv, Closing, TrackedIsLive
<1>7. RelayedIsTracked'
  BY <1>1 DEF CloseConnection, conns, Leave, IInv, RelayedIsTracked
<1> QED
  BY <1>1, <1>2, <1>3, <1>4, <1>5, <1>6, <1>7 DEF IInv

(* The handler of a TCP connection closes both sides.                      *)
LEMMA CloseTcpKeeps ==
    ASSUME IInv, NEW k \in Conns, CloseTcp(k) PROVE IInv'
<1>1. /\ lru' \in Seq(Conns) /\ Distinct(lru)' /\ leaving' \subseteq Conns
      /\ Tracked' = Tracked \ {k}
  BY LeaveKey DEF CloseTcp
<1>2. TypeOK'
  BY <1>1 DEF CloseTcp, Leave, IInv, TypeOK
<1>3. Unjoined'
  BY <1>1 DEF CloseTcp, Leave, IInv, Unjoined, Closing, Outside
<1>4. TrackedIsOpen'
  BY <1>1 DEF CloseTcp, Leave, IInv, TrackedIsOpen, Closing
<1>5. SweptIsClosed'
  BY <1>1 DEF CloseTcp, Leave, IInv, SweptIsClosed
<1>6. TrackedIsLive'
  BY <1>1 DEF CloseTcp, Leave, IInv, Closing, TrackedIsLive
<1>7. RelayedIsTracked'
  BY <1>1 DEF CloseTcp, Leave, IInv, RelayedIsTracked
<1> QED
  BY <1>1, <1>2, <1>3, <1>4, <1>5, <1>6, <1>7 DEF IInv

(* The copy to the application ends.                                       *)
LEMMA EndInKeeps ==
    ASSUME IInv, NEW k \in Conns, EndIn(k) PROVE IInv'
<1>1. /\ lru' \in Seq(Conns) /\ Distinct(lru)' /\ leaving' \subseteq Conns
      /\ \/ /\ cleaned' = [cleaned EXCEPT ![k] = TRUE]
            /\ leaving' = leaving \cup {k} /\ Tracked' = Tracked \ {k}
         \/ UNCHANGED <<cleaned, leaving>> /\ Tracked' = Tracked
  <2>1. CASE k \in Udp /\ ~cleaned[k]
    BY <2>1, LeaveKey DEF EndIn, CleanUdp, Leave
  <2>2. CASE ~(k \in Udp /\ ~cleaned[k])
    BY <2>2 DEF EndIn, CleanUdp, IInv, TypeOK, Tracked
  <2> QED
    BY <2>1, <2>2
<1>2. TypeOK'
  BY <1>1 DEF EndIn, IInv, TypeOK
<1>3. Unjoined'
  BY <1>1 DEF EndIn, IInv, TypeOK, Unjoined, Closing
<1>4. TrackedIsOpen'
  <2>1. UNCHANGED <<local, sweep>>
    BY DEF EndIn
  <2>2. CASE /\ cleaned' = [cleaned EXCEPT ![k] = TRUE]
             /\ leaving' = leaving \cup {k} /\ Tracked' = Tracked \ {k}
    BY <2>1, <2>2, TrackedConns DEF IInv, TrackedIsOpen, Closing
  <2>3. CASE UNCHANGED <<cleaned, leaving>> /\ Tracked' = Tracked
    BY <2>1, <2>3 DEF IInv, TrackedIsOpen, Closing
  <2> QED
    BY <1>1, <2>2, <2>3
<1>5. SweptIsClosed'
  BY <1>1 DEF EndIn, IInv, SweptIsClosed
<1>6. TrackedIsLive'
  BY <1>1 DEF EndIn, IInv, Closing, TrackedIsLive
<1>7. RelayedIsTracked'
  BY <1>1 DEF EndIn, IInv, RelayedIsTracked
<1> QED
  BY <1>1, <1>2, <1>3, <1>4, <1>5, <1>6, <1>7 DEF IInv

(* The copy to the remote side ends.                                       *)
LEMMA EndOutKeeps ==
    ASSUME IInv, NEW k \in Conns, EndOut(k) PROVE IInv'
<1>1. /\ lru' \in Seq(Conns) /\ Distinct(lru)' /\ leaving' \subseteq Conns
      /\ \/ /\ cleaned' = [cleaned EXCEPT ![k] = TRUE]
            /\ leaving' = leaving \cup {k} /\ Tracked' = Tracked \ {k}
         \/ UNCHANGED <<cleaned, leaving>> /\ Tracked' = Tracked
  <2>1. CASE k \in Udp /\ ~cleaned[k]
    BY <2>1, LeaveKey DEF EndOut, CleanUdp, Leave
  <2>2. CASE ~(k \in Udp /\ ~cleaned[k])
    BY <2>2 DEF EndOut, CleanUdp, IInv, TypeOK, Tracked
  <2> QED
    BY <2>1, <2>2
<1>2. TypeOK'
  BY <1>1 DEF EndOut, IInv, TypeOK
<1>3. Unjoined'
  BY <1>1 DEF EndOut, IInv, TypeOK, Unjoined, Closing
<1>4. TrackedIsOpen'
  <2>1. UNCHANGED <<local, sweep>>
    BY DEF EndOut
  <2>2. CASE /\ cleaned' = [cleaned EXCEPT ![k] = TRUE]
             /\ leaving' = leaving \cup {k} /\ Tracked' = Tracked \ {k}
    BY <2>1, <2>2, TrackedConns DEF IInv, TrackedIsOpen, Closing
  <2>3. CASE UNCHANGED <<cleaned, leaving>> /\ Tracked' = Tracked
    BY <2>1, <2>3 DEF IInv, TrackedIsOpen, Closing
  <2> QED
    BY <1>1, <2>2, <2>3
<1>5. SweptIsClosed'
  BY <1>1 DEF EndOut, IInv, SweptIsClosed
<1>6. TrackedIsLive'
  BY <1>1 DEF EndOut, IInv, Closing, TrackedIsLive
<1>7. RelayedIsTracked'
  BY <1>1 DEF EndOut, IInv, RelayedIsTracked
<1> QED
  BY <1>1, <1>2, <1>3, <1>4, <1>5, <1>6, <1>7 DEF IInv

(* A sweep goes on to the next tracker.                                    *)
LEMMA SweepNextKeeps ==
    ASSUME IInv, NEW k \in Conns, SweepNext(k) PROVE IInv'
<1>1. /\ lru' \in Seq(Conns) /\ Distinct(lru)'
      /\ Tracked' = Tracked \ {k}
  <2>1. /\ Remove(lru, k) \in Seq(Conns) /\ Distinct(Remove(lru, k))
        /\ Keys(Remove(lru, k)) = Keys(lru) \ {k}
    BY RemoveKey DEF IInv, TypeOK
  <2> QED
    BY <2>1 DEF SweepNext, Tracked, Keys
<1>2. TypeOK'
  BY <1>1 DEF SweepNext, conns, IInv, TypeOK
<1>3. Unjoined'
  BY <1>1 DEF SweepNext, conns, IInv, Unjoined, Closing
<1>4. TrackedIsOpen'
  BY <1>1 DEF SweepNext, conns, IInv, TrackedIsOpen, Closing
<1>5. SweptIsClosed'
  BY <1>1 DEF SweepNext, conns, IInv, SweptIsClosed
<1>6. TrackedIsLive'
  BY <1>1 DEF SweepNext, conns, IInv, Closing, TrackedIsLive
<1>7. RelayedIsTracked'
  BY <1>1 DEF SweepNext, conns, IInv, RelayedIsTracked
<1> QED
  BY <1>1, <1>2, <1>3, <1>4, <1>5, <1>6, <1>7 DEF IInv

(* Bytes make a tracker the most recently used.                            *)
LEMMA TouchKeeps ==
    ASSUME IInv, NEW k \in Conns, Touch(k) PROVE IInv'
<1>1. lru' \in Seq(Conns) /\ Distinct(lru)' /\ Tracked' = Tracked
  <2> DEFINE s == Remove(lru, k)
  <2>1. s \in Seq(Conns) /\ Distinct(s) /\ Keys(s) = Keys(lru) \ {k}
    BY RemoveKey DEF IInv, TypeOK
  <2> HIDE DEF s
  <2>2. /\ Append(s, k) \in Seq(Conns) /\ Distinct(Append(s, k))
        /\ Keys(Append(s, k)) = Keys(s) \cup {k}
    BY <2>1, AppendKey
  <2>3. Tracked' = Keys(lru') /\ Tracked = Keys(lru) /\ k \in Tracked
    BY DEF Touch, Tracked, Keys
  <2>4. lru' = Append(s, k)
    BY DEF Touch, s
  <2> QED
    <3>1. lru' \in Seq(Conns) /\ Distinct(lru)'
      BY <2>2, <2>4
    <3>2. Tracked' = Tracked
      BY <2>1, <2>2, <2>3, <2>4
    <3> QED
      BY <3>1, <3>2
<1>2. TypeOK'
  BY <1>1 DEF Touch, conns, IInv, TypeOK
<1>3. Unjoined'
  BY <1>1 DEF Touch, conns, IInv, Unjoined, Closing
<1>4. TrackedIsOpen'
  BY <1>1 DEF Touch, conns, IInv, TrackedIsOpen, Closing
<1>5. SweptIsClosed'
  BY <1>1 DEF Touch, conns, IInv, SweptIsClosed
<1>6. TrackedIsLive'
  BY <1>1 DEF Touch, conns, IInv, Closing, TrackedIsLive
<1>7. RelayedIsTracked'
  BY <1>1 DEF Touch, conns, IInv, RelayedIsTracked
<1> QED
  BY <1>1, <1>2, <1>3, <1>4, <1>5, <1>6, <1>7 DEF IInv

(* The tracker joins; a full cache evicts another.                         *)
LEMMA JoinKeeps ==
    ASSUME IInv, NEW k \in Conns, Join(k) PROVE IInv'
<1>1. /\ lru' \in Seq(Conns) /\ Distinct(lru)'
      /\ \/ Tracked' = Tracked \cup {k} /\ UNCHANGED leaving
         \/ \E h \in Tracked : /\ Tracked' = (Tracked \ {h}) \cup {k}
                              /\ leaving' = leaving \cup {h}
  <2>1. lru \in Seq(Conns) /\ Distinct(lru) /\ k \notin Keys(lru)
    BY DEF Join, Move, IInv, TypeOK, Unjoined, Outside, Tracked, Keys
  <2>2. Tracked' = Keys(lru') /\ Tracked = Keys(lru)
    BY DEF Tracked, Keys
  <2>3. CASE Len(lru) < Capacity
    <3>1. lru' = Append(lru, k) /\ UNCHANGED leaving
      BY <2>3 DEF Join
    <3> QED
      BY <2>1, <2>2, <3>1, AppendKey
  <2>4. CASE ~(Len(lru) < Capacity)
    <3> DEFINE s == Tail(lru)
    <3>1. lru' = Append(s, k) /\ leaving' = leaving \cup {Head(lru)}
      BY <2>4 DEF Join
    <3>2. lru # <<>>
      BY <2>4, SizesAssumption
    <3>3. /\ s \in Seq(Conns) /\ Distinct(s) /\ Head(lru) \in Keys(lru)
          /\ Keys(s) = Keys(lru) \ {Head(lru)}
      BY <2>1, <3>2, DropKey
    <3> HIDE DEF s
    <3>4. /\ Append(s, k) \in Seq(Conns) /\ Distinct(Append(s, k))
          /\ Keys(Append(s, k)) = Keys(s) \cup {k}
      BY <2>1, <3>3, AppendKey
    <3> QED
      BY <2>2, <3>1, <3>3, <3>4
  <2> QED
    BY <2>3, <2>4
<1>2. TypeOK'
  BY <1>1, TrackedConns DEF Join, Move, IInv, TypeOK, Places
<1>3. Unjoined'
  BY <1>1 DEF Join, Move, IInv, TypeOK, Unjoined, Closing, Outside
<1>4. TrackedIsOpen'
  <2>1. UNCHANGED <<local, cleaned, sweep>> /\ st[k] = "dialed"
    BY DEF Join, Move
  <2>2. /\ k \notin leaving \cup sweep.at /\ local[k] = "open" /\ ~cleaned[k]
        /\ k \notin Tracked
    <3>1. st[k] \in Outside
      BY <2>1 DEF Outside, Places
    <3>2. /\ k \notin Tracked \cup Closing \cup sweep.todo /\ ~cleaned[k]
          /\ st[k] = "dialed" => remote[k] = "open" /\ local[k] = "open"
      BY <3>1, Zenon DEF IInv, Unjoined
    <3> QED
      BY <2>1, <3>2 DEF Closing
  <2>3. \A j \in Tracked : /\ j \notin leaving \cup sweep.at
                           /\ local[j] = "open" /\ ~cleaned[j]
    BY DEF IInv, TrackedIsOpen, Closing
  <2>4. \A j \in Tracked' : /\ j \notin leaving' \cup sweep.at
                            /\ local[j] = "open" /\ ~cleaned[j]
    BY <1>1, <2>2, <2>3
  <2> QED
    BY <2>1, <2>4 DEF TrackedIsOpen, Closing
<1>5. SweptIsClosed'
  BY <1>1 DEF Join, IInv, SweptIsClosed
<1>6. TrackedIsLive'
  BY <1>1 DEF Join, Move, IInv, TypeOK, Unjoined, Outside, TrackedIsLive
<1>7. RelayedIsTracked'
  BY <1>1 DEF Join, Move, IInv, RelayedIsTracked
<1> QED
  BY <1>1, <1>2, <1>3, <1>4, <1>5, <1>6, <1>7 DEF IInv

-----------------------------------------------------------------------------
(* The invariant, and what follows from it.                                *)

(* Nothing is connected in the initial state.                              *)
LEMMA InitIInv == Init => IInv
<1> SUFFICES ASSUME Init PROVE IInv
  OBVIOUS
<1>1. TypeOK
  BY DEF Init, TypeOK, Places, NoSweep
<1>2. lru = <<>> /\ Tracked = {} /\ leaving = {} /\ sweep = NoSweep
  BY DEF Init, Tracked
<1>3. Distinct(lru) /\ Unjoined /\ TrackedIsOpen /\ SweptIsClosed
  BY <1>2 DEF Init, Distinct, Unjoined, TrackedIsOpen, SweptIsClosed, Closing,
     NoSweep
<1>4. TrackedIsLive /\ RelayedIsTracked
  BY <1>2 DEF Init, TrackedIsLive, RelayedIsTracked
<1> QED
  BY <1>1, <1>3, <1>4 DEF IInv

(* Every step keeps the invariant.                                         *)
LEMMA NextIInv == IInv /\ [Next]_vars => IInv'
<1> SUFFICES ASSUME IInv, [Next]_vars PROVE IInv'
  OBVIOUS
<1>1. ASSUME NEW k \in Conns,
             \/ Arrive(k) \/ Enqueue(k) \/ DialOk(k) \/ DialFail(k)
             \/ Resolve(k)
             \/ CloseLocal(k) \/ CloseUdp(k) \/ Finish(k) \/ HandlerReturns(k)
      PROVE  IInv'
  BY <1>1, ArriveKeeps, EnqueueKeeps, DialOkKeeps, DialFailKeeps,
     ResolveKeeps, CloseLocalKeeps, CloseUdpKeeps, FinishKeeps,
     HandlerReturnsKeeps
<1>2. ASSUME NEW k \in Conns,
             \/ Join(k) \/ Touch(k) \/ CloseConnection(k) \/ CloseRemote(k)
             \/ SweepNext(k) \/ SweepClose(k) \/ EndIn(k) \/ EndOut(k)
             \/ CloseTcp(k)
      PROVE  IInv'
  BY <1>2, JoinKeeps, TouchKeeps, CloseConnectionKeeps, CloseRemoteKeeps,
     SweepNextKeeps, SweepCloseKeeps, EndInKeeps, EndOutKeeps, CloseTcpKeeps
<1>3. CASE ProcessTcp \/ ProcessUdp \/ BeginSweep \/ EndSweep
  BY <1>3, ProcessTcpKeeps, ProcessUdpKeeps, BeginSweepKeeps, EndSweepKeeps
<1>4. CASE UNCHANGED vars
  BY <1>4 DEF vars, conns, IInv, TypeOK, Unjoined, TrackedIsOpen,
     SweptIsClosed, Closing, Tracked, TrackedIsLive, RelayedIsTracked
<1> QED
  BY <1>1, <1>2, <1>3, <1>4 DEF Next

(* Only EndSweep ends a sweep, with nothing left to do.                    *)
LEMMA NextSweep ==
    ASSUME IInv, [Next]_vars, sweep.on, ~sweep'.on
    PROVE  \A k \in sweep.snap : remote[k] = "closed"
<1>1. CASE EndSweep
  BY <1>1 DEF EndSweep, IInv, SweptIsClosed
<1>2. CASE ~EndSweep
  <2>1. ASSUME NEW k \in Conns,
               \/ Arrive(k) \/ Enqueue(k) \/ DialOk(k) \/ DialFail(k)
               \/ Resolve(k) \/ CloseLocal(k) \/ Join(k) \/ Touch(k)
               \/ CloseConnection(k) \/ CloseRemote(k) \/ EndIn(k)
        PROVE  UNCHANGED sweep
    BY <2>1 DEF Arrive, Enqueue, DialOk, DialFail, Resolve, CloseLocal, Join,
       Touch, CloseConnection, CloseRemote, EndIn
  <2>2. ASSUME NEW k \in Conns,
               \/ EndOut(k) \/ Finish(k) \/ CloseTcp(k) \/ CloseUdp(k)
               \/ HandlerReturns(k)
        PROVE  UNCHANGED sweep
    BY <2>2 DEF EndOut, Finish, CloseTcp, CloseUdp, HandlerReturns
  <2>3. ASSUME ProcessTcp \/ ProcessUdp \/ UNCHANGED vars
        PROVE  UNCHANGED sweep
    BY <2>3 DEF ProcessTcp, ProcessUdp, vars
  <2>4. ASSUME NEW k \in Conns, SweepNext(k) \/ SweepClose(k)
        PROVE  sweep'.on = sweep.on
    BY <2>4 DEF SweepNext, SweepClose, IInv, TypeOK
  <2>5. ~BeginSweep
    BY DEF BeginSweep
  <2> QED
    BY <1>2, <2>1, <2>2, <2>3, <2>4, <2>5 DEF Next
<1> QED
  BY <1>1, <1>2

(* Queues, cache and sweep agree with where each handler is, at every step. *)
THEOREM Consistency == SafeSpec => []IInv
  BY InitIInv, NextIInv, PTL DEF SafeSpec

(* However handlers, the API, evictions and sweeps interleave, a remote    *)
(* connection that relays is in the cache or about to be closed.           *)
THEOREM RelaysAreTracked == SafeSpec => []RelayedIsTracked
<1>1. IInv => RelayedIsTracked
  BY DEF IInv
<1> QED
  BY <1>1, Consistency, PTL

(* What the API shows as a connection is relayed and open.                 *)
THEOREM TrackersAreLive == SafeSpec => []TrackedIsLive
<1>1. IInv => TrackedIsLive
  BY DEF IInv
<1> QED
  BY <1>1, Consistency, PTL

(* CloseAllConnections returns when everything of its snapshot is closed.  *)
THEOREM SweepsClose == SafeSpec => SweepCloses
<1>1. IInv /\ [Next]_vars =>
          [sweep.on /\ ~sweep'.on =>
               \A k \in sweep.snap : remote[k] = "closed"]_vars
  BY NextSweep
<1> QED
  BY <1>1, Consistency, PTL DEF SafeSpec, SweepCloses

-----------------------------------------------------------------------------
(* The counters.                                                           *)

(* A set of numbers has a least one.                                       *)
LEMMA LeastOf ==
    ASSUME NEW S, S \subseteq Nat, S # {}
    PROVE  \E i \in S : \A j \in S : i <= j
<1>1. PICK i \in S : \A j \in S : <<j, i>> \notin OpToRel(<, Nat)
  BY WFMin, NatLessThanWellFounded
<1>2. \A j \in S : ~(j < i)
  BY <1>1, Zenon DEF OpToRel
<1> QED
  BY <1>2

(* The relays in a part of them can be numbered.                           *)
LEMMA PartsAreFinite ==
    ASSUME NEW S \in SUBSET Relays
    PROVE  /\ IsFiniteSet(S) /\ Cardinality(S) \in Nat
           /\ Cardinality(S) = 0 <=> S = {}
           /\ \A r \in S : Cardinality(S \ {r}) = Cardinality(S) - 1
<1>1. IsFiniteSet(S)
  BY ChunkAssumption, FS_Subset
<1>2. \A r \in S : Cardinality(S \ {r}) = Cardinality(S) - 1
  BY <1>1, FS_RemoveElement
<1> QED
  BY <1>1, <1>2, FS_CardinalityType, FS_EmptySet

(* Among parts, one has no smaller one.                                    *)
LEMMA LeastPart ==
    ASSUME NEW P, P \subseteq SUBSET Relays, P # {}
    PROVE  \E S \in P : \A r \in S : S \ {r} \notin P
<1> DEFINE Sizes == {Cardinality(S) : S \in P}
<1>1. Sizes \subseteq Nat /\ Sizes # {}
  BY PartsAreFinite
<1>2. \E n \in Sizes : \A m \in Sizes : n <= m
  <2> HIDE DEF Sizes
  <2> QED
    BY <1>1, LeastOf
<1>3. PICK S \in P : \A T \in P : Cardinality(S) <= Cardinality(T)
  BY <1>2
<1>4. ASSUME NEW r \in S, S \ {r} \in P PROVE FALSE
  <2>1. Cardinality(S \ {r}) = Cardinality(S) - 1 /\ Cardinality(S) \in Nat
    BY PartsAreFinite
  <2>2. Cardinality(S) <= Cardinality(S \ {r})
    BY <1>3, <1>4
  <2> QED
    BY <2>1, <2>2
<1> QED
  BY <1>4

(* A sum over a part of the relays takes one relay, and the sum over the   *)
(* others.                                                                 *)
First(S) == CHOOSE r \in S : TRUE
Sums(g, f, P) ==
    \A S \in P : g[S] = IF S = {} THEN 0 ELSE f[First(S)] + g[S \ {First(S)}]

Parts(n) == {S \in SUBSET Relays : Cardinality(S) <= n}

(* There are the sums over one relay more.                                 *)
LEMMA OneMore ==
    ASSUME NEW f \in [Relays -> Nat], NEW n \in Nat,
           NEW g \in [Parts(n) -> Nat], Sums(g, f, Parts(n))
    PROVE  \E h \in [Parts(n + 1) -> Nat] : Sums(h, f, Parts(n + 1))
<1> DEFINE more(S) == IF S = {} THEN 0 ELSE f[First(S)] + g[S \ {First(S)}]
           h == [S \in Parts(n + 1) |-> more(S)]
<1>1. ASSUME NEW S \in Parts(n + 1), S # {}
      PROVE  /\ First(S) \in S /\ First(S) \in Relays
             /\ S \ {First(S)} \in Parts(n)
  <2>1. First(S) \in S
    BY <1>1 DEF First
  <2> QED
    BY <1>1, <2>1, PartsAreFinite DEF Parts
<1>2. \A S \in Parts(n) : S \in Parts(n + 1) /\ h[S] = g[S]
  <2> SUFFICES ASSUME NEW S \in Parts(n)
               PROVE  S \in Parts(n + 1) /\ h[S] = g[S]
    OBVIOUS
  <2>1. S \in Parts(n + 1)
    BY PartsAreFinite DEF Parts
  <2>2. more(S) = g[S]
    BY DEF Sums
  <2> QED
    BY <2>1, <2>2
<1>3. \A S \in Parts(n + 1) : more(S) \in Nat
  BY <1>1
<1>4. h \in [Parts(n + 1) -> Nat]
  BY <1>3
<1>5. ASSUME NEW S \in Parts(n + 1)
      PROVE  h[S] = IF S = {} THEN 0 ELSE f[First(S)] + h[S \ {First(S)}]
  <2>1. h[S] = more(S)
    OBVIOUS
  <2>2. S # {} => h[S \ {First(S)}] = g[S \ {First(S)}]
    BY <1>1, <1>2
  <2> HIDE DEF h
  <2> QED
    BY <2>1, <2>2
<1>6. Sums(h, f, Parts(n + 1))
  BY <1>5 DEF Sums
<1> HIDE DEF h
<1> QED
  BY <1>4, <1>6

(* There are the sums over all the parts.                                  *)
LEMMA SumsExist ==
    ASSUME NEW f \in [Relays -> Nat]
    PROVE  \E g \in [SUBSET Relays -> Nat] : Sums(g, f, SUBSET Relays)
<1> DEFINE Bad == {n \in Nat : ~ \E g \in [Parts(n) -> Nat] :
                                     Sums(g, f, Parts(n))}
<1>1. Bad = {}
  <2> SUFFICES ASSUME Bad # {} PROVE FALSE
    OBVIOUS
  <2>1. PICK n \in Bad : \A m \in Bad : n <= m
    <3> HIDE DEF Bad
    <3>1. Bad \subseteq Nat
      BY DEF Bad
    <3> QED
      BY <3>1, LeastOf
  <2>2. n # 0
    <3> DEFINE g == [S \in Parts(0) |-> 0]
    <3>1. \A S \in Parts(0) : S = {}
      BY PartsAreFinite DEF Parts
    <3>2. g \in [Parts(0) -> Nat] /\ Sums(g, f, Parts(0))
      BY <3>1 DEF Sums
    <3> QED
      BY <3>2
  <2>3. n - 1 \in Nat /\ n - 1 \notin Bad /\ (n - 1) + 1 = n
    BY <2>1, <2>2
  <2>4. PICK g \in [Parts(n - 1) -> Nat] : Sums(g, f, Parts(n - 1))
    BY <2>3
  <2>5. \E h \in [Parts((n - 1) + 1) -> Nat] : Sums(h, f, Parts((n - 1) + 1))
    BY <2>3, <2>4, OneMore
  <2> QED
    BY <2>3, <2>5
<1>2. IsFiniteSet(Relays) /\ Cardinality(Relays) \in Nat
  BY ChunkAssumption, FS_CardinalityType
<1>3. Parts(Cardinality(Relays)) = SUBSET Relays
  BY <1>2, FS_Subset DEF Parts
<1>4. \E g \in [Parts(Cardinality(Relays)) -> Nat] :
         Sums(g, f, Parts(Cardinality(Relays)))
  BY <1>1, <1>2
<1> QED
  BY <1>3, <1>4

(* SumOf is such a sum.                                                    *)
LEMMA SumOfSums ==
    ASSUME NEW f \in [Relays -> Nat]
    PROVE  \E g \in [SUBSET Relays -> Nat] :
              Sums(g, f, SUBSET Relays) /\ SumOf(f) = g[Relays]
<1> DEFINE step(g, S) == IF S = {} THEN 0
                         ELSE LET r == CHOOSE r \in S : TRUE
                              IN f[r] + g[S \ {r}]
           Is(g) == g = [S \in SUBSET Relays |-> step(g, S)]
           Sum == CHOOSE g : Is(g)
<1>1. PICK g \in [SUBSET Relays -> Nat] : Sums(g, f, SUBSET Relays)
  BY SumsExist
<1>2. \A S \in SUBSET Relays : g[S] = step(g, S)
  BY <1>1 DEF Sums, First
<1>3. Is(g)
  BY <1>2
<1>4. Is(Sum)
  BY <1>3
<1>5. SumOf(f) = Sum[Relays]
  BY DEF SumOf
<1>6. Sum = [S \in SUBSET Relays |-> step(Sum, S)]
  BY <1>4
<1>7. \A S \in SUBSET Relays : Sum[S] = step(Sum, S)
  BY <1>6
<1>8. Sums(Sum, f, SUBSET Relays)
  BY <1>7 DEF Sums, First
<1>9. Sum \in [SUBSET Relays -> Nat]
  <2> HIDE DEF Sum
  <2> DEFINE Bad == {S \in SUBSET Relays : Sum[S] \notin Nat}
  <2>1. SUFFICES ASSUME Bad # {} PROVE FALSE
    BY <1>6
  <2>2. PICK S \in Bad : \A r \in S : S \ {r} \notin Bad
    <3>1. Bad \subseteq SUBSET Relays
      OBVIOUS
    <3> HIDE DEF Bad
    <3> QED
      BY <2>1, <3>1, LeastPart
  <2>3. S # {}
    <3>1. S \in SUBSET Relays /\ Sum[S] # 0
      BY <2>2
    <3>2. Sum[{}] = 0
      BY <1>8, Zenon DEF Sums
    <3> QED
      BY <3>1, <3>2
  <2>4. First(S) \in S /\ First(S) \in Relays
    BY <2>3 DEF First
  <2>5. Sum[S \ {First(S)}] \in Nat
    BY <2>2, <2>4
  <2>6. Sum[S] = f[First(S)] + Sum[S \ {First(S)}]
    BY <1>8, <2>3 DEF Sums
  <2> QED
    BY <2>4, <2>5, <2>6
<1> QED
  BY <1>5, <1>8, <1>9

(* When one relay has another share, so has the sum.                       *)
LEMMA SumChanges ==
    ASSUME NEW f \in [Relays -> Nat], NEW f2 \in [Relays -> Nat],
           NEW r \in Relays, \A q \in Relays \ {r} : f2[q] = f[q]
    PROVE  /\ SumOf(f) \in Nat /\ SumOf(f2) \in Nat
           /\ SumOf(f2) + f[r] = SumOf(f) + f2[r]
<1>1. PICK g \in [SUBSET Relays -> Nat] :
         Sums(g, f, SUBSET Relays) /\ SumOf(f) = g[Relays]
  BY SumOfSums
<1>2. PICK h \in [SUBSET Relays -> Nat] :
         Sums(h, f2, SUBSET Relays) /\ SumOf(f2) = h[Relays]
  BY SumOfSums
<1> DEFINE Fits(S) == IF r \in S THEN h[S] + f[r] = g[S] + f2[r]
                      ELSE h[S] = g[S]
           Bad == {S \in SUBSET Relays : ~Fits(S)}
<1>3. Bad = {}
  <2>1. SUFFICES ASSUME Bad # {} PROVE FALSE
    OBVIOUS
  <2>2. PICK S \in Bad : \A q \in S : S \ {q} \notin Bad
    <3>1. Bad \subseteq SUBSET Relays
      OBVIOUS
    <3> HIDE DEF Bad
    <3> QED
      BY <2>1, <3>1, LeastPart
  <2>3. S \in SUBSET Relays /\ ~Fits(S)
    BY <2>2
  <2>4. S # {}
    BY <1>1, <1>2, <2>3 DEF Sums
  <2> DEFINE q == First(S)
             R == S \ {q}
  <2>5. q \in S /\ q \in Relays /\ R \in SUBSET Relays
    BY <2>3, <2>4 DEF First
  <2>6. g[S] = f[q] + g[R] /\ h[S] = f2[q] + h[R]
    BY <1>1, <1>2, <2>3, <2>4 DEF Sums
  <2>7. Fits(R)
    BY <2>2, <2>5
  <2>8. /\ g[S] \in Nat /\ g[R] \in Nat /\ h[S] \in Nat /\ h[R] \in Nat
        /\ f[q] \in Nat /\ f2[q] \in Nat /\ f[r] \in Nat /\ f2[r] \in Nat
    BY <2>3, <2>5
  <2>9. CASE q = r
    <3>1. r \in S /\ r \notin R
      BY <2>5, <2>9
    <3> QED
      BY <2>3, <2>6, <2>7, <2>8, <2>9, <3>1
  <2>10. CASE q # r
    <3>1. f2[q] = f[q] /\ (r \in R <=> r \in S)
      BY <2>5, <2>10
    <3> QED
      BY <2>3, <2>6, <2>7, <2>8, <3>1
  <2> QED
    BY <2>9, <2>10
<1>4. Fits(Relays)
  BY <1>3
<1> QED
  BY <1>1, <1>2, <1>4

(* A sum of nothing is nothing.                                            *)
LEMMA SumOfNothing ==
    ASSUME NEW f \in [Relays -> Nat], \A r \in Relays : f[r] = 0
    PROVE  SumOf(f) = 0
<1>1. PICK g \in [SUBSET Relays -> Nat] :
         Sums(g, f, SUBSET Relays) /\ SumOf(f) = g[Relays]
  BY SumOfSums
<1> DEFINE Bad == {S \in SUBSET Relays : g[S] # 0}
<1>2. Bad = {}
  <2>1. SUFFICES ASSUME Bad # {} PROVE FALSE
    OBVIOUS
  <2>2. PICK S \in Bad : \A q \in S : S \ {q} \notin Bad
    <3>1. Bad \subseteq SUBSET Relays
      OBVIOUS
    <3> HIDE DEF Bad
    <3> QED
      BY <2>1, <3>1, LeastPart
  <2>3. S # {}
    BY <1>1, <2>2 DEF Sums
  <2>4. First(S) \in S /\ First(S) \in Relays
    BY <2>3 DEF First
  <2>5. g[S \ {First(S)}] = 0 /\ g[S] = f[First(S)] + g[S \ {First(S)}]
    BY <1>1, <2>2, <2>3, <2>4 DEF Sums
  <2> QED
    BY <2>2, <2>4, <2>5
<1> QED
  BY <1>1, <1>2

-----------------------------------------------------------------------------
CountTypeOK ==
    /\ temp \in Nat /\ total \in Nat /\ speeds \in Nat /\ moved \in Nat
    /\ ofRelay \in [Relays -> Nat] /\ size \in [Relays -> Nat]
    /\ counted \in [Relays -> 0..2] /\ published \in BOOLEAN

(* A byte is owed to the speeds until it is in the counter of the second.  *)
CountInv ==
    /\ CountTypeOK
    /\ speeds + (IF published THEN 0 ELSE temp) + Behind(1) <= moved
    /\ total + Behind(2) = moved
    /\ SumOf(ofRelay) + Behind(3) = moved

(* What each relay owes, and the sums of it.                               *)
LEMMA OwesType ==
    ASSUME CountTypeOK
    PROVE  /\ \A k \in 1..3 : /\ Owes(k) \in [Relays -> Nat]
                              /\ Behind(k) \in Nat
           /\ SumOf(ofRelay) \in Nat
<1>1. \A f \in [Relays -> Nat] : SumOf(f) \in Nat
  BY SumOfSums
<1>2. \A k \in 1..3 : Owes(k) \in [Relays -> Nat]
  BY DEF CountTypeOK, Owes
<1> QED
  BY <1>1, <1>2 DEF CountTypeOK, Behind

(* A step of one relay changes what all owe by what it does.               *)
LEMMA OneRelayCounts ==
    ASSUME CountTypeOK, CountTypeOK', NEW r \in Relays,
           \A q \in Relays \ {r} : /\ size'[q] = size[q]
                                    /\ counted'[q] = counted[q]
    PROVE  \A k \in 1..3 :
              /\ Behind(k) \in Nat /\ Behind(k)' \in Nat
              /\ Behind(k)' + Owes(k)[r] = Behind(k) + Owes(k)'[r]
<1> TAKE k \in 1..3
<1> DEFINE owes2 == [q \in Relays |-> IF counted'[q] < k THEN size'[q] ELSE 0]
<1>1. Owes(k)' = owes2 /\ Behind(k)' = SumOf(owes2)
  BY DEF Owes, Behind
<1>2. owes2 \in [Relays -> Nat]
  BY DEF CountTypeOK
<1>3. Owes(k) \in [Relays -> Nat] /\ Behind(k) = SumOf(Owes(k))
  BY OwesType DEF Behind
<1>4. \A q \in Relays \ {r} : owes2[q] = Owes(k)[q]
  BY DEF Owes
<1> HIDE DEF owes2
<1>5. /\ SumOf(Owes(k)) \in Nat /\ SumOf(owes2) \in Nat
      /\ SumOf(owes2) + Owes(k)[r] = SumOf(Owes(k)) + owes2[r]
  BY <1>2, <1>3, <1>4, SumChanges
<1> QED
  BY <1>1, <1>3, <1>5

(* Nothing has been counted at first.                                      *)
LEMMA InitCounts == CountInit => CountInv
<1> SUFFICES ASSUME CountInit PROVE CountInv
  OBVIOUS
<1>1. CountTypeOK
  <2>1. published \in BOOLEAN
    BY Zenon DEF CountInit
  <2>2. 0 \in Nat /\ 0 \in 0..2
    OBVIOUS
  <2> QED
    BY <2>1, <2>2 DEF CountInit, CountTypeOK
<1>2. \A k \in 1..3 : Behind(k) = 0
  <2> TAKE k \in 1..3
  <2>1. Owes(k) \in [Relays -> Nat] /\ \A r \in Relays : Owes(k)[r] = 0
    BY <1>1, OwesType DEF CountInit, Owes
  <2> QED
    BY <2>1, SumOfNothing DEF Behind
<1>3. SumOf(ofRelay) = 0
  <2>1. ofRelay \in [Relays -> Nat] /\ \A r \in Relays : ofRelay[r] = 0
    BY <1>1 DEF CountInit
  <2> QED
    BY <2>1, SumOfNothing
<1> QED
  BY <1>1, <1>2, <1>3 DEF CountInit, CountInv

(* The bytes that a relay begins to count are owed to all.                 *)
LEMMA MoveBytesCounts ==
    ASSUME CountInv, NEW r \in Relays, MoveBytes(r) PROVE CountInv'
<1> USE DEF CountInv
<1>1. PICK n \in Chunks : size' = [size EXCEPT ![r] = n] /\ moved' = moved + n
  BY DEF MoveBytes
<1>2. n \in Nat
  BY ChunkAssumption
<1>3. counted' = [counted EXCEPT ![r] = 0] /\ size[r] = 0
      /\ UNCHANGED <<temp, blip, total, ofRelay, published, speeds>>
  BY DEF MoveBytes
<1>4. CountTypeOK'
  BY <1>1, <1>2, <1>3 DEF CountTypeOK
<1>5. \A k \in 1..3 : Owes(k)[r] = 0 /\ Owes(k)'[r] = n
  BY <1>1, <1>2, <1>3 DEF CountTypeOK, Owes
<1>6. \A k \in 1..3 : /\ Behind(k) \in Nat /\ Behind(k)' \in Nat
                      /\ Behind(k)' + Owes(k)[r] = Behind(k) + Owes(k)'[r]
  BY <1>1, <1>3, <1>4, OneRelayCounts DEF CountTypeOK
<1>7. \A k \in 1..3 : Behind(k) \in Nat /\ Behind(k)' = Behind(k) + n
  BY <1>2, <1>5, <1>6
<1>8. SumOf(ofRelay)' = SumOf(ofRelay) /\ SumOf(ofRelay) \in Nat
  BY <1>3, OwesType
<1> QED
  BY <1>1, <1>2, <1>3, <1>4, <1>7, <1>8 DEF CountTypeOK

(* What it then adds to a counter is no longer owed to that one.           *)
LEMMA PushTempCounts ==
    ASSUME CountInv, NEW r \in Relays, PushTemp(r) PROVE CountInv'
<1> USE DEF CountInv
<1>1. /\ counted[r] = 0 /\ counted' = [counted EXCEPT ![r] = 1]
      /\ temp' = temp + size[r] /\ size[r] \in Nat
      /\ UNCHANGED <<blip, total, ofRelay, size, published, speeds, moved>>
  BY DEF PushTemp, CountTypeOK
<1>2. CountTypeOK'
  BY <1>1 DEF CountTypeOK
<1>3. /\ Owes(1)[r] = size[r] /\ Owes(1)'[r] = 0
      /\ Owes(2)[r] = size[r] /\ Owes(2)'[r] = size[r]
      /\ Owes(3)[r] = size[r] /\ Owes(3)'[r] = size[r]
  BY <1>1 DEF CountTypeOK, Owes
<1>4. \A k \in 1..3 : /\ Behind(k) \in Nat /\ Behind(k)' \in Nat
                      /\ Behind(k)' + Owes(k)[r] = Behind(k) + Owes(k)'[r]
  BY <1>1, <1>2, OneRelayCounts DEF CountTypeOK
<1>5. /\ Behind(1)' + size[r] = Behind(1)
      /\ Behind(2)' = Behind(2) /\ Behind(3)' = Behind(3)
  BY <1>1, <1>3, <1>4
<1>6. SumOf(ofRelay)' = SumOf(ofRelay)
  BY <1>1
<1> QED
  BY <1>1, <1>2, <1>4, <1>5, <1>6 DEF CountTypeOK

(* Adding to the totals keeps the account of a relay.                      *)
LEMMA PushTotalCounts ==
    ASSUME CountInv, NEW r \in Relays, PushTotal(r) PROVE CountInv'
<1> USE DEF CountInv
<1>1. /\ counted[r] = 1 /\ counted' = [counted EXCEPT ![r] = 2]
      /\ total' = total + size[r] /\ size[r] \in Nat
      /\ UNCHANGED <<temp, blip, ofRelay, size, published, speeds, moved>>
  BY DEF PushTotal, CountTypeOK
<1>2. CountTypeOK'
  BY <1>1 DEF CountTypeOK
<1>3. /\ Owes(1)[r] = 0 /\ Owes(1)'[r] = 0
      /\ Owes(2)[r] = size[r] /\ Owes(2)'[r] = 0
      /\ Owes(3)[r] = size[r] /\ Owes(3)'[r] = size[r]
  BY <1>1 DEF CountTypeOK, Owes
<1>4. \A k \in 1..3 : /\ Behind(k) \in Nat /\ Behind(k)' \in Nat
                      /\ Behind(k)' + Owes(k)[r] = Behind(k) + Owes(k)'[r]
  BY <1>1, <1>2, OneRelayCounts DEF CountTypeOK
<1>5. /\ Behind(2)' + size[r] = Behind(2)
      /\ Behind(1)' = Behind(1) /\ Behind(3)' = Behind(3)
  BY <1>1, <1>3, <1>4
<1>6. SumOf(ofRelay)' = SumOf(ofRelay)
  BY <1>1
<1> QED
  BY <1>1, <1>2, <1>4, <1>5, <1>6 DEF CountTypeOK

(* So does adding to the counter of the connection.                        *)
LEMMA PushOwnCounts ==
    ASSUME CountInv, NEW r \in Relays, PushOwn(r) PROVE CountInv'
<1> USE DEF CountInv
<1>1. /\ counted[r] = 2 /\ counted' = counted /\ size[r] \in Nat
      /\ ofRelay' = [ofRelay EXCEPT ![r] = ofRelay[r] + size[r]]
      /\ size' = [size EXCEPT ![r] = 0]
      /\ UNCHANGED <<temp, blip, total, published, speeds, moved>>
  BY DEF PushOwn, CountTypeOK
<1>2. CountTypeOK'
  BY <1>1 DEF CountTypeOK
<1>3. /\ Owes(1)[r] = 0 /\ Owes(1)'[r] = 0
      /\ Owes(2)[r] = 0 /\ Owes(2)'[r] = 0
      /\ Owes(3)[r] = size[r] /\ Owes(3)'[r] = 0
  BY <1>1 DEF CountTypeOK, Owes
<1>4. \A k \in 1..3 : /\ Behind(k) \in Nat /\ Behind(k)' \in Nat
                      /\ Behind(k)' + Owes(k)[r] = Behind(k) + Owes(k)'[r]
  BY <1>1, <1>2, OneRelayCounts DEF CountTypeOK
<1>5. /\ Behind(3)' + size[r] = Behind(3)
      /\ Behind(1)' = Behind(1) /\ Behind(2)' = Behind(2)
  BY <1>1, <1>3, <1>4
<1>6. /\ SumOf(ofRelay) \in Nat /\ SumOf(ofRelay') \in Nat
      /\ SumOf(ofRelay') + ofRelay[r] = SumOf(ofRelay) + ofRelay'[r]
  BY <1>1, <1>2, SumChanges DEF CountTypeOK
<1>7. SumOf(ofRelay') = SumOf(ofRelay) + size[r]
  BY <1>1, <1>6 DEF CountTypeOK
<1> QED
  BY <1>1, <1>2, <1>4, <1>5, <1>6, <1>7 DEF CountTypeOK

(* What was counted between the load and the store is in no speed.         *)
LEMMA PublishCounts ==
    ASSUME CountInv, Publish \/ ClearTemp \/ UNCHANGED countVars
    PROVE  CountInv'
<1> USE DEF CountInv
<1>1. UNCHANGED <<size, counted, ofRelay, total, moved>>
  BY DEF Publish, ClearTemp, countVars
<1>2. \A k \in 1..3 : Behind(k)' = Behind(k) /\ Behind(k) \in Nat
  <2>1. \A k \in 1..3 : Owes(k)' = Owes(k)
    BY <1>1 DEF Owes
  <2> QED
    BY <2>1, OwesType DEF Behind
<1>3. SumOf(ofRelay)' = SumOf(ofRelay)
  BY <1>1
<1>4. published' \in BOOLEAN
  BY DEF Publish, ClearTemp, countVars, CountTypeOK
<1>5. /\ temp' \in Nat /\ speeds' \in Nat
      /\ speeds' + (IF published' THEN 0 ELSE temp') =
            speeds + (IF published THEN 0 ELSE temp)
  BY DEF Publish, ClearTemp, countVars, CountTypeOK
<1>6. CountTypeOK'
  BY <1>1, <1>4, <1>5 DEF CountTypeOK
<1> QED
  BY <1>1, <1>2, <1>3, <1>5, <1>6

(* However the relays and the tick of the manager interleave, no byte is in *)
(* two speeds, and the totals lack only what relays are still counting.    *)
THEOREM BytesAreCountedOnce == CountSpec => []BytesCountedOnce
<1>1. CountInv /\ [CountNext]_countVars => CountInv'
  BY MoveBytesCounts, PushTempCounts, PushTotalCounts, PushOwnCounts,
     PublishCounts DEF CountNext
<1>2. CountInv => BytesCountedOnce
  <2> SUFFICES ASSUME CountInv PROVE BytesCountedOnce
    OBVIOUS
  <2>1. Behind(1) \in Nat
    BY OwesType DEF CountInv
  <2> QED
    BY <2>1 DEF CountInv, CountTypeOK, BytesCountedOnce
<1> QED
  BY <1>1, <1>2, InitCounts, PTL DEF CountSpec

-----------------------------------------------------------------------------
(* The handshakes of the proxy protocols.                                  *)

(* What a client says, and the payload.                                    *)
Commands == {"connect", "udp", "bind", "get", "upgrade"}
Item == {Hello} \cup [kind : {"login"}, good : BOOLEAN]
        \cup [kind : {"request", "v4"}, cmd : Commands]
        \cup [kind : {"http"}, cmd : Commands, login : Logins]
        \cup {Data(i) : i \in Nat}

(* What the server has still to read.                                      *)
Wire == buffer \o toServer

ShakeTypes ==
    /\ sentUp \in Nat /\ sentDown \in Nat /\ tunnelGot \in Nat
    /\ clientGot \in Nat /\ eaten \in Nat /\ tunnelGot <= sentUp
    /\ buffer \in Seq(Item) /\ toServer \in Seq(Item)
    /\ client = "new" \/ peer \in OwnDials \cup AppDials
    /\ client \in {"greeted", "authorizing"} => peer.speaks = "socks5"
    /\ eaten > 0 => peer.own /\ peer.speaks = "http"

(* A handshake is in one of seven stages, which say what is on the wire in  *)
(* both directions. In the first nobody has begun.                          *)
Quiet == sentDown = 0 /\ tunnelGot = 0 /\ clientGot = 0 /\ eaten = 0
Fresh == /\ client = "new" /\ listener = "accepted" /\ Wire = <<>>
         /\ toClient = <<>> /\ sentUp = 0 /\ Quiet

(* The client has said something that the listener waits for. A program     *)
(* that asks for a connection may send payload behind it.                   *)
Shaking == client \in {"greeted", "authorizing", "requested"}
Said == CASE client = "greeted" -> Hello
        [] client = "authorizing" -> Login
        [] OTHER -> IF peer.speaks = "socks5" THEN Request(peer.cmd)
                    ELSE Asked(peer)
Listens == CASE client = "greeted" -> {"accepted", "socks5"}
           [] client = "authorizing" -> {"login"}
           [] OTHER -> IF peer.speaks = "socks5" THEN {"command"}
                       ELSE {"accepted", peer.speaks}
Early == client = "requested" /\ ~peer.own /\ peer.cmd = "connect"
Asking == /\ Shaking /\ listener \in Listens
          /\ Wire = <<Said>> \o Payload(1, sentUp) /\ toClient = <<>>
          /\ sentUp > 0 => Early
          /\ Quiet

(* The listener has answered, and the client has not read it.               *)
Answered ==
    /\ Shaking /\ Wire = <<>> /\ sentUp = 0 /\ Quiet
    /\ client = "greeted" =>
          /\ toClient = <<[kind |-> "method", asks |-> peer.asks]>>
          /\ listener = IF peer.asks THEN "login" ELSE "command"
    /\ client # "greeted" => \E g \in BOOLEAN :
          /\ toClient = <<Verdict(g)>>
          /\ client = "authorizing" =>
                 listener = IF g THEN "command" ELSE "closed"
          /\ client = "requested" =>
                 /\ peer.speaks = "http" /\ ~Early
                 /\ listener \in {"http", "closed"}
                 /\ IF peer.cmd = "get"
                    THEN listener = IF peer.keep THEN "http" ELSE "closed"
                    ELSE ~g

(* The listener asks the target whether it upgrades.                        *)
Upgrading == /\ client = "requested" /\ listener = "upgrading"
             /\ peer.speaks = "http" /\ peer.cmd = "upgrade"
             /\ Wire = <<>> /\ toClient = <<>>
             /\ sentUp = 0 /\ Quiet

(* The listener has closed without an answer.                               *)
Refused == /\ client = "requested" /\ listener = "closed" /\ peer.cmd = "bind"
           /\ toClient = <<>> /\ Quiet

(* The listener has granted what was asked for, and nothing but the answer  *)
(* and the payload is on its way.                                           *)
Grants == {"granted", "relaying", "associated"}
Open ==
    /\ listener \in Grants /\ Wire = Payload(tunnelGot + 1, sentUp)
    /\ \/ /\ client = "requested" /\ peer.cmd # "get"
          /\ clientGot = 0 /\ eaten = 0
          /\ \E m \in {[kind |-> "reply"], Verdict(TRUE)} :
                /\ toClient = <<m>> \o Payload(1, sentDown)
                /\ peer.speaks = "socks5" \/ m = Verdict(TRUE)
       \/ /\ client = "connected" /\ clientGot + eaten <= sentDown
          /\ toClient = Payload(clientGot + eaten + 1, sentDown)

(* The client has gone, and the listener waits in vain or relays.           *)
Left == /\ client = "closed"
        /\ \/ listener = "closed"
           \/ listener \in {"login", "http"} /\ Wire = <<>>
           \/ listener \in Grants /\ Wire = Payload(tunnelGot + 1, sentUp)

ShakeInv == /\ ShakeTypes
            /\ \/ Fresh \/ Asking \/ Answered \/ Upgrading \/ Refused
               \/ Open \/ Left

-----------------------------------------------------------------------------
(* The dials there are.                                                    *)
LEMMA PeerFacts ==
    ASSUME peer \in OwnDials \cup AppDials
    PROVE  /\ peer.cmd \in Commands /\ peer.login \in Logins
           /\ peer.own \in BOOLEAN /\ peer.asks \in BOOLEAN
           /\ peer.keep \in BOOLEAN
           /\ peer.speaks \in {"socks4", "socks5", "http"}
           /\ peer.asks => peer.own
           /\ peer.speaks = "socks4" => peer.cmd \in {"connect", "bind"}
           /\ peer.speaks = "socks4" => ~peer.own
           /\ peer.speaks = "socks5" => peer.cmd \in {"connect", "udp", "bind"}
           /\ peer.speaks = "http" =>
                  peer.cmd \in {"connect", "get", "upgrade"}
           /\ peer.speaks = "http" /\ peer.own => peer.cmd = "connect"
  BY DEF OwnDials, AppDials, Dials, Commands, Logins

(* What is said is an item.                                                *)
LEMMA ItemFacts ==
    ASSUME peer \in OwnDials \cup AppDials
    PROVE  /\ Hello \in Item /\ Login \in Item /\ Request(peer.cmd) \in Item
           /\ Asked(peer) \in Item /\ \A i \in Nat : Data(i) \in Item
<1>1. Login \in Item
  BY DEF Item, Login
<1>2. Request(peer.cmd) \in Item
  BY PeerFacts DEF Item, Request
<1>3. Asked(peer) \in Item
  BY PeerFacts DEF Item, Asked
<1>4. Hello \in Item /\ \A i \in Nat : Data(i) \in Item
  BY DEF Item
<1> QED
  BY <1>1, <1>2, <1>3, <1>4

(* The payload from one part on.                                           *)
LEMMA PayloadFacts ==
    ASSUME NEW i \in Nat \ {0}, NEW j \in Nat, i <= j + 1
    PROVE  /\ Payload(i, j) \in Seq(Item) /\ Len(Payload(i, j)) = j + 1 - i
           /\ i = j + 1 <=> Payload(i, j) = <<>>
           /\ i <= j => Tail(Payload(i, j)) = Payload(i + 1, j)
           /\ Append(Payload(i, j), Data(j + 1)) = Payload(i, j + 1)
<1> DEFINE n == j + 1 - i
<1>1. n \in Nat
  OBVIOUS
<1>2. Payload(i, j) = [x \in 1..n |-> Data(i + x - 1)]
  BY DEF Payload
<1>3. \A x \in 1..n : Data(i + x - 1) \in Item
  BY DEF Item
<1>4. Payload(i, j) \in Seq(Item) /\ Len(Payload(i, j)) = n
  <2> HIDE DEF n
  <2> QED
    BY <1>1, <1>2, <1>3, SeqDef
<1>5. n = 0 <=> Payload(i, j) = <<>>
  BY <1>4
<1>6. ASSUME i <= j PROVE Tail(Payload(i, j)) = Payload(i + 1, j)
  <2>1. Payload(i + 1, j) = [x \in 1..(n - 1) |-> Data(i + 1 + x - 1)]
    BY DEF Payload
  <2>2. \A x \in 1..(n - 1) : Data(i + 1 + x - 1) = Data(i + (x + 1) - 1)
    BY <1>1
  <2>3. Payload(i + 1, j) \in Seq(Item) /\ Len(Payload(i + 1, j)) = n - 1
    <3>1. n - 1 \in Nat
      BY <1>1, <1>6
    <3>2. \A x \in 1..(n - 1) : Data(i + 1 + x - 1) \in Item
      BY DEF Item
    <3> HIDE DEF n
    <3> QED
      BY <2>1, <3>1, <3>2, SeqDef
  <2>4. /\ Tail(Payload(i, j)) \in Seq(Item)
        /\ Len(Tail(Payload(i, j))) = n - 1
        /\ \A x \in 1..(n - 1) : Tail(Payload(i, j))[x] = Payload(i, j)[x + 1]
    BY <1>4, <1>5, <1>6
  <2>5. ASSUME NEW x \in 1..(n - 1)
        PROVE  Tail(Payload(i, j))[x] = Payload(i + 1, j)[x]
    <3>1. x + 1 \in 1..n
      BY <1>1
    <3>2. Payload(i, j)[x + 1] = Data(i + (x + 1) - 1)
      BY <1>2, <3>1
    <3> HIDE DEF n
    <3>3. Payload(i + 1, j)[x] = Data(i + 1 + x - 1)
      BY <2>1
    <3> QED
      BY <2>2, <2>4, <3>2, <3>3
  <2> HIDE DEF n
  <2> QED
    BY <2>3, <2>4, <2>5, SeqEqual
<1>7. Append(Payload(i, j), Data(j + 1)) = Payload(i, j + 1)
  <2>1. Payload(i, j + 1) = [x \in 1..(n + 1) |-> Data(i + x - 1)]
    BY DEF Payload
  <2>2. Payload(i, j + 1) \in Seq(Item) /\ Len(Payload(i, j + 1)) = n + 1
    <3>1. \A x \in 1..(n + 1) : Data(i + x - 1) \in Item
      BY DEF Item
    <3> HIDE DEF n
    <3> QED
      BY <1>1, <2>1, <3>1, SeqDef
  <2>3. Data(j + 1) \in Item
    BY DEF Item
  <2>4. i + (n + 1) - 1 = j + 1
    OBVIOUS
  <2> HIDE DEF n
  <2>5. LET s == Append(Payload(i, j), Data(j + 1))
        IN  /\ s \in Seq(Item) /\ Len(s) = n + 1
            /\ \A x \in 1..n : s[x] = Payload(i, j)[x]
            /\ s[n + 1] = Data(j + 1)
    BY <1>4, <2>3
  <2>6. \A x \in 1..(n + 1) :
           Append(Payload(i, j), Data(j + 1))[x] = Payload(i, j + 1)[x]
    BY <1>1, <1>2, <2>1, <2>4, <2>5
  <2> QED
    BY <2>2, <2>5, <2>6, SeqEqual
<1> QED
  BY <1>1, <1>4, <1>5, <1>6, <1>7

(* A message with the payload behind it.                                   *)
LEMMA HeadedFacts ==
    ASSUME NEW m, NEW n \in Nat
    PROVE  LET s == <<m>> \o Payload(1, n)
           IN  /\ s # <<>> /\ Len(s) = n + 1
               /\ Head(s) = m /\ Tail(s) = Payload(1, n)
               /\ Append(s, Data(n + 1)) = <<m>> \o Payload(1, n + 1)
               /\ \A k \in 1..(n + 1) :
                     SubSeq(s, k + 1, n + 1) = Payload(k, n)
<1> DEFINE E == Item \cup {m}
           s == <<m>> \o Payload(1, n)
           t == Append(s, Data(n + 1))
           u == <<m>> \o Payload(1, n + 1)
<1>1. /\ Payload(1, n) \in Seq(E) /\ Len(Payload(1, n)) = n
      /\ Payload(1, n + 1) \in Seq(E) /\ Len(Payload(1, n + 1)) = n + 1
      /\ Data(n + 1) \in E /\ <<m>> \in Seq(E)
  <2>1. /\ Payload(1, n) \in Seq(Item) /\ Len(Payload(1, n)) = n
        /\ Payload(1, n + 1) \in Seq(Item) /\ Len(Payload(1, n + 1)) = n + 1
    <3>1. 1 \in Nat \ {0} /\ 1 <= n + 1 /\ 1 <= (n + 1) + 1 /\ n + 1 \in Nat
      OBVIOUS
    <3>2. Payload(1, n) \in Seq(Item) /\ Len(Payload(1, n)) = n + 1 - 1
      BY <3>1, PayloadFacts
    <3>3. /\ Payload(1, n + 1) \in Seq(Item)
          /\ Len(Payload(1, n + 1)) = (n + 1) + 1 - 1
      BY <3>1, PayloadFacts
    <3> QED
      BY <3>2, <3>3
  <2>2. \A q \in Seq(Item) : q \in Seq(E)
    OBVIOUS
  <2>3. Data(n + 1) \in Item
    BY DEF Item
  <2> QED
    BY <2>1, <2>2, <2>3
<1>2. /\ s \in Seq(E) /\ Len(s) = n + 1 /\ s[1] = m
      /\ \A x \in 2..(n + 1) : s[x] = Payload(1, n)[x - 1]
  <2> HIDE DEF E
  <2> QED
    BY <1>1
<1>3. /\ u \in Seq(E) /\ Len(u) = n + 2 /\ u[1] = m
      /\ \A x \in 2..(n + 2) : u[x] = Payload(1, n + 1)[x - 1]
  <2> HIDE DEF E
  <2> QED
    BY <1>1
<1>4. /\ \A x \in 1..n : Payload(1, n)[x] = Data(x)
      /\ \A x \in 1..(n + 1) : Payload(1, n + 1)[x] = Data(x)
      /\ \A k \in 1..(n + 1) : \A x \in 1..(n + 1 - k) :
            Payload(k, n)[x] = Data(k + x - 1)
  BY DEF Payload
<1> HIDE DEF E, s, u
<1>5. s # <<>> /\ Head(s) = m
  BY <1>2
<1>6. Tail(s) = Payload(1, n)
  <2>1. /\ Tail(s) \in Seq(E) /\ Len(Tail(s)) = n
        /\ \A x \in 1..n : Tail(s)[x] = s[x + 1]
    BY <1>2, <1>5
  <2>2. \A x \in 1..n : Tail(s)[x] = Payload(1, n)[x]
    BY <1>2, <2>1
  <2> QED
    BY <1>1, <2>1, <2>2, SeqEqual
<1>7. t = u
  <2>1. /\ t \in Seq(E) /\ Len(t) = n + 2 /\ t[n + 2] = Data(n + 1)
        /\ \A x \in 1..(n + 1) : t[x] = s[x]
    BY <1>1, <1>2
  <2> HIDE DEF t
  <2>2. ASSUME NEW x \in 1..(n + 2) PROVE t[x] = u[x]
    <3>4. x = 1 \/ x \in 2..(n + 1) \/ x = n + 2
      OBVIOUS
    <3>1. CASE x = 1
      BY <1>2, <1>3, <2>1, <3>1
    <3>2. CASE x \in 2..(n + 1)
      <4>1. x - 1 \in 1..n /\ x - 1 \in 1..(n + 1)
        BY <3>2
      <4>2. t[x] = Payload(1, n)[x - 1] /\ u[x] = Payload(1, n + 1)[x - 1]
        BY <1>2, <1>3, <2>1, <3>2
      <4> QED
        BY <1>4, <4>1, <4>2
    <3>3. CASE x = n + 2
      <4>1. x - 1 \in 1..(n + 1) /\ x - 1 = n + 1
        BY <3>3
      <4>2. t[x] = Data(n + 1) /\ u[x] = Payload(1, n + 1)[n + 1]
        BY <1>3, <2>1, <3>3, <4>1
      <4> QED
        BY <1>4, <4>2
    <3> QED
      BY <3>1, <3>2, <3>3, <3>4
  <2> QED
    BY <1>3, <2>1, <2>2, SeqEqual
<1>8. ASSUME NEW k \in 1..(n + 1)
      PROVE  SubSeq(s, k + 1, n + 1) = Payload(k, n)
  <2> DEFINE r == SubSeq(s, k + 1, n + 1)
  <2>1. /\ r \in Seq(E) /\ Len(r) = n + 1 - k
        /\ \A x \in 1..(n + 1 - k) : r[x] = s[k + x]
    <3>1. \A x \in (k + 1)..(n + 1) : s[x] \in E
      BY <1>2
    <3>2. r = [x \in 1..(n + 1 - k) |-> s[k + x]]
      BY <1>2
    <3>3. \A x \in 1..(n + 1 - k) : s[k + x] \in E
      BY <3>1
    <3>4. n + 1 - k \in Nat
      OBVIOUS
    <3> HIDE DEF r
    <3> QED
      BY <3>2, <3>3, <3>4, SeqDef
  <2>2. Payload(k, n) \in Seq(E) /\ Len(Payload(k, n)) = n + 1 - k
    <3>1. Payload(k, n) \in Seq(Item) /\ Len(Payload(k, n)) = n + 1 - k
      <4>1. k \in Nat \ {0} /\ k <= n + 1
        OBVIOUS
      <4> QED
        BY <4>1, PayloadFacts
    <3> QED
      BY <3>1 DEF E
  <2>3. ASSUME NEW x \in 1..(n + 1 - k) PROVE r[x] = Payload(k, n)[x]
    <3>1. k + x \in 2..(n + 1) /\ k + x - 1 \in 1..n
      OBVIOUS
    <3> HIDE DEF r
    <3>2. r[x] = Payload(1, n)[k + x - 1]
      BY <1>2, <2>1, <3>1
    <3>3. Payload(k, n)[x] = Data(k + x - 1)
      BY <1>4
    <3> QED
      BY <1>4, <3>1, <3>2, <3>3
  <2> HIDE DEF r
  <2>4. r = Payload(k, n)
    BY <2>1, <2>2, <2>3, SeqEqual
  <2> QED
    BY <2>4 DEF r
<1>9. Append(s, Data(n + 1)) = u
  BY <1>7
<1> QED
  BY <1>2, <1>5, <1>6, <1>8, <1>9 DEF s, u

(* A message alone.                                                        *)
LEMMA AloneFacts ==
    /\ Payload(1, 0) = <<>>
    /\ \A m : /\ <<m>> \o Payload(1, 0) = <<m>> /\ Append(<<>>, m) = <<m>>
              /\ <<m>> # <<>> /\ Head(<<m>>) = m /\ Tail(<<m>>) = <<>>
<1>1. Payload(1, 0) = <<>>
  BY PayloadFacts
<1>2. ASSUME NEW m PROVE <<m>> \o <<>> = <<m>>
  <2>1. <<m>> \in Seq({m})
    OBVIOUS
  <2> QED
    BY <2>1
<1>3. ASSUME NEW m
      PROVE  /\ Append(<<>>, m) = <<m>>
             /\ <<m>> # <<>> /\ Head(<<m>>) = m /\ Tail(<<m>>) = <<>>
  OBVIOUS
<1> QED
  BY <1>1, <1>2, <1>3

(* A read of the listener takes the first item that is still to read.      *)
LEMMA StockFacts ==
    ASSUME ShakeTypes, NEW k \in Fills
    PROVE  /\ Stock(k) \in Seq(Item) /\ Stock(k) # <<>>
           /\ Beyond(k) \in Seq(Item) /\ Tail(Stock(k)) \in Seq(Item)
           /\ Stock(k) \o Beyond(k) = Wire
           /\ Wire # <<>> /\ Head(Stock(k)) = Head(Wire)
           /\ Tail(Stock(k)) \o Beyond(k) = Tail(Wire)
<1>1. buffer \in Seq(Item) /\ toServer \in Seq(Item)
  BY DEF ShakeTypes
<1>2. /\ Stock(k) \in Seq(Item) /\ Beyond(k) \in Seq(Item)
      /\ Len(Stock(k)) > 0 /\ Stock(k) \o Beyond(k) = Wire
  <2>1. CASE buffer # <<>>
    <3>1. Stock(k) = buffer /\ Beyond(k) = toServer /\ Len(buffer) > 0
      BY <1>1, <2>1 DEF Stock, Beyond
    <3> QED
      BY <1>1, <3>1 DEF Wire
  <2>2. CASE buffer = <<>>
    <3>1. k \in 1..Len(toServer)
      BY <2>2 DEF Fills
    <3>2. /\ Stock(k) = SubSeq(toServer, 1, k)
          /\ Beyond(k) = SubSeq(toServer, k + 1, Len(toServer))
      BY <2>2 DEF Stock, Beyond
    <3>3. Wire = toServer
      BY <1>1, <2>2 DEF Wire
    <3> DEFINE s == SubSeq(toServer, 1, k)
               t == SubSeq(toServer, k + 1, Len(toServer))
    <3>4. /\ s \in Seq(Item) /\ Len(s) = k
          /\ \A x \in 1..k : s[x] = toServer[x]
      <4>1. s = [x \in 1..k |-> toServer[x]] /\ k \in Nat
        BY <1>1, <3>1
      <4>2. \A x \in 1..k : toServer[x] \in Item
        BY <1>1, <3>1
      <4> HIDE DEF s
      <4> QED
        BY <4>1, <4>2, SeqDef
    <3>5. /\ t \in Seq(Item) /\ Len(t) = Len(toServer) - k
          /\ \A x \in 1..(Len(toServer) - k) : t[x] = toServer[k + x]
      <4>1. /\ t = [x \in 1..(Len(toServer) - k) |-> toServer[k + x]]
            /\ Len(toServer) - k \in Nat
        BY <1>1, <3>1
      <4>2. \A x \in 1..(Len(toServer) - k) : toServer[k + x] \in Item
        BY <1>1, <3>1
      <4> HIDE DEF t
      <4> QED
        BY <4>1, <4>2, SeqDef
    <3> HIDE DEF s, t
    <3>9. Len(toServer) \in Nat /\ k \in Nat /\ k <= Len(toServer)
      BY <1>1, <3>1
    <3>10. /\ s \o t \in Seq(Item) /\ Len(s \o t) = Len(s) + Len(t)
           /\ \A x \in 1..(Len(s) + Len(t)) :
                 (s \o t)[x] = IF x <= Len(s) THEN s[x] ELSE t[x - Len(s)]
      BY <3>4, <3>5
    <3>11. Len(s) + Len(t) = Len(toServer)
      BY <3>4, <3>5, <3>9
    <3>6. /\ s \o t \in Seq(Item) /\ Len(s \o t) = Len(toServer)
          /\ \A x \in 1..Len(toServer) :
                (s \o t)[x] = IF x <= k THEN s[x] ELSE t[x - k]
      BY <3>4, <3>10, <3>11
    <3>7. ASSUME NEW x \in 1..Len(toServer) PROVE (s \o t)[x] = toServer[x]
      <4>1. CASE x <= k
        BY <1>1, <3>1, <3>4, <3>6, <4>1
      <4>2. CASE ~(x <= k)
        <5>1. x - k \in 1..(Len(toServer) - k) /\ k + (x - k) = x
          BY <1>1, <3>1, <4>2
        <5> QED
          BY <3>5, <3>6, <4>2, <5>1
      <4> QED
        BY <4>1, <4>2
    <3>8. s \o t = toServer
      BY <1>1, <3>6, <3>7, SeqEqual
    <3> QED
      BY <3>1, <3>2, <3>3, <3>4, <3>5, <3>8 DEF s, t
  <2> QED
    BY <2>1, <2>2
<1> DEFINE s == Stock(k)
           t == Beyond(k)
<1>3. s \in Seq(Item) /\ t \in Seq(Item) /\ Len(s) > 0
  BY <1>2
<1> HIDE DEF s, t
<1>4. /\ s # <<>> /\ Tail(s) \in Seq(Item) /\ Len(Tail(s)) = Len(s) - 1
      /\ \A x \in 1..(Len(s) - 1) : Tail(s)[x] = s[x + 1]
  BY <1>3
<1>5. /\ s \o t \in Seq(Item) /\ Len(s \o t) = Len(s) + Len(t)
      /\ \A x \in 1..(Len(s) + Len(t)) :
            (s \o t)[x] = IF x <= Len(s) THEN s[x] ELSE t[x - Len(s)]
  BY <1>3
<1>6. s \o t # <<>> /\ Head(s) = Head(s \o t)
  BY <1>3, <1>5
<1>7. Tail(s) \o t = Tail(s \o t)
  <2>1. /\ Tail(s \o t) \in Seq(Item)
        /\ Len(Tail(s \o t)) = Len(s) + Len(t) - 1
        /\ \A x \in 1..(Len(s) + Len(t) - 1) :
              Tail(s \o t)[x] = (s \o t)[x + 1]
    BY <1>3, <1>5, <1>6
  <2>2. /\ Tail(s) \o t \in Seq(Item)
        /\ Len(Tail(s) \o t) = Len(s) + Len(t) - 1
        /\ \A x \in 1..(Len(s) + Len(t) - 1) :
              (Tail(s) \o t)[x] = IF x <= Len(s) - 1 THEN Tail(s)[x]
                                  ELSE t[x - (Len(s) - 1)]
    BY <1>3, <1>4
  <2>3. ASSUME NEW x \in 1..(Len(s) + Len(t) - 1)
        PROVE  (Tail(s) \o t)[x] = Tail(s \o t)[x]
    <3>1. x + 1 \in 1..(Len(s) + Len(t))
      BY <1>3
    <3>2. (x <= Len(s) - 1) <=> (x + 1 <= Len(s))
      BY <1>3
    <3>3. x - (Len(s) - 1) = x + 1 - Len(s)
      BY <1>3
    <3>4. x <= Len(s) - 1 => x \in 1..(Len(s) - 1)
      BY <1>3
    <3>5. CASE x <= Len(s) - 1
      BY <1>4, <1>5, <2>1, <2>2, <3>1, <3>2, <3>4, <3>5
    <3>6. CASE ~(x <= Len(s) - 1)
      BY <1>5, <2>1, <2>2, <3>1, <3>2, <3>3, <3>6
    <3> QED
      BY <3>5, <3>6
  <2> QED
    BY <2>1, <2>2, <2>3, SeqEqual
<1> QED
  BY <1>2, <1>3, <1>4, <1>6, <1>7 DEF s, t

(* The wire to the listener, after a read and after a send.                *)
LEMMA WireRead ==
    ASSUME ShakeTypes, NEW k \in Fills, ServerReads(k)
    PROVE  /\ buffer' \in Seq(Item) /\ toServer' \in Seq(Item)
           /\ Wire # <<>> /\ Wire' = Tail(Wire)
           /\ Head(Stock(k)) = Head(Wire)
  BY StockFacts DEF ServerReads, Wire

(* What the client says is behind all that it said before.                 *)
LEMMA WireSaid ==
    ASSUME ShakeTypes, NEW m \in Item, SendsUp(m), UNCHANGED buffer
    PROVE  toServer' \in Seq(Item) /\ Wire' = Append(Wire, m)
<1>1. buffer \in Seq(Item) /\ toServer \in Seq(Item)
  BY DEF ShakeTypes
<1>2. Append(toServer, m) \in Seq(Item)
  BY <1>1
<1>3. buffer \o Append(toServer, m) = Append(buffer \o toServer, m)
  BY <1>1, ConcatAssociative, AppendIsConcat
<1> QED
  BY <1>2, <1>3 DEF SendsUp, Wire

(* Whoever reads during a handshake reads what the client has said.        *)
LEMMA ReadsSaid ==
    ASSUME ShakeInv, Wire # <<>>, listener \notin Grants \cup {"closed"}
    PROVE  /\ Asking /\ peer \in OwnDials \cup AppDials
           /\ Head(Wire) = Said /\ Tail(Wire) = Payload(1, sentUp)
           /\ sentUp = 0 => Tail(Wire) = <<>>
<1>1. Asking /\ peer \in OwnDials \cup AppDials /\ sentUp \in Nat
  BY DEF ShakeInv, ShakeTypes, Fresh, Asking, Answered, Upgrading, Refused,
     Open, Left, Shaking
<1>2. Wire = <<Said>> \o Payload(1, sentUp)
  BY <1>1 DEF Asking
<1>3. Head(Wire) = Said /\ Tail(Wire) = Payload(1, sentUp)
  BY <1>1, <1>2, HeadedFacts
<1> QED
  BY <1>1, <1>3, AloneFacts

(* After the handshake it reads the payload.                               *)
LEMMA ReadsPayload ==
    ASSUME ShakeTypes, Wire = Payload(tunnelGot + 1, sentUp), Wire # <<>>
    PROVE  /\ tunnelGot + 1 <= sentUp
           /\ Tail(Wire) = Payload(tunnelGot + 1 + 1, sentUp)
<1>1. /\ tunnelGot + 1 \in Nat \ {0} /\ sentUp \in Nat
      /\ tunnelGot + 1 <= sentUp + 1
  BY DEF ShakeTypes
<1>2. ~(tunnelGot + 1 = sentUp + 1)
  BY <1>1, PayloadFacts
<1>3. tunnelGot + 1 <= sentUp
  BY <1>1, <1>2
<1> QED
  BY <1>1, <1>3, PayloadFacts

-----------------------------------------------------------------------------
(* The steps of the listener.                                              *)
LEMMA PeekKeeps == ASSUME ShakeInv, Peek PROVE ShakeInv'
<1>1. PICK k \in Fills :
         /\ buffer' = Stock(k) /\ toServer' = Beyond(k)
         /\ listener' = CASE Head(Stock(k)).kind = "v4" -> "socks4"
                        [] Head(Stock(k)).kind = "v5" -> "socks5"
                        [] OTHER -> "http"
  BY DEF Peek
<1>2. UNCHANGED <<peer, client, toClient, sentUp, sentDown, tunnelGot,
                  clientGot, eaten>> /\ listener = "accepted"
  BY DEF Peek
<1>3. /\ Stock(k) \in Seq(Item) /\ Beyond(k) \in Seq(Item)
      /\ Stock(k) \o Beyond(k) = Wire
      /\ Wire # <<>> /\ Head(Stock(k)) = Head(Wire)
  BY StockFacts DEF ShakeInv
<1>4. Wire' = Wire
  BY <1>1, <1>3 DEF Wire
<1>5. ShakeTypes'
  BY <1>1, <1>2, <1>3 DEF ShakeInv, ShakeTypes
<1>6. /\ Asking /\ peer \in OwnDials \cup AppDials /\ Head(Wire) = Said
  BY <1>2, <1>3, ReadsSaid DEF Grants
<1>7. Asking'
  <2>1. listener' = IF client = "greeted" THEN "socks5" ELSE peer.speaks
    <3>1. CASE client = "greeted"
      BY <1>1, <1>3, <1>6, <3>1 DEF Said, Hello
    <3>2. CASE client # "greeted"
      <4>1. client = "requested" /\ peer.speaks # "socks5"
        BY <1>2, <1>6, <3>2 DEF Asking, Shaking, Listens
      <4>2. Head(Stock(k)) = Asked(peer)
        BY <1>3, <1>6, <4>1 DEF Said
      <4>3. Asked(peer).kind = IF peer.speaks = "socks4" THEN "v4" ELSE "http"
        BY DEF Asked
      <4>4. peer.speaks \in {"socks4", "http"}
        BY <1>6, <4>1, PeerFacts
      <4> QED
        BY <1>1, <3>2, <4>2, <4>3, <4>4
    <3> QED
      BY <3>1, <3>2
  <2>2. listener' \in Listens'
    BY <1>2, <1>6, <2>1 DEF Asking, Shaking, Listens
  <2>3. Said' = Said /\ Payload(1, sentUp)' = Payload(1, sentUp)
    BY <1>2 DEF Said, Login
  <2> QED
    BY <1>2, <1>4, <1>6, <2>2, <2>3 DEF Asking, Shaking, Early, Quiet
<1> QED
  BY <1>5, <1>7 DEF ShakeInv

(* Reading the first byte and the greeting keeps the invariant.            *)
LEMMA ReadHelloKeeps == ASSUME ShakeInv, ReadHello PROVE ShakeInv'
<1>1. PICK k \in Fills : ServerReads(k)
  BY DEF ReadHello
<1>2. /\ listener = "socks5" /\ UNCHANGED tunnelGot
      /\ toClient' = Append(toClient, [kind |-> "method", asks |-> peer.asks])
      /\ listener' = IF peer.asks THEN "login" ELSE "command"
      /\ UNCHANGED <<peer, client, sentUp, sentDown, clientGot, eaten>>
  BY <1>1 DEF ReadHello, ServerReads, Replies
<1>3. /\ buffer' \in Seq(Item) /\ toServer' \in Seq(Item)
      /\ Wire # <<>> /\ Wire' = Tail(Wire)
  BY <1>1, WireRead DEF ShakeInv
<1>4. ShakeTypes'
  BY <1>2, <1>3 DEF ShakeInv, ShakeTypes
<1>5. /\ Asking /\ peer \in OwnDials \cup AppDials
      /\ sentUp = 0 => Tail(Wire) = <<>>
  BY <1>2, <1>3, ReadsSaid DEF Grants
<1>6. client = "greeted" /\ sentUp = 0 /\ Quiet /\ toClient = <<>>
  <2>1. client = "greeted"
    BY <1>2, <1>5 DEF Asking, Shaking, Listens
  <2> QED
    BY <1>5, <2>1 DEF Asking, Early, ShakeInv, ShakeTypes
<1>7. Answered'
  BY <1>2, <1>3, <1>5, <1>6, AloneFacts DEF Answered, Shaking, Quiet
<1> QED
  BY <1>4, <1>7 DEF ShakeInv

(* The choice of a method, and of a password, keeps it.                    *)
LEMMA VerifyKeeps == ASSUME ShakeInv, Verify PROVE ShakeInv'
<1>1. PICK k \in Fills :
         /\ ServerReads(k)
         /\ Replies(Verdict(Head(Stock(k)).good))
         /\ listener' = IF Head(Stock(k)).good THEN "command" ELSE "closed"
  BY DEF Verify
<1>2. /\ listener = "login" /\ UNCHANGED tunnelGot
      /\ UNCHANGED <<peer, client, sentUp, sentDown, clientGot, eaten>>
  BY <1>1 DEF Verify, ServerReads
<1>3. /\ buffer' \in Seq(Item) /\ toServer' \in Seq(Item)
      /\ Wire # <<>> /\ Wire' = Tail(Wire) /\ Head(Stock(k)) = Head(Wire)
  BY <1>1, WireRead DEF ShakeInv
<1>4. ShakeTypes'
  BY <1>2, <1>3 DEF ShakeInv, ShakeTypes
<1>5. /\ Asking /\ peer \in OwnDials \cup AppDials /\ Head(Wire) = Said
      /\ sentUp = 0 => Tail(Wire) = <<>>
  BY <1>2, <1>3, ReadsSaid DEF Grants
<1>6. client = "authorizing"
  BY <1>2, <1>5, PeerFacts DEF Asking, Shaking, Listens
<1>7. sentUp = 0 /\ Quiet /\ toClient = <<>>
  BY <1>5, <1>6 DEF Asking, Early, ShakeInv, ShakeTypes
<1> DEFINE g == peer.login = "good"
<1>8. Head(Stock(k)).good = g
  BY <1>3, <1>5, <1>6 DEF Said, Login
<1>9. Answered'
  <2>1. toClient' = <<Verdict(g)>>
    BY <1>1, <1>7, <1>8, AloneFacts DEF Replies
  <2>2. listener' = IF g THEN "command" ELSE "closed"
    BY <1>1, <1>8
  <2>3. g \in BOOLEAN
    OBVIOUS
  <2> HIDE DEF g
  <2> QED
    BY <1>2, <1>3, <1>5, <1>6, <1>7, <2>1, <2>2, <2>3
    DEF Answered, Shaking, Quiet
<1> QED
  BY <1>4, <1>9 DEF ShakeInv

(* What is granted opens the tunnel.                                       *)
LEMMA Grant ==
    ASSUME ShakeTypes, ShakeTypes', Asking, client = "requested",
           peer.cmd # "get", Wire' = Payload(1, sentUp),
           NEW m \in {[kind |-> "reply"], Verdict(TRUE)}, Replies(m),
           peer.speaks = "socks5" \/ m = Verdict(TRUE), listener' \in Grants,
           UNCHANGED <<peer, client, sentUp, sentDown, tunnelGot, clientGot,
                       eaten>>
    PROVE  Open'
<1>1. Quiet /\ toClient = <<>>
  BY DEF Asking
<1>2. toClient' = <<m>> \o Payload(1, 0)
  BY <1>1, AloneFacts DEF Replies
<1>3. Wire' = Payload(tunnelGot' + 1, sentUp')
  BY <1>1 DEF Quiet
<1>4. sentDown' = 0 /\ clientGot' = 0 /\ eaten' = 0
  BY <1>1 DEF Quiet
<1> QED
  BY <1>2, <1>3, <1>4 DEF Open

(* The command of SOCKS5 keeps it.                                         *)
LEMMA ReadCommandKeeps == ASSUME ShakeInv, ReadCommand PROVE ShakeInv'
<1>1. PICK k \in Fills :
         /\ ServerReads(k)
         /\ IF Head(Stock(k)).cmd = "bind"
            THEN listener' = "closed" /\ UNCHANGED toClient
            ELSE /\ Replies([kind |-> "reply"])
                 /\ listener' = IF Head(Stock(k)).cmd = "udp"
                                THEN "associated" ELSE "granted"
  BY DEF ReadCommand
<1>2. /\ listener = "command"
      /\ UNCHANGED <<peer, client, sentUp, sentDown, tunnelGot, clientGot,
                     eaten>>
  BY <1>1 DEF ReadCommand, ServerReads
<1>3. /\ buffer' \in Seq(Item) /\ toServer' \in Seq(Item)
      /\ Wire # <<>> /\ Wire' = Tail(Wire) /\ Head(Stock(k)) = Head(Wire)
  BY <1>1, WireRead DEF ShakeInv
<1>4. ShakeTypes /\ ShakeTypes'
  BY <1>2, <1>3 DEF ShakeInv, ShakeTypes
<1>5. /\ Asking /\ peer \in OwnDials \cup AppDials /\ Head(Wire) = Said
      /\ Wire' = Payload(1, sentUp)
  BY <1>2, <1>3, ReadsSaid DEF Grants
<1>6. client = "requested" /\ peer.speaks = "socks5"
  BY <1>2, <1>5, PeerFacts DEF Asking, Shaking, Listens
<1>7. Head(Stock(k)).cmd = peer.cmd
  BY <1>3, <1>5, <1>6 DEF Said, Request
<1>8. CASE peer.cmd = "bind"
  BY <1>1, <1>2, <1>4, <1>5, <1>6, <1>7, <1>8
  DEF ShakeInv, Asking, Refused, Quiet
<1>9. CASE peer.cmd # "bind"
  <2>1. peer.cmd # "get"
    BY <1>5, <1>6, PeerFacts
  <2>2. Replies([kind |-> "reply"]) /\ listener' \in Grants
    BY <1>1, <1>7, <1>9 DEF Grants
  <2>3. Open'
    BY <1>2, <1>4, <1>5, <1>6, <2>1, <2>2, Grant
  <2> QED
    BY <1>4, <2>3 DEF ShakeInv
<1> QED
  BY <1>8, <1>9

(* The request of SOCKS4 keeps it.                                         *)
LEMMA HandleSocks4Keeps == ASSUME ShakeInv, HandleSocks4 PROVE ShakeInv'
<1>1. PICK k \in Fills :
         /\ ServerReads(k)
         /\ IF Head(Stock(k)).cmd = "connect"
            THEN Replies(Verdict(TRUE)) /\ listener' = "granted"
            ELSE listener' = "closed" /\ UNCHANGED toClient
  BY DEF HandleSocks4
<1>2. /\ listener = "socks4"
      /\ UNCHANGED <<peer, client, sentUp, sentDown, tunnelGot, clientGot,
                     eaten>>
  BY <1>1 DEF HandleSocks4, ServerReads
<1>3. /\ buffer' \in Seq(Item) /\ toServer' \in Seq(Item)
      /\ Wire # <<>> /\ Wire' = Tail(Wire) /\ Head(Stock(k)) = Head(Wire)
  BY <1>1, WireRead DEF ShakeInv
<1>4. ShakeTypes /\ ShakeTypes'
  BY <1>2, <1>3 DEF ShakeInv, ShakeTypes
<1>5. /\ Asking /\ peer \in OwnDials \cup AppDials /\ Head(Wire) = Said
      /\ Wire' = Payload(1, sentUp)
  BY <1>2, <1>3, ReadsSaid DEF Grants
<1>6. client = "requested" /\ peer.speaks = "socks4"
  BY <1>2, <1>5, PeerFacts DEF Asking, Shaking, Listens
<1>7. Head(Stock(k)).cmd = peer.cmd
  BY <1>3, <1>5, <1>6 DEF Said, Asked
<1>8. CASE peer.cmd = "connect"
  <2>1. Replies(Verdict(TRUE)) /\ listener' \in Grants
    BY <1>1, <1>7, <1>8 DEF Grants
  <2>2. Open'
    BY <1>2, <1>4, <1>5, <1>6, <1>8, <2>1, Grant
  <2> QED
    BY <1>4, <2>2 DEF ShakeInv
<1>9. CASE peer.cmd # "connect"
  <2>1. peer.cmd = "bind"
    BY <1>5, <1>6, <1>9, PeerFacts
  <2> QED
    BY <1>1, <1>2, <1>4, <1>5, <1>6, <1>7, <1>9, <2>1
    DEF ShakeInv, Asking, Refused, Quiet
<1> QED
  BY <1>8, <1>9

(* The request of HTTP keeps it.                                           *)
LEMMA HandleConnKeeps == ASSUME ShakeInv, HandleConn PROVE ShakeInv'
<1> DEFINE Refuses == peer.asks /\ peer.login # "good"
<1>1. PICK k \in Fills :
         LET r == Head(Stock(k))
         IN  /\ ServerReads(k)
             /\ IF peer.asks /\ r.login # "good"
                THEN /\ Replies(Verdict(FALSE))
                     /\ listener' = IF peer.keep THEN "http" ELSE "closed"
                ELSE \/ /\ r.cmd = "connect"
                        /\ Replies(Verdict(TRUE)) /\ listener' = "granted"
                     \/ /\ r.cmd = "upgrade"
                        /\ UNCHANGED toClient /\ listener' = "upgrading"
                     \/ /\ r.cmd = "get"
                        /\ \E good \in BOOLEAN : Replies(Verdict(good))
                        /\ listener' = IF peer.keep THEN "http" ELSE "closed"
  BY DEF HandleConn
<1>2. /\ listener = "http"
      /\ UNCHANGED <<peer, client, sentUp, sentDown, tunnelGot, clientGot,
                     eaten>>
  BY <1>1 DEF HandleConn, ServerReads
<1>3. /\ buffer' \in Seq(Item) /\ toServer' \in Seq(Item)
      /\ Wire # <<>> /\ Wire' = Tail(Wire) /\ Head(Stock(k)) = Head(Wire)
  BY <1>1, WireRead DEF ShakeInv
<1>4. ShakeTypes /\ ShakeTypes'
  BY <1>2, <1>3 DEF ShakeInv, ShakeTypes
<1>5. /\ Asking /\ peer \in OwnDials \cup AppDials /\ Head(Wire) = Said
      /\ Wire' = Payload(1, sentUp) /\ (sentUp = 0 => Wire' = <<>>)
  BY <1>2, <1>3, ReadsSaid DEF Grants
<1>6. client = "requested" /\ peer.speaks = "http"
  BY <1>2, <1>5, PeerFacts DEF Asking, Shaking, Listens
<1>7. Head(Stock(k)).cmd = peer.cmd /\ Head(Stock(k)).login = peer.login
  BY <1>3, <1>5, <1>6 DEF Said, Asked
<1>8. Quiet /\ toClient = <<>> /\ (~Early => sentUp = 0)
  BY <1>5 DEF Asking, ShakeInv, ShakeTypes
<1>9. ASSUME NEW g \in BOOLEAN, Replies(Verdict(g)), ~Early,
             listener' = IF peer.keep THEN "http" ELSE "closed",
             peer.cmd = "get" \/ ~g
      PROVE  ShakeInv'
  <2>1. toClient' = <<Verdict(g)>>
    BY <1>8, <1>9, AloneFacts DEF Replies
  <2>2. listener' \in {"http", "closed"} /\ ~Early'
    BY <1>2, <1>9 DEF Early
  <2>3. Answered'
    BY <1>2, <1>5, <1>6, <1>8, <1>9, <2>1, <2>2
    DEF Answered, Shaking, Quiet
  <2> QED
    BY <1>4, <2>3 DEF ShakeInv
<1>10. CASE Refuses
  <2>1. ~Early
    BY <1>5, <1>10, PeerFacts DEF Early
  <2>2. Replies(Verdict(FALSE))
        /\ listener' = IF peer.keep THEN "http" ELSE "closed"
    BY <1>1, <1>7, <1>10
  <2> QED
    BY <1>9, <2>1, <2>2
<1>11. CASE ~Refuses /\ peer.cmd = "get"
  <2>1. ~Early
    BY <1>11 DEF Early
  <2>2. (\E good \in BOOLEAN : Replies(Verdict(good)))
        /\ listener' = IF peer.keep THEN "http" ELSE "closed"
    BY <1>1, <1>7, <1>11
  <2> QED
    BY <1>9, <1>11, <2>1, <2>2
<1>12. CASE ~Refuses /\ peer.cmd = "connect"
  <2>1. Replies(Verdict(TRUE)) /\ listener' \in Grants
    BY <1>1, <1>7, <1>12 DEF Grants
  <2>2. Open'
    BY <1>2, <1>4, <1>5, <1>6, <1>12, <2>1, Grant
  <2> QED
    BY <1>4, <2>2 DEF ShakeInv
<1>13. CASE ~Refuses /\ peer.cmd = "upgrade"
  <2>1. UNCHANGED toClient /\ listener' = "upgrading"
    BY <1>1, <1>7, <1>13
  <2>2. ~Early
    BY <1>13 DEF Early
  <2>3. Upgrading'
    BY <1>2, <1>5, <1>6, <1>8, <1>13, <2>1, <2>2 DEF Upgrading, Quiet
  <2> QED
    BY <1>4, <2>3 DEF ShakeInv
<1>14. peer.cmd \in {"get", "connect", "upgrade"}
  BY <1>5, <1>6, PeerFacts
<1> QED
  BY <1>10, <1>11, <1>12, <1>13, <1>14

(* An upgrade of HTTP keeps it.                                            *)
LEMMA HandleUpgradeKeeps == ASSUME ShakeInv, handleUpgrade PROVE ShakeInv'
<1>1. PICK good \in BOOLEAN :
         /\ Replies(Verdict(good))
         /\ listener' = IF good THEN "relaying" ELSE "closed"
  BY DEF handleUpgrade
<1>2. /\ listener = "upgrading"
      /\ UNCHANGED <<peer, client, toServer, buffer, sentUp, sentDown,
                     tunnelGot, clientGot, eaten>>
  BY DEF handleUpgrade
<1>3. ShakeTypes' /\ Wire' = Wire
  BY <1>2 DEF ShakeInv, ShakeTypes, Wire
<1>4. Upgrading
  BY <1>2, PeerFacts DEF ShakeInv, ShakeTypes, Fresh, Asking, Shaking,
     Listens, Answered, Refused, Open, Left, Grants
<1>5. toClient' = <<Verdict(good)>>
  BY <1>1, <1>4, AloneFacts DEF Upgrading, Replies
<1>6. CASE good
  <2>1. toClient' = <<Verdict(TRUE)>> \o Payload(1, 0) /\ Wire' = Payload(1, 0)
    BY <1>3, <1>4, <1>5, <1>6, AloneFacts DEF Upgrading
  <2>2. /\ tunnelGot' + 1 = 1 /\ sentUp' = 0 /\ sentDown' = 0
        /\ clientGot' = 0 /\ eaten' = 0 /\ client' = "requested"
        /\ peer'.cmd = "upgrade" /\ listener' = "relaying"
    BY <1>1, <1>2, <1>4, <1>6 DEF Upgrading, Quiet
  <2>3. Open'
    BY <2>1, <2>2 DEF Open, Grants
  <2> QED
    BY <1>3, <2>3 DEF ShakeInv
<1>7. CASE ~good
  <2>1. Answered'
    BY <1>1, <1>2, <1>3, <1>4, <1>5, <1>7
    DEF Upgrading, Answered, Shaking, Early, Quiet
  <2> QED
    BY <1>3, <2>1 DEF ShakeInv
<1> QED
  BY <1>6, <1>7

(* A listener that grants or relays serves an open connection, or one that *)
(* the client has left.                                                    *)
LEMMA Granted ==
    ASSUME ShakeInv, listener \in Grants
    PROVE  /\ Open \/ Left
           /\ ShakeTypes /\ Wire = Payload(tunnelGot + 1, sentUp)
<1>1. Open \/ Left
  BY PeerFacts DEF ShakeInv, ShakeTypes, Fresh, Asking, Shaking, Listens,
     Answered, Upgrading, Refused, Grants
<1> QED
  BY <1>1 DEF ShakeInv, Open, Left, Grants

(* Handing the connection over with what was read ahead keeps it.          *)
LEMMA HandOverKeeps == ASSUME ShakeInv, HandOver PROVE ShakeInv'
<1>1. /\ listener = "granted" /\ listener' = "relaying"
      /\ UNCHANGED <<peer, client, toServer, toClient, buffer, sentUp,
                     sentDown, tunnelGot, clientGot, eaten>>
  BY DEF HandOver, Given
<1>2. /\ ShakeTypes' /\ Wire' = Wire
      /\ Payload(tunnelGot + 1, sentUp)' = Payload(tunnelGot + 1, sentUp)
  BY <1>1 DEF ShakeInv, ShakeTypes, Wire
<1>3. Open \/ Left
  BY <1>1, Granted DEF Grants
<1>4. CASE Open
  <2>1. Open'
    BY <1>1, <1>2, <1>4 DEF Open, Grants
  <2> QED
    BY <1>2, <2>1 DEF ShakeInv
<1>5. CASE Left
  <2>1. Left'
    BY <1>1, <1>2, <1>5 DEF Left, Grants
  <2> QED
    BY <1>2, <2>1 DEF ShakeInv
<1> QED
  BY <1>3, <1>4, <1>5

(* The tunnel reads payload alone.                                         *)
LEMMA TunnelReadsKeeps == ASSUME ShakeInv, TunnelReads PROVE ShakeInv'
<1>1. PICK k \in Fills : ServerReads(k)
  BY DEF TunnelReads
<1>2. /\ listener = "relaying" /\ tunnelGot' = tunnelGot + 1
      /\ UNCHANGED <<listener, toClient, peer, client, sentUp, sentDown,
                     clientGot, eaten>>
  BY <1>1 DEF TunnelReads, ServerReads
<1>3. /\ Open \/ Left
      /\ ShakeTypes /\ Wire = Payload(tunnelGot + 1, sentUp)
  BY <1>2, Granted DEF Grants
<1>4. /\ buffer' \in Seq(Item) /\ toServer' \in Seq(Item)
      /\ Wire # <<>> /\ Wire' = Tail(Wire)
  BY <1>1, <1>3, WireRead
<1>5. /\ tunnelGot + 1 <= sentUp
      /\ Wire' = Payload(tunnelGot' + 1, sentUp')
  BY <1>2, <1>3, <1>4, ReadsPayload
<1>6. ShakeTypes'
  BY <1>2, <1>3, <1>4, <1>5 DEF ShakeTypes
<1>7. CASE Open
  <2>1. Open'
    BY <1>2, <1>5, <1>7 DEF Open
  <2> QED
    BY <1>6, <2>1 DEF ShakeInv
<1>8. CASE Left
  <2>1. Left'
    BY <1>2, <1>5, <1>8 DEF Left, Grants
  <2> QED
    BY <1>6, <2>1 DEF ShakeInv
<1> QED
  BY <1>3, <1>7, <1>8

(* The tunnel writes behind the reply.                                     *)
LEMMA TunnelWritesKeeps == ASSUME ShakeInv, TunnelWrites PROVE ShakeInv'
<1>1. /\ listener = "relaying" /\ sentDown' = sentDown + 1
      /\ toClient' = Append(toClient, Data(sentDown + 1))
      /\ UNCHANGED <<peer, client, listener, toServer, buffer, sentUp,
                     tunnelGot, clientGot, eaten>>
  BY DEF TunnelWrites, Replies
<1>2. /\ Open \/ Left
      /\ ShakeTypes /\ Wire = Payload(tunnelGot + 1, sentUp)
  BY <1>1, Granted DEF Grants
<1>3. ShakeTypes' /\ Wire' = Payload(tunnelGot' + 1, sentUp')
  BY <1>1, <1>2 DEF ShakeTypes, Wire
<1>4. sentDown \in Nat /\ clientGot \in Nat /\ eaten \in Nat
  BY <1>2 DEF ShakeTypes
<1>5. CASE Open /\ client = "requested"
  <2>1. PICK m \in {[kind |-> "reply"], Verdict(TRUE)} :
           /\ toClient = <<m>> \o Payload(1, sentDown)
           /\ peer.speaks = "socks5" \/ m = Verdict(TRUE)
    BY <1>5 DEF Open
  <2>2. toClient' = <<m>> \o Payload(1, sentDown')
    BY <1>1, <1>4, <2>1, HeadedFacts
  <2>3. peer.cmd # "get" /\ clientGot = 0 /\ eaten = 0
    BY <1>5 DEF Open
  <2>4. Open'
    BY <1>1, <1>3, <1>5, <2>1, <2>2, <2>3 DEF Open, Grants
  <2> QED
    BY <1>3, <2>4 DEF ShakeInv
<1>6. CASE Open /\ client # "requested"
  <2>1. /\ client = "connected" /\ clientGot + eaten <= sentDown
        /\ toClient = Payload(clientGot + eaten + 1, sentDown)
    BY <1>6 DEF Open
  <2>2. toClient' = Payload(clientGot + eaten + 1, sentDown + 1)
    <3>1. /\ clientGot + eaten + 1 \in Nat \ {0}
          /\ clientGot + eaten + 1 <= sentDown + 1
      BY <1>4, <2>1
    <3> QED
      BY <1>1, <1>4, <2>1, <3>1, PayloadFacts
  <2>3. Open'
    BY <1>1, <1>3, <1>4, <2>1, <2>2 DEF Open, Grants
  <2> QED
    BY <1>3, <2>3 DEF ShakeInv
<1>7. CASE Left
  <2>1. Left'
    BY <1>1, <1>3, <1>7 DEF Left, Grants
  <2> QED
    BY <1>3, <2>1 DEF ShakeInv
<1> QED
  BY <1>2, <1>5, <1>6, <1>7

(* A server that closes keeps the invariant.                               *)
LEMMA ServerClosesKeeps == ASSUME ShakeInv, ServerCloses PROVE ShakeInv'
<1>1. /\ client = "closed" /\ client' = client /\ listener' = "closed"
      /\ UNCHANGED <<peer, toServer, buffer, sentUp, sentDown, tunnelGot,
                     clientGot, eaten>>
  BY DEF ServerCloses
<1>2. ShakeTypes'
  BY <1>1 DEF ShakeInv, ShakeTypes
<1>3. Left'
  BY <1>1 DEF Left
<1> QED
  BY <1>2, <1>3 DEF ShakeInv

-----------------------------------------------------------------------------
(* The steps of the client.                                                *)
LEMMA BeginKeeps ==
    ASSUME ShakeInv, NEW p \in OwnDials \cup AppDials, Begin(p)
    PROVE  ShakeInv'
<1>1. /\ client = "new" /\ peer' = p
      /\ UNCHANGED <<listener, toClient, buffer, sentUp, sentDown, tunnelGot,
                     clientGot, eaten>>
  BY DEF Begin
<1>2. Fresh /\ ShakeTypes
  BY <1>1 DEF ShakeInv, Asking, Answered, Upgrading, Refused, Open, Left,
     Shaking
<1>3. /\ client' = IF p.speaks = "socks5" THEN "greeted" ELSE "requested"
      /\ SendsUp(Said')
  BY <1>1 DEF Begin, Said, Asked
<1>4. Said' \in Item
  <2>1. (peer \in OwnDials \cup AppDials)'
    BY <1>1
  <2>2. (/\ Hello \in Item /\ Login \in Item /\ Request(peer.cmd) \in Item
         /\ Asked(peer) \in Item)'
    BY <1>1 DEF Item, Login, Request, Asked, OwnDials, AppDials, Dials,
       Commands, Logins
  <2> QED
    BY <2>2 DEF Said
<1>5. toServer' \in Seq(Item) /\ Wire' = Append(Wire, Said')
  BY <1>1, <1>2, <1>3, <1>4, WireSaid
<1>6. Wire' = <<Said'>> \o Payload(1, 0)
  BY <1>2, <1>5, AloneFacts DEF Fresh
<1>7. ShakeTypes'
  BY <1>1, <1>2, <1>3, <1>5 DEF ShakeTypes, Fresh, Quiet
<1>8. Asking'
  <2>1. listener' \in Listens'
    BY <1>1, <1>2, <1>3 DEF Fresh, Listens
  <2>2. sentUp' = 0
    BY <1>1, <1>2 DEF Fresh
  <2> QED
    BY <1>1, <1>2, <1>3, <1>6, <2>1, <2>2 DEF Asking, Shaking, Fresh, Quiet
<1> QED
  BY <1>7, <1>8 DEF ShakeInv

(* An answer is there for a client that reads one.                         *)
LEMMA ReadsAnswer ==
    ASSUME ShakeInv, Shaking, toClient # <<>>
    PROVE  /\ ShakeTypes /\ peer \in OwnDials \cup AppDials
           /\ Answered \/ (Open /\ client = "requested")
  BY DEF ShakeInv, ShakeTypes, Fresh, Asking, Upgrading, Refused, Open, Left,
     Shaking

(* A client that closes instead of answering leaves the listener alone.    *)
LEMMA ClosesAfterAnswer ==
    ASSUME ShakeInv, Answered, client' = "closed", ShakeTypes',
           listener \in {"login", "http", "closed"},
           UNCHANGED <<listener, buffer, toServer>>
    PROVE  ShakeInv'
<1>1. Wire' = Wire
  BY DEF Wire
<1> QED
  BY <1>1 DEF Answered, Left, ShakeInv

(* And what it says next is what the listener waits for.                   *)
LEMMA SaysNext ==
    ASSUME ShakeTypes, peer \in OwnDials \cup AppDials, Answered,
           UNCHANGED <<peer, listener, buffer, sentUp, sentDown, tunnelGot,
                       clientGot, eaten>>,
           client' \in {"authorizing", "requested"},
           client' = "authorizing" => peer.speaks = "socks5",
           SendsUp(Said'), Said' \in Item, listener \in Listens',
           toClient' = <<>>
    PROVE  ShakeInv'
<1>1. toServer' \in Seq(Item) /\ Wire' = Append(Wire, Said')
  BY WireSaid
<1>2. Wire' = <<Said'>> \o Payload(1, 0)
  BY <1>1, AloneFacts DEF Answered
<1>3. ShakeTypes'
  BY <1>1 DEF ShakeTypes
<1>4. sentUp' = 0
  BY DEF Answered
<1>5. Asking'
  BY <1>2, <1>4 DEF Asking, Shaking, Answered, Quiet
<1> QED
  BY <1>3, <1>5 DEF ShakeInv

(* The client reads the chosen method and nothing behind it.               *)
LEMMA ReadMethodKeeps == ASSUME ShakeInv, ReadMethod PROVE ShakeInv'
<1>1. /\ client = "greeted" /\ toClient # <<>> /\ toClient' = Tail(toClient)
      /\ UNCHANGED <<peer, listener, buffer, sentUp, sentDown, tunnelGot,
                     eaten, clientGot>>
  BY DEF ReadMethod, ClientReads
<1>2. Answered /\ ShakeTypes /\ peer \in OwnDials \cup AppDials
  BY <1>1, ReadsAnswer DEF Shaking
<1>3. /\ toClient = <<[kind |-> "method", asks |-> peer.asks]>>
      /\ listener = IF peer.asks THEN "login" ELSE "command"
      /\ peer.speaks = "socks5"
  BY <1>1, <1>2 DEF Answered, ShakeTypes
<1>4. Head(toClient).asks = peer.asks /\ toClient' = <<>>
  BY <1>1, <1>3, AloneFacts
<1>5. CASE peer.asks /\ peer.login = "none"
  <2>1. client' = "closed" /\ UNCHANGED toServer
    BY <1>4, <1>5 DEF ReadMethod
  <2>2. ShakeTypes'
    BY <1>1, <1>2, <2>1 DEF ShakeTypes
  <2> QED
    BY <1>1, <1>2, <1>3, <1>5, <2>1, <2>2, ClosesAfterAnswer
<1>6. CASE peer.asks /\ peer.login # "none"
  <2>1. SendsUp(Login) /\ client' = "authorizing"
    BY <1>4, <1>6 DEF ReadMethod
  <2>2. Said' = Login /\ Listens' = {"login"}
    BY <1>1, <2>1 DEF Said, Login, Listens
  <2> QED
    BY <1>1, <1>2, <1>3, <1>4, <1>6, <2>1, <2>2, ItemFacts, SaysNext
<1>7. CASE ~peer.asks
  <2>1. SendsUp(Request(peer.cmd)) /\ client' = "requested"
    BY <1>4, <1>7 DEF ReadMethod
  <2>2. Said' = Request(peer.cmd) /\ Listens' = {"command"}
    BY <1>1, <1>3, <2>1 DEF Said, Listens
  <2> QED
    BY <1>1, <1>2, <1>3, <1>4, <1>7, <2>1, <2>2, ItemFacts, SaysNext
<1> QED
  BY <1>5, <1>6, <1>7

(* The client reads the verdict on its password and nothing behind it.     *)
LEMMA ReadVerdictKeeps == ASSUME ShakeInv, ReadVerdict PROVE ShakeInv'
<1>1. /\ client = "authorizing" /\ toClient # <<>>
      /\ toClient' = Tail(toClient)
      /\ UNCHANGED <<peer, listener, buffer, sentUp, sentDown, tunnelGot,
                     eaten, clientGot>>
  BY DEF ReadVerdict, ClientReads
<1>2. Answered /\ ShakeTypes /\ peer \in OwnDials \cup AppDials
  BY <1>1, ReadsAnswer DEF Shaking
<1>3. PICK g \in BOOLEAN : /\ toClient = <<Verdict(g)>>
                           /\ listener = IF g THEN "command" ELSE "closed"
  BY <1>1, <1>2 DEF Answered
<1>4. Head(toClient).good = g /\ toClient' = <<>>
  BY <1>1, <1>3, AloneFacts DEF Verdict
<1>5. CASE g
  <2>1. SendsUp(Request(peer.cmd)) /\ client' = "requested"
    BY <1>4, <1>5 DEF ReadVerdict
  <2>2. peer.speaks = "socks5"
    BY <1>1, <1>2 DEF ShakeTypes
  <2>3. Said' = Request(peer.cmd) /\ Listens' = {"command"}
    BY <1>1, <2>1, <2>2 DEF Said, Listens
  <2> QED
    BY <1>1, <1>2, <1>3, <1>4, <1>5, <2>1, <2>3, ItemFacts, SaysNext
<1>6. CASE ~g
  <2>1. client' = "closed" /\ UNCHANGED toServer
    BY <1>4, <1>6 DEF ReadVerdict
  <2>2. ShakeTypes'
    BY <1>1, <1>2, <2>1 DEF ShakeTypes
  <2> QED
    BY <1>1, <1>2, <1>3, <1>6, <2>1, <2>2, ClosesAfterAnswer
<1> QED
  BY <1>5, <1>6

(* A client that reads what it hoped for has been granted it.              *)
LEMMA Connects ==
    ASSUME ShakeTypes, Open, client = "requested", client' = "connected",
           ShakeTypes', eaten' <= sentDown,
           toClient' = Payload(eaten' + 1, sentDown),
           UNCHANGED <<listener, toServer, buffer, sentUp, sentDown,
                       tunnelGot, clientGot>>
    PROVE  ShakeInv'
<1>1. Wire' = Wire
  BY DEF Wire
<1>2. clientGot' = 0 /\ eaten' \in Nat
  BY DEF Open, ShakeTypes
<1>3. clientGot' + eaten' = eaten'
  <2>1. \A x \in Nat : 0 + x = x
    OBVIOUS
  <2> QED
    BY <1>2, <2>1, Zenon
<1>4. Open'
  BY <1>1, <1>3 DEF Open, Grants
<1> QED
  BY <1>4 DEF ShakeInv

(* The client reads the reply of SOCKS and nothing behind it.              *)
LEMMA ReadReplyKeeps == ASSUME ShakeInv, ReadReply PROVE ShakeInv'
<1>1. /\ client = "requested" /\ toClient # <<>> /\ toClient' = Tail(toClient)
      /\ UNCHANGED <<peer, listener, buffer, sentUp, sentDown, tunnelGot,
                     eaten, clientGot, toServer>>
      /\ peer.cmd # "get"
      /\ client' = IF peer.speaks = "socks5" \/ Head(toClient).good
                   THEN "connected" ELSE "closed"
  BY DEF ReadReply, ClientReads
<1>2. /\ ShakeTypes /\ peer \in OwnDials \cup AppDials
      /\ Answered \/ Open
  BY <1>1, ReadsAnswer DEF Shaking
<1>3. ShakeTypes'
  BY <1>1, <1>2 DEF ShakeTypes
<1>4. CASE Answered
  <2>1. /\ toClient = <<Verdict(FALSE)>> /\ peer.speaks = "http"
        /\ listener \in {"http", "closed"}
    BY <1>1, <1>4 DEF Answered
  <2>2. Head(toClient).good = FALSE
    BY <2>1, AloneFacts DEF Verdict
  <2>3. client' = "closed"
    BY <1>1, <2>1, <2>2
  <2> QED
    BY <1>1, <1>3, <1>4, <2>1, <2>3, ClosesAfterAnswer
<1>5. CASE Open
  <2>1. PICK m \in {[kind |-> "reply"], Verdict(TRUE)} :
           /\ toClient = <<m>> \o Payload(1, sentDown)
           /\ peer.speaks = "socks5" \/ m = Verdict(TRUE)
    BY <1>1, <1>5 DEF Open
  <2>2. eaten' = 0 /\ sentDown \in Nat
    BY <1>1, <1>2, <1>5 DEF Open, ShakeTypes
  <2>3. Head(toClient) = m /\ toClient' = Payload(eaten' + 1, sentDown)
    <3>1. eaten' + 1 = 1
      BY <2>2
    <3>2. Head(toClient) = m /\ Tail(toClient) = Payload(1, sentDown)
      BY <2>1, <2>2, HeadedFacts
    <3> QED
      BY <1>1, <3>1, <3>2
  <2>4. client' = "connected"
    BY <1>1, <2>1, <2>3 DEF Verdict
  <2> QED
    BY <1>1, <1>2, <1>3, <1>5, <2>2, <2>3, <2>4, Connects
<1> QED
  BY <1>2, <1>4, <1>5

(* The client sends the request of HTTP.                                   *)
LEMMA ShakeHandKeeps == ASSUME ShakeInv, shakeHand PROVE ShakeInv'
<1>1. PICK k \in 1..Len(toClient) :
         /\ toClient' = SubSeq(toClient, k + 1, Len(toClient))
         /\ eaten' = k - 1
  BY DEF shakeHand
<1>2. /\ client = "requested" /\ peer.own /\ peer.speaks = "http"
      /\ client' = IF Head(toClient).good THEN "connected" ELSE "closed"
      /\ UNCHANGED <<peer, listener, toServer, buffer, sentUp, sentDown,
                     tunnelGot, clientGot>>
  BY DEF shakeHand
<1>3. toClient # <<>>
  BY <1>1
<1>4. /\ ShakeTypes /\ peer \in OwnDials \cup AppDials
      /\ Answered \/ Open
  BY <1>2, <1>3, ReadsAnswer DEF Shaking
<1>5. CASE Answered
  <2>1. peer.cmd = "connect"
    BY <1>2, <1>4, PeerFacts
  <2>2. toClient = <<Verdict(FALSE)>> /\ listener \in {"http", "closed"}
    BY <1>2, <1>5, <2>1 DEF Answered
  <2>3. Head(toClient).good = FALSE /\ Len(toClient) = 1
    BY <2>2, AloneFacts DEF Verdict
  <2>4. client' = "closed" /\ eaten' = 0
    BY <1>1, <1>2, <2>3
  <2>5. ShakeTypes'
    BY <1>2, <1>4, <2>4 DEF ShakeTypes
  <2> QED
    BY <1>2, <1>5, <2>2, <2>4, <2>5, ClosesAfterAnswer
<1>6. CASE Open
  <2>1. toClient = <<Verdict(TRUE)>> \o Payload(1, sentDown)
    BY <1>2, <1>6 DEF Open
  <2>2. sentDown \in Nat
    BY <1>4 DEF ShakeTypes
  <2>3. /\ Head(toClient) = Verdict(TRUE) /\ Len(toClient) = sentDown + 1
        /\ \A x \in 1..(sentDown + 1) :
              SubSeq(toClient, x + 1, sentDown + 1) = Payload(x, sentDown)
    BY <2>1, <2>2, HeadedFacts
  <2>4. /\ k \in 1..(sentDown + 1) /\ eaten' + 1 = k /\ eaten' \in Nat
        /\ eaten' <= sentDown
    BY <1>1, <2>2, <2>3
  <2>5. toClient' = Payload(eaten' + 1, sentDown)
    BY <1>1, <2>3, <2>4
  <2>6. client' = "connected"
    BY <1>2, <2>3 DEF Verdict
  <2>7. ShakeTypes'
    BY <1>2, <1>4, <2>4, <2>6 DEF ShakeTypes
  <2> QED
    BY <1>2, <1>4, <1>6, <2>4, <2>5, <2>6, <2>7, Connects
<1> QED
  BY <1>4, <1>5, <1>6

(* The client reads the response of HTTP, and may take payload with it.    *)
LEMMA ReadResponseKeeps == ASSUME ShakeInv, ReadResponse PROVE ShakeInv'
<1>1. /\ client = "requested" /\ peer.cmd = "get"
      /\ toClient # <<>> /\ toClient' = Tail(toClient)
      /\ UNCHANGED <<peer, listener, buffer, sentUp, sentDown, tunnelGot,
                     eaten, clientGot>>
  BY DEF ReadResponse, ClientReads
<1>2. /\ ShakeTypes /\ peer \in OwnDials \cup AppDials
      /\ Answered
  BY <1>1, ReadsAnswer DEF Shaking, Open
<1>3. PICK g \in BOOLEAN :
         /\ toClient = <<Verdict(g)>> /\ peer.speaks = "http"
         /\ listener = IF peer.keep THEN "http" ELSE "closed"
  BY <1>1, <1>2 DEF Answered
<1>4. toClient' = <<>>
  BY <1>1, <1>3, AloneFacts
<1>5. CASE peer.keep /\ SendsUp(Asked(peer)) /\ UNCHANGED client
  <2>1. Said' = Asked(peer) /\ Listens' = {"accepted", "http"}
    BY <1>1, <1>3, <1>5 DEF Said, Listens, Asked
  <2> QED
    BY <1>1, <1>2, <1>3, <1>4, <1>5, <2>1, ItemFacts, SaysNext
<1>6. CASE client' = "closed" /\ UNCHANGED toServer
  <2>1. ShakeTypes'
    BY <1>1, <1>2, <1>6 DEF ShakeTypes
  <2> QED
    BY <1>1, <1>2, <1>3, <1>6, <2>1, ClosesAfterAnswer
<1> QED
  BY <1>5, <1>6 DEF ReadResponse

(* The client sends payload behind its handshake.                          *)
LEMMA ClientSendsKeeps == ASSUME ShakeInv, ClientSends PROVE ShakeInv'
<1>1. /\ client = "connected" \/ Early
      /\ sentUp' = sentUp + 1 /\ SendsUp(Data(sentUp + 1))
      /\ UNCHANGED <<peer, client, listener, toClient, buffer, sentDown,
                     tunnelGot, clientGot, eaten>>
  BY DEF ClientSends, Early
<1>2. /\ ShakeTypes /\ sentUp \in Nat /\ tunnelGot \in Nat
      /\ tunnelGot <= sentUp
  BY DEF ShakeInv, ShakeTypes
<1>3. Data(sentUp + 1) \in Item
  BY <1>2 DEF Item
<1>4. toServer' \in Seq(Item) /\ Wire' = Append(Wire, Data(sentUp + 1))
  BY <1>1, <1>2, <1>3, WireSaid
<1>5. ShakeTypes'
  BY <1>1, <1>2, <1>4 DEF ShakeTypes
<1>6. (Asking /\ Early) \/ Open \/ (Refused /\ client = "requested")
  BY <1>1 DEF ShakeInv, Fresh, Asking, Answered, Upgrading, Refused, Open,
     Left, Shaking, Early
<1>7. CASE Asking /\ Early
  <2>1. Wire' = <<Said>> \o Payload(1, sentUp')
    BY <1>1, <1>2, <1>4, <1>7, HeadedFacts DEF Asking
  <2>2. Said' = Said /\ Listens' = Listens /\ Early'
    BY <1>1, <1>7 DEF Said, Login, Asked, Request, Listens, Early
  <2>3. Asking'
    BY <1>1, <1>7, <2>1, <2>2 DEF Asking, Shaking, Quiet
  <2> QED
    BY <1>5, <2>3 DEF ShakeInv
<1>8. CASE Open
  <2>1. Wire' = Payload(tunnelGot' + 1, sentUp')
    <3>1. /\ tunnelGot + 1 \in Nat \ {0} /\ tunnelGot + 1 <= sentUp + 1
      BY <1>2
    <3>2. Append(Payload(tunnelGot + 1, sentUp), Data(sentUp + 1))
             = Payload(tunnelGot + 1, sentUp + 1)
      BY <1>2, <3>1, PayloadFacts
    <3> QED
      BY <1>1, <1>4, <1>8, <3>2 DEF Open
  <2>2. Open'
    BY <1>1, <1>8, <2>1 DEF Open
  <2> QED
    BY <1>5, <2>2 DEF ShakeInv
<1>9. CASE Refused
  BY <1>1, <1>9 DEF Refused, Early
<1> QED
  BY <1>6, <1>7, <1>8, <1>9

(* The client gets payload once it has the reply.                          *)
LEMMA ClientGetsKeeps == ASSUME ShakeInv, ClientGets PROVE ShakeInv'
<1>1. /\ client = "connected" /\ toClient # <<>>
      /\ toClient' = Tail(toClient) /\ clientGot' = clientGot + 1
      /\ UNCHANGED <<peer, client, listener, toServer, buffer, sentUp,
                     sentDown, tunnelGot, eaten>>
  BY DEF ClientGets, ClientReads
<1>2. /\ Open /\ ShakeTypes
      /\ sentDown \in Nat /\ clientGot \in Nat /\ eaten \in Nat
  BY <1>1 DEF ShakeInv, ShakeTypes, Fresh, Asking, Answered, Upgrading,
     Refused, Left, Shaking
<1>3. /\ clientGot + eaten <= sentDown
      /\ toClient = Payload(clientGot + eaten + 1, sentDown)
  BY <1>1, <1>2 DEF Open
<1>4. /\ clientGot + eaten + 1 \in Nat \ {0}
      /\ clientGot + eaten + 1 <= sentDown + 1
  BY <1>2, <1>3
<1>5. ~(clientGot + eaten + 1 = sentDown + 1)
  BY <1>1, <1>2, <1>3, <1>4, PayloadFacts
<1>6. clientGot + eaten + 1 <= sentDown
  BY <1>2, <1>4, <1>5
<1>7. toClient' = Payload(clientGot + eaten + 1 + 1, sentDown)
  BY <1>1, <1>2, <1>3, <1>4, <1>6, PayloadFacts
<1>8. /\ clientGot' + eaten' + 1 = clientGot + eaten + 1 + 1
      /\ clientGot' + eaten' <= sentDown'
  BY <1>1, <1>2, <1>6
<1>9. ShakeTypes' /\ Wire' = Wire
  BY <1>1, <1>2 DEF ShakeTypes, Wire
<1>10. Open'
  BY <1>1, <1>2, <1>7, <1>8, <1>9 DEF Open
<1> QED
  BY <1>9, <1>10 DEF ShakeInv

(* A client that closes keeps the invariant.                               *)
LEMMA ClientClosesKeeps == ASSUME ShakeInv, ClientCloses PROVE ShakeInv'
<1>1. /\ client \notin {"new", "closed"} /\ client' = "closed"
      /\ client = "connected" \/ (listener = "closed" /\ toClient = <<>>)
      /\ UNCHANGED <<peer, listener, toServer, toClient, buffer, sentUp,
                     sentDown, tunnelGot, clientGot, eaten>>
  BY DEF ClientCloses
<1>2. ShakeTypes' /\ Wire' = Wire
  BY <1>1 DEF ShakeInv, ShakeTypes, Wire
<1>3. listener = "closed" \/ Open
  BY <1>1 DEF ShakeInv, Fresh, Asking, Answered, Upgrading, Refused, Left,
     Shaking
<1>4. Left'
  BY <1>1, <1>2, <1>3 DEF Left, Open
<1> QED
  BY <1>2, <1>4 DEF ShakeInv

-----------------------------------------------------------------------------
(* Nobody has begun yet.                                                   *)
LEMMA InitShakes == ShakeInit => ShakeInv
<1> SUFFICES ASSUME ShakeInit PROVE ShakeInv
  OBVIOUS
<1>1. buffer = <<>> /\ toServer = <<>> /\ client = "new"
  BY DEF ShakeInit
<1>2. buffer \in Seq(Item) /\ toServer \in Seq(Item)
  BY <1>1, EmptySeq
<1>3. Wire = <<>>
  BY <1>1, <1>2 DEF Wire
<1>4. ShakeTypes
  BY <1>1, <1>2 DEF ShakeInit, ShakeTypes
<1>5. Fresh
  BY <1>3 DEF ShakeInit, Fresh, Quiet
<1> QED
  BY <1>4, <1>5 DEF ShakeInv

(* Every step of a handshake keeps the invariant.                          *)
LEMMA NextShakes == ShakeInv /\ [ShakeNext]_shakeVars => ShakeInv'
<1> SUFFICES ASSUME ShakeInv, [ShakeNext]_shakeVars PROVE ShakeInv'
  OBVIOUS
<1>1. CASE UNCHANGED shakeVars
  <2>1. /\ UNCHANGED <<peer, client, listener, toServer, toClient, buffer>>
        /\ UNCHANGED <<sentUp, sentDown, tunnelGot, clientGot, eaten>>
    BY <1>1 DEF shakeVars
  <2>2. ShakeTypes' /\ Wire' = Wire /\ Said' = Said /\ Listens' = Listens
    BY <2>1 DEF ShakeInv, ShakeTypes, Wire, Said, Login, Listens
  <2> QED
    BY <2>1, <2>2 DEF ShakeInv, Fresh, Asking, Answered, Upgrading, Refused,
       Open, Left, Shaking, Quiet, Early
<1>2. CASE ShakeNext
  BY <1>2, BeginKeeps, ReadMethodKeeps, ReadVerdictKeeps, ReadReplyKeeps,
     ShakeHandKeeps, ReadResponseKeeps, ClientSendsKeeps, ClientGetsKeeps,
     ClientClosesKeeps, PeekKeeps, ReadHelloKeeps, VerifyKeeps,
     ReadCommandKeeps, HandleSocks4Keeps, HandleConnKeeps,
     HandleUpgradeKeeps, HandOverKeeps, TunnelReadsKeeps, TunnelWritesKeeps,
     ServerClosesKeeps DEF ShakeNext
<1> QED
  BY <1>1, <1>2

(* A handshake is in one of its stages.                                    *)
THEOREM HandshakesFit == ShakeSpec => []ShakeInv
  BY InitShakes, NextShakes, PTL DEF ShakeSpec

(* However reads and segments meet, both sides of a connection that was    *)
(* granted read the payload from its first part on, for any amount of it.  *)
THEOREM NoPayloadTaken == ShakeSpec => []HandshakeTakesNoPayload
<1>1. ShakeInv => HandshakeTakesNoPayload
  <2> SUFFICES ASSUME ShakeInv PROVE HandshakeTakesNoPayload
    OBVIOUS
  <2>1. listener = "relaying" => Wire = Payload(tunnelGot + 1, sentUp)
    BY Granted DEF Grants
  <2>2. ASSUME client = "connected"
        PROVE  /\ listener \in Grants
               /\ toClient = Payload(clientGot + eaten + 1, sentDown)
    BY <2>2 DEF ShakeInv, Fresh, Asking, Answered, Upgrading, Refused, Open,
       Left, Shaking
  <2>3. eaten > 0 => peer.own /\ peer.speaks = "http"
    BY DEF ShakeInv, ShakeTypes
  <2> QED
    BY <2>1, <2>2, <2>3 DEF HandshakeTakesNoPayload, Wire, Grants
<1> QED
  BY <1>1, HandshakesFit, PTL
=============================================================================
