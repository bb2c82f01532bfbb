------------------------------- MODULE Counters -------------------------------
(***************************************************************************)
(* The traffic counters of one policy and one direction.  A relay adds the *)
(* bytes it moved to the counter of the second and then to the total;      *)
(* Manager.handle publishes the former once a second and sets it to zero,  *)
(* in two steps; the traffic and the connections of the API are read from  *)
(* the published values.                                                   *)
(***************************************************************************)
EXTENDS Naturals, FiniteSets

CONSTANTS
    Relays,    \* goroutines that move bytes of the policy
    Chunks,    \* the sizes of what they move at once
    MaxMoved   \* bound: bytes moved

ASSUME ChunkAssumption ==
    Chunks \subseteq Nat \ {0} /\ MaxMoved \in Nat /\ IsFiniteSet(Relays)

VARIABLES
    temp, blip, total,  \* uploadTemp, uploadBlip, uploadTotal
    ofRelay,   \* relay -> trackerInfo.UploadTotal
    size,      \* relay -> the bytes it is counting, 0 when it counts none
    counted,   \* relay -> how many of the three counters have them
    published, \* handle is between Store(temp.Load()) and Store(0)
    speeds,    \* history: the sum of the published speeds
    moved      \* history: the bytes moved

countVars == <<temp, blip, total, ofRelay, size, counted, published, speeds,
               moved>>

CountInit ==
    /\ temp = 0 /\ blip = 0 /\ total = 0
    /\ ofRelay = [r \in Relays |-> 0]
    /\ size = [r \in Relays |-> 0] /\ counted = [r \in Relays |-> 0]
    /\ published = FALSE /\ speeds = 0 /\ moved = 0

-------------------------------------------------------------------------------
\* TcpTracker.Write and UdpTracker.WriteTo, after the bytes were written.
MoveBytes(r) ==
    /\ size[r] = 0
    /\ \E n \in Chunks : /\ moved + n <= MaxMoved
                         /\ size' = [size EXCEPT ![r] = n]
                         /\ moved' = moved + n
    /\ counted' = [counted EXCEPT ![r] = 0]
    /\ UNCHANGED <<temp, blip, total, ofRelay, published, speeds>>

\* PushUploaded: uploadTemp, then uploadTotal; then the tracker's own.
PushTemp(r) ==
    /\ size[r] # 0 /\ counted[r] = 0
    /\ temp' = temp + size[r]
    /\ counted' = [counted EXCEPT ![r] = 1]
    /\ UNCHANGED <<blip, total, ofRelay, size, published, speeds, moved>>

PushTotal(r) ==
    /\ size[r] # 0 /\ counted[r] = 1
    /\ total' = total + size[r]
    /\ counted' = [counted EXCEPT ![r] = 2]
    /\ UNCHANGED <<temp, blip, ofRelay, size, published, speeds, moved>>

PushOwn(r) ==
    /\ size[r] # 0 /\ counted[r] = 2
    /\ ofRelay' = [ofRelay EXCEPT ![r] = @ + size[r]]
    /\ size' = [size EXCEPT ![r] = 0]
    /\ UNCHANGED <<temp, blip, total, counted, published, speeds, moved>>

\* Manager.handle, on every tick.
Publish ==
    /\ ~published
    /\ blip' = temp /\ speeds' = speeds + temp
    /\ published' = TRUE
    /\ UNCHANGED <<temp, total, ofRelay, size, counted, moved>>

(* Mutant: the counter of the second is not set to zero.                   *)
KeepTemp ==
    /\ published
    /\ published' = FALSE
    /\ UNCHANGED <<temp, blip, total, ofRelay, size, counted, speeds, moved>>

ClearTemp ==
    /\ published
    /\ temp' = 0
    /\ published' = FALSE
    /\ UNCHANGED <<blip, total, ofRelay, size, counted, speeds, moved>>

CountNext ==
    \/ Publish \/ ClearTemp
    \/ \E r \in Relays :
         MoveBytes(r) \/ PushTemp(r) \/ PushTotal(r) \/ PushOwn(r)

CountSpec == CountInit /\ [][CountNext]_countVars

-------------------------------------------------------------------------------
SumOf(f) ==
    LET Sum[S \in SUBSET Relays] ==
            IF S = {} THEN 0
            ELSE LET r == CHOOSE r \in S : TRUE IN f[r] + Sum[S \ {r}]
    IN  Sum[Relays]

\* What a relay has not yet counted with its k-th counter, and all of them.
Owes(k)   == [r \in Relays |-> IF counted[r] < k THEN size[r] ELSE 0]
Behind(k) == SumOf(Owes(k))

\* No byte is in two speeds, although a byte counted between the load and the
\* store of Manager.handle is in none; the total and the connections' own
\* totals lack exactly the bytes that relays are still counting.
BytesCountedOnce ==
    /\ speeds + (IF published THEN 0 ELSE temp) <= moved
    /\ total + Behind(2) = moved
    /\ SumOf(ofRelay) + Behind(3) = moved
===============================================================================
