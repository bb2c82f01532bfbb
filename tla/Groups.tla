-------------------------------- MODULE Groups ---------------------------------
(***************************************************************************)
(* The automatic mode: a group of proxies that picks one for every dial,   *)
(* by the delays measured (url-test), in the order of the list (fallback)  *)
(* or by a hash of the destination (load-balance).  What it picks by are   *)
(* the alive flag and the last delay of each proxy, which the health check *)
(* of the group and the dials themselves write, none of them under a lock  *)
(* that the picking holds.  singledo.Single lets one caller of url-test    *)
(* pick for all that call meanwhile, and keeps the pick for ten seconds.   *)
(***************************************************************************)
EXTENDS Naturals, Sequences, FiniteSets

CONSTANTS
    Proxies,   \* the proxies of the group, in its order
    Users,     \* goroutines that call the group
    NoPick,    \* no proxy
    MaxDelay   \* bound: the largest delay a test measures

Members == {Proxies[i] : i \in DOMAIN Proxies}

ASSUME GroupsAssumption ==
    /\ Proxies \in Seq(Members) \ {<<>>} /\ NoPick \notin Members
    /\ MaxDelay \in Nat \ {0}

Unknown == MaxDelay + 1   \* 0xffff

VARIABLES
    kind,     \* the type of the group, "" before it is parsed
    alive,    \* Proxy.alive
    last,     \* the delay of the last record of the history, 0 for a failure
    test,     \* of each proxy: where its URLTest is, or "none"
    due,      \* proxies of the running check that wait for their test
    touched,  \* touch was called within the interval
    node,     \* fastNode
    kept,     \* the pick that fastSingle keeps
    user,     \* of each user: [at, i, fast, min, pick]
    steady    \* history: of each user, the proxies good or dead since it began

groupVars == <<kind, alive, last, test, due, touched,
               node, kept, user, steady>>

Idle == [at |-> "idle", i |-> 0, fast |-> NoPick, min |-> 0, pick |-> NoPick]

(* Mutant: a proxy that died keeps the delay it had.                       *)
StaleDelay(p) == IF last[p] = 0 THEN Unknown ELSE last[p]

LastDelay(p) == IF ~alive[p] \/ last[p] = 0 THEN Unknown ELSE last[p]

-------------------------------------------------------------------------------
(* The health check.                                                       *)

\* NewCompatibleProvider starts the process, which checks all.
ParseProxyGroup(k) ==
    /\ kind = "" /\ kind' = k
    /\ due' = Members
    /\ UNCHANGED <<alive, last, test, touched, node, kept, user>>

Checking == due # {} \/ \E p \in Members : test[p] # "none"

(* Mutant: a group that nobody used is not checked at all.                 *)
OnlyWhenTouched(all) == IF touched THEN all ELSE {}

\* Lazy: a group that nobody used has only its dead proxies checked.
ToCheck(all) == IF touched THEN all ELSE {p \in all : ~alive[p]}

\* The tick of the interval is handled once the running check is over.
CheckTick ==
    /\ kind # "" /\ ~Checking
    /\ due' = ToCheck(Members) /\ touched' = FALSE
    /\ UNCHANGED <<kind, alive, last, test, node, kept, user>>

\* URLTest dials first.
StartTest(p) ==
    /\ p \in due /\ due' = due \ {p}
    /\ test' = [test EXCEPT ![p] = "dialing"]
    /\ UNCHANGED <<kind, alive, last, touched, node, kept, user>>

\* The dial sets alive; the request may fail after that.
TestDials(p) ==
    /\ test[p] = "dialing"
    /\ \E ok \in BOOLEAN :
           /\ alive' = [alive EXCEPT ![p] = ok]
           /\ test' = [test EXCEPT ![p] = IF ok THEN "request" ELSE "failed"]
    /\ UNCHANGED <<kind, last, due, touched, node, kept, user>>

\* The request has ended and the connection is closed: the deferred function
\* stores alive, then the record.
TestStores(p) ==
    /\ test[p] \in {"request", "failed"}
    /\ \E ok \in BOOLEAN :
           /\ ok => test[p] = "request"
           /\ alive' = [alive EXCEPT ![p] = ok]
           /\ test' = [test EXCEPT ![p] = IF ok THEN "passed" ELSE "missed"]
    /\ UNCHANGED <<kind, last, due, touched, node, kept, user>>

TestRecords(p) ==
    /\ test[p] \in {"passed", "missed"}
    /\ \E d \in IF test[p] = "passed" THEN 1..MaxDelay ELSE {0} :
           last' = [last EXCEPT ![p] = d]
    /\ test' = [test EXCEPT ![p] = "none"]
    /\ UNCHANGED <<kind, alive, due, touched, node, kept, user>>

-------------------------------------------------------------------------------
(* Picking.                                                                *)

At(u, s) == user[u].at = s
Picks(k) == kind = k
Election == \E u \in Users : At(u, "electing")

\* The providers are touched, but not when their list is cached, as it is for
\* five seconds: then only a user of a shared pick touches them.
Touch(shared) == touched' \in (IF shared THEN {TRUE} ELSE {touched, TRUE})

Picked(p) == [Idle EXCEPT !.at = "dialing", !.pick = p]

\* Do: the kept pick, the election of another, or one's own.
Ask(u) ==
    /\ kind # "" /\ At(u, "idle")
    /\ \/ /\ Picks("url-test") /\ kept # NoPick
          /\ user' = [user EXCEPT ![u] = Picked(kept)]
          /\ Touch(TRUE)
       \/ /\ Picks("url-test") /\ kept = NoPick /\ Election
          /\ user' = [user EXCEPT ![u].at = "waiting"]
          /\ Touch(TRUE)
       \/ /\ Picks("url-test") => kept = NoPick /\ ~Election
          /\ user' = [user EXCEPT ![u].at = "electing", ![u].i = 1]
          /\ Touch(FALSE)
    /\ UNCHANGED <<kind, alive, last, test, due, node, kept>>

\* The loop of fast: the first proxy whatever it is, then the alive ones.
Compare(u) ==
    LET e == user[u]
        p == Proxies[e.i]
        better == e.i = 1 \/ (alive[p] /\ LastDelay(p) < e.min)
    IN  /\ Picks("url-test") /\ At(u, "electing") /\ e.i <= Len(Proxies)
        /\ user' = [user EXCEPT ![u].i = @ + 1,
                                ![u].fast = IF better THEN p ELSE @,
                                ![u].min = IF better THEN LastDelay(p) ELSE @]
        /\ UNCHANGED <<kind, alive, last, test, due, touched, node, kept>>

\* The loop looks for fastNode behind the first proxy only, and the group is
\* given no tolerance.
fast(u) ==
    LET e == user[u]
        exists == \E i \in 2..Len(Proxies) : Proxies[i] = node
        pick == IF node = NoPick \/ ~exists \/ ~alive[node]
                   \/ LastDelay(node) > LastDelay(e.fast)
                THEN e.fast ELSE node
    IN  /\ Picks("url-test") /\ At(u, "electing") /\ e.i > Len(Proxies)
        /\ node' = pick /\ kept' = pick
        /\ user' = [v \in Users |-> IF v = u \/ At(v, "waiting")
                                    THEN Picked(pick) ELSE user[v]]
        /\ UNCHANGED <<kind, alive, last, test, due, touched>>

\* The first that is alive, or the first.
findAliveProxy(u) ==
    LET e == user[u]
        p == Proxies[e.i]
    IN  /\ Picks("fallback") /\ At(u, "electing")
        /\ user' = [user EXCEPT ![u] =
               IF alive[p] THEN Picked(p)
               ELSE IF e.i = Len(Proxies) THEN Picked(Proxies[1])
               ELSE [e EXCEPT !.i = @ + 1]]
        /\ UNCHANGED <<kind, alive, last, test, due, touched, node, kept>>

\* Five tries by hashes of the key, which any proxy may be the target of,
\* here one, then the list as in fallback.  i = 1: the tries.
strategyConsistentHashing(u) ==
    LET e == user[u]
    IN  /\ Picks("load-balance") /\ At(u, "electing")
        /\ IF e.i = 1
           THEN \E p \in Members :
                    user' = [user EXCEPT ![u] = IF alive[p] THEN Picked(p)
                                                ELSE [e EXCEPT !.i = 2]]
           ELSE LET p == Proxies[e.i - 1]
                IN  user' = [user EXCEPT ![u] =
                        IF alive[p] THEN Picked(p)
                        ELSE IF e.i > Len(Proxies) THEN Picked(Proxies[1])
                        ELSE [e EXCEPT !.i = @ + 1]]
        /\ UNCHANGED <<kind, alive, last, test, due, touched, node, kept>>

\* The ten seconds of fastSingle.
Expire ==
    /\ kept # NoPick /\ kept' = NoPick
    /\ UNCHANGED <<kind, alive, last, test, due, touched, node, user>>

\* Proxy.DialContext: what a dial meets also marks the proxy, even when only
\* its destination was refused.  SupportUDP and the API only ask for the pick.
DialEnds(u) ==
    /\ At(u, "dialing")
    /\ \/ \E ok \in BOOLEAN : alive' = [alive EXCEPT ![user[u].pick] = ok]
       \/ UNCHANGED alive
    /\ user' = [user EXCEPT ![u] = Idle]
    /\ UNCHANGED <<kind, last, test, due, touched, node, kept>>

-------------------------------------------------------------------------------
GroupInit ==
    /\ kind = ""
    /\ alive = [p \in Members |-> TRUE] /\ last = [p \in Members |-> 0]
    /\ test = [p \in Members |-> "none"] /\ due = {}
    /\ touched = FALSE /\ node = NoPick /\ kept = NoPick
    /\ user = [u \in Users |-> Idle]
    /\ steady = [u \in Users |-> [good |-> {}, dead |-> {}]]

GroupStep ==
    \/ \E k \in {"url-test", "fallback", "load-balance"} : ParseProxyGroup(k)
    \/ CheckTick \/ Expire
    \/ \E p \in Members : \/ StartTest(p) \/ TestDials(p) \/ TestStores(p)
                          \/ TestRecords(p)
    \/ \E u \in Users : \/ Ask(u) \/ Compare(u) \/ fast(u) \/ findAliveProxy(u)
                        \/ strategyConsistentHashing(u) \/ DialEnds(u)

\* What is good and what is dead now, and has been since the user began.
Good == {p \in Members : alive[p] /\ last[p] > 0}
Dead == {p \in Members : ~alive[p]}
Watch ==
    steady' = [u \in Users |->
        IF At(u, "electing")
        THEN [good |-> steady[u].good \cap Good',
              dead |-> steady[u].dead \cap Dead']
        ELSE [good |-> Good', dead |-> Dead']]

GroupNext == GroupStep /\ Watch

(* The ticker ticks, and a test goes on.  That it comes out of its dial and *)
(* its request is not assumed: its context expires after five seconds, but *)
(* the handshakes of HTTP and SOCKS5 do not look at it and set no deadline, *)
(* nor does the Close of an HTTP/2 connection.                             *)
GroupFairness ==
    /\ WF_groupVars(CheckTick /\ Watch)
    /\ \A p \in Members :
          /\ WF_groupVars(StartTest(p) /\ Watch)
          /\ WF_groupVars(test[p] = "failed" /\ TestStores(p) /\ Watch)
          /\ WF_groupVars(TestRecords(p) /\ Watch)

GroupSpec == GroupInit /\ [][GroupNext]_groupVars /\ GroupFairness

-------------------------------------------------------------------------------
(* However the health check and the dials change the flags while a group   *)
(* picks: when some proxy was alive with a known delay all the while, the  *)
(* pick is not one that was dead all the while.                            *)
PicksLiveProxy ==
    [][\A u \in Users :
          (At(u, "electing") /\ user'[u].at = "dialing" /\ steady[u].good # {})
              => user'[u].pick \notin steady[u].dead]_groupVars

(* A proxy that is marked dead, by a test or by a dial whose destination   *)
(* was refused, does not stay so unless its tests keep failing, even in a  *)
(* group that nobody uses.  The premise: no test stays in its dial or its  *)
(* request for ever; a check waits for all its tests, and a single proxy   *)
(* that leaves a handshake unanswered stops the tests of its group.        *)
DeadAreRetested ==
    (\A p \in Members : []<>(test[p] \notin {"dialing", "request"})) =>
        \A p \in Members :
            kind # "" ~> alive[p] \/ test[p] \in {"failed", "missed"}
===============================================================================
