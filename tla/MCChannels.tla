------------------------------ MODULE MCChannels ------------------------------
(* Small instances of the parts whose goroutines wait for each other.  They *)
(* share no state: a behaviour is one of a single part, which its initial   *)
(* state chooses, and the run covers all of them.                           *)
EXTENDS EventHub, LogFeed, Groups, Upstream, Datagrams

CONSTANTS q1, q2

TwoProxies == <<q1, q2>>
OneAnswer  == {[ttls |-> <<1>>, ns |-> <<>>]}

VARIABLE part

Init == /\ part \in {"hub", "feed", "group", "up", "dgram"}
        /\ HubInit /\ FeedInit /\ GroupInit /\ UpInit /\ DgramInit

HubPart  == /\ part = "hub" /\ HubNext
            /\ UNCHANGED <<part, feedVars, groupVars, upVars, dgramVars>>
FeedPart == /\ part = "feed" /\ FeedNext
            /\ UNCHANGED <<part, hubVars, groupVars, upVars, dgramVars>>
\* The health check is the same for the three types of group.
GroupPart == /\ part = "group" /\ GroupNext /\ kind' = "fallback"
             /\ UNCHANGED <<part, hubVars, feedVars, upVars, dgramVars>>
UpPart == /\ part = "up" /\ UpNext
          /\ UNCHANGED <<part, hubVars, feedVars, groupVars, dgramVars>>
DgramPart == /\ part = "dgram" /\ DgramNext
             /\ UNCHANGED <<part, hubVars, feedVars, groupVars, upVars>>

Next == HubPart \/ FeedPart \/ GroupPart \/ UpPart \/ DgramPart

\* The fairness that each module states, for its part.
Hub(A)  == part = "hub" /\ A
Feed(A) == part = "feed" /\ A
Group(A) == part = "group" /\ A /\ Watch
Up(A)   == part = "up" /\ A
Dgram(A) == part = "dgram" /\ A
Fairness ==
    /\ \A c \in Clients : WF_hubVars(Hub(HubStep(c)))
    /\ \A l \in Loggers : SF_feedVars(Feed(LoggerStep(l)))
    /\ WF_feedVars(Feed(EmitDone))
    /\ \A v \in Viewers : /\ WF_feedVars(Feed(ViewerStep(v)))
                          /\ SF_feedVars(Feed(UnSubscribe(v)))
                          /\ SF_feedVars(Feed(Move(v)))
    /\ WF_groupVars(Group(CheckTick))
    /\ \A p \in Members : /\ WF_groupVars(Group(StartTest(p)))
                          /\ WF_groupVars(Group(test[p] = "failed"
                                                  /\ TestStores(p)))
                          /\ WF_groupVars(Group(TestRecords(p)))
    /\ \A a \in Askers : WF_upVars(Up(exchangeWithoutCache(a)))
    /\ \A s \in Servers :
          /\ WF_upVars(Up(server[s] # "stream" /\ Dialing(s)))
          /\ WF_upVars(Up(server[s] # "stream" /\ ContextDone(s)))
    /\ WF_upVars(Up(Deadline)) /\ WF_upVars(Up(batchExchange))
    /\ WF_dgramVars(Dgram(ReadPacket)) /\ WF_dgramVars(Dgram(ReadErrs))
    /\ WF_dgramVars(Dgram(TimeOut)) /\ WF_dgramVars(Dgram(WritePacket))

Spec == Init /\ [][Next]_<<part, hubVars, feedVars, groupVars, upVars, dgramVars>>
             /\ Fairness
===============================================================================
