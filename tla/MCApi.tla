-------------------------------- MODULE MCApi ---------------------------------
(* Small instances of the parts whose properties are of safety alone.  They *)
(* share no state: a behaviour is one of a single part, which its initial   *)
(* state chooses, and the run covers all of them.                           *)
EXTENDS Config, Counters, Framing, Outbound, Groups, Upstream, Datagrams,
        Handshakes

CONSTANTS p1, p2, s1, r1, q1, q2

TwoIds     == {p1, p2}
OneSub     == {s1}
OneRule    == {r1}
TwoProxies == <<q1, q2>>
\* Two records, an authority that expires first, neither, one not to be kept.
FourAnswers == {[ttls |-> <<1, 2>>, ns |-> <<>>], [ttls |-> <<2>>, ns |-> <<1>>],
                [ttls |-> <<>>, ns |-> <<2>>], [ttls |-> <<0>>, ns |-> <<>>]}

VARIABLE part

\* All variables but those of the named part.
BesideConfig == <<part, countVars, frameVars, outVars, groupVars,
                  upVars, dgramVars, shakeVars>>
BesideCount  == <<part, configVars, frameVars, outVars, groupVars,
                  upVars, dgramVars, shakeVars>>
BesideFrame  == <<part, configVars, countVars, outVars, groupVars,
                  upVars, dgramVars, shakeVars>>
BesideOut    == <<part, configVars, countVars, frameVars, groupVars,
                  upVars, dgramVars, shakeVars>>
BesideGroup  == <<part, configVars, countVars, frameVars, outVars,
                  upVars, dgramVars, shakeVars>>
BesideUp     == <<part, configVars, countVars, frameVars, outVars,
                  groupVars, dgramVars, shakeVars>>
BesideDgram  == <<part, configVars, countVars, frameVars, outVars,
                  groupVars, upVars, shakeVars>>
BesideShake  == <<part, configVars, countVars, frameVars, outVars,
                  groupVars, upVars, dgramVars>>

Init == /\ part \in {"config", "count", "frame", "out", "group", "up", "dgram",
                  "shake"}
        /\ ConfigInit /\ CountInit /\ FrameInit /\ OutInit /\ GroupInit /\ UpInit
        /\ DgramInit /\ ShakeInit

Next == \/ part = "config" /\ ConfigNext /\ UNCHANGED BesideConfig
        \/ part = "count"  /\ CountNext  /\ UNCHANGED BesideCount
        \/ part = "frame"  /\ FrameNext  /\ UNCHANGED BesideFrame
        \/ part = "out"    /\ OutNext    /\ UNCHANGED BesideOut
        \/ part = "group"  /\ GroupNext  /\ UNCHANGED BesideGroup
        \/ part = "up"     /\ UpNext     /\ UNCHANGED BesideUp
        \/ part = "dgram"  /\ DgramNext  /\ UNCHANGED BesideDgram
        \/ part = "shake"  /\ ShakeNext  /\ UNCHANGED BesideShake

Spec == Init /\ [][Next]_<<BesideConfig, configVars>>
===============================================================================
