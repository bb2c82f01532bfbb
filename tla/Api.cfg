CONSTANTS
    p1 = p1
    p2 = p2
    s1 = s1
    r1 = r1
    q1 = q1
    q2 = q2
    Callers = {c1, c2}
    NoCaller = NoCaller
    Ids <- TwoIds
    NoId = NoId
    Subs <- OneSub
    NoSub = NoSub
    NoConfig = NoConfig
    CustomRules <- OneRule
    MaxEdits = 3
    MaxFaults = 1
    Relays = {t1, t2}
    Chunks = {1, 2}
    MaxMoved = 4
    Chunk = 2
    Early = 2
    Rooms = {1, 2, 3}
    MaxUp = 4
    MaxDown = 5
    Proxies <- TwoProxies
    Users = {u1, u2}
    NoPick = NoPick
    MaxDelay = 1
    Askers = {a1, a2}
    Servers = {n1, n2}
    Schemes = {"udp"}
    Answers <- FourAnswers
    MaxTime = 3
    Peers = {x1, x2}
    NoPeer = NoPeer
    Sizes = {1, 3, 5}
    BufSize = 2
    PacketRoom = 4
    MaxSent = 3
    MaxData = 2
SPECIFICATION Spec
CHECK_DEADLOCK FALSE
INVARIANTS
    AddedProxiesSurvive
    BytesCountedOnce
    NothingLost
    
    HandshakeTakesNoPayload
PROPERTIES
    UpdateRevivesNothing
    ImplementsStore
    PicksLiveProxy
    AnswersExpire
    PiecesAreOwn
