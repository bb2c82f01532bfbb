-------------------------------- MODULE Rules --------------------------------
(***************************************************************************)
(* How a rule is chosen and how the rules change under way: the rule       *)
(* engine with its cache (rule_engine, matcher), dns.Handle, which matches *)
(* the name and caches the rule for the addresses of the answer, the       *)
(* matching of a connection (distribution, conn), and the API handlers     *)
(* that save other rules, install a new engine (executor.UpdateRule) and   *)
(* close the connections.                                                  *)
(*                                                                         *)
(* DNS exchanges take seconds, so a query begun under one engine ends      *)
(* under another.  dns.mux is held for reading during the whole of Handle; *)
(* UpdateDnsMap, called by a start of the service, wants it for writing.   *)
(* What CloseAllConnections does is in Connections; here it is one step.   *)
(*                                                                         *)
(* Both caches are LRU (1024 rules, 4096 names) and never fill here: what  *)
(* they evict is searched again, or missed in a log line.                  *)
(***************************************************************************)
EXTENDS Naturals, Sequences, FiniteSets

CONSTANTS
    Handlers,     \* goroutines of the API handlers that change the rules
    Queries,      \* DNS queries
    Flows,        \* connections
    Domains, Addrs, Procs,    \* what rules match: names, addresses, programs
    None,         \* no name, address, program or rule
    BuiltIn,      \* the embedded rule files: id -> sequence of rules
    Selectable,   \* the ids a user may save, embedded or not
    Custom,       \* the sequences of customized rules a user may save
    Modes         \* which matchers a start publishes: that of tun and mixed
                  \* mode ("tun"), that of system proxy mode ("system")

Policies == {"DIRECT", "PROXY", "REJECT"}
Keys     == Domains \cup Addrs \cup Procs
KeysOf   == [PROCESS |-> Procs, IP |-> Addrs, NAME |-> Domains]
Rule     == [type : DOMAIN KeysOf, keys : SUBSET Keys, policy : Policies]
BuiltInProxyRule == [type |-> "BUILT-IN", keys |-> {}, policy |-> "PROXY"]

ASSUME KeysAssumption ==
    /\ Domains \cap Addrs = {} /\ Domains \cap Procs = {} /\ Addrs \cap Procs = {}
    /\ None \notin Keys
ASSUME RulesAssumption ==
    /\ \A id \in DOMAIN BuiltIn : BuiltIn[id] \in Seq(Rule)
    /\ Custom \subseteq Seq(Rule) /\ DOMAIN BuiltIn \cap Selectable # {}
ASSUME ModesAssumption == Modes \subseteq {"tun", "system"} /\ Modes # {}

VARIABLES
    mode,       \* of the running service
    config,     \* the saved rules: the selected id, the customized rules
    engines,    \* every engine built, the current one last unless two
                \* handlers installed theirs out of order
    current,    \* matcher.defaultRuleEngine, as an index
    names,      \* dns.dnsDomainCache: address -> name
    handler, query, flow,    \* the goroutines
    writer,     \* UpdateDnsMap waits for dns.mux
    swept       \* history: flows between match and join when a sweep came by

vars == <<mode, config, engines, current, names, handler, query, flow, writer, swept>>

NoCache == [k \in Keys |-> None]
RangeOf(s) == {s[i] : i \in 1..Len(s)}

NewEngine(rules) == [rules |-> rules, cache |-> NoCache]
IdleHandler == [pc |-> "idle", rules |-> <<>>, sel |-> None]
IdleQuery   == [pc |-> "idle", name |-> None, engine |-> 0, rule |-> None,
                left |-> {}]
IdleFlow    == [pc |-> "idle", proc |-> None, addr |-> None, host |-> None,
                rule |-> None, born |-> 0, engine |-> 0]

ClosedFlow  == [IdleFlow EXCEPT !.pc = "closed"]

Init ==
    /\ mode \in Modes
    /\ config \in [sel : Selectable \cap DOMAIN BuiltIn, rules : Custom]
    /\ engines = <<NewEngine(config.rules \o BuiltIn[config.sel])>>
    /\ current = 1
    /\ names = [a \in Addrs |-> None]
    /\ handler = [h \in Handlers |-> IdleHandler]
    /\ query = [q \in Queries |-> IdleQuery]
    /\ flow = [f \in Flows |-> IdleFlow]
    /\ writer = FALSE
    /\ swept = {}

-----------------------------------------------------------------------------
(* Engine.Match: the cached rule for the value, else the first rule of the *)
(* asked type that matches it, which is cached.                            *)

First(rules, type, k) ==
    LET hits == {i \in 1..Len(rules) : rules[i].type = type /\ k \in rules[i].keys}
    IN  IF hits = {} THEN None
        ELSE rules[CHOOSE i \in hits : \A j \in hits : i <= j]

(* Mutant: the last rule wins.                                             *)
MatchLast(e, type, k) ==
    LET rules == engines[e].rules
        hits  == {i \in 1..Len(rules) : rules[i].type = type /\ k \in rules[i].keys}
    IN  IF hits = {} THEN None
        ELSE rules[CHOOSE i \in hits : \A j \in hits : j <= i]

Match(e, type, k) ==
    IF engines[e].cache[k] # None THEN engines[e].cache[k]
    ELSE First(engines[e].rules, type, k)

Cached(es, e, k, r) == [es EXCEPT ![e].cache[k] = r]

(* The engines after a Match that returned r (None: nothing is cached).    *)
AfterMatch(e, k, r) == IF r = None THEN engines ELSE Cached(engines, e, k, r)

-----------------------------------------------------------------------------
(* The API: save, then UpdateRule, then CloseAllConnections.  Each handler *)
(* serves one request, which bounds the engines.                           *)

Save(h) ==
    /\ handler[h].pc = "idle"
    /\ \/ \E c \in Custom : config' = [config EXCEPT !.rules = c]
       \/ \E s \in Selectable : config' = [config EXCEPT !.sel = s]
    /\ handler' = [handler EXCEPT ![h].pc = "saved"]
    /\ UNCHANGED <<mode, engines, current, names, query, flow, writer, swept>>

(* UpdateRule reads the file twice.                                        *)
ReadRules(h) ==
    /\ handler[h].pc = "saved"
    /\ handler' = [handler EXCEPT ![h].pc = "rulesRead", ![h].rules = config.rules]
    /\ UNCHANGED <<mode, config, engines, current, names, query, flow, writer, swept>>

ReadSelected(h) ==
    /\ handler[h].pc = "rulesRead"
    /\ handler' = [handler EXCEPT ![h].sel = config.sel,
                    ![h].pc = IF config.sel \in DOMAIN BuiltIn
                              THEN "selRead" ELSE "sweep"]
    /\ UNCHANGED <<mode, config, engines, current, names, query, flow, writer, swept>>

(* Mutant: the new engine starts with the cache of the old one.            *)
InstallOldCache(h) ==
    /\ handler[h].pc = "selRead"
    /\ engines' = Append(engines, [engines[current] EXCEPT
                    !.rules = handler[h].rules \o BuiltIn[handler[h].sel]])
    /\ current' = Len(engines')
    /\ handler' = [handler EXCEPT ![h] = [IdleHandler EXCEPT !.pc = "installed"]]
    /\ UNCHANGED <<mode, config, names, query, flow, writer, swept>>

Install(h) ==
    /\ handler[h].pc = "selRead"
    /\ engines' = Append(engines,
                    NewEngine(handler[h].rules \o BuiltIn[handler[h].sel]))
    /\ current' = Len(engines')
    /\ handler' = [handler EXCEPT ![h] = [IdleHandler EXCEPT !.pc = "installed"]]
    /\ UNCHANGED <<mode, config, names, query, flow, writer, swept>>

(* Mutant: connections are closed only when UpdateRule fails.              *)
SkipSweep(h) ==
    /\ handler[h].pc = "installed"
    /\ names' = [a \in Addrs |-> None]
    /\ handler' = [handler EXCEPT ![h].pc = "done"]
    /\ UNCHANGED <<mode, config, engines, current, query, flow, writer, swept>>

ResetCache(h) ==
    /\ handler[h].pc = "installed"
    /\ names' = [a \in Addrs |-> None]
    /\ handler' = [handler EXCEPT ![h].pc = "sweep"]
    /\ UNCHANGED <<mode, config, engines, current, query, flow, writer, swept>>

Sweep(h) ==
    /\ handler[h].pc = "sweep"
    /\ flow' = [f \in Flows |-> IF flow[f].pc = "relay"
                                THEN ClosedFlow ELSE flow[f]]
    /\ swept' = swept \cup {f \in Flows : flow[f].pc = "matched"}
    /\ handler' = [handler EXCEPT ![h] = [IdleHandler EXCEPT !.pc = "done"]]
    /\ UNCHANGED <<mode, config, engines, current, names, query, writer>>

-----------------------------------------------------------------------------
(* dns.Handle.  A waiting writer keeps new readers out of dns.mux.         *)

Reading == {q \in Queries : query[q].pc # "idle"}

(* Mutant: a lock that prefers its readers.                                *)
ReadersFirst == TRUE
MayRead == ~writer

BeginQuery(q, d, p) ==
    /\ mode = "tun" /\ query[q].pc = "idle" /\ MayRead
    /\ LET e     == current
           byPrc == IF p = None THEN None ELSE Match(e, "PROCESS", p)
           byDom == Match(e, "NAME", d)
           rule  == CASE byPrc # None -> byPrc
                      [] byDom # None -> byDom
                      [] OTHER -> BuiltInProxyRule
       IN  /\ engines' = IF byPrc # None THEN AfterMatch(e, p, byPrc)
                         ELSE AfterMatch(e, d, byDom)
           /\ query' = IF rule.policy = "REJECT" THEN query
                       ELSE [query EXCEPT ![q] = [IdleQuery EXCEPT
                            !.pc = "exchange", !.name = d, !.engine = e,
                            !.rule = rule]]
    /\ UNCHANGED <<mode, config, current, names, handler, flow, writer, swept>>

Answer(q, as) ==
    /\ query[q].pc = "exchange" /\ as # {}
    /\ query' = [query EXCEPT ![q].pc = "name", ![q].left = as]
    /\ UNCHANGED <<mode, config, engines, current, names, handler, flow, writer, swept>>

(* Every address of the answer is remembered with the name, then, in the   *)
(* engine the query began with, with its rule.                             *)
AddName(q, a) ==
    /\ query[q].pc = "name" /\ a \in query[q].left
    /\ names' = [names EXCEPT ![a] = query[q].name]
    /\ query' = [query EXCEPT ![q].pc = "rule"]
    /\ UNCHANGED <<mode, config, engines, current, handler, flow, writer, swept>>

(* Mutant: the engine in force is asked for when the answer is here.       *)
AddCacheCurrent(q, a) ==
    /\ query[q].pc = "rule" /\ a \in query[q].left
    /\ engines' = Cached(engines, current, a, query[q].rule)
    /\ LET rest == query[q].left \ {a}
       IN  query' = [query EXCEPT ![q] = IF rest = {} THEN IdleQuery
                            ELSE [@ EXCEPT !.pc = "name", !.left = rest]]
    /\ UNCHANGED <<mode, config, current, names, handler, flow, writer, swept>>

AddCache(q, a) ==
    /\ query[q].pc = "rule" /\ a \in query[q].left
    /\ engines' = Cached(engines, query[q].engine, a, query[q].rule)
    /\ LET rest == query[q].left \ {a}
       IN  query' = [query EXCEPT ![q] = IF rest = {} THEN IdleQuery
                            ELSE [@ EXCEPT !.pc = "name", !.left = rest]]
    /\ UNCHANGED <<mode, config, current, names, handler, flow, writer, swept>>

(* The exchange fails or times out, or the answer holds no address.        *)
FailQuery(q) ==
    /\ query[q].pc = "exchange"
    /\ query' = [query EXCEPT ![q] = IdleQuery]
    /\ UNCHANGED <<mode, config, engines, current, names, handler, flow, writer, swept>>

WantDnsMap ==
    /\ ~writer
    /\ writer' = TRUE
    /\ UNCHANGED <<mode, config, engines, current, names, handler, query, flow, swept>>

UpdateDnsMap ==
    /\ writer /\ Reading = {}
    /\ writer' = FALSE
    /\ UNCHANGED <<mode, config, engines, current, names, handler, query, flow, swept>>

-----------------------------------------------------------------------------
(* A connection, to an address or, through the local server, to a name.    *)
(* Each step of the matcher asks for the engine anew.                      *)

Arrive(f, p, a, d) ==
    /\ flow[f].pc = "idle"
    /\ mode = "system" => p = None
    /\ flow' = [flow EXCEPT ![f] = [IdleFlow EXCEPT !.pc = "first", !.proc = p,
                    !.addr = a, !.host = d, !.born = current]]
    /\ UNCHANGED <<mode, config, engines, current, names, handler, query, writer, swept>>

(* The steps of the two matchers, in order: what is asked of the engine.   *)
Asked(f, n) ==
    LET byProc == [type |-> "PROCESS", key |-> flow[f].proc]
        byAddr == [type |-> "IP", key |-> flow[f].addr]
        byHost == [type |-> "NAME", key |-> flow[f].host]
    IN  IF mode = "system" THEN <<byHost, byAddr, [byAddr EXCEPT !.key = None]>>[n]
        ELSE <<byProc, byAddr, byHost>>[n]

(* conn.resolveMetadata falls back to the rule it began with.              *)
MatchStep(f, n, here, next) ==
    /\ flow[f].pc = here
    /\ LET a == Asked(f, n)
           r == IF a.key = None THEN None ELSE Match(current, a.type, a.key)
           last == next = "matched"
       IN  /\ engines' = IF a.key = None THEN engines
                         ELSE AfterMatch(current, a.key, r)
           /\ flow' = [flow EXCEPT
                ![f].pc = IF r # None THEN "matched" ELSE next,
                ![f].rule = IF r = None /\ last THEN BuiltInProxyRule ELSE r,
                ![f].engine = IF r # None \/ last THEN current ELSE 0]
    /\ UNCHANGED <<mode, config, current, names, handler, query, writer, swept>>

ConnMatcher(f) == \/ MatchStep(f, 1, "first", "second")
                  \/ MatchStep(f, 2, "second", "third")
                  \/ MatchStep(f, 3, "third", "matched")

(* The handler of the queue dials and the tracker joins; a rejected        *)
(* connection fails.                                                       *)
Join(f) ==
    /\ flow[f].pc = "matched"
    /\ flow' = [flow EXCEPT ![f] = IF @.rule.policy = "REJECT" THEN ClosedFlow
                                   ELSE [@ EXCEPT !.pc = "relay"]]
    /\ UNCHANGED <<mode, config, engines, current, names, handler, query, writer, swept>>

-----------------------------------------------------------------------------
HandlerStep(h) == ReadRules(h) \/ ReadSelected(h) \/ Install(h) \/ ResetCache(h)
                  \/ Sweep(h)
EndQuery(q)    == \/ FailQuery(q)
                  \/ \E as \in SUBSET Addrs : Answer(q, as)
                  \/ \E a \in Addrs : AddName(q, a) \/ AddCache(q, a)

Next ==
    \/ \E h \in Handlers : Save(h) \/ HandlerStep(h)
    \/ \E q \in Queries :
        \/ \E d \in Domains, p \in Procs \cup {None} : BeginQuery(q, d, p)
        \/ EndQuery(q)
    \/ WantDnsMap \/ UpdateDnsMap
    \/ \E f \in Flows :
        \/ \E p \in Procs \cup {None} :
            \/ \E a \in Addrs : Arrive(f, p, a, None)
            \/ \E d \in Domains : Arrive(f, p, None, d)
        \/ ConnMatcher(f) \/ Join(f)

(* The goroutine of a query goes on once its exchange has ended.  That it  *)
(* ends is not assumed: Handle gives it five seconds, but a name server    *)
(* asked over tcp or tls is dialled through an outbound whose handshake    *)
(* may heed no time limit (see Upstream).                                  *)
Fairness ==
    /\ \A q \in Queries : WF_vars(query[q].pc # "exchange" /\ EndQuery(q))
    /\ WF_vars(UpdateDnsMap)

SafeSpec == Init /\ [][Next]_vars
Spec     == SafeSpec /\ Fairness

-----------------------------------------------------------------------------
(* Properties.                                                             *)

(* What an engine has cached for a name or a program is what a search of   *)
(* its own rules finds: a slow query of an older engine never leaves its   *)
(* rule in a newer one.                                                    *)
CacheAgreesWithRules ==
    \A e \in 1..Len(engines) : \A type \in {"PROCESS", "NAME"} :
        \A k \in KeysOf[type] :
            engines[e].cache[k] \in {None, First(engines[e].rules, type, k)}

(* What it has cached for an address is a rule of its own for it, or for   *)
(* a name or program of some query, or the default.                        *)
AddressCacheIsOwn ==
    \A e \in 1..Len(engines) : \A a \in Addrs :
        LET r == engines[e].cache[a]
        IN  r \in RangeOf(engines[e].rules) \cup {None, BuiltInProxyRule}
            /\ (r # None /\ r.type = "IP" => r = First(engines[e].rules, "IP", a))

(* A connection that arrives once a handler has installed its engine is    *)
(* never matched against rules older than those.                           *)
NewFlowsUseNewRules ==
    \A f \in Flows : flow[f].pc \in {"matched", "relay"} =>
        /\ flow[f].engine >= flow[f].born
        /\ flow[f].rule \in RangeOf(engines[flow[f].engine].rules)
                            \cup {BuiltInProxyRule}

(* When no handler is at work, a connection that still relays under older  *)
(* rules slipped between its match and its registration as a sweep passed. *)
OnlyUnjoinedFlowsSurvive ==
    (\A h \in Handlers : handler[h].pc \in {"idle", "done"}) =>
        \A f \in Flows :
            flow[f].pc = "relay" /\ flow[f].engine # current => f \in swept

(* A start of the service, which waits in UpdateDnsMap with manager.mux    *)
(* held, gets dns.mux although programs never stop asking names, unless an *)
(* exchange that holds it for reading never ends.                          *)
DnsMapIsUpdated ==
    (\A q \in Queries : []<>(query[q].pc # "exchange")) =>
        (writer ~> ~writer)
=============================================================================
