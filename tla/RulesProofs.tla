----------------------------- MODULE RulesProofs -----------------------------
(***************************************************************************)
(* What holds of Rules for any rule files, any queries, connections and    *)
(* handlers: an engine caches what its own rules say, a connection follows *)
(* rules at least as new as its arrival, and one that keeps older rules    *)
(* slipped past a sweep.                                                   *)
(***************************************************************************)
EXTENDS Rules, WellFoundedInduction, TLAPS

Found   == Rule \cup {None, BuiltInProxyRule}
Engines == [rules : Seq(Rule), cache : [Keys -> Found]]

HandlerPlaces == {"idle", "saved", "rulesRead", "selRead", "installed", "sweep",
                  "done"}
QueryPlaces   == {"idle", "exchange", "name", "rule"}
FlowPlaces    == {"idle", "first", "second", "third", "matched", "relay",
                  "closed"}

HandlerState == [pc : HandlerPlaces, rules : Seq(Rule),
                 sel : Selectable \cup {None}]
QueryState   == [pc : QueryPlaces, name : Domains \cup {None}, engine : Nat,
                 rule : Found, left : SUBSET Addrs]
FlowState    == [pc : FlowPlaces, proc : Procs \cup {None},
                 addr : Addrs \cup {None}, host : Domains \cup {None},
                 rule : Found, born : Nat, engine : Nat]

TypeOK ==
    /\ mode \in Modes
    /\ config \in [sel : Selectable, rules : Custom]
    /\ engines \in Seq(Engines)
    /\ current = Len(engines) /\ current # 0
    /\ handler \in [Handlers -> HandlerState]
    /\ query \in [Queries -> QueryState]
    /\ flow \in [Flows -> FlowState]
    /\ swept \subseteq Flows

(* A handler installs a file that exists.                                  *)
FilesExist ==
    \A h \in Handlers : handler[h].pc = "selRead" => handler[h].sel \in DOMAIN BuiltIn

(* A query keeps an engine that was built, and a rule that engine found    *)
(* for its name or its program.                                            *)
QueriesOwn ==
    \A q \in Queries : query[q].pc # "idle" =>
        /\ query[q].engine \in 1..Len(engines)
        /\ query[q].rule \in RangeOf(engines[query[q].engine].rules)
                             \cup {BuiltInProxyRule}
        /\ query[q].rule.type # "IP"

(* A connection has arrived under an engine, and was matched by one that   *)
(* is not older.                                                           *)
FlowsOwn ==
    \A f \in Flows :
        /\ flow[f].born <= Len(engines)
        /\ flow[f].pc \in {"matched", "relay"} =>
              /\ flow[f].engine \in 1..Len(engines)
              /\ flow[f].engine >= flow[f].born

(* Until a sweep has passed, a handler that installed an engine is at work. *)
SweepFollows ==
    \A f \in Flows :
        flow[f].pc \in {"matched", "relay"} /\ flow[f].engine # current =>
            f \in swept \/ \E h \in Handlers : handler[h].pc \in {"installed", "sweep"}

RulesInv ==
    /\ TypeOK /\ FilesExist /\ QueriesOwn /\ FlowsOwn /\ SweepFollows
    /\ CacheAgreesWithRules /\ AddressCacheIsOwn /\ NewFlowsUseNewRules

-----------------------------------------------------------------------------
(* What a search of the rules finds.                                       *)

(* Of some positions there is a first one.                                 *)
LEMMA Least ==
    ASSUME NEW S, S \subseteq Nat, S # {}
    PROVE  \E i \in S : \A j \in S : i <= j
<1>1. PICK i \in S : \A j \in S : <<j, i>> \notin OpToRel(<, Nat)
  BY WFMin, NatLessThanWellFounded
<1>2. \A j \in S : ~(j < i)
  BY <1>1, Zenon DEF OpToRel
<1> QED
  BY <1>2

(* First returns a rule of the list, of the type asked, or none.           *)
LEMMA FirstFound ==
    ASSUME NEW rules \in Seq(Rule), NEW type, NEW k, First(rules, type, k) # None
    PROVE  /\ First(rules, type, k) \in RangeOf(rules)
           /\ First(rules, type, k) \in Rule
           /\ First(rules, type, k).type = type
<1> DEFINE hits == {i \in 1..Len(rules) : rules[i].type = type /\ k \in rules[i].keys}
           m == CHOOSE i \in hits : \A j \in hits : i <= j
<1>1. hits # {} /\ First(rules, type, k) = rules[m]
  BY DEF First
<1>2. hits \subseteq Nat
  OBVIOUS
<1>3. m \in hits
  BY <1>1, <1>2, Least
<1> HIDE DEF m
<1> QED
  BY <1>1, <1>3 DEF RangeOf

(* Caching a rule changes one value of one engine.                         *)
LEMMA CachedFacts ==
    ASSUME NEW es \in Seq(Engines), NEW e \in 1..Len(es), NEW k \in Keys,
           NEW r \in Found
    PROVE  /\ Cached(es, e, k, r) \in Seq(Engines)
           /\ Len(Cached(es, e, k, r)) = Len(es)
           /\ \A i \in 1..Len(es) :
                 /\ Cached(es, e, k, r)[i].rules = es[i].rules
                 /\ \A x \in Keys : Cached(es, e, k, r)[i].cache[x] =
                        IF i = e /\ x = k THEN r ELSE es[i].cache[x]
<1> DEFINE n == [es[e] EXCEPT !.cache = [es[e].cache EXCEPT ![k] = r]]
           t == Cached(es, e, k, r)
<1>1. es[e] \in Engines
  OBVIOUS
<1>2. es[e].rules \in Seq(Rule) /\ es[e].cache \in [Keys -> Found]
  BY <1>1 DEF Engines
<1>3. [es[e].cache EXCEPT ![k] = r] \in [Keys -> Found]
  BY <1>2
<1>4. n \in Engines /\ n.rules = es[e].rules
      /\ n.cache = [es[e].cache EXCEPT ![k] = r]
  BY <1>1, <1>3 DEF Engines
<1>5. t = [es EXCEPT ![e] = n]
  BY DEF Cached
<1> HIDE DEF n, t
<1>6. t \in Seq(Engines) /\ Len(t) = Len(es)
      /\ \A i \in 1..Len(es) : t[i] = IF i = e THEN n ELSE es[i]
  BY <1>4, <1>5
<1>7. \A x \in Keys : n.cache[x] = IF x = k THEN r ELSE es[e].cache[x]
  BY <1>2, <1>4
<1> QED
  BY <1>4, <1>6, <1>7 DEF t

(* A new engine has its rules and an empty cache.                          *)
LEMMA AppendedFacts ==
    ASSUME NEW es \in Seq(Engines), NEW rules \in Seq(Rule)
    PROVE  /\ Append(es, NewEngine(rules)) \in Seq(Engines)
           /\ Len(Append(es, NewEngine(rules))) = Len(es) + 1
           /\ \A i \in 1..Len(es) : Append(es, NewEngine(rules))[i] = es[i]
           /\ Append(es, NewEngine(rules))[Len(es) + 1].rules = rules
           /\ \A k \in Keys :
                 Append(es, NewEngine(rules))[Len(es) + 1].cache[k] = None
<1> DEFINE n == NewEngine(rules)
<1>1. n \in Engines /\ n.rules = rules /\ \A k \in Keys : n.cache[k] = None
  BY DEF NewEngine, NoCache, Engines, Found
<1> HIDE DEF n
<1>2. /\ Append(es, n) \in Seq(Engines) /\ Len(Append(es, n)) = Len(es) + 1
      /\ \A i \in 1..Len(es) : Append(es, n)[i] = es[i]
      /\ Append(es, n)[Len(es) + 1] = n
  BY <1>1
<1> QED
  BY <1>1, <1>2 DEF n

-----------------------------------------------------------------------------
(* What caching keeps.                                                     *)

(* A rule that may be cached for a key.                                    *)
Fits(e, k, r) ==
    /\ \A type \in {"PROCESS", "NAME"} :
          k \in KeysOf[type] => r \in {None, First(engines[e].rules, type, k)}
    /\ k \in Addrs =>
          /\ r \in RangeOf(engines[e].rules) \cup {None, BuiltInProxyRule}
          /\ r # None /\ r.type = "IP" => r = First(engines[e].rules, "IP", k)

(* The engines that were built keep their rules.                           *)
EnginesExtend ==
    /\ engines' \in Seq(Engines)
    /\ Len(engines) <= Len(engines')
    /\ \A i \in 1..Len(engines) : engines'[i].rules = engines[i].rules

(* The types of an engine.                                                 *)
LEMMA EngineTypes ==
    ASSUME TypeOK, NEW e \in 1..Len(engines)
    PROVE  /\ engines \in Seq(Engines) /\ engines[e].rules \in Seq(Rule)
           /\ engines[e].cache \in [Keys -> Found]
<1>1. engines \in Seq(Engines)
  BY DEF TypeOK
<1>2. engines[e] \in Engines
  BY <1>1
<1> QED
  BY <1>1, <1>2 DEF Engines

(* The kinds of keys.                                                      *)
LEMMA KeyKinds ==
    /\ KeysOf["PROCESS"] = Procs /\ KeysOf["IP"] = Addrs
    /\ KeysOf["NAME"] = Domains
    /\ DOMAIN KeysOf = {"PROCESS", "IP", "NAME"}
  BY DEF KeysOf

(* A rule that fits may be cached.                                         *)
LEMMA CachingKeeps ==
    ASSUME RulesInv, NEW e \in 1..Len(engines), NEW k \in Keys, NEW r \in Found,
           Fits(e, k, r), engines' = Cached(engines, e, k, r)
    PROVE  /\ EnginesExtend /\ Len(engines') = Len(engines)
           /\ CacheAgreesWithRules' /\ AddressCacheIsOwn'
<1>1. /\ engines' \in Seq(Engines) /\ Len(engines') = Len(engines)
      /\ \A i \in 1..Len(engines) :
            /\ engines'[i].rules = engines[i].rules
            /\ \A x \in Keys : engines'[i].cache[x] =
                   IF i = e /\ x = k THEN r ELSE engines[i].cache[x]
  <2>1. engines \in Seq(Engines)
    BY DEF RulesInv, TypeOK
  <2> QED
    BY <2>1, CachedFacts
<1>2. CacheAgreesWithRules'
  <2> SUFFICES ASSUME NEW i \in 1..Len(engines'), NEW type \in {"PROCESS", "NAME"},
                      NEW x \in KeysOf[type]
               PROVE  engines'[i].cache[x] \in
                          {None, First(engines'[i].rules, type, x)}
    BY DEF CacheAgreesWithRules
  <2>1. x \in Keys
    BY KeyKinds DEF Keys
  <2>2. CASE i = e /\ x = k
    BY <1>1, <2>1, <2>2 DEF Fits
  <2>3. CASE ~(i = e /\ x = k)
    BY <1>1, <2>1, <2>3 DEF RulesInv, CacheAgreesWithRules
  <2> QED
    BY <2>2, <2>3
<1>3. AddressCacheIsOwn'
  <2> SUFFICES ASSUME NEW i \in 1..Len(engines'), NEW x \in Addrs
               PROVE  LET c == engines'[i].cache[x]
                      IN  /\ c \in RangeOf(engines'[i].rules)
                                   \cup {None, BuiltInProxyRule}
                          /\ c # None /\ c.type = "IP" =>
                                c = First(engines'[i].rules, "IP", x)
    BY DEF AddressCacheIsOwn
  <2>1. x \in Keys
    BY DEF Keys
  <2>2. CASE i = e /\ x = k
    BY <1>1, <2>1, <2>2 DEF Fits
  <2>3. CASE ~(i = e /\ x = k)
    BY <1>1, <2>1, <2>3 DEF RulesInv, AddressCacheIsOwn
  <2> QED
    BY <2>2, <2>3
<1> QED
  BY <1>1, <1>2, <1>3 DEF EnginesExtend

(* What Match returns is a rule of the engine, and may be cached.          *)
LEMMA MatchFits ==
    ASSUME RulesInv, NEW e \in 1..Len(engines), NEW type \in DOMAIN KeysOf,
           NEW k \in KeysOf[type]
    PROVE  LET r == Match(e, type, k)
           IN  /\ k \in Keys /\ r \in Found /\ Fits(e, k, r)
               /\ r \in RangeOf(engines[e].rules) \cup {None, BuiltInProxyRule}
               /\ type # "IP" /\ r # None => r.type = type
<1> DEFINE rules == engines[e].rules
           c == engines[e].cache[k]
           r == Match(e, type, k)
<1>1. type \in {"PROCESS", "IP", "NAME"} /\ k \in Keys
  BY KeyKinds DEF Keys
<1>2. rules \in Seq(Rule) /\ c \in Found
  BY <1>1, EngineTypes DEF RulesInv
<1>3. r = IF c # None THEN c ELSE First(rules, type, k)
  BY DEF Match
<1>4. \A t \in {"PROCESS", "NAME"} : k \in KeysOf[t] => t = type
  BY <1>1, KeyKinds, KeysAssumption
<1>5. k \in Addrs => type = "IP"
  BY <1>1, KeyKinds, KeysAssumption
<1>6. First(rules, type, k) \in Found /\
      First(rules, type, k) \in RangeOf(rules) \cup {None}
  BY <1>2, FirstFound DEF Found
<1>7. CASE type # "IP"
  <2>1. c \in {None, First(rules, type, k)}
    BY <1>1, <1>7 DEF RulesInv, CacheAgreesWithRules
  <2> HIDE DEF c, rules
  <2>2. r = First(rules, type, k)
    BY <1>3, <2>1
  <2>3. r # None => r.type = type
    BY <1>2, <2>2, FirstFound
  <2>4. k \notin Addrs
    BY <1>5, <1>7
  <2> QED
    BY <1>1, <1>4, <1>6, <2>2, <2>3, <2>4 DEF Fits, rules
<1>8. CASE type = "IP"
  <2>1. k \in Addrs
    BY <1>8, KeyKinds
  <2>2. /\ c \in RangeOf(rules) \cup {None, BuiltInProxyRule}
        /\ c # None /\ c.type = "IP" => c = First(rules, "IP", k)
    BY <2>1 DEF RulesInv, AddressCacheIsOwn
  <2>3. \A t \in {"PROCESS", "NAME"} : k \notin KeysOf[t]
    BY <1>4, <1>8
  <2> HIDE DEF c, rules
  <2>4. /\ r \in RangeOf(rules) \cup {None, BuiltInProxyRule}
        /\ r # None /\ r.type = "IP" => r = First(rules, "IP", k)
        /\ r \in Found
    BY <1>2, <1>3, <1>6, <1>8, <2>2
  <2> QED
    BY <1>1, <1>8, <2>3, <2>4 DEF Fits, rules
<1> QED
  BY <1>7, <1>8

(* Most steps leave the engines alone.                                     *)
LEMMA EnginesStay ==
    ASSUME RulesInv, UNCHANGED engines
    PROVE  /\ EnginesExtend /\ Len(engines') = Len(engines)
           /\ CacheAgreesWithRules' /\ AddressCacheIsOwn'
  BY DEF RulesInv, TypeOK, EnginesExtend, CacheAgreesWithRules,
     AddressCacheIsOwn

(* Installing an engine keeps what the older ones have cached.             *)
LEMMA InstallingKeeps ==
    ASSUME RulesInv, NEW rules \in Seq(Rule),
           engines' = Append(engines, NewEngine(rules))
    PROVE  /\ EnginesExtend /\ Len(engines') = Len(engines) + 1
           /\ CacheAgreesWithRules' /\ AddressCacheIsOwn'
<1>1. engines \in Seq(Engines) /\ Len(engines) \in Nat
  BY DEF RulesInv, TypeOK
<1>2. /\ engines' \in Seq(Engines) /\ Len(engines') = Len(engines) + 1
      /\ \A i \in 1..Len(engines) : engines'[i] = engines[i]
      /\ \A k \in Keys : engines'[Len(engines) + 1].cache[k] = None
  BY <1>1, AppendedFacts
<1>3. \A i \in 1..Len(engines') : i \in 1..Len(engines) \/ i = Len(engines) + 1
  BY <1>1, <1>2
<1>4. CacheAgreesWithRules'
  <2>1. \A type \in {"PROCESS", "NAME"} : KeysOf[type] \subseteq Keys
    BY KeyKinds DEF Keys
  <2> QED
    BY <1>2, <1>3, <2>1 DEF RulesInv, CacheAgreesWithRules
<1>5. AddressCacheIsOwn'
  <2>1. Addrs \subseteq Keys
    BY DEF Keys
  <2> QED
    BY <1>2, <1>3, <2>1 DEF RulesInv, AddressCacheIsOwn
<1> QED
  BY <1>1, <1>2, <1>4, <1>5 DEF EnginesExtend

(* Queries refer to the engines by their rules.                            *)
LEMMA QueriesStay ==
    ASSUME RulesInv, EnginesExtend, UNCHANGED query
    PROVE  QueriesOwn'
  BY DEF RulesInv, TypeOK, EnginesExtend, QueriesOwn

(* The same of connections.                                                *)
LEMMA FlowsStay ==
    ASSUME RulesInv, EnginesExtend, UNCHANGED flow
    PROVE  FlowsOwn' /\ NewFlowsUseNewRules'
  BY DEF RulesInv, TypeOK, FlowState, EnginesExtend, FlowsOwn,
     NewFlowsUseNewRules

-----------------------------------------------------------------------------
(* The handlers.                                                           *)

(* A handler stays one when a field of it is set.                          *)
LEMMA HandlerSet ==
    ASSUME NEW hs \in [Handlers -> HandlerState], NEW h \in Handlers
    PROVE  /\ \A p \in HandlerPlaces :
                 [hs EXCEPT ![h].pc = p] \in [Handlers -> HandlerState]
           /\ \A r \in Seq(Rule) :
                 [hs EXCEPT ![h].rules = r] \in [Handlers -> HandlerState]
           /\ \A s \in Selectable \cup {None} :
                 [hs EXCEPT ![h].sel = s] \in [Handlers -> HandlerState]
  BY DEF HandlerState

(* So does the idle one that moves.                                        *)
LEMMA HandlerReset ==
    ASSUME NEW p \in HandlerPlaces
    PROVE  /\ [IdleHandler EXCEPT !.pc = p] \in HandlerState
           /\ [IdleHandler EXCEPT !.pc = p].pc = p
<1>1. [IdleHandler EXCEPT !.pc = p] = [pc |-> p, rules |-> <<>>, sel |-> None]
  BY DEF IdleHandler
<1>2. <<>> \in Seq(Rule)
  OBVIOUS
<1> QED
  BY <1>1, <1>2 DEF HandlerState

(* A step of a handler that leaves the engines and the connections alone.  *)
LEMMA HandlerStepKeeps ==
    ASSUME RulesInv,
           config' \in [sel : Selectable, rules : Custom],
           handler' \in [Handlers -> HandlerState], FilesExist', SweepFollows',
           UNCHANGED <<mode, engines, current, query, flow, swept>>
    PROVE  RulesInv'
<1>1. TypeOK'
  BY DEF RulesInv, TypeOK
<1>2. EnginesExtend /\ CacheAgreesWithRules' /\ AddressCacheIsOwn'
  BY EnginesStay
<1>3. QueriesOwn' /\ FlowsOwn' /\ NewFlowsUseNewRules'
  BY <1>2, QueriesStay, FlowsStay
<1> QED
  BY <1>1, <1>2, <1>3 DEF RulesInv

(* A user saves other rules.                                               *)
LEMMA SaveKeeps == ASSUME RulesInv, NEW h \in Handlers, Save(h) PROVE RulesInv'
<1>1. handler \in [Handlers -> HandlerState] /\ handler' = [handler EXCEPT ![h].pc = "saved"]
  BY DEF Save, RulesInv, TypeOK
<1>2. handler' \in [Handlers -> HandlerState]
  BY <1>1, HandlerSet DEF HandlerPlaces
<1>3. config' \in [sel : Selectable, rules : Custom]
  BY DEF Save, RulesInv, TypeOK
<1>4. \A g \in Handlers : handler'[g].pc = IF g = h THEN "saved" ELSE handler[g].pc
  BY <1>1 DEF HandlerState
<1>5. FilesExist'
  BY <1>1, <1>4 DEF RulesInv, FilesExist
<1>6. SweepFollows'
  BY <1>4 DEF Save, RulesInv, SweepFollows
<1> QED
  BY <1>2, <1>3, <1>5, <1>6, HandlerStepKeeps DEF Save

(* UpdateRule reads the rules.                                             *)
LEMMA ReadRulesKeeps ==
    ASSUME RulesInv, NEW h \in Handlers, ReadRules(h) PROVE RulesInv'
<1> DEFINE hs == [handler EXCEPT ![h].pc = "rulesRead"]
<1>1. /\ handler \in [Handlers -> HandlerState] /\ handler[h].pc = "saved"
      /\ config \in [sel : Selectable, rules : Custom]
      /\ config.rules \in Seq(Rule)
  BY RulesAssumption DEF ReadRules, RulesInv, TypeOK
<1>2. handler' = [hs EXCEPT ![h].rules = config.rules]
  BY DEF ReadRules
<1>3. hs \in [Handlers -> HandlerState]
  BY <1>1, HandlerSet DEF HandlerPlaces
<1>4. handler' \in [Handlers -> HandlerState]
  BY <1>1, <1>2, <1>3, HandlerSet
<1>5. \A g \in Handlers :
          /\ handler'[g].pc = IF g = h THEN "rulesRead" ELSE handler[g].pc
          /\ handler'[g].sel = handler[g].sel
  BY <1>1, <1>2 DEF HandlerState
<1>6. FilesExist'
  BY <1>5 DEF RulesInv, FilesExist
<1>7. SweepFollows'
  BY <1>1, <1>5 DEF ReadRules, RulesInv, SweepFollows
<1> QED
  BY <1>1, <1>4, <1>6, <1>7, HandlerStepKeeps DEF ReadRules

(* It reads the selected file, which may be missing.                       *)
LEMMA ReadSelectedKeeps ==
    ASSUME RulesInv, NEW h \in Handlers, ReadSelected(h) PROVE RulesInv'
<1> DEFINE hs == [handler EXCEPT ![h].sel = config.sel]
           p  == IF config.sel \in DOMAIN BuiltIn THEN "selRead" ELSE "sweep"
<1>1. /\ handler \in [Handlers -> HandlerState] /\ handler[h].pc = "rulesRead"
      /\ config \in [sel : Selectable, rules : Custom]
      /\ config.sel \in Selectable \cup {None} /\ p \in HandlerPlaces
  BY DEF ReadSelected, RulesInv, TypeOK, HandlerPlaces
<1>2. handler' = [hs EXCEPT ![h].pc = p]
  BY DEF ReadSelected
<1>3. hs \in [Handlers -> HandlerState]
  BY <1>1, HandlerSet
<1>4. handler' \in [Handlers -> HandlerState]
  BY <1>1, <1>2, <1>3, HandlerSet
<1>5. \A g \in Handlers :
          /\ handler'[g].pc = IF g = h THEN p ELSE handler[g].pc
          /\ handler'[g].sel = IF g = h THEN config.sel ELSE handler[g].sel
  BY <1>1, <1>2 DEF HandlerState
<1>6. FilesExist'
  BY <1>5 DEF RulesInv, FilesExist
<1>7. SweepFollows'
  BY <1>1, <1>5 DEF ReadSelected, RulesInv, SweepFollows
<1> QED
  BY <1>1, <1>4, <1>6, <1>7, HandlerStepKeeps DEF ReadSelected

(* The new engine is in force; who follows older rules awaits the sweep.   *)
LEMMA InstallKeeps ==
    ASSUME RulesInv, NEW h \in Handlers, Install(h) PROVE RulesInv'
<1> DEFINE rules == handler[h].rules \o BuiltIn[handler[h].sel]
           v == [IdleHandler EXCEPT !.pc = "installed"]
<1>1. rules \in Seq(Rule)
  <2>1. handler[h].rules \in Seq(Rule)
    BY DEF RulesInv, TypeOK, HandlerState
  <2>2. BuiltIn[handler[h].sel] \in Seq(Rule)
    BY RulesAssumption DEF Install, RulesInv, FilesExist
  <2> QED
    BY <2>1, <2>2
<1>2. /\ EnginesExtend /\ CacheAgreesWithRules' /\ AddressCacheIsOwn'
      /\ Len(engines') = Len(engines) + 1
  BY <1>1, InstallingKeeps DEF Install
<1>3. v \in HandlerState /\ v.pc = "installed"
  BY HandlerReset DEF HandlerPlaces
<1>4. handler \in [Handlers -> HandlerState] /\ handler' = [handler EXCEPT ![h] = v]
  BY DEF Install, RulesInv, TypeOK
<1> HIDE DEF v
<1>5. /\ handler' \in [Handlers -> HandlerState] /\ handler'[h].pc = "installed"
      /\ \A g \in Handlers : g # h => handler'[g] = handler[g]
  BY <1>3, <1>4
<1>6. TypeOK'
  <2>1. current' = Len(engines') /\ current' # 0 /\ engines' \in Seq(Engines)
    BY <1>2 DEF Install, RulesInv, TypeOK, EnginesExtend
  <2> QED
    BY <1>5, <2>1 DEF Install, RulesInv, TypeOK
<1>7. FilesExist'
  BY <1>5 DEF RulesInv, FilesExist
<1>8. QueriesOwn' /\ FlowsOwn' /\ NewFlowsUseNewRules'
  BY <1>2, QueriesStay, FlowsStay DEF Install
<1>9. SweepFollows'
  BY <1>5 DEF SweepFollows
<1> QED
  BY <1>2, <1>6, <1>7, <1>8, <1>9 DEF RulesInv

(* The names are forgotten.                                                *)
LEMMA ResetCacheKeeps ==
    ASSUME RulesInv, NEW h \in Handlers, ResetCache(h) PROVE RulesInv'
<1>1. /\ handler \in [Handlers -> HandlerState]
      /\ handler' = [handler EXCEPT ![h].pc = "sweep"]
      /\ config' \in [sel : Selectable, rules : Custom]
  BY DEF ResetCache, RulesInv, TypeOK
<1>2. handler' \in [Handlers -> HandlerState]
  BY <1>1, HandlerSet DEF HandlerPlaces
<1>3. \A g \in Handlers : /\ handler'[g].pc = IF g = h THEN "sweep" ELSE handler[g].pc
                          /\ handler'[g].sel = handler[g].sel
  BY <1>1 DEF HandlerState
<1>4. FilesExist'
  BY <1>3 DEF RulesInv, FilesExist
<1>5. SweepFollows'
  BY <1>3 DEF ResetCache, RulesInv, SweepFollows
<1> QED
  BY <1>1, <1>2, <1>4, <1>5, HandlerStepKeeps DEF ResetCache

(* A closed connection has forgotten everything.                           *)
LEMMA ClosedFlowFacts ==
    ClosedFlow \in FlowState /\ ClosedFlow.pc = "closed" /\ ClosedFlow.born = 0
<1>1. ClosedFlow = [pc |-> "closed", proc |-> None, addr |-> None, host |-> None,
                    rule |-> None, born |-> 0, engine |-> 0]
  BY DEF ClosedFlow, IdleFlow
<1> QED
  BY <1>1 DEF FlowState, Found, FlowPlaces

(* A sweep closes what relays and passes what is about to.                 *)
LEMMA SweepKeeps == ASSUME RulesInv, NEW h \in Handlers, Sweep(h) PROVE RulesInv'
<1> DEFINE v == [IdleHandler EXCEPT !.pc = "done"]
<1>1. v \in HandlerState /\ v.pc = "done"
  BY HandlerReset DEF HandlerPlaces
<1>2. handler \in [Handlers -> HandlerState] /\ handler' = [handler EXCEPT ![h] = v]
  BY DEF Sweep, RulesInv, TypeOK
<1> HIDE DEF v
<1>3. handler' \in [Handlers -> HandlerState] /\ handler'[h].pc = "done"
      /\ \A g \in Handlers : g # h => handler'[g] = handler[g]
  BY <1>1, <1>2
<1>4. \A f \in Flows : /\ flow[f] \in FlowState
                       /\ flow'[f] = IF flow[f].pc = "relay" THEN ClosedFlow ELSE flow[f]
  BY DEF Sweep, RulesInv, TypeOK
<1>5. TypeOK'
  <2>1. flow' \in [Flows -> FlowState]
    BY ClosedFlowFacts DEF Sweep, RulesInv, TypeOK
  <2> QED
    BY <1>3, <2>1 DEF Sweep, RulesInv, TypeOK
<1>6. FilesExist'
  BY <1>3 DEF RulesInv, FilesExist
<1>7. EnginesExtend /\ CacheAgreesWithRules' /\ AddressCacheIsOwn'
  BY EnginesStay DEF Sweep
<1>8. QueriesOwn'
  BY <1>7, QueriesStay DEF Sweep
<1>9. FlowsOwn' /\ NewFlowsUseNewRules'
  BY <1>4, ClosedFlowFacts DEF Sweep, RulesInv, TypeOK, FlowsOwn,
     NewFlowsUseNewRules
<1>10. SweepFollows'
  BY <1>4, ClosedFlowFacts DEF Sweep, SweepFollows
<1> QED
  BY <1>5, <1>6, <1>7, <1>8, <1>9, <1>10 DEF RulesInv

-----------------------------------------------------------------------------
(* The queries.                                                            *)

(* A step of a query: it leaves the handlers and the connections alone.    *)
LEMMA QueryStepKeeps ==
    ASSUME RulesInv, EnginesExtend, Len(engines') = Len(engines),
           CacheAgreesWithRules', AddressCacheIsOwn',
           NEW q \in Queries, NEW v \in QueryState,
           query' = [query EXCEPT ![q] = v],
           v.pc # "idle" =>
               /\ v.engine \in 1..Len(engines)
               /\ v.rule \in RangeOf(engines[v.engine].rules)
                             \cup {BuiltInProxyRule}
               /\ v.rule.type # "IP",
           UNCHANGED <<mode, config, current, handler, flow, swept>>
    PROVE  RulesInv'
<1>1. query' \in [Queries -> QueryState]
      /\ \A p \in Queries : query'[p] = IF p = q THEN v ELSE query[p]
  BY DEF RulesInv, TypeOK
<1>2. TypeOK'
  BY <1>1 DEF RulesInv, TypeOK, EnginesExtend
<1>3. FilesExist'
  BY DEF RulesInv, FilesExist
<1>4. QueriesOwn'
  BY <1>1 DEF RulesInv, QueriesOwn, EnginesExtend
<1>5. FlowsOwn' /\ NewFlowsUseNewRules'
  BY FlowsStay
<1>6. SweepFollows'
  BY DEF RulesInv, SweepFollows
<1> QED
  BY <1>2, <1>3, <1>4, <1>5, <1>6 DEF RulesInv

(* A query keeps the engine and the rule it began with.                    *)
LEMMA QueryOnItsWay ==
    ASSUME RulesInv, NEW q \in Queries, query[q].pc # "idle"
    PROVE  /\ query[q] \in QueryState
           /\ query[q].engine \in 1..Len(engines)
           /\ query[q].rule \in RangeOf(engines[query[q].engine].rules)
                                \cup {BuiltInProxyRule}
           /\ query[q].rule.type # "IP"
  BY DEF RulesInv, TypeOK, QueriesOwn

(* The idle query is one.                                                  *)
LEMMA IdleQueryFacts == IdleQuery \in QueryState /\ IdleQuery.pc = "idle"
  BY DEF IdleQuery, QueryState, QueryPlaces, Found

(* Match caches what it found.                                             *)
LEMMA MatchKeeps ==
    ASSUME RulesInv, NEW e \in 1..Len(engines), NEW type \in DOMAIN KeysOf,
           NEW k \in KeysOf[type],
           engines' = AfterMatch(e, k, Match(e, type, k))
    PROVE  /\ EnginesExtend /\ Len(engines') = Len(engines)
           /\ CacheAgreesWithRules' /\ AddressCacheIsOwn'
<1> DEFINE r == Match(e, type, k)
<1>1. k \in Keys /\ r \in Found /\ Fits(e, k, r)
  BY MatchFits
<1>2. CASE r = None
  BY <1>2, EnginesStay DEF AfterMatch
<1>3. CASE r # None
  <2>1. engines' = Cached(engines, e, k, r)
    BY <1>3 DEF AfterMatch
  <2> HIDE DEF r
  <2> QED
    BY <1>1, <2>1, CachingKeeps
<1> QED
  BY <1>2, <1>3

(* A query is matched by program, then by name.                            *)
LEMMA BeginQueryKeeps ==
    ASSUME RulesInv, NEW q \in Queries, NEW d \in Domains,
           NEW p \in Procs \cup {None}, BeginQuery(q, d, p)
    PROVE  RulesInv'
<1> DEFINE e == current
           byPrc == IF p = None THEN None ELSE Match(e, "PROCESS", p)
           byDom == Match(e, "NAME", d)
           rule  == CASE byPrc # None -> byPrc
                      [] byDom # None -> byDom
                      [] OTHER -> BuiltInProxyRule
           v == [pc |-> "exchange", name |-> d, engine |-> e, rule |-> rule,
                 left |-> {}]
<1>1. e \in 1..Len(engines) /\ e \in Nat
  BY DEF RulesInv, TypeOK
<1>2. "PROCESS" \in DOMAIN KeysOf /\ "NAME" \in DOMAIN KeysOf
      /\ d \in KeysOf["NAME"] /\ (p # None => p \in KeysOf["PROCESS"])
  BY KeyKinds
<1>3. byDom # None =>
          /\ byDom \in Found /\ byDom.type = "NAME"
          /\ byDom \in RangeOf(engines[e].rules) \cup {BuiltInProxyRule}
  BY <1>1, <1>2, MatchFits
<1>4. byPrc # None =>
          /\ byPrc \in Found /\ byPrc.type = "PROCESS"
          /\ byPrc \in RangeOf(engines[e].rules) \cup {BuiltInProxyRule}
  BY <1>1, <1>2, MatchFits
<1>5. /\ EnginesExtend /\ Len(engines') = Len(engines)
      /\ CacheAgreesWithRules' /\ AddressCacheIsOwn'
  <2>1. CASE byPrc # None
    <3>1. p # None
      BY <2>1
    <3>2. engines' = AfterMatch(e, p, Match(e, "PROCESS", p))
      BY <2>1 DEF BeginQuery
    <3> QED
      BY <1>1, <1>2, <3>1, <3>2, MatchKeeps
  <2>2. CASE byPrc = None
    <3>1. engines' = AfterMatch(e, d, Match(e, "NAME", d))
      BY <2>2 DEF BeginQuery
    <3> QED
      BY <1>1, <1>2, <3>1, MatchKeeps
  <2> QED
    BY <2>1, <2>2
<1>6. \/ query' = query
      \/ query' = [query EXCEPT ![q] = [IdleQuery EXCEPT !.pc = "exchange",
                        !.name = d, !.engine = e, !.rule = rule]]
  BY DEF BeginQuery
<1>7. [IdleQuery EXCEPT !.pc = "exchange", !.name = d, !.engine = e,
                        !.rule = rule] = v
  <2> DEFINE w == [IdleQuery EXCEPT !.pc = "exchange", !.name = d, !.engine = e,
                                    !.rule = rule]
  <2>1. /\ w = [x \in {"pc", "name", "engine", "rule", "left"} |-> w[x]]
        /\ w.pc = "exchange" /\ w.name = d /\ w.engine = e /\ w.rule = rule
        /\ w.left = {}
    <3> HIDE DEF rule, e
    <3> QED
      BY DEF IdleQuery
  <2> HIDE DEF w, rule
  <2>2. w = v
    BY <2>1
  <2> QED
    BY <2>2 DEF w
<1>8. UNCHANGED <<mode, config, current, handler, flow, swept>>
  BY DEF BeginQuery
<1>9. /\ rule \in Found /\ rule.type # "IP"
      /\ rule \in RangeOf(engines[e].rules) \cup {BuiltInProxyRule}
  <2> HIDE DEF byPrc, byDom
  <2>1. BuiltInProxyRule \in Found /\ BuiltInProxyRule.type # "IP"
    BY DEF Found, BuiltInProxyRule
  <2> QED
    BY <1>3, <1>4, <2>1
<1> HIDE DEF rule
<1>10. v \in QueryState
  BY <1>1, <1>9 DEF QueryState, QueryPlaces
<1>11. CASE query' = query
  <2>1. query \in [Queries -> QueryState] /\ query' = [query EXCEPT ![q] = query[q]]
    BY <1>11 DEF RulesInv, TypeOK
  <2>2. query[q] \in QueryState
    BY <2>1
  <2> QED
    BY <1>5, <1>8, <2>1, <2>2, QueryOnItsWay, QueryStepKeeps
<1>12. CASE query' = [query EXCEPT ![q] = v]
  <2>1. v.engine = e /\ v.rule = rule
    OBVIOUS
  <2> HIDE DEF v
  <2> QED
    BY <1>1, <1>5, <1>8, <1>9, <1>10, <1>12, <2>1, QueryStepKeeps
<1> QED
  BY <1>6, <1>7, <1>11, <1>12

(* The answer, the name of an address, the end of a query.                 *)
LEMMA QueryMoves ==
    ASSUME RulesInv, NEW q \in Queries, query[q].pc # "idle",
           NEW p \in QueryPlaces, NEW l \in SUBSET Addrs,
           query' = [query EXCEPT ![q] = [query[q] EXCEPT !.pc = p, !.left = l]],
           EnginesExtend, Len(engines') = Len(engines),
           CacheAgreesWithRules', AddressCacheIsOwn',
           UNCHANGED <<mode, config, current, handler, flow, swept>>
    PROVE  RulesInv'
<1> DEFINE u == query[q]
           v == [u EXCEPT !.pc = p, !.left = l]
<1>1. u \in QueryState
  BY QueryOnItsWay
<1>2. v = [pc |-> p, name |-> u.name, engine |-> u.engine, rule |-> u.rule,
           left |-> l]
  <2> HIDE DEF u
  <2>1. /\ v = [x \in {"pc", "name", "engine", "rule", "left"} |-> v[x]]
        /\ v.pc = p /\ v.name = u.name /\ v.engine = u.engine /\ v.rule = u.rule
        /\ v.left = l
    BY <1>1 DEF QueryState
  <2> HIDE DEF v
  <2> QED
    BY <2>1
<1>3. v \in QueryState
  <2>1. /\ u.name \in Domains \cup {None} /\ u.engine \in Nat /\ u.rule \in Found
    BY <1>1 DEF QueryState
  <2> HIDE DEF u, v
  <2> QED
    BY <1>2, <2>1 DEF QueryState
<1>4. v.engine = u.engine /\ v.rule = u.rule
  BY <1>2
<1>5. query' = [query EXCEPT ![q] = v]
  OBVIOUS
<1>6. /\ v.engine \in 1..Len(engines)
      /\ v.rule \in RangeOf(engines[v.engine].rules) \cup {BuiltInProxyRule}
      /\ v.rule.type # "IP"
  BY <1>4, QueryOnItsWay
<1> HIDE DEF v
<1> QED
  BY <1>3, <1>5, <1>6, QueryStepKeeps

(* The answer comes.                                                       *)
LEMMA AnswerKeeps ==
    ASSUME RulesInv, NEW q \in Queries, NEW as \in SUBSET Addrs, Answer(q, as)
    PROVE  RulesInv'
<1>1. query' = [query EXCEPT ![q] = [query[q] EXCEPT !.pc = "name", !.left = as]]
  BY DEF Answer, RulesInv, TypeOK
<1>2. /\ EnginesExtend /\ Len(engines') = Len(engines)
      /\ CacheAgreesWithRules' /\ AddressCacheIsOwn'
  BY EnginesStay DEF Answer
<1> QED
  BY <1>1, <1>2, QueryMoves DEF Answer, QueryPlaces

(* An address is remembered with its name.                                 *)
LEMMA AddNameKeeps ==
    ASSUME RulesInv, NEW q \in Queries, NEW a \in Addrs, AddName(q, a)
    PROVE  RulesInv'
<1>1. query[q] \in QueryState /\ query[q].left \in SUBSET Addrs
  BY QueryOnItsWay DEF AddName, QueryState
<1>2. query' = [query EXCEPT ![q] = [query[q] EXCEPT !.pc = "rule",
                                                     !.left = query[q].left]]
  BY <1>1 DEF AddName, QueryState
<1>3. /\ EnginesExtend /\ Len(engines') = Len(engines)
      /\ CacheAgreesWithRules' /\ AddressCacheIsOwn'
  BY EnginesStay DEF AddName
<1> QED
  BY <1>1, <1>2, <1>3, QueryMoves DEF AddName, QueryPlaces

(* The rule is cached for an address, in the engine that found it.         *)
LEMMA AddCacheKeeps ==
    ASSUME RulesInv, NEW q \in Queries, NEW a \in Addrs, AddCache(q, a)
    PROVE  RulesInv'
<1> DEFINE u == query[q]
<1>1. /\ u \in QueryState /\ u.engine \in 1..Len(engines) /\ u.pc = "rule"
      /\ u.rule \in RangeOf(engines[u.engine].rules) \cup {BuiltInProxyRule}
      /\ u.rule.type # "IP"
  BY QueryOnItsWay DEF AddCache
<1>2. u.rule \in Found /\ u.left \ {a} \in SUBSET Addrs
  BY <1>1 DEF QueryState
<1>3. a \in Keys /\ Fits(u.engine, a, u.rule)
  <2>1. a \notin KeysOf["PROCESS"] /\ a \notin KeysOf["NAME"]
    BY KeyKinds, KeysAssumption
  <2> QED
    BY <1>1, <2>1 DEF Fits, Keys
<1>4. engines' = Cached(engines, u.engine, a, u.rule)
  BY DEF AddCache
<1>5. /\ EnginesExtend /\ Len(engines') = Len(engines)
      /\ CacheAgreesWithRules' /\ AddressCacheIsOwn'
  <2> HIDE DEF u
  <2> QED
    BY <1>1, <1>2, <1>3, <1>4, CachingKeeps
<1>6. UNCHANGED <<mode, config, current, handler, flow, swept>>
  BY DEF AddCache
<1> DEFINE rest == query[q].left \ {a}
<1>7. CASE rest = {}
  <2>1. query' = [query EXCEPT ![q] = IdleQuery]
    BY <1>7 DEF AddCache
  <2> QED
    BY <1>5, <1>6, <2>1, IdleQueryFacts, QueryStepKeeps
<1>8. CASE rest # {}
  <2>1. query' = [query EXCEPT ![q] = [query[q] EXCEPT !.pc = "name",
                                                       !.left = rest]]
    BY <1>8 DEF AddCache
  <2>2. "name" \in QueryPlaces /\ query[q].pc # "idle"
    BY <1>1 DEF QueryPlaces
  <2> QED
    BY <1>2, <1>5, <1>6, <2>1, <2>2, QueryMoves
<1> QED
  BY <1>7, <1>8

(* The exchange fails.                                                     *)
LEMMA FailQueryKeeps ==
    ASSUME RulesInv, NEW q \in Queries, FailQuery(q) PROVE RulesInv'
<1>1. /\ EnginesExtend /\ Len(engines') = Len(engines)
      /\ CacheAgreesWithRules' /\ AddressCacheIsOwn'
  BY EnginesStay DEF FailQuery
<1> QED
  BY <1>1, IdleQueryFacts, QueryStepKeeps DEF FailQuery

-----------------------------------------------------------------------------
(* The connections.                                                        *)

(* A connection on its own path: others, handlers and queries stay.        *)
LEMMA FlowStepKeeps ==
    ASSUME RulesInv, EnginesExtend, Len(engines') = Len(engines),
           CacheAgreesWithRules', AddressCacheIsOwn',
           NEW f \in Flows, NEW v \in FlowState,
           flow' = [flow EXCEPT ![f] = v],
           v.born <= Len(engines),
           v.pc \in {"matched", "relay"} =>
               /\ v.engine \in 1..Len(engines) /\ v.engine >= v.born
               /\ v.rule \in RangeOf(engines[v.engine].rules)
                             \cup {BuiltInProxyRule}
               /\ v.engine = current \/ f \in swept
                  \/ \E h \in Handlers : handler[h].pc \in {"installed", "sweep"},
           UNCHANGED <<mode, config, current, handler, query, swept>>
    PROVE  RulesInv'
<1>1. flow' \in [Flows -> FlowState]
      /\ \A g \in Flows : flow'[g] = IF g = f THEN v ELSE flow[g]
  BY DEF RulesInv, TypeOK
<1>2. TypeOK'
  BY <1>1 DEF RulesInv, TypeOK, EnginesExtend
<1>3. FilesExist'
  BY DEF RulesInv, FilesExist
<1>4. QueriesOwn'
  BY QueriesStay
<1>5. FlowsOwn'
  BY <1>1 DEF RulesInv, FlowsOwn
<1>6. NewFlowsUseNewRules'
  BY <1>1 DEF RulesInv, FlowsOwn, NewFlowsUseNewRules, EnginesExtend
<1>7. SweepFollows'
  BY <1>1 DEF RulesInv, SweepFollows
<1> QED
  BY <1>2, <1>3, <1>4, <1>5, <1>6, <1>7 DEF RulesInv

(* A connection arrives under the engine in force.                         *)
LEMMA ArriveKeeps ==
    ASSUME RulesInv, NEW f \in Flows, NEW p \in Procs \cup {None},
           NEW a \in Addrs \cup {None}, NEW d \in Domains \cup {None},
           Arrive(f, p, a, d)
    PROVE  RulesInv'
<1> DEFINE v == [pc |-> "first", proc |-> p, addr |-> a, host |-> d,
                 rule |-> None, born |-> current, engine |-> 0]
<1>1. current \in Nat /\ current <= Len(engines)
  BY DEF RulesInv, TypeOK
<1>2. [IdleFlow EXCEPT !.pc = "first", !.proc = p, !.addr = a, !.host = d,
                       !.born = current] = v
  <2> DEFINE w == [IdleFlow EXCEPT !.pc = "first", !.proc = p, !.addr = a,
                                   !.host = d, !.born = current]
  <2>1. /\ w = [x \in {"pc", "proc", "addr", "host", "rule", "born", "engine"} |->
                   w[x]]
        /\ w.pc = "first" /\ w.proc = p /\ w.addr = a /\ w.host = d
        /\ w.rule = None /\ w.born = current /\ w.engine = 0
    BY DEF IdleFlow
  <2> HIDE DEF w
  <2>2. w = v
    BY <2>1
  <2> QED
    BY <2>2 DEF w
<1>3. flow' = [flow EXCEPT ![f] = v]
  BY <1>2 DEF Arrive
<1>4. v \in FlowState
  BY <1>1 DEF FlowState, FlowPlaces, Found
<1>5. v.pc = "first" /\ v.born <= Len(engines)
  BY <1>1
<1>6. /\ EnginesExtend /\ Len(engines') = Len(engines)
      /\ CacheAgreesWithRules' /\ AddressCacheIsOwn'
  BY EnginesStay DEF Arrive
<1> HIDE DEF v
<1> QED
  BY <1>3, <1>4, <1>5, <1>6, FlowStepKeeps DEF Arrive

(* A matcher asks for keys of the type it names.                           *)
LEMMA AskedFacts ==
    ASSUME RulesInv, NEW f \in Flows, NEW n \in 1..3
    PROVE  LET a == Asked(f, n)
           IN  a.key # None => a.type \in DOMAIN KeysOf /\ a.key \in KeysOf[a.type]
<1>1. /\ flow[f].proc \in Procs \cup {None} /\ flow[f].addr \in Addrs \cup {None}
      /\ flow[f].host \in Domains \cup {None}
  BY DEF RulesInv, TypeOK, FlowState
<1> DEFINE byProc == [type |-> "PROCESS", key |-> flow[f].proc]
           byAddr == [type |-> "IP", key |-> flow[f].addr]
           byHost == [type |-> "NAME", key |-> flow[f].host]
           last   == [byAddr EXCEPT !.key = None]
<1>2. Asked(f, n) \in {byProc, byAddr, byHost, last}
  <2>1. Asked(f, n) = IF mode = "system" THEN <<byHost, byAddr, last>>[n]
                      ELSE <<byProc, byAddr, byHost>>[n]
    BY DEF Asked
  <2> HIDE DEF byProc, byAddr, byHost, last
  <2> QED
    BY <2>1
<1>3. last.key = None
  OBVIOUS
<1>4. /\ byProc.type = "PROCESS" /\ byProc.key = flow[f].proc
      /\ byAddr.type = "IP" /\ byAddr.key = flow[f].addr
      /\ byHost.type = "NAME" /\ byHost.key = flow[f].host
  OBVIOUS
<1> HIDE DEF byProc, byAddr, byHost, last
<1> QED
  BY <1>1, <1>2, <1>3, <1>4, KeyKinds

(* A step of a matcher ends with a rule of the engine in force, or goes on. *)
LEMMA MatchStepKeeps ==
    ASSUME RulesInv, NEW f \in Flows, NEW n \in 1..3, NEW here,
           NEW next \in {"second", "third", "matched"},
           MatchStep(f, n, here, next)
    PROVE  RulesInv'
<1> DEFINE a == Asked(f, n)
           r == IF a.key = None THEN None ELSE Match(current, a.type, a.key)
           last == next = "matched"
           p == IF r # None THEN "matched" ELSE next
           s == IF r = None /\ last THEN BuiltInProxyRule ELSE r
           e == IF r # None \/ last THEN current ELSE 0
           u == flow[f]
           v == [pc |-> p, proc |-> u.proc, addr |-> u.addr, host |-> u.host,
                 rule |-> s, born |-> u.born, engine |-> e]
<1>1. current \in 1..Len(engines) /\ current \in Nat /\ current = Len(engines)
  BY DEF RulesInv, TypeOK
<1>2. a.key # None => a.type \in DOMAIN KeysOf /\ a.key \in KeysOf[a.type]
  BY AskedFacts
<1>3. r \in Found
      /\ r \in RangeOf(engines[current].rules) \cup {None, BuiltInProxyRule}
  <2> HIDE DEF a
  <2> QED
    BY <1>1, <1>2, MatchFits DEF Found
<1>4. engines' = IF a.key = None THEN engines ELSE AfterMatch(current, a.key, r)
  BY DEF MatchStep
<1>5. flow' = [flow EXCEPT ![f].pc = p, ![f].rule = s, ![f].engine = e]
  BY DEF MatchStep
<1>6. UNCHANGED <<mode, config, current, handler, query, swept>>
  BY DEF MatchStep
<1>7. /\ EnginesExtend /\ Len(engines') = Len(engines)
      /\ CacheAgreesWithRules' /\ AddressCacheIsOwn'
  <2>1. CASE a.key = None
    BY <1>4, <2>1, EnginesStay
  <2>2. CASE a.key # None
    <3>1. engines' = AfterMatch(current, a.key, Match(current, a.type, a.key))
      BY <1>4, <2>2
    <3> HIDE DEF a
    <3> QED
      BY <1>1, <1>2, <2>2, <3>1, MatchKeeps
  <2> QED
    BY <2>1, <2>2
<1> HIDE DEF a, r
<1>8. /\ p \in FlowPlaces /\ s \in Found /\ e \in Nat
      /\ p = "matched" =>
            /\ e = current
            /\ s \in RangeOf(engines[current].rules) \cup {BuiltInProxyRule}
      /\ p # "relay"
  BY <1>1, <1>3 DEF FlowPlaces, Found
<1> HIDE DEF p, s, e
<1>9. flow \in [Flows -> FlowState] /\ u \in FlowState /\ u.born <= Len(engines)
  BY DEF RulesInv, TypeOK, FlowsOwn
<1>10. flow' = [flow EXCEPT ![f] = v]
  <2>1. flow' = [flow EXCEPT ![f] = [u EXCEPT !.pc = p, !.rule = s, !.engine = e]]
    BY <1>5, <1>9
  <2> DEFINE w == [u EXCEPT !.pc = p, !.rule = s, !.engine = e]
  <2> HIDE DEF u
  <2>2. /\ w = [x \in {"pc", "proc", "addr", "host", "rule", "born", "engine"} |->
                   w[x]]
        /\ w.pc = p /\ w.proc = u.proc /\ w.addr = u.addr /\ w.host = u.host
        /\ w.rule = s /\ w.born = u.born /\ w.engine = e
    BY <1>9 DEF FlowState
  <2> HIDE DEF w
  <2>3. w = v
    BY <2>2
  <2> QED
    BY <2>1, <2>3 DEF w
<1>11. v \in FlowState
  <2>1. /\ u.proc \in Procs \cup {None} /\ u.addr \in Addrs \cup {None}
        /\ u.host \in Domains \cup {None} /\ u.born \in Nat
    BY <1>9 DEF FlowState
  <2> HIDE DEF u
  <2> QED
    BY <1>8, <2>1 DEF FlowState
<1>12. v.pc = p /\ v.rule = s /\ v.engine = e /\ v.born = u.born
  OBVIOUS
<1>13. u.born \in Nat
  BY <1>9 DEF FlowState
<1> HIDE DEF u, v
<1> QED
  BY <1>1, <1>6, <1>7, <1>8, <1>9, <1>10, <1>11, <1>12, <1>13, FlowStepKeeps

(* A connection joins, under the rule it was matched with.                 *)
LEMMA JoinKeeps == ASSUME RulesInv, NEW f \in Flows, Join(f) PROVE RulesInv'
<1> DEFINE u == flow[f]
           v == [u EXCEPT !.pc = "relay"]
<1>1. flow \in [Flows -> FlowState] /\ u \in FlowState /\ u.pc = "matched"
  BY DEF Join, RulesInv, TypeOK
<1>2. /\ EnginesExtend /\ Len(engines') = Len(engines)
      /\ CacheAgreesWithRules' /\ AddressCacheIsOwn'
  BY EnginesStay DEF Join
<1>3. UNCHANGED <<mode, config, current, handler, query, swept>>
  BY DEF Join
<1>4. CASE u.rule.policy = "REJECT"
  <2>1. flow' = [flow EXCEPT ![f] = ClosedFlow]
    BY <1>4 DEF Join, RulesInv, TypeOK
  <2>2. ClosedFlow.born <= Len(engines)
    BY ClosedFlowFacts DEF RulesInv, TypeOK
  <2> QED
    BY <1>2, <1>3, <2>1, <2>2, ClosedFlowFacts, FlowStepKeeps
<1>5. CASE u.rule.policy # "REJECT"
  <2>1. flow' = [flow EXCEPT ![f] = v]
    BY <1>5 DEF Join, RulesInv, TypeOK
  <2>2. v \in FlowState /\ v.born = u.born /\ v.engine = u.engine /\ v.rule = u.rule
    BY <1>1 DEF FlowState, FlowPlaces
  <2>3. /\ u.born <= Len(engines)
        /\ u.engine \in 1..Len(engines) /\ u.engine >= u.born
        /\ u.rule \in RangeOf(engines[u.engine].rules) \cup {BuiltInProxyRule}
        /\ u.engine = current \/ f \in swept
           \/ \E h \in Handlers : handler[h].pc \in {"installed", "sweep"}
    BY <1>1 DEF RulesInv, FlowsOwn, NewFlowsUseNewRules, SweepFollows
  <2> HIDE DEF u, v
  <2> QED
    BY <1>2, <1>3, <2>1, <2>2, <2>3, FlowStepKeeps
<1> QED
  BY <1>4, <1>5

-----------------------------------------------------------------------------
(* The specification.                                                      *)

(* The program starts with the saved rules and nothing cached.             *)
LEMMA InitRules == Init => RulesInv
<1> SUFFICES ASSUME Init PROVE RulesInv
  OBVIOUS
<1> DEFINE rules == config.rules \o BuiltIn[config.sel]
<1>1. /\ config \in [sel : Selectable, rules : Custom]
      /\ config.rules \in Seq(Rule) /\ BuiltIn[config.sel] \in Seq(Rule)
  BY RulesAssumption DEF Init
<1>2. rules \in Seq(Rule)
  BY <1>1
<1>3. engines = <<NewEngine(rules)>> /\ current = 1
  BY DEF Init
<1> HIDE DEF rules
<1>4. /\ NewEngine(rules) \in Engines
      /\ \A k \in Keys : NewEngine(rules).cache[k] = None
  BY <1>2 DEF NewEngine, NoCache, Engines, Found
<1>5. /\ engines \in Seq(Engines) /\ Len(engines) = 1
      /\ \A i \in 1..Len(engines) : \A k \in Keys : engines[i].cache[k] = None
  BY <1>3, <1>4
<1>6. IdleHandler \in HandlerState /\ IdleHandler.pc = "idle"
  <2>1. <<>> \in Seq(Rule)
    OBVIOUS
  <2> QED
    BY <2>1 DEF IdleHandler, HandlerState, HandlerPlaces
<1>7. IdleFlow \in FlowState /\ IdleFlow.pc = "idle" /\ IdleFlow.born = 0
  BY DEF IdleFlow, FlowState, FlowPlaces, Found
<1>8. TypeOK
  BY <1>1, <1>3, <1>5, <1>6, <1>7, IdleQueryFacts DEF Init, TypeOK
<1>9. FilesExist /\ QueriesOwn /\ FlowsOwn /\ SweepFollows /\ NewFlowsUseNewRules
  BY <1>5, <1>6, <1>7, IdleQueryFacts DEF Init, FilesExist, QueriesOwn, FlowsOwn,
     SweepFollows, NewFlowsUseNewRules
<1>10. CacheAgreesWithRules
  <2>1. \A type \in {"PROCESS", "NAME"} : KeysOf[type] \subseteq Keys
    BY KeyKinds DEF Keys
  <2> QED
    BY <1>5, <2>1 DEF CacheAgreesWithRules
<1>11. AddressCacheIsOwn
  <2>1. Addrs \subseteq Keys
    BY DEF Keys
  <2> QED
    BY <1>5, <2>1 DEF AddressCacheIsOwn
<1> QED
  BY <1>8, <1>9, <1>10, <1>11 DEF RulesInv

(* The lock of the DNS map and what is not read here change nothing.       *)
LEMMA RulesAside ==
    ASSUME RulesInv,
           UNCHANGED <<mode, config, engines, current, handler, query, flow, swept>>
    PROVE  RulesInv'
<1>1. config' \in [sel : Selectable, rules : Custom]
      /\ handler' \in [Handlers -> HandlerState]
  BY DEF RulesInv, TypeOK
<1>2. FilesExist' /\ SweepFollows'
  BY DEF RulesInv, FilesExist, SweepFollows
<1> QED
  BY <1>1, <1>2, HandlerStepKeeps

(* Every step keeps the invariant.                                         *)
LEMMA NextRules == RulesInv /\ [Next]_vars => RulesInv'
<1> SUFFICES ASSUME RulesInv, [Next]_vars PROVE RulesInv'
  OBVIOUS
<1>1. CASE \E h \in Handlers : Save(h) \/ HandlerStep(h)
  BY <1>1, SaveKeeps, ReadRulesKeeps, ReadSelectedKeeps, InstallKeeps,
     ResetCacheKeeps, SweepKeeps DEF HandlerStep
<1>2. CASE \E q \in Queries, d \in Domains, p \in Procs \cup {None} :
               BeginQuery(q, d, p)
  BY <1>2, BeginQueryKeeps
<1>3. CASE \E q \in Queries : EndQuery(q)
  BY <1>3, FailQueryKeeps, AnswerKeeps, AddNameKeeps, AddCacheKeeps DEF EndQuery
<1>4. CASE WantDnsMap \/ UpdateDnsMap
  BY <1>4, RulesAside DEF WantDnsMap, UpdateDnsMap
<1>5. CASE \E f \in Flows, p \in Procs \cup {None}, a \in Addrs \cup {None},
              d \in Domains \cup {None} : Arrive(f, p, a, d)
  BY <1>5, ArriveKeeps
<1>6. CASE \E f \in Flows : ConnMatcher(f)
  <2>1. PICK f \in Flows : ConnMatcher(f)
    BY <1>6
  <2>2. 1 \in 1..3 /\ 2 \in 1..3 /\ 3 \in 1..3
    OBVIOUS
  <2> QED
    BY <2>1, <2>2, MatchStepKeeps DEF ConnMatcher
<1>7. CASE \E f \in Flows : Join(f)
  BY <1>7, JoinKeeps
<1>8. CASE UNCHANGED vars
  BY <1>8, RulesAside DEF vars
<1> QED
  BY <1>1, <1>2, <1>3, <1>4, <1>5, <1>6, <1>7, <1>8 DEF Next

(* The invariant holds in every state.                                     *)
THEOREM RulesHold == SafeSpec => []RulesInv
  BY InitRules, NextRules, PTL DEF SafeSpec

(* However slow a query and however often the rules are saved under it, no *)
(* engine caches a rule for a name or a program that its own search would  *)
(* not find.                                                               *)
THEOREM CachesAgree == SafeSpec => []CacheAgreesWithRules
<1>1. RulesInv => CacheAgreesWithRules
  BY DEF RulesInv
<1> QED
  BY <1>1, RulesHold, PTL

(* What an engine has cached for an address is a rule of its own.          *)
THEOREM AddressCachesAreOwn == SafeSpec => []AddressCacheIsOwn
<1>1. RulesInv => AddressCacheIsOwn
  BY DEF RulesInv
<1> QED
  BY <1>1, RulesHold, PTL

(* No connection is matched against rules older than those in force when   *)
(* it arrived.                                                             *)
THEOREM NewRulesApply == SafeSpec => []NewFlowsUseNewRules
<1>1. RulesInv => NewFlowsUseNewRules
  BY DEF RulesInv
<1> QED
  BY <1>1, RulesHold, PTL

(* Once every handler is done, only a connection that a sweep passed       *)
(* between its match and its registration follows older rules.             *)
THEOREM SurvivorsSlippedPast == SafeSpec => []OnlyUnjoinedFlowsSurvive
<1>1. RulesInv => OnlyUnjoinedFlowsSurvive
  BY DEF RulesInv, SweepFollows, OnlyUnjoinedFlowsSurvive
<1> QED
  BY <1>1, RulesHold, PTL
=============================================================================
