------------------------------- MODULE Upstream --------------------------------
(***************************************************************************)
(* The upstream resolvers: what dns.Handle and the dialer ask when no rule *)
(* of the program has the answer.  A resolver keeps its answers with the   *)
(* time they expire; one that has expired is still given, for one second   *)
(* more, while a goroutine fetches another.  A question asked meanwhile    *)
(* joins the exchange that is under way (singleflight), which asks all the *)
(* name servers at once and waits for every one of them (picker).          *)
(*                                                                         *)
(* The program gives a resolver neither fallback servers nor policies nor  *)
(* search domains.  An answer is its TTLs.  The cache, of 4096 questions,  *)
(* never fills here; a resolver without a cache shares no exchange either. *)
(***************************************************************************)
EXTENDS Integers, Sequences, FiniteSets

CONSTANTS
    Askers,      \* goroutines that ask the resolver
    Servers,     \* its name servers
    Schemes,     \* bound: the schemes the user writes them with
    Answers,     \* what servers answer: records of the TTLs of the answer
                 \* records ("ttls") and of the authority ("ns", a sequence)
    MaxTime      \* bound: the seconds that pass

ASSUME UpstreamAssumption ==
    /\ Schemes \subseteq {"udp", "tcp", "tls", "https", "dhcp", "system",
                          "fake-ip"}
    /\ MaxTime \in Nat
    /\ Answers \subseteq [ttls : Seq(Nat), ns : Seq(Nat)]

VARIABLES
    now,         \* the clock, in seconds
    server,      \* the client of each server
    found,       \* the system client knows name servers
    lruCache,    \* the answer to the question: "rec", "expires", and, as
                 \* history, when it was fetched
    flight,      \* the exchange under way, of singleflight
    asker,       \* of each asker: [at, ttls, rec, since]
    refresh      \* a goroutine is to fetch what has expired

upVars == <<now, server, found, lruCache, flight, asker, refresh>>

NoServer  == [s \in Servers |-> "none"]
NoAnswer  == [ttls |-> <<>>, ns |-> <<>>]
NoEntry   == [rec |-> NoAnswer, expires |-> -1, fetched |-> -1]
NoFlight  == [members |-> {}, cancelled |-> FALSE, result |-> NoAnswer,
              good |-> FALSE, client |-> [s \in Servers |-> "none"]]
IdleAsker == [at |-> "idle", ttls |-> <<>>, rec |-> NoAnswer, since |-> -1]

Flying == \E s \in Servers : flight.client[s] # "none"

\* 0 when there is no record at all.
minimalTTL(ttls) ==
    IF ttls = <<>> THEN 0
    ELSE CHOOSE t \in {ttls[i] : i \in DOMAIN ttls} :
             \A i \in DOMAIN ttls : t <= ttls[i]

Clamp(t, low, high) == IF t < low THEN low ELSE IF t > high THEN high ELSE t

(* Mutant: a cached answer is given with the TTLs it came with.            *)
TtlsAsFetched(ttls, left) == ttls

\* What is left to the first record, the others as much above as they were.
updateMsgTTL(ttls, left) ==
    LET delta == minimalTTL(ttls) - left
    IN  [i \in DOMAIN ttls |-> Clamp(ttls[i] - delta, 1, ttls[i])]

setMsgTTL(ttls) == [i \in DOMAIN ttls |-> 1]

\* The network that the scheme of a server's address means.
ParseNameServer(scheme) ==
    CASE scheme = "udp" -> ""
      [] scheme = "tls" -> "tcp-tls"
      [] OTHER -> scheme

\* resolver.New puts the system's servers in the place of dhcp.
parse(net) == IF net = "dhcp" THEN "system" ELSE net

\* What asks it: "stream", over a connection of an outbound; "udp", over one
\* of the dialer; or a client of its own.
transform(net) ==
    CASE net = "" -> "udp"
      [] net \in {"tcp", "tcp-tls"} -> "stream"
      [] OTHER -> net

\* A system client looks for its servers, and may find none.
update == found' \in BOOLEAN

NewResolver ==
    /\ server = NoServer
    /\ server' \in [Servers ->
           {transform(parse(ParseNameServer(s))) : s \in Schemes}]
    /\ IF \E s \in Servers : server'[s] = "system" THEN update
       ELSE UNCHANGED found
    /\ UNCHANGED <<now, lruCache, flight, asker, refresh>>

-------------------------------------------------------------------------------
(* Asking.                                                                 *)

Told(ttls, entry) == [at |-> "told", ttls |-> ttls, rec |-> entry.rec,
                      since |-> entry.fetched]

\* dns.Handle asks.  So does the dialer, by ResolveIPv4 or ResolveIP, which
\* both ask for A records alone: IPv6 is disabled.
MayAsk(a) == server # NoServer /\ asker[a].at = "idle"

\* The cache comes first.
ExchangeContext(a) ==
    /\ MayAsk(a)
    /\ IF lruCache = NoEntry
       THEN /\ asker' = [asker EXCEPT ![a].at = "missed"]
            /\ UNCHANGED refresh
       ELSE LET left == lruCache.expires - now
                ttls == lruCache.rec.ttls
            IN  IF left < 0
                THEN /\ asker' = [asker EXCEPT ![a] =
                                      Told(setMsgTTL(ttls), lruCache)]
                     /\ refresh' = TRUE
                ELSE /\ asker' = [asker EXCEPT ![a] =
                                      Told(updateMsgTTL(ttls, left), lruCache)]
                     /\ UNCHANGED refresh
    /\ UNCHANGED <<now, server, found, lruCache, flight>>

\* A host that is an address asks nobody.
LookupIPv4(a) ==
    /\ asker[a].at = "idle"
    /\ asker' = [asker EXCEPT ![a].at = "literal"]
    /\ UNCHANGED <<now, server, found, lruCache, flight, refresh>>

LookupIPv6(a) ==
    /\ asker[a].at = "idle"
    /\ asker' = [asker EXCEPT ![a].at = "failed"]
    /\ UNCHANGED <<now, server, found, lruCache, flight, refresh>>

\* A DNS-MAP rule answers itself, when its address is of the kind asked for.
DnsMapExchange(a) ==
    /\ asker[a].at = "idle"
    /\ \E at \in {"literal", "failed"} : asker' = [asker EXCEPT ![a].at = at]
    /\ UNCHANGED <<now, server, found, lruCache, flight, refresh>>

\* group.Do: lead an exchange, or join the one under way, and wait.
Exchanging(who) ==
    flight' = IF Flying THEN [flight EXCEPT !.members = @ \cup who]
              ELSE [NoFlight EXCEPT !.members = who,
                        !.client = [s \in Servers |-> "dialing"]]

exchangeWithoutCache(a) ==
    /\ asker[a].at = "missed" /\ Exchanging({a})
    /\ asker' = [asker EXCEPT ![a].at = "waiting"]
    /\ UNCHANGED <<now, server, found, lruCache, refresh>>

Refresh ==
    /\ refresh /\ Exchanging({})
    /\ refresh' = FALSE
    /\ UNCHANGED <<now, server, found, lruCache, asker>>

-------------------------------------------------------------------------------
(* The exchange.                                                           *)

\* picker.Go: the first answer is the result and ends the other requests.
ClientReturns(s, good, rec) ==
    flight' = [flight EXCEPT
        !.client[s] = "returned",
        !.result    = IF good /\ ~flight.good THEN rec ELSE @,
        !.good      = @ \/ good,
        !.cancelled = @ \/ good]

\* A server that refuses or fails is as one that cannot be reached.
Fails(s) == ClientReturns(s, FALSE, NoAnswer)

\* client: the proxy (tcp, tls) or the dialer (udp) returns a connection, or
\* an error.  A server that is no address is not dialled.
Dial(s) ==
    /\ server[s] \in {"udp", "stream"} /\ flight.client[s] = "dialing"
    /\ \/ flight' = [flight EXCEPT !.client[s] = "asked"]
       \/ Fails(s)
    /\ UNCHANGED <<now, server, found, lruCache, asker, refresh>>

\* dohClient leaves dialling and asking to the transport of net/http.
DoRequest(s) ==
    /\ server[s] = "https" /\ flight.client[s] = "dialing"
    /\ flight' = [flight EXCEPT !.client[s] = "asked"]
    /\ UNCHANGED <<now, server, found, lruCache, asker, refresh>>

\* systemClient took its list of servers before it looked whether it is empty:
\* update fills the list for the next question, this one is asked of nobody.
SystemExchange(s) ==
    /\ server[s] = "system" /\ flight.client[s] = "dialing"
    /\ IF found
       THEN /\ flight' = [flight EXCEPT !.client[s] = "asked"]
            /\ UNCHANGED found
       ELSE Fails(s) /\ update
    /\ UNCHANGED <<now, server, lruCache, asker, refresh>>

\* fakeIpClient answers itself; no address is left for AAAA, SVCB and HTTPS.
FakeIpExchange(s) ==
    /\ server[s] = "fake-ip" /\ flight.client[s] = "dialing"
    /\ \E ttls \in {<<1>>, <<>>} :
           ClientReturns(s, TRUE, [NoAnswer EXCEPT !.ttls = ttls])
    /\ UNCHANGED <<now, server, found, lruCache, asker, refresh>>

\* The answer, or an error, comes, and the connection is closed.  A system client that fails looks for its
\* servers again.
Answer(s) ==
    /\ flight.client[s] = "asked"
    /\ \/ /\ \E r \in Answers : ClientReturns(s, TRUE, r)
          /\ UNCHANGED found
       \/ /\ Fails(s)
          /\ IF server[s] = "system" THEN update
             ELSE UNCHANGED found
    /\ UNCHANGED <<now, server, lruCache, asker, refresh>>

(* Mutant: the exchange of miekg/dns is waited for, whatever the context.  *)
WaitsForServer(s) == FALSE

\* The select of client, which its goroutine outlives; the connection is closed.
ContextDone(s) ==
    /\ flight.cancelled /\ flight.client[s] = "asked" /\ Fails(s)
    /\ UNCHANGED <<now, server, found, lruCache, asker, refresh>>

\* DefaultDNSTimeout, and the five seconds of Handle.
Deadline ==
    /\ Flying /\ ~flight.cancelled
    /\ flight' = [flight EXCEPT !.cancelled = TRUE]
    /\ UNCHANGED <<now, server, found, lruCache, asker, refresh>>

\* What is kept, until the first of all its records expires.  Nothing of an
\* answer without records is.
putMsgToCache(rec) ==
    LET ttl == minimalTTL(rec.ttls \o rec.ns)
    IN  IF ttl = 0 THEN lruCache
        ELSE [rec |-> rec, expires |-> now + ttl, fetched |-> now]

\* picker.Wait waits for all; then the members of the flight return.
batchExchange ==
    /\ Flying /\ \A s \in Servers : flight.client[s] = "returned"
    /\ lruCache' = IF flight.good THEN putMsgToCache(flight.result)
                   ELSE lruCache
    /\ asker' = [a \in Askers |->
           IF a \notin flight.members THEN asker[a]
           ELSE IF flight.good
                THEN Told(flight.result.ttls,
                          [NoEntry EXCEPT !.rec = flight.result,
                                          !.fetched = now])
                ELSE [IdleAsker EXCEPT !.at = "failed"]]
    /\ flight' = NoFlight
    /\ UNCHANGED <<now, server, found, refresh>>

\* Handle sends the answer; lookupIP fails when it has no address.
Return(a) ==
    /\ asker[a].at \in {"told", "failed", "literal"}
    /\ asker' = [asker EXCEPT ![a] = IdleAsker]
    /\ UNCHANGED <<now, server, found, lruCache, flight, refresh>>

Second ==
    /\ now < MaxTime /\ now' = now + 1
    /\ UNCHANGED <<server, found, lruCache, flight, asker, refresh>>

-------------------------------------------------------------------------------
UpInit ==
    /\ now = 0 /\ lruCache = NoEntry /\ flight = NoFlight
    /\ server = NoServer /\ found = FALSE
    /\ asker = [a \in Askers |-> IdleAsker] /\ refresh = FALSE

AskerStep(a) ==
    \/ ExchangeContext(a) \/ LookupIPv4(a) \/ LookupIPv6(a)
    \/ DnsMapExchange(a) \/ exchangeWithoutCache(a) \/ Return(a)

ServerStep(s) ==
    Dial(s) \/ DoRequest(s) \/ SystemExchange(s) \/ FakeIpExchange(s)
        \/ Answer(s) \/ ContextDone(s)

UpNext ==
    \/ \E a \in Askers : AskerStep(a)
    \/ \E s \in Servers : ServerStep(s)
    \/ NewResolver \/ Refresh \/ Deadline \/ batchExchange \/ Second

Dialing(s) == Dial(s) \/ DoRequest(s) \/ SystemExchange(s) \/ FakeIpExchange(s)

\* Its outbound is dialling, or, the time being over, closing the connection.
Held(s) == /\ server[s] = "stream"
           /\ \/ flight.client[s] = "dialing"
              \/ flight.client[s] = "asked" /\ flight.cancelled

(* A server need not answer: its deadline comes.  A UDP dial waits for     *)
(* nobody, nor does the start of a request or the question of a system     *)
(* client.  That an outbound returns a connection, or closes it, is not    *)
(* assumed: the handshakes of HTTP and SOCKS5 do not look at the context   *)
(* and set no deadline, nor does the Close of an HTTP/2 connection.        *)
UpFairness ==
    /\ \A a \in Askers : WF_upVars(exchangeWithoutCache(a))
    /\ \A s \in Servers :
          /\ WF_upVars(server[s] # "stream" /\ Dialing(s))
          /\ WF_upVars(server[s] # "stream" /\ ContextDone(s))
    /\ WF_upVars(Deadline) /\ WF_upVars(batchExchange)

UpSpec == UpInit /\ [][UpNext]_upVars /\ UpFairness

-------------------------------------------------------------------------------
(* Whoever is told an answer, from the cache or from a shared exchange,    *)
(* may keep no record of it beyond the second in which it expires, counted *)
(* from the end of the exchange, except the one more second that an answer *)
(* that has expired is given for.                                          *)
AnswersExpire ==
    [][\A a \in Askers : asker[a].at # "told" /\ asker'[a].at = "told" =>
          LET t == asker'[a]
          IN  \A i \in DOMAIN t.ttls :
                  \/ now + t.ttls[i] <= t.since + t.rec.ttls[i]
                  \/ t.ttls[i] <= 1]_upVars

(* Whoever asks is told or fails, also when no name server ever answers.   *)
(* Handle holds dns.mux for reading meanwhile, which a start of the        *)
(* service wants for writing.  The premise is of the servers asked over    *)
(* tcp or tls: no outbound is for ever dialling one or closing the         *)
(* connection to it, the other servers being waited for as well.           *)
CallersReturn ==
    (\A s \in Servers : []<>~Held(s)) =>
        \A a \in Askers : asker[a].at \in {"missed", "waiting"}
                              ~> asker[a].at \in {"told", "failed"}
===============================================================================
