-------------------------------- MODULE Config --------------------------------
(***************************************************************************)
(* The configuration file and the handlers that change it.                 *)
(*                                                                         *)
(* configuration.Read parses the file under mux.RLock; Write empties it    *)
(* and writes it again under mux.Lock.  A handler reads, edits its copy    *)
(* and writes it without holding a lock in between; only AddProxy holds a  *)
(* lock of its own, addMux, from before its read until after its write.    *)
(* A crash between the two halves of a write, and a write that fails,      *)
(* leave a torn file, which Read takes for the default configuration.      *)
(*                                                                         *)
(* A configuration is a list of proxies (their ids, their subscription and *)
(* what the user put into them), the subscriptions, the two selected ids,  *)
(* the setting (whether AutoMode is on) and the set of customized rules.   *)
(* A proxy is stored as it came: an edit may leave it without an id, or    *)
(* with the id or the subscription of another.                             *)
(***************************************************************************)
EXTENDS Naturals, Sequences

CONSTANTS
    Callers,      \* handlers that may run at once
    NoCaller,
    Ids, NoId,    \* ids of proxies
    Subs, NoSub,  \* ids of subscriptions
    NoConfig,     \* of a handler that has not read the file
    CustomRules,
    MaxEdits,     \* bound: handlers started
    MaxFaults     \* bound: failed writes and crashes

ASSUME ConfigAssumption ==
    /\ NoCaller \notin Callers /\ NoId \notin Ids /\ NoSub \notin Subs
    /\ MaxEdits \in Nat /\ MaxFaults \in Nat

VARIABLES
    disk,       \* the file is "missing", "torn" or "whole"
    file,       \* what is in it when it is whole
    writer,     \* the caller inside writeFile, which holds mux
    adder,      \* the caller that holds addMux
    step,       \* caller -> where its handler stands
    handler,    \* caller -> the handler it runs
    target,     \* caller -> the proxy it is about
    base,       \* caller -> the configuration it read last
    draft,      \* caller -> the configuration it is going to write
    inUse,      \* conn.defaultProxy: the ids of the proxies it dials with
    given,      \* ids handed out so far
    edits, faults,
    saved,      \* history: the configuration last written, as Read sees it
    sure        \* history: the ids AddProxy returned, without those that
                \* another handler has since written the file without

configVars == <<disk, file, writer, adder, step, handler, target, base, draft,
                inUse, given, edits, faults, saved, sure>>

-------------------------------------------------------------------------------
(* Configurations.                                                         *)
Entry(id, sub, body) == [id |-> id, sub |-> sub, body |-> body]
Entries == [id : Ids \cup {NoId}, sub : Subs \cup {NoSub},
            body : {"old", "new"}]
Configs == [proxy : Seq(Entries), subs : SUBSET Subs,
            selected : [proxy : Ids \cup {NoId}, rule : BOOLEAN],
            auto : BOOLEAN, rules : SUBSET CustomRules]

ASSUME NoConfigAssumption == NoConfig \notin Configs

Default == [proxy |-> <<>>, subs |-> {},
            selected |-> [proxy |-> NoId, rule |-> FALSE],
            auto |-> FALSE, rules |-> {}]

IdsOf(c) == {c.proxy[i].id : i \in 1..Len(c.proxy)}
Loaded == IF disk = "whole" THEN file ELSE Default

\* The loops over the entries append what is kept to a new list.
Without(s, gone) ==
    LET Kept[n \in 0..Len(s)] ==
            IF n = 0 THEN <<>>
            ELSE IF s[n] \in gone THEN Kept[n - 1]
            ELSE Append(Kept[n - 1], s[n])
    IN  Kept[Len(s)]

OfIds(ids) == {e \in Entries : e.id \in ids}
OfSub(sub) == {e \in Entries : e.sub = sub}

(* Mutant: UpdateProxy adds a proxy that is not there.                     *)
Upserted(s, id, e) ==
    IF \E i \in 1..Len(s) : s[i].id = id
    THEN [i \in 1..Len(s) |-> IF s[i].id = id THEN e ELSE s[i]]
    ELSE Append(s, e)

\* UpdateProxy puts the body of the request in the place of the first entry
\* with the id, whatever id the body has, and appends nothing.
Replaced(s, id, e) ==
    [i \in 1..Len(s) |->
        IF s[i].id = id /\ \A j \in 1..(i - 1) : s[j].id # id
        THEN e ELSE s[i]]

\* The edits of the handlers, as functions of the configuration read.
ProxyAdded(c, id) == [c EXCEPT !.proxy = Append(@, Entry(id, NoSub, "old"))]
AllDeleted(c) == [c EXCEPT !.proxy = <<>>]
ProxyUpdated(c, id, e) == [c EXCEPT !.proxy = Replaced(@, id, e)]

\* A proxy that has no id goes with those that are to be deleted.
ProxiesDeleted(c, ids) ==
    [c EXCEPT !.proxy = Without(@, OfIds(ids \cup {NoId}))]

\* A proxy of a subscription keeps the id it comes with, or is given one.
SubscriptionAdded(c, sub, id) ==
    [c EXCEPT !.proxy = Append(@, Entry(id, sub, "old")),
              !.subs = @ \cup {sub}]
SubscriptionDeleted(c, sub) ==
    [c EXCEPT !.proxy = Without(@, OfSub(sub)),
              !.subs = @ \ {sub}]
ProxiesRefetched(c, sub, id) ==
    [c EXCEPT !.proxy = Append(Without(@, OfSub(sub)), Entry(id, sub, "old"))]

ProxySelected(c, id) == [c EXCEPT !.selected.proxy = id]
RuleSelected(c) == [c EXCEPT !.selected.rule = ~@]

-------------------------------------------------------------------------------
ConfigInit ==
    /\ disk = "missing" /\ file = Default /\ saved = Default
    /\ writer = NoCaller /\ adder = NoCaller
    /\ step = [t \in Callers |-> "idle"]
    /\ handler = [t \in Callers |-> "none"]
    /\ target = [t \in Callers |-> NoId]
    /\ base = [t \in Callers |-> NoConfig]
    /\ draft = [t \in Callers |-> Default]
    /\ inUse = {} /\ given = {} /\ edits = 0 /\ faults = 0 /\ sure = {}

Starts(t) ==
    /\ step[t] = "idle" /\ edits < MaxEdits
    /\ edits' = edits + 1

Returns(t) ==
    /\ step' = [step EXCEPT ![t] = "idle"]
    /\ handler' = [handler EXCEPT ![t] = "none"]
    /\ target' = [target EXCEPT ![t] = NoId]
    /\ base' = [base EXCEPT ![t] = NoConfig]
    /\ draft' = [draft EXCEPT ![t] = Default]
    /\ adder' = IF adder = t THEN NoCaller ELSE adder

(* Mutant: Read does not take the lock.                                    *)
ReadsUnlocked(t) ==
    /\ disk' = IF disk = "missing" THEN "whole" ELSE disk
    /\ file' = Loaded
    /\ base' = [base EXCEPT ![t] = Loaded]

\* configuration.Read: waits for a writer, and creates a missing file.
Reads(t) ==
    /\ writer = NoCaller
    /\ disk' = IF disk = "missing" THEN "whole" ELSE disk
    /\ file' = Loaded
    /\ base' = [base EXCEPT ![t] = Loaded]

\* The end of an edit in memory: the handler goes on to Write(c).
Edits(t, name, c) ==
    /\ Reads(t)
    /\ step' = [step EXCEPT ![t] = "write"]
    /\ handler' = [handler EXCEPT ![t] = name]
    /\ draft' = [draft EXCEPT ![t] = c]
    /\ UNCHANGED <<writer, inUse, faults, saved, sure>>

-------------------------------------------------------------------------------
(* The handlers.  One that refuses its request returns before it writes.   *)
(* Mutant: AddProxy without addMux.                                        *)
AddProxyUnlocked(t) ==
    /\ Starts(t)
    /\ adder' = t
    /\ step' = [step EXCEPT ![t] = "adding"]
    /\ handler' = [handler EXCEPT ![t] = "AddProxy"]
    /\ UNCHANGED <<disk, file, writer, target, base, draft, inUse, given,
                   faults, saved, sure>>

AddProxyLock(t) ==
    /\ Starts(t) /\ adder = NoCaller
    /\ adder' = t
    /\ step' = [step EXCEPT ![t] = "adding"]
    /\ handler' = [handler EXCEPT ![t] = "AddProxy"]
    /\ UNCHANGED <<disk, file, writer, target, base, draft, inUse, given,
                   faults, saved, sure>>

AddProxy(t) ==
    /\ step[t] = "adding"
    /\ \E id \in Ids \ given :
         /\ Edits(t, "AddProxy", ProxyAdded(Loaded, id))
         /\ given' = given \cup {id}
         /\ target' = [target EXCEPT ![t] = id]
    /\ UNCHANGED <<adder, edits>>

AddProxyRefused(t) ==
    /\ step[t] = "adding"
    /\ Returns(t)
    /\ UNCHANGED <<disk, file, writer, inUse, given, edits, faults, saved,
                   sure>>

DeleteProxies(t) ==
    /\ Starts(t)
    /\ \/ \E ids \in SUBSET IdsOf(Loaded) :
            Edits(t, "Delete", ProxiesDeleted(Loaded, ids))
       \/ Edits(t, "Delete", AllDeleted(Loaded))
    /\ UNCHANGED <<adder, given, target>>

UpdateProxy(t) ==
    /\ Starts(t)
    /\ \E id \in Ids, e \in {x \in Entries : x.body = "new"} :
         /\ Edits(t, "Update", ProxyUpdated(Loaded, id, e))
         /\ target' = [target EXCEPT ![t] = id]
         /\ given' = given \cup ({e.id} \ {NoId})
    /\ UNCHANGED adder

\* getProxyDelay reads the proxy, tests it for up to five seconds and hands
\* the body it read, with the delay in it, to UpdateProxy.
GetProxyDelay(t) ==
    /\ Starts(t) /\ Reads(t)
    /\ \E id \in IdsOf(Loaded) \ {NoId} :
         target' = [target EXCEPT ![t] = id]
    /\ step' = [step EXCEPT ![t] = "testing"]
    /\ handler' = [handler EXCEPT ![t] = "Delay"]
    /\ UNCHANGED <<writer, adder, draft, inUse, given, faults, saved, sure>>

\* GetProxy returns the first entry with the id.
ProxyOf(c, id) ==
    c.proxy[CHOOSE i \in 1..Len(c.proxy) :
              /\ c.proxy[i].id = id
              /\ \A j \in 1..(i - 1) : c.proxy[j].id # id]

DelayTested(t) ==
    /\ step[t] = "testing"
    /\ Edits(t, "Delay", ProxyUpdated(Loaded, target[t],
                                      ProxyOf(base[t], target[t])))
    /\ UNCHANGED <<adder, target, given, edits>>

DelayTestFails(t) ==
    /\ step[t] = "testing"
    /\ Returns(t)
    /\ UNCHANGED <<disk, file, writer, inUse, given, edits, faults, saved,
                   sure>>

AddSubscription(t) ==
    /\ Starts(t)
    /\ \E sub \in Subs \ Loaded.subs, id \in Ids :
         /\ Edits(t, "Subscribe", SubscriptionAdded(Loaded, sub, id))
         /\ given' = given \cup {id}
    /\ UNCHANGED <<adder, target>>

DeleteSubscription(t) ==
    /\ Starts(t)
    /\ \E sub \in Loaded.subs :
         Edits(t, "Delete", SubscriptionDeleted(Loaded, sub))
    /\ UNCHANGED <<adder, given, target>>

\* UpdateSubscription changes a name or an address of the subscription only.
UpdateSubscription(t) ==
    /\ Starts(t)
    /\ Edits(t, "Delete", Loaded)
    /\ UNCHANGED <<adder, given, target>>

UpdateSubscriptionProxies(t) ==
    /\ Starts(t)
    /\ \E sub \in Subs, id \in Ids \ given :
         /\ Edits(t, "Delete", ProxiesRefetched(Loaded, sub, id))
         /\ given' = given \cup {id}
    /\ UNCHANGED <<adder, target>>

SetProxySelectedId(t) ==
    /\ Starts(t)
    /\ \E id \in Ids \cup {NoId} :
         /\ Edits(t, "Select", ProxySelected(Loaded, id))
         /\ target' = [target EXCEPT ![t] = id]
    /\ UNCHANGED <<adder, given>>

\* What follows, an UpdateRule of a started service, is in Rules.
SetRuleSelectedId(t) ==
    /\ Starts(t)
    /\ Edits(t, "Setting", RuleSelected(Loaded))
    /\ UNCHANGED <<adder, given, target>>

SetSetting(t) ==
    /\ Starts(t)
    /\ Edits(t, "Setting", [Loaded EXCEPT !.auto = ~@])
    /\ UNCHANGED <<adder, given, target>>

\* One duplicate refuses the whole request.
AddCustomizedRule(t) ==
    /\ Starts(t)
    /\ \E r \in CustomRules \ Loaded.rules :
         Edits(t, "Setting", [Loaded EXCEPT !.rules = @ \cup {r}])
    /\ UNCHANGED <<adder, given, target>>

EditCustomizedRule(t) ==
    /\ Starts(t)
    /\ \E old, new \in CustomRules :
         Edits(t, "Setting",
               [Loaded EXCEPT !.rules =
                  IF old \in @ THEN (@ \ {old}) \cup {new} ELSE @])
    /\ UNCHANGED <<adder, given, target>>

DeleteCustomizedRule(t) ==
    /\ Starts(t)
    /\ \E r \in CustomRules :
         Edits(t, "Setting", [Loaded EXCEPT !.rules = @ \ {r}])
    /\ UNCHANGED <<adder, given, target>>

\* Reset writes the embedded file without reading.
Reset(t) ==
    /\ Starts(t)
    /\ step' = [step EXCEPT ![t] = "write"]
    /\ handler' = [handler EXCEPT ![t] = "Delete"]
    /\ draft' = [draft EXCEPT ![t] = Default]
    /\ UNCHANGED <<disk, file, writer, adder, target, base, inUse, given,
                   faults, saved, sure>>

-------------------------------------------------------------------------------
(* Write.                                                                  *)
Truncate(t) ==
    /\ step[t] = "write" /\ writer = NoCaller
    /\ writer' = t /\ disk' = "torn" /\ file' = Default
    /\ step' = [step EXCEPT ![t] = "writing"]
    /\ UNCHANGED <<adder, handler, target, base, draft, inUse, given, edits,
                   faults, saved, sure>>

OpenFails(t) ==
    /\ step[t] = "write" /\ writer = NoCaller /\ faults < MaxFaults
    /\ faults' = faults + 1
    /\ Returns(t)
    /\ UNCHANGED <<disk, file, writer, inUse, given, edits, saved, sure>>

WriteFails(t) ==
    /\ step[t] = "writing" /\ faults < MaxFaults
    /\ faults' = faults + 1 /\ saved' = Default /\ sure' = {}
    /\ writer' = NoCaller
    /\ Returns(t)
    /\ UNCHANGED <<disk, file, inUse, given, edits>>

\* What the handler does after Write returned.
AfterWrite(t) ==
    IF handler[t] \in {"Select", "Subscribe"}
    THEN /\ step' = [step EXCEPT ![t] = "reload"]
         /\ UNCHANGED <<adder, handler, target, base, draft>>
    ELSE Returns(t)

Commit(t) ==
    /\ step[t] = "writing"
    /\ disk' = "whole" /\ file' = draft[t] /\ saved' = draft[t]
    /\ writer' = NoCaller
    /\ sure' = IF handler[t] = "AddProxy" THEN sure \cup {target[t]}
               ELSE sure \cap IdsOf(draft[t])
    /\ AfterWrite(t)
    /\ UNCHANGED <<inUse, given, edits, faults>>

-------------------------------------------------------------------------------
(* The handlers that change the proxy in use, while the service is started *)
(* or not.  setProxySelectedId reads the file twice: the selected id, then *)
(* its proxy.  addSubscription builds a group of all proxies in AutoMode.  *)
NotStarted(t) ==
    /\ step[t] = "reload"
    /\ Returns(t)
    /\ UNCHANGED <<disk, file, writer, inUse, given, edits, faults, saved,
                   sure>>

GetSelectedId(t) ==
    /\ step[t] = "reload" /\ handler[t] = "Select"
    /\ Reads(t)
    /\ target' = [target EXCEPT ![t] = Loaded.selected.proxy]
    /\ step' = [step EXCEPT ![t] = "install"]
    /\ UNCHANGED <<writer, adder, handler, draft, inUse, given, edits, faults,
                   saved, sure>>

\* An entry without an id is selected by the empty one, if that is its id.
InstallSelected(t) ==
    /\ step[t] = "install" /\ writer = NoCaller
    /\ \/ target[t] \in IdsOf(Loaded) /\ inUse' = {target[t]}
       \/ target[t] \notin IdsOf(Loaded) \ {NoId} /\ inUse' = inUse
    /\ Returns(t)
    /\ UNCHANGED <<disk, file, writer, given, edits, faults, saved, sure>>

InstallGroup(t) ==
    /\ step[t] = "reload" /\ handler[t] = "Subscribe" /\ writer = NoCaller
    /\ inUse' = IF Loaded.auto THEN IdsOf(Loaded) ELSE inUse
    /\ Returns(t)
    /\ UNCHANGED <<disk, file, writer, given, edits, faults, saved, sure>>

-------------------------------------------------------------------------------
\* The process dies, and starts again with what is in the file.
Crash ==
    /\ faults < MaxFaults /\ \E t \in Callers : step[t] # "idle"
    /\ faults' = faults + 1
    /\ saved' = Loaded
    /\ sure' = IF disk = "torn" THEN {} ELSE sure
    /\ writer' = NoCaller /\ adder' = NoCaller /\ inUse' = {}
    /\ step' = [t \in Callers |-> "idle"]
    /\ handler' = [t \in Callers |-> "none"]
    /\ target' = [t \in Callers |-> NoId]
    /\ base' = [t \in Callers |-> NoConfig]
    /\ draft' = [t \in Callers |-> Default]
    /\ UNCHANGED <<disk, file, given, edits>>

ConfigStep(t) ==
    \/ AddProxyLock(t) \/ AddProxy(t) \/ AddProxyRefused(t)
    \/ DeleteProxies(t) \/ UpdateProxy(t)
    \/ GetProxyDelay(t) \/ DelayTested(t) \/ DelayTestFails(t)
    \/ AddSubscription(t) \/ DeleteSubscription(t)
    \/ UpdateSubscription(t) \/ UpdateSubscriptionProxies(t)
    \/ SetProxySelectedId(t) \/ SetRuleSelectedId(t) \/ SetSetting(t)
    \/ AddCustomizedRule(t) \/ EditCustomizedRule(t) \/ DeleteCustomizedRule(t)
    \/ Reset(t)
    \/ Truncate(t) \/ OpenFails(t) \/ WriteFails(t) \/ Commit(t)
    \/ NotStarted(t) \/ GetSelectedId(t) \/ InstallSelected(t)
    \/ InstallGroup(t)

ConfigNext == Crash \/ \E t \in Callers : ConfigStep(t)

ConfigSpec == ConfigInit /\ [][ConfigNext]_configVars

-------------------------------------------------------------------------------
(* What the handlers promise each other.                                   *)

\* A proxy that AddProxy returned the id of is in the file until a handler
\* other than AddProxy writes the file without it: imports that run at once
\* do not lose each other's proxies, which is what addMux is for.  (Any other
\* handler that read before the import and writes after it does lose it.)
AddedProxiesSurvive == sure \subseteq IdsOf(saved)

\* r has no more entries than s, and all but one of them are those of s.
AtMostOneDiffers(s, r) ==
    /\ Len(r) <= Len(s)
    /\ \E i \in 0..Len(s) : \A j \in 1..Len(r) : j # i => r[j] = s[j]

\* What UpdateProxy writes is the list that it read with at most one entry
\* replaced, or nothing when a fault tore the file: a proxy that was gone
\* comes back only as the body of a request, which may have any id.  And a
\* delay test brings back no id that was gone when it ended, though it
\* writes what it read before the proxy may have been deleted.
UpdateRevivesNothing ==
    [][\A t \in Callers :
         step[t] = "writing" /\ saved' # saved =>
             /\ handler[t] \in {"Update", "Delay"} =>
                    AtMostOneDiffers(base[t].proxy, saved'.proxy)
             /\ handler[t] = "Delay" =>
                    IdsOf(saved') \ IdsOf(saved) \subseteq IdsOf(base[t])
      ]_configVars

\* Read and Write are a store that readers see whole: a handler never reads
\* a half-written file unless a fault tore it, and writes what it read but
\* for the part it is about.
TheStore == INSTANCE Store WITH value <- saved, seen <- base
ImplementsStore == TheStore!Spec
===============================================================================
