------------------------------ MODULE ApiProofs -------------------------------
(***************************************************************************)
(* Proofs about the state behind the HTTP API: Config, the file its        *)
(* handlers edit, and EventHub and LogFeed, its two streams.               *)
(*                                                                         *)
(* Config: what its handlers promise each other, for any number of         *)
(* handlers, proxies, subscriptions, edits and faults, and that Read and   *)
(* Write implement the store that Store describes.                         *)
(*                                                                         *)
(* The streams: for any number of clients and viewers, any capacity of     *)
(* their channels and any number of messages.  Both invariants say that    *)
(* what a receiver has, wherever it is, is a run of what was sent, up to   *)
(* the end for as long as the receiver is subscribed.                      *)
(***************************************************************************)
EXTENDS Config, EventHub, LogFeed, SequenceTheorems, WellFoundedInduction,
        TLAPS

-----------------------------------------------------------------------------
(* Numbers and lists.                                                      *)

(* Of some numbers there is a least one.                                   *)
LEMMA LeastOf ==
    ASSUME NEW S, S \subseteq Nat, S # {}
    PROVE  \E i \in S : \A j \in S : i <= j
<1>1. PICK i \in S : \A j \in S : <<j, i>> \notin OpToRel(<, Nat)
  BY WFMin, NatLessThanWellFounded
<1>2. \A j \in S : ~(j < i)
  BY <1>1, Zenon DEF OpToRel
<1> QED
  BY <1>2

(* Induction, for a set of numbers.                                        *)
LEMMA AllNumbers ==
    ASSUME NEW S, 0 \in S, \A n \in Nat : n \in S => n + 1 \in S
    PROVE  Nat \subseteq S
<1> SUFFICES ASSUME Nat \ S # {} PROVE FALSE
  OBVIOUS
<1>1. PICK i \in Nat \ S : \A j \in Nat \ S : i <= j
  BY LeastOf
<1>2. i # 0 /\ i - 1 \in Nat
  BY <1>1
<1>3. i - 1 \in S
  BY <1>1, <1>2
<1> QED
  BY <1>1, <1>2, <1>3

(* Kept is what the loop that drops the entries of gone has made of the    *)
(* first entries of s.                                                     *)
KeepsOf(K, s, gone, m) ==
    /\ K[0] = <<>>
    /\ \A n \in 1..m :
          K[n] = IF s[n] \in gone THEN K[n - 1] ELSE Append(K[n - 1], s[n])

(* The loop has a result after every entry.                                *)
LEMMA LoopRuns ==
    ASSUME NEW E, NEW s \in Seq(E), NEW gone, NEW m \in Nat
    PROVE  \E K \in [0..m -> Seq(E \cup {s[i] : i \in 1..m})] :
              KeepsOf(K, s, gone, m)
<1> DEFINE T(j) == Seq(E \cup {s[i] : i \in 1..j})
           Done == {j \in Nat : \E K \in [0..j -> T(j)] :
                                   KeepsOf(K, s, gone, j)}
<1>1. 0 \in Done
  <2> DEFINE K == [n \in 0..0 |-> <<>>]
  <2>1. <<>> \in T(0)
    BY EmptySeq, Zenon
  <2>2. K \in [0..0 -> T(0)]
    BY <2>1
  <2>3. KeepsOf(K, s, gone, 0)
    BY DEF KeepsOf
  <2> QED
    BY <2>2, <2>3
<1>2. ASSUME NEW j \in Nat, j \in Done PROVE j + 1 \in Done
  <2> PICK K \in [0..j -> T(j)] : KeepsOf(K, s, gone, j)
    BY <1>2
  <2> DEFINE e == s[j + 1]
             L == [n \in 0..(j + 1) |->
                      IF n = j + 1
                      THEN IF e \in gone THEN K[j] ELSE Append(K[j], e)
                      ELSE K[n]]
  <2>1. \A x \in T(j) : x \in T(j + 1)
    BY SeqMonotonic
  <2>2. \A n \in 0..j : K[n] \in T(j + 1)
    BY <2>1
  <2>3. Append(K[j], e) \in T(j + 1)
    <3>1. K[j] \in T(j + 1) /\ e \in E \cup {s[i] : i \in 1..(j + 1)}
      BY <2>2
    <3> QED
      BY <3>1, AppendProperties
  <2>4. L \in [0..(j + 1) -> T(j + 1)]
    BY <2>2, <2>3
  <2>5. KeepsOf(L, s, gone, j + 1)
    <3>1. L[0] = <<>>
      BY DEF KeepsOf
    <3>2. \A x \in 0..(j + 1) : x # j + 1 => L[x] = K[x]
      OBVIOUS
    <3>3. ASSUME NEW n \in 1..(j + 1)
          PROVE  L[n] = IF s[n] \in gone THEN L[n - 1]
                        ELSE Append(L[n - 1], s[n])
      <4>1. n - 1 \in 0..j /\ n - 1 # j + 1 /\ L[n - 1] = K[n - 1]
        OBVIOUS
      <4>2. CASE n = j + 1
        BY <4>1, <4>2
      <4>3. CASE n # j + 1
        <5>1. n \in 1..j
          BY <4>3
        <5>2. n \in 0..(j + 1)
          OBVIOUS
        <5>3. L[n] = K[n]
          BY <4>3, <5>2
        <5> QED
          BY <4>1, <5>1, <5>3 DEF KeepsOf
      <4> QED
        BY <4>2, <4>3
    <3> HIDE DEF L
    <3> QED
      BY <3>1, <3>3 DEF KeepsOf
  <2>6. \E M \in [0..(j + 1) -> T(j + 1)] : KeepsOf(M, s, gone, j + 1)
    <3> HIDE DEF L, T
    <3> QED
      BY <2>4, <2>5
  <2>7. j + 1 \in Nat
    OBVIOUS
  <2> HIDE DEF T, L
  <2> QED
    BY <2>6, <2>7, Zenon
<1>3. m \in Done
  <2> HIDE DEF Done
  <2> QED
    BY <1>1, <1>2, AllNumbers
<1> QED
  BY <1>3

(* What is kept of a list of entries is a list of entries.                 *)
LEMMA WithoutType ==
    ASSUME NEW E, NEW s \in Seq(E), NEW gone
    PROVE  Without(s, gone) \in Seq(E)
<1>1. <<>> \in Seq(E)
  BY EmptySeq
<1> DEFINE Step(K, n) == IF n = 0 THEN <<>>
                         ELSE IF s[n] \in gone THEN K[n - 1]
                         ELSE Append(K[n - 1], s[n])
           Loop(K) == K = [n \in 0..Len(s) |-> Step(K, n)]
           Kept == CHOOSE K : Loop(K)
<1>2. Len(s) \in Nat
  BY LenProperties
<1>3. {s[i] : i \in 1..Len(s)} \subseteq E
  BY ElementOfSeq
<1>4. E \cup {s[i] : i \in 1..Len(s)} = E
  BY <1>3
<1>5. PICK K \in [0..Len(s) -> Seq(E)] : KeepsOf(K, s, gone, Len(s))
  BY <1>2, <1>4, LoopRuns
<1>6. Loop(K)
  <2>1. ASSUME NEW n \in 0..Len(s) PROVE K[n] = Step(K, n)
    <3>1. n = 0 \/ n \in 1..Len(s)
      BY <1>2
    <3> QED
      BY <1>5, <3>1 DEF KeepsOf
  <2> QED
    BY <1>5, <2>1
<1>7. Loop(Kept)
  <2> HIDE DEF Loop
  <2> QED
    BY <1>6
<1> HIDE DEF Kept
<1>8. \A n \in 0..Len(s) : Kept[n] = Step(Kept, n)
  BY <1>7
<1> DEFINE Fine == {n \in Nat : n <= Len(s) => Kept[n] \in Seq(E)}
<1>9. 0 \in Fine
  <2>1. 0 \in 0..Len(s)
    BY <1>2
  <2>2. Kept[0] = <<>>
    BY <1>8, <2>1
  <2> QED
    BY <1>1, <2>2
<1>10. ASSUME NEW n \in Nat, n \in Fine PROVE n + 1 \in Fine
  <2> SUFFICES ASSUME n + 1 <= Len(s) PROVE Kept[n + 1] \in Seq(E)
    OBVIOUS
  <2>1. Kept[n] \in Seq(E) /\ n + 1 \in 1..Len(s)
    BY <1>2, <1>10
  <2>2. s[n + 1] \in E
    BY <2>1, ElementOfSeq
  <2>3. Append(Kept[n], s[n + 1]) \in Seq(E)
    BY <2>1, <2>2, AppendProperties
  <2>4. Kept[n + 1] = IF s[n + 1] \in gone THEN Kept[n]
                      ELSE Append(Kept[n], s[n + 1])
    BY <1>8, <2>1
  <2> QED
    BY <2>1, <2>3, <2>4
<1>11. Len(s) \in Fine
  <2> HIDE DEF Fine
  <2> QED
    BY <1>2, <1>9, <1>10, AllNumbers
<1>12. Kept[Len(s)] \in Seq(E)
  BY <1>2, <1>11
<1> QED
  BY <1>12 DEF Without, Kept

-----------------------------------------------------------------------------
(* The handlers and the file.                                              *)

MayBeConfig == Configs \cup {NoConfig}
Steps == {"idle", "adding", "testing", "write", "writing", "reload",
          "install"}
Handlers == {"none", "AddProxy", "Delete", "Update", "Delay", "Subscribe",
             "Select", "Setting"}

ConfigTypes ==
    /\ disk \in {"missing", "torn", "whole"}
    /\ file \in Configs /\ saved \in Configs
    /\ writer \in Callers \cup {NoCaller} /\ adder \in Callers \cup {NoCaller}
    /\ step \in [Callers -> Steps] /\ handler \in [Callers -> Handlers]
    /\ target \in [Callers -> Ids \cup {NoId}]
    /\ base \in [Callers -> MayBeConfig] /\ draft \in [Callers -> Configs]
    /\ given \subseteq Ids /\ inUse \subseteq Ids \cup {NoId}
    /\ sure \subseteq Ids \cup {NoId}
    /\ edits \in Nat /\ faults \in Nat

(* While nobody writes the file holds what was saved; a caller that writes *)
(* has the lock and has torn the file.                                     *)
FileIsSaved ==
    /\ writer = NoCaller => Loaded = saved
    /\ writer # NoCaller => disk = "torn" /\ step[writer] = "writing"
    /\ \A t \in Callers : step[t] = "writing" => writer = t

(* A handler of AddProxy has addMux until it returns.                      *)
AddersExclude ==
    \A t \in Callers :
        /\ handler[t] = "AddProxy" => adder = t
        /\ step[t] = "adding" => handler[t] = "AddProxy"

(* What AddProxy is going to write has its proxy and all those added       *)
(* before it that nobody removed.                                          *)
AddersKeep ==
    \A t \in Callers :
        handler[t] = "AddProxy" /\ step[t] \in {"write", "writing"} =>
            target[t] \in IdsOf(draft[t]) /\ sure \subseteq IdsOf(draft[t])

(* What UpdateProxy is going to write has the proxies that it read but for *)
(* one, and after a delay test their ids.                                  *)
UpdateFits(name, c, d) ==
    /\ name \in {"Update", "Delay"} =>
           c # NoConfig /\ AtMostOneDiffers(c.proxy, d.proxy)
    /\ name = "Delay" => IdsOf(d) \subseteq IdsOf(c)
UpdatesKeep ==
    \A t \in Callers :
        /\ step[t] \in {"write", "writing"} =>
               UpdateFits(handler[t], base[t], draft[t])
        /\ step[t] = "testing" =>
               base[t] # NoConfig /\ target[t] \in IdsOf(base[t])

(* What a handler is going to write is what it read but for one part, or   *)
(* the default.                                                            *)
OnePart(c, d) == \E some \in TheStore!Parts :
                     \A p \in DOMAIN Default \ some : d[p] = c[p]
DraftsRest ==
    \A t \in Callers :
        step[t] \in {"write", "writing"} =>
            \/ draft[t] = Default
            \/ base[t] # NoConfig /\ OnePart(base[t], draft[t])

ConfigInv ==
    /\ ConfigTypes /\ FileIsSaved /\ AddersExclude /\ AddersKeep
    /\ UpdatesKeep /\ DraftsRest /\ AddedProxiesSurvive

(* What Read returns is a configuration.                                   *)
LEMMA DefaultType == Default \in Configs /\ IdsOf(Default) = {}
<1>1. <<>> \in Seq(Entries)
  BY EmptySeq, Zenon
<1>2. Len(<<>>) = 0
  BY EmptySeq, Zenon
<1> QED
  BY <1>1, <1>2 DEF Default, Configs, IdsOf

(* What is loaded from the file is a configuration.                        *)
LEMMA LoadedType == ConfigTypes => Loaded \in Configs
BY DefaultType DEF ConfigTypes, Loaded

(* The ids of a configuration are ids.                                     *)
LEMMA IdsType ==
    ASSUME NEW c \in Configs
    PROVE  IdsOf(c) \subseteq Ids \cup {NoId}
<1>1. c.proxy \in Seq(Entries)
  BY DEF Configs
<1>2. \A i \in 1..Len(c.proxy) : c.proxy[i] \in Entries
  BY <1>1, ElementOfSeq
<1> QED
  BY <1>2 DEF IdsOf, Entries

(* Another list of proxies makes another configuration.                    *)
LEMMA ProxyType ==
    ASSUME NEW c \in Configs, NEW s \in Seq(Entries)
    PROVE  /\ [c EXCEPT !.proxy = s] \in Configs
           /\ OnePart(c, [c EXCEPT !.proxy = s])
<1>1. [c EXCEPT !.proxy = s] \in Configs
  BY DEF Configs
<1>2. OnePart(c, [c EXCEPT !.proxy = s])
  BY DEF Configs, OnePart, Default, TheStore!Parts
<1> QED
  BY <1>1, <1>2

(* So does another list with other subscriptions.                          *)
LEMMA SubsType ==
    ASSUME NEW c \in Configs, NEW s \in Seq(Entries), NEW subs \in SUBSET Subs
    PROVE  /\ [c EXCEPT !.proxy = s, !.subs = subs] \in Configs
           /\ OnePart(c, [c EXCEPT !.proxy = s, !.subs = subs])
<1>1. [c EXCEPT !.proxy = s, !.subs = subs] \in Configs
  BY DEF Configs
<1>2. OnePart(c, [c EXCEPT !.proxy = s, !.subs = subs])
  BY DEF Configs, OnePart, Default, TheStore!Parts
<1> QED
  BY <1>1, <1>2

(* A proxy that is added comes behind the others.                          *)
LEMMA AddedType ==
    ASSUME NEW s \in Seq(Entries), NEW id \in Ids,
           NEW sub \in Subs \cup {NoSub}
    PROVE  Append(s, Entry(id, sub, "old")) \in Seq(Entries)
<1>1. Entry(id, sub, "old") \in Entries
  BY DEF Entry, Entries
<1> QED
  BY <1>1, AppendProperties

(* Adding a proxy drops no other.                                          *)
LEMMA AddedIds ==
    ASSUME NEW c \in Configs, NEW id \in Ids
    PROVE  IdsOf(c) \cup {id} \subseteq IdsOf(ProxyAdded(c, id))
<1> DEFINE e == Entry(id, NoSub, "old")
           s == Append(c.proxy, e)
<1>1. c.proxy \in Seq(Entries) /\ e \in Entries
  BY DEF Configs, Entry, Entries
<1>2. /\ Len(s) = Len(c.proxy) + 1
      /\ \A i \in 1..Len(c.proxy) : s[i] = c.proxy[i]
      /\ s[Len(c.proxy) + 1] = e
  BY <1>1, AppendProperties
<1>3. Len(c.proxy) \in Nat
  BY <1>1, LenProperties
<1>4. ProxyAdded(c, id).proxy = s
  BY DEF ProxyAdded, Configs
<1>5. e.id = id
  BY DEF Entry
<1> HIDE DEF e, s
<1>6. IdsOf(ProxyAdded(c, id)) = {s[i].id : i \in 1..Len(s)}
  BY <1>4 DEF IdsOf
<1>7. id \in {s[i].id : i \in 1..Len(s)}
  BY <1>2, <1>3, <1>5
<1>8. IdsOf(c) \subseteq {s[i].id : i \in 1..Len(s)}
  BY <1>2, <1>3 DEF IdsOf
<1> QED
  BY <1>6, <1>7, <1>8

(* UpdateProxy replaces one entry at most, and by one with the same id     *)
(* brings in no id.                                                        *)
LEMMA UpdatedType ==
    ASSUME NEW c \in Configs, NEW id \in Ids \cup {NoId}, NEW e \in Entries
    PROVE  /\ Replaced(c.proxy, id, e) \in Seq(Entries)
           /\ AtMostOneDiffers(c.proxy, ProxyUpdated(c, id, e).proxy)
           /\ e.id = id => IdsOf(ProxyUpdated(c, id, e)) = IdsOf(c)
<1> DEFINE s == c.proxy
           r == Replaced(s, id, e)
           First(i) == s[i].id = id /\ \A j \in 1..(i - 1) : s[j].id # id
<1>1. s \in Seq(Entries) /\ Len(s) \in Nat
  BY LenProperties DEF Configs
<1>2. \A i \in 1..Len(s) : s[i] \in Entries
  BY <1>1, ElementOfSeq
<1>3. \A i \in 1..Len(s) : r[i] = IF First(i) THEN e ELSE s[i]
  BY DEF Replaced
<1>4. r \in [1..Len(s) -> Entries]
  BY <1>2 DEF Replaced
<1>5. r \in Seq(Entries) /\ Len(r) = Len(s)
  BY <1>1, <1>4
<1>6. ProxyUpdated(c, id, e).proxy = r
  BY DEF ProxyUpdated, Configs
<1>7. e.id = id => \A i \in 1..Len(s) : r[i].id = s[i].id
  BY <1>3
<1> HIDE DEF r
<1>8. \E i \in 0..Len(s) : \A j \in 1..Len(s) : j # i => r[j] = s[j]
  <2>1. CASE \E i \in 1..Len(s) : First(i)
    <3> PICK i \in 1..Len(s) : First(i)
      BY <2>1
    <3>1. ASSUME NEW j \in 1..Len(s), j # i PROVE ~First(j)
      <4>1. i \in 1..(j - 1) \/ j \in 1..(i - 1)
        BY <1>1, <3>1
      <4> QED
        BY <4>1
    <3>2. \A j \in 1..Len(s) : j # i => r[j] = s[j]
      BY <1>3, <3>1
    <3>3. i \in 0..Len(s)
      BY <1>1
    <3> QED
      BY <3>2, <3>3
  <2>2. CASE \A i \in 1..Len(s) : ~First(i)
    <3>1. \A j \in 1..Len(s) : r[j] = s[j]
      BY <1>3, <2>2
    <3>2. 0 \in 0..Len(s)
      BY <1>1
    <3> QED
      BY <3>1, <3>2
  <2> QED
    BY <2>1, <2>2
<1>9. AtMostOneDiffers(s, r)
  BY <1>1, <1>5, <1>8 DEF AtMostOneDiffers
<1>10. e.id = id => IdsOf(ProxyUpdated(c, id, e)) = IdsOf(c)
  BY <1>5, <1>6, <1>7 DEF IdsOf
<1> QED
  BY <1>5, <1>6, <1>9, <1>10 DEF r

(* The proxy that a delay test read is an entry with its id.               *)
LEMMA ProxyOfType ==
    ASSUME NEW c \in Configs, NEW id \in IdsOf(c)
    PROVE  ProxyOf(c, id) \in Entries /\ ProxyOf(c, id).id = id
<1> DEFINE S == {i \in 1..Len(c.proxy) : c.proxy[i].id = id}
<1>1. c.proxy \in Seq(Entries) /\ Len(c.proxy) \in Nat
  BY LenProperties DEF Configs
<1>2. \A i \in 1..Len(c.proxy) : c.proxy[i] \in Entries
  BY <1>1, ElementOfSeq
<1>3. S \subseteq Nat /\ S # {}
  BY DEF IdsOf
<1>4. PICK i \in S : \A j \in S : i <= j
  BY <1>3, LeastOf
<1>5. \A j \in 1..(i - 1) : c.proxy[j].id # id
  BY <1>1, <1>4
<1>6. \E x \in 1..Len(c.proxy) :
         /\ c.proxy[x].id = id
         /\ \A j \in 1..(x - 1) : c.proxy[j].id # id
  BY <1>4, <1>5
<1> DEFINE x == CHOOSE x \in 1..Len(c.proxy) :
                  /\ c.proxy[x].id = id
                  /\ \A j \in 1..(x - 1) : c.proxy[j].id # id
<1>7. x \in 1..Len(c.proxy) /\ c.proxy[x].id = id
  BY <1>6
<1>8. ProxyOf(c, id) = c.proxy[x]
  BY DEF ProxyOf
<1> HIDE DEF x
<1> QED
  BY <1>2, <1>7, <1>8

-----------------------------------------------------------------------------
(* The steps.                                                              *)

(* A handler that has edited what it read.                                 *)
LEMMA EditKeeps ==
    ASSUME ConfigInv, NEW t \in Callers, NEW name \in Handlers,
           NEW c \in Configs, Edits(t, name, c), OnePart(Loaded, c),
           target' \in [Callers -> Ids \cup {NoId}],
           \A u \in Callers \ {t} : target'[u] = target[u],
           given' \subseteq Ids, edits' \in Nat, adder' = adder,
           name = "AddProxy" =>
               /\ adder = t /\ target'[t] \in IdsOf(c)
               /\ IdsOf(Loaded) \subseteq IdsOf(c),
           UpdateFits(name, Loaded, c)
    PROVE  ConfigInv'
<1> USE DEF Edits, Reads
<1>1. Loaded \in Configs /\ Loaded # NoConfig
  BY LoadedType, NoConfigAssumption DEF ConfigInv
<1>2. Loaded' = Loaded
  BY DEF Loaded, ConfigInv, ConfigTypes
<1>3. ConfigTypes'
  BY <1>1 DEF ConfigInv, ConfigTypes, MayBeConfig, Steps
<1>4. FileIsSaved'
  BY <1>2 DEF ConfigInv, ConfigTypes, FileIsSaved
<1>5. AddersExclude'
  BY DEF ConfigInv, ConfigTypes, AddersExclude
<1>6. sure \subseteq IdsOf(Loaded)
  BY DEF ConfigInv, FileIsSaved, AddedProxiesSurvive
<1>7. AddersKeep'
  <2> SUFFICES ASSUME NEW u \in Callers, handler'[u] = "AddProxy",
                      step'[u] \in {"write", "writing"}
               PROVE  target'[u] \in IdsOf(draft'[u])
                      /\ sure' \subseteq IdsOf(draft'[u])
    BY DEF AddersKeep
  <2>1. CASE u = t
    BY <1>6, <2>1 DEF ConfigInv, ConfigTypes
  <2>2. CASE u # t
    BY <2>2 DEF ConfigInv, ConfigTypes, AddersKeep
  <2> QED
    BY <2>1, <2>2
<1>8. UpdatesKeep'
  <2> SUFFICES ASSUME NEW u \in Callers
               PROVE  /\ step'[u] \in {"write", "writing"} =>
                         UpdateFits(handler'[u], base'[u], draft'[u])
                      /\ step'[u] = "testing" =>
                         base'[u] # NoConfig /\ target'[u] \in IdsOf(base'[u])
    BY DEF UpdatesKeep, UpdateFits, AtMostOneDiffers, IdsOf
  <2>1. CASE u = t
    <3>1. /\ step'[u] = "write" /\ handler'[u] = name
          /\ base'[u] = Loaded /\ draft'[u] = c
      BY <2>1 DEF ConfigInv, ConfigTypes
    <3> QED
      BY <3>1
  <2>2. CASE u # t
    BY <2>2 DEF ConfigInv, ConfigTypes, UpdatesKeep
  <2> QED
    BY <2>1, <2>2
<1>9. DraftsRest'
  <2> SUFFICES ASSUME NEW u \in Callers, step'[u] \in {"write", "writing"}
               PROVE  \/ draft'[u] = Default
                      \/ base'[u] # NoConfig /\ OnePart(base'[u], draft'[u])
    BY DEF DraftsRest, OnePart, TheStore!Parts
  <2>1. CASE u = t
    BY <1>1, <2>1 DEF ConfigInv, ConfigTypes
  <2>2. CASE u # t
    BY <2>2 DEF ConfigInv, ConfigTypes, DraftsRest
  <2> QED
    BY <2>1, <2>2
<1>10. AddedProxiesSurvive'
  BY DEF ConfigInv, AddedProxiesSurvive
<1> QED
  BY <1>3, <1>4, <1>5, <1>7, <1>8, <1>9, <1>10 DEF ConfigInv

(* A handler that returns without having written.                          *)
LEMMA ReturnKeeps ==
    ASSUME ConfigInv, NEW t \in Callers, Returns(t), step[t] # "writing",
           inUse' \subseteq Ids \cup {NoId}, faults' \in Nat,
           UNCHANGED <<disk, file, writer, given, edits, saved, sure>>
    PROVE  ConfigInv'
<1> USE DEF Returns
<1>1. Loaded' = Loaded
  BY DEF Loaded
<1>2. ConfigTypes'
  BY DefaultType DEF ConfigInv, ConfigTypes, MayBeConfig, Steps, Handlers
<1>3. FileIsSaved'
  BY <1>1 DEF ConfigInv, ConfigTypes, FileIsSaved
<1>4. AddersExclude'
  BY DEF ConfigInv, ConfigTypes, AddersExclude
<1>5. AddersKeep'
  BY DEF ConfigInv, ConfigTypes, AddersKeep
<1>6. UpdatesKeep'
  BY DEF ConfigInv, ConfigTypes, UpdatesKeep
<1>7. DraftsRest'
  <2> SUFFICES ASSUME NEW u \in Callers, step'[u] \in {"write", "writing"}
               PROVE  \/ draft'[u] = Default
                      \/ base'[u] # NoConfig /\ OnePart(base'[u], draft'[u])
    BY DEF DraftsRest, OnePart, TheStore!Parts
  <2>1. u # t /\ draft'[u] = draft[u] /\ base'[u] = base[u]
        /\ step'[u] = step[u]
    BY DEF ConfigInv, ConfigTypes
  <2> QED
    BY <2>1 DEF ConfigInv, DraftsRest
<1>8. AddedProxiesSurvive'
  BY DEF ConfigInv, AddedProxiesSurvive
<1> QED
  BY <1>2, <1>3, <1>4, <1>5, <1>6, <1>7, <1>8 DEF ConfigInv

(* The handlers, each of which edits what it reads in its own way.         *)
LEMMA HandlersEdit ==
    ASSUME ConfigInv, NEW t \in Callers,
           \/ AddProxy(t) \/ DeleteProxies(t) \/ UpdateProxy(t)
           \/ DelayTested(t) \/ AddSubscription(t) \/ DeleteSubscription(t)
           \/ UpdateSubscription(t) \/ UpdateSubscriptionProxies(t)
           \/ SetProxySelectedId(t) \/ SetRuleSelectedId(t) \/ SetSetting(t)
           \/ AddCustomizedRule(t) \/ EditCustomizedRule(t)
           \/ DeleteCustomizedRule(t)
    PROVE  \E name \in Handlers, c \in Configs :
              /\ Edits(t, name, c) /\ OnePart(Loaded, c)
              /\ target' \in [Callers -> Ids \cup {NoId}]
              /\ \A u \in Callers \ {t} : target'[u] = target[u]
              /\ given' \subseteq Ids /\ edits' \in Nat /\ adder' = adder
              /\ name = "AddProxy" =>
                    /\ adder = t /\ target'[t] \in IdsOf(c)
                    /\ IdsOf(Loaded) \subseteq IdsOf(c)
              /\ UpdateFits(name, Loaded, c)
<1> USE DEF Handlers, UpdateFits
<1> DEFINE Goal(name, c) ==
              /\ Edits(t, name, c) /\ OnePart(Loaded, c)
              /\ target' \in [Callers -> Ids \cup {NoId}]
              /\ \A u \in Callers \ {t} : target'[u] = target[u]
              /\ given' \subseteq Ids /\ edits' \in Nat /\ adder' = adder
              /\ name = "AddProxy" =>
                    /\ adder = t /\ target'[t] \in IdsOf(c)
                    /\ IdsOf(Loaded) \subseteq IdsOf(c)
              /\ UpdateFits(name, Loaded, c)
<1>1. /\ Loaded \in Configs /\ Loaded.proxy \in Seq(Entries)
      /\ Loaded # NoConfig
  BY LoadedType, NoConfigAssumption DEF ConfigInv, Configs
<1>2. /\ target \in [Callers -> Ids \cup {NoId}] /\ given \subseteq Ids
      /\ edits \in Nat
  BY DEF ConfigInv, ConfigTypes
<1>3. IdsOf(Loaded) \subseteq Ids \cup {NoId}
  BY <1>1, IdsType
<1>4. CASE AddProxy(t)
  <2> PICK id \in Ids \ given :
          /\ Edits(t, "AddProxy", ProxyAdded(Loaded, id))
          /\ given' = given \cup {id}
          /\ target' = [target EXCEPT ![t] = id]
    BY <1>4 DEF AddProxy
  <2>1. /\ ProxyAdded(Loaded, id) \in Configs
        /\ OnePart(Loaded, ProxyAdded(Loaded, id))
    BY <1>1, AddedType, ProxyType DEF ProxyAdded
  <2>2. IdsOf(Loaded) \cup {id} \subseteq IdsOf(ProxyAdded(Loaded, id))
    BY <1>1, AddedIds
  <2>3. adder = t /\ adder' = adder /\ edits' = edits
    BY <1>4 DEF AddProxy, ConfigInv, AddersExclude
  <2>4. Goal("AddProxy", ProxyAdded(Loaded, id))
    BY <1>2, <2>1, <2>2, <2>3
  <2> QED
    BY <2>1, <2>4
<1>5. CASE DeleteProxies(t)
  <2> PICK s \in Seq(Entries) :
          Edits(t, "Delete", [Loaded EXCEPT !.proxy = s])
    <3>1. <<>> \in Seq(Entries)
      BY EmptySeq, Zenon
    <3>2. \A ids : Without(Loaded.proxy, OfIds(ids)) \in Seq(Entries)
      BY <1>1, WithoutType
    <3>3. \A ids : ProxiesDeleted(Loaded, ids)
             = [Loaded EXCEPT !.proxy =
                  Without(Loaded.proxy, OfIds(ids \cup {NoId}))]
      BY DEF ProxiesDeleted
    <3>4. AllDeleted(Loaded) = [Loaded EXCEPT !.proxy = <<>>]
      BY DEF AllDeleted
    <3>5. ASSUME NEW ids, Edits(t, "Delete", ProxiesDeleted(Loaded, ids))
          PROVE  \E s \in Seq(Entries) :
                     Edits(t, "Delete", [Loaded EXCEPT !.proxy = s])
      <4> DEFINE gone == OfIds(ids \cup {NoId})
      <4>1. Edits(t, "Delete", [Loaded EXCEPT !.proxy =
                                    Without(Loaded.proxy, gone)])
        BY <3>3, <3>5
      <4>2. Without(Loaded.proxy, gone) \in Seq(Entries)
        BY <3>2
      <4> QED
        BY <4>1, <4>2, Zenon
    <3>6. ASSUME Edits(t, "Delete", AllDeleted(Loaded))
          PROVE  \E s \in Seq(Entries) :
                     Edits(t, "Delete", [Loaded EXCEPT !.proxy = s])
      BY <3>1, <3>4, <3>6, Zenon
    <3> QED
      BY <1>5, <3>5, <3>6, Zenon DEF DeleteProxies
  <2>1. Goal("Delete", [Loaded EXCEPT !.proxy = s])
    BY <1>1, <1>2, <1>5, ProxyType DEF DeleteProxies, Starts
  <2> QED
    BY <1>1, <2>1, ProxyType
<1>6. CASE UpdateProxy(t)
  <2> PICK id \in Ids, e \in Entries :
          /\ Edits(t, "Update", ProxyUpdated(Loaded, id, e))
          /\ target' = [target EXCEPT ![t] = id]
          /\ given' = given \cup ({e.id} \ {NoId})
    BY <1>6 DEF UpdateProxy
  <2> DEFINE c == ProxyUpdated(Loaded, id, e)
  <2>1. c \in Configs /\ OnePart(Loaded, c)
    BY <1>1, UpdatedType, ProxyType DEF ProxyUpdated
  <2>2. AtMostOneDiffers(Loaded.proxy, c.proxy)
    BY <1>1, UpdatedType
  <2>3. given' \subseteq Ids
    BY <1>2 DEF Entries
  <2> HIDE DEF c
  <2>4. UpdateFits("Update", Loaded, c)
    BY <1>1, <2>2
  <2>5. adder' = adder /\ edits' = edits + 1
    BY <1>6 DEF UpdateProxy, Starts
  <2>6. Edits(t, "Update", c)
    BY DEF c
  <2>7. Goal("Update", c)
    BY <1>2, <2>1, <2>3, <2>4, <2>5, <2>6
  <2> QED
    BY <2>1, <2>7
<1>7. CASE DelayTested(t)
  <2> DEFINE e == ProxyOf(base[t], target[t])
             c == ProxyUpdated(Loaded, target[t], e)
  <2>1. step[t] = "testing" /\ Edits(t, "Delay", c)
    BY <1>7 DEF DelayTested
  <2>2. base[t] \in Configs /\ target[t] \in IdsOf(base[t])
    BY <2>1 DEF ConfigInv, ConfigTypes, MayBeConfig, UpdatesKeep
  <2>3. e \in Entries /\ e.id = target[t] /\ target[t] \in Ids \cup {NoId}
    BY <2>2, ProxyOfType, IdsType
  <2> HIDE DEF e
  <2>4. /\ c \in Configs /\ OnePart(Loaded, c) /\ IdsOf(c) = IdsOf(Loaded)
        /\ AtMostOneDiffers(Loaded.proxy, c.proxy)
    BY <1>1, <2>3, UpdatedType, ProxyType DEF ProxyUpdated
  <2>5. UNCHANGED <<adder, target, given, edits>>
    BY <1>7 DEF DelayTested
  <2> HIDE DEF c
  <2>6. UpdateFits("Delay", Loaded, c)
    BY <1>1, <2>4
  <2>7. Goal("Delay", c)
    BY <1>2, <2>1, <2>4, <2>5, <2>6
  <2> QED
    BY <2>4, <2>7
<1>8. CASE AddSubscription(t)
  <2> PICK sub \in Subs \ Loaded.subs, id \in Ids :
          /\ Edits(t, "Subscribe", SubscriptionAdded(Loaded, sub, id))
          /\ given' = given \cup {id}
    BY <1>8 DEF AddSubscription
  <2>1. Append(Loaded.proxy, Entry(id, sub, "old")) \in Seq(Entries)
    BY <1>1, AddedType
  <2>2. Loaded.subs \cup {sub} \in SUBSET Subs
    BY <1>1 DEF Configs
  <2>3. /\ SubscriptionAdded(Loaded, sub, id) \in Configs
        /\ OnePart(Loaded, SubscriptionAdded(Loaded, sub, id))
    BY <1>1, <2>1, <2>2, SubsType DEF SubscriptionAdded
  <2>4. Goal("Subscribe", SubscriptionAdded(Loaded, sub, id))
    BY <1>2, <1>8, <2>3 DEF AddSubscription, Starts
  <2> QED
    BY <2>3, <2>4
<1>9. CASE DeleteSubscription(t)
  <2> PICK sub \in Loaded.subs :
          Edits(t, "Delete", SubscriptionDeleted(Loaded, sub))
    BY <1>9 DEF DeleteSubscription
  <2>1. Without(Loaded.proxy, OfSub(sub)) \in Seq(Entries)
    BY <1>1, WithoutType
  <2>2. Loaded.subs \ {sub} \in SUBSET Subs
    BY <1>1 DEF Configs
  <2>3. /\ SubscriptionDeleted(Loaded, sub) \in Configs
        /\ OnePart(Loaded, SubscriptionDeleted(Loaded, sub))
    BY <1>1, <2>1, <2>2, SubsType DEF SubscriptionDeleted
  <2>4. Goal("Delete", SubscriptionDeleted(Loaded, sub))
    BY <1>2, <1>9, <2>3 DEF DeleteSubscription, Starts
  <2> QED
    BY <2>3, <2>4
<1>10. CASE UpdateSubscriptionProxies(t)
  <2> PICK sub \in Subs, id \in Ids \ given :
          /\ Edits(t, "Delete", ProxiesRefetched(Loaded, sub, id))
          /\ given' = given \cup {id}
    BY <1>10 DEF UpdateSubscriptionProxies
  <2> DEFINE rest == Without(Loaded.proxy, OfSub(sub))
  <2>1. rest \in Seq(Entries)
    BY <1>1, WithoutType
  <2>2. Append(rest, Entry(id, sub, "old")) \in Seq(Entries)
    BY <2>1, AddedType
  <2>3. /\ ProxiesRefetched(Loaded, sub, id) \in Configs
        /\ OnePart(Loaded, ProxiesRefetched(Loaded, sub, id))
    BY <1>1, <2>2, ProxyType DEF ProxiesRefetched
  <2>4. Goal("Delete", ProxiesRefetched(Loaded, sub, id))
    BY <1>2, <1>10, <2>3 DEF UpdateSubscriptionProxies, Starts
  <2> QED
    BY <2>3, <2>4
<1>11. CASE SetProxySelectedId(t)
  <2> PICK id \in Ids \cup {NoId} :
          /\ Edits(t, "Select", ProxySelected(Loaded, id))
          /\ target' = [target EXCEPT ![t] = id]
    BY <1>11 DEF SetProxySelectedId
  <2>1. /\ ProxySelected(Loaded, id) \in Configs
        /\ OnePart(Loaded, ProxySelected(Loaded, id))
    BY <1>1 DEF ProxySelected, Configs, OnePart, Default, TheStore!Parts
  <2>2. Goal("Select", ProxySelected(Loaded, id))
    BY <1>2, <1>11, <2>1 DEF SetProxySelectedId, Starts
  <2> QED
    BY <2>1, <2>2
<1>12. CASE UpdateSubscription(t)
  <2>1. OnePart(Loaded, Loaded)
    BY <1>1 DEF OnePart, TheStore!Parts
  <2>2. Goal("Delete", Loaded)
    BY <1>2, <1>12, <2>1 DEF UpdateSubscription, Starts
  <2> QED
    BY <1>1, <2>2
<1>13. CASE \/ SetRuleSelectedId(t) \/ SetSetting(t) \/ AddCustomizedRule(t)
            \/ EditCustomizedRule(t) \/ DeleteCustomizedRule(t)
  <2>1. PICK c \in Configs :
            Edits(t, "Setting", c) /\ OnePart(Loaded, c)
    <3>1. CASE SetRuleSelectedId(t)
      <4>1. /\ RuleSelected(Loaded) \in Configs
            /\ OnePart(Loaded, RuleSelected(Loaded))
        BY <1>1 DEF RuleSelected, Configs, OnePart, Default, TheStore!Parts
      <4> QED
        BY <3>1, <4>1 DEF SetRuleSelectedId
    <3>2. CASE SetSetting(t)
      <4> DEFINE c == [Loaded EXCEPT !.auto = ~@]
      <4>1. c \in Configs /\ OnePart(Loaded, c)
        BY <1>1 DEF Configs, OnePart, Default, TheStore!Parts
      <4> QED
        BY <3>2, <4>1 DEF SetSetting
    <3>3. ASSUME NEW rules \in SUBSET CustomRules
          PROVE  /\ [Loaded EXCEPT !.rules = rules] \in Configs
                 /\ OnePart(Loaded, [Loaded EXCEPT !.rules = rules])
      BY <1>1 DEF Configs, OnePart, Default, TheStore!Parts
    <3>4. CASE \/ AddCustomizedRule(t) \/ EditCustomizedRule(t)
               \/ DeleteCustomizedRule(t)
      <4>1. PICK rules \in SUBSET CustomRules :
                Edits(t, "Setting", [Loaded EXCEPT !.rules = rules])
        <5>1. Loaded.rules \in SUBSET CustomRules
          BY <1>1 DEF Configs
        <5>2. CASE AddCustomizedRule(t)
          BY <5>1, <5>2 DEF AddCustomizedRule
        <5>3. CASE EditCustomizedRule(t)
          BY <5>1, <5>3 DEF EditCustomizedRule
        <5>4. CASE DeleteCustomizedRule(t)
          BY <5>1, <5>4 DEF DeleteCustomizedRule
        <5> QED
          BY <3>4, <5>2, <5>3, <5>4
      <4> QED
        BY <3>3, <4>1
    <3> QED
      BY <1>13, <3>1, <3>2, <3>4
  <2>2. UNCHANGED <<adder, given, target>> /\ edits' = edits + 1
    BY <1>13 DEF SetRuleSelectedId, SetSetting, AddCustomizedRule,
                 EditCustomizedRule, DeleteCustomizedRule, Starts
  <2>3. Goal("Setting", c)
    BY <1>2, <2>1, <2>2
  <2> QED
    BY <2>3
<1> HIDE DEF Goal
<1> QED
  BY <1>4, <1>5, <1>6, <1>7, <1>8, <1>9, <1>10, <1>11, <1>12, <1>13

(* A handler of AddProxy that waits for addMux and takes it.               *)
LEMMA AddProxyLockKeeps ==
    ASSUME ConfigInv, NEW t \in Callers, AddProxyLock(t)
    PROVE  ConfigInv'
<1> USE DEF AddProxyLock, Starts
<1>1. Loaded' = Loaded
  BY DEF Loaded
<1>2. ConfigTypes'
  BY DEF ConfigInv, ConfigTypes, Steps, Handlers
<1>3. FileIsSaved'
  BY <1>1 DEF ConfigInv, ConfigTypes, FileIsSaved
<1>4. AddersExclude'
  BY ConfigAssumption DEF ConfigInv, ConfigTypes, AddersExclude
<1>5. AddersKeep'
  BY DEF ConfigInv, ConfigTypes, AddersKeep
<1>6. UpdatesKeep'
  BY DEF ConfigInv, ConfigTypes, UpdatesKeep
<1>7. DraftsRest'
  BY DEF ConfigInv, ConfigTypes, DraftsRest, OnePart, TheStore!Parts
<1>8. AddedProxiesSurvive'
  BY DEF ConfigInv, AddedProxiesSurvive
<1> QED
  BY <1>2, <1>3, <1>4, <1>5, <1>6, <1>7, <1>8 DEF ConfigInv

(* A handler that has read what it needs and does not write yet.           *)
LEMMA ReadKeeps ==
    ASSUME ConfigInv, NEW t \in Callers, GetProxyDelay(t) \/ GetSelectedId(t)
    PROVE  ConfigInv'
<1> USE DEF GetProxyDelay, GetSelectedId, Starts, Reads
<1>1. /\ Loaded \in Configs /\ Loaded # NoConfig
      /\ IdsOf(Loaded) \subseteq Ids \cup {NoId}
      /\ Loaded.selected.proxy \in Ids \cup {NoId}
  <2>1. Loaded \in Configs
    BY LoadedType DEF ConfigInv
  <2>2. IdsOf(Loaded) \subseteq Ids \cup {NoId}
    BY <2>1, IdsType
  <2>3. Loaded.selected.proxy \in Ids \cup {NoId}
    BY <2>1 DEF Configs
  <2> QED
    BY <2>1, <2>2, <2>3, NoConfigAssumption
<1>2. Loaded' = Loaded
  BY DEF Loaded, ConfigInv, ConfigTypes
<1>3. ConfigTypes'
  BY <1>1 DEF ConfigInv, ConfigTypes, MayBeConfig, Steps, Handlers
<1>4. FileIsSaved'
  BY <1>2 DEF ConfigInv, ConfigTypes, FileIsSaved
<1>5. AddersExclude'
  BY DEF ConfigInv, ConfigTypes, AddersExclude
<1>6. AddersKeep'
  BY DEF ConfigInv, ConfigTypes, AddersKeep
<1>7. UpdatesKeep'
  BY <1>1 DEF ConfigInv, ConfigTypes, UpdatesKeep
<1>8. DraftsRest'
  <2> SUFFICES ASSUME NEW u \in Callers, step'[u] \in {"write", "writing"}
               PROVE  \/ draft'[u] = Default
                      \/ base'[u] # NoConfig /\ OnePart(base'[u], draft'[u])
    BY DEF DraftsRest, OnePart, TheStore!Parts
  <2>1. u # t /\ draft'[u] = draft[u] /\ base'[u] = base[u]
        /\ step'[u] = step[u]
    BY DEF ConfigInv, ConfigTypes
  <2> QED
    BY <2>1 DEF ConfigInv, DraftsRest
<1>9. AddedProxiesSurvive'
  BY DEF ConfigInv, AddedProxiesSurvive
<1> QED
  BY <1>3, <1>4, <1>5, <1>6, <1>7, <1>8, <1>9 DEF ConfigInv

(* A handler that is about to write the default, or begins to write.       *)
LEMMA BeginsKeep ==
    ASSUME ConfigInv, NEW t \in Callers, Reset(t) \/ Truncate(t)
    PROVE  ConfigInv'
<1> USE DEF Reset, Truncate, Starts
<1>1. Reset(t) => Loaded' = Loaded
  BY DEF Loaded
<1>2. ConfigTypes'
  BY DefaultType DEF ConfigInv, ConfigTypes, Steps, Handlers
<1>3. FileIsSaved'
  BY <1>1, ConfigAssumption DEF ConfigInv, ConfigTypes, FileIsSaved
<1>4. AddersExclude'
  BY DEF ConfigInv, ConfigTypes, AddersExclude
<1>5. AddersKeep'
  BY DEF ConfigInv, ConfigTypes, AddersKeep
<1>6. UpdatesKeep'
  <2> SUFFICES ASSUME NEW u \in Callers
               PROVE  /\ step'[u] \in {"write", "writing"} =>
                         UpdateFits(handler'[u], base'[u], draft'[u])
                      /\ step'[u] = "testing" =>
                         base'[u] # NoConfig /\ target'[u] \in IdsOf(base'[u])
    BY DEF UpdatesKeep, UpdateFits, AtMostOneDiffers, IdsOf
  <2>1. CASE Reset(t) /\ u = t
    BY <2>1 DEF ConfigInv, ConfigTypes, UpdateFits
  <2>2. CASE Truncate(t) \/ u # t
    BY <2>2 DEF ConfigInv, ConfigTypes, UpdatesKeep
  <2> QED
    BY <2>1, <2>2
<1>7. DraftsRest'
  <2> SUFFICES ASSUME NEW u \in Callers, step'[u] \in {"write", "writing"}
               PROVE  \/ draft'[u] = Default
                      \/ base'[u] # NoConfig /\ OnePart(base'[u], draft'[u])
    BY DEF DraftsRest, OnePart, TheStore!Parts
  <2>1. CASE draft'[u] = Default
    BY <2>1
  <2>2. CASE draft'[u] # Default
    <3>1. /\ draft'[u] = draft[u] /\ base'[u] = base[u]
          /\ step[u] \in {"write", "writing"}
      BY <2>2 DEF ConfigInv, ConfigTypes
    <3> QED
      BY <2>2, <3>1 DEF ConfigInv, DraftsRest
  <2> QED
    BY <2>1, <2>2
<1>8. AddedProxiesSurvive'
  BY DEF ConfigInv, AddedProxiesSurvive
<1> QED
  BY <1>2, <1>3, <1>4, <1>5, <1>6, <1>7, <1>8 DEF ConfigInv

(* A write that ends: the file is what the handler wrote, or torn.         *)
LEMMA WriteKeeps ==
    ASSUME ConfigInv, NEW t \in Callers, Commit(t) \/ WriteFails(t)
    PROVE  ConfigInv'
<1> USE DEF Commit, WriteFails, AfterWrite, Returns
<1>1. /\ step[t] = "writing" /\ writer = t /\ disk = "torn"
      /\ \A u \in Callers : u # t => step[u] # "writing"
  BY ConfigAssumption DEF ConfigInv, FileIsSaved
<1>2. Loaded' = saved'
  BY <1>1 DEF Loaded
<1>3. \A u \in Callers \ {t} :
         /\ step'[u] = step[u] /\ handler'[u] = handler[u]
         /\ target'[u] = target[u] /\ base'[u] = base[u]
         /\ draft'[u] = draft[u]
  BY DEF ConfigInv, ConfigTypes
<1>4. step'[t] \in {"idle", "reload"}
  BY DEF ConfigInv, ConfigTypes
<1>5. handler'[t] # "AddProxy"
  BY DEF ConfigInv, ConfigTypes
<1>6. ConfigTypes'
  <2>1. target[t] \in Ids \cup {NoId} \/ handler[t] # "AddProxy"
    <3>1. IdsOf(draft[t]) \subseteq Ids \cup {NoId}
      BY IdsType DEF ConfigInv, ConfigTypes
    <3> QED
      BY <1>1, <3>1 DEF ConfigInv, AddersKeep
  <2>2. sure' \subseteq Ids \cup {NoId}
    BY <2>1 DEF ConfigInv, ConfigTypes
  <2> QED
    BY <2>2, DefaultType DEF ConfigInv, ConfigTypes, MayBeConfig, Steps,
                             Handlers
<1>7. FileIsSaved'
  BY <1>1, <1>2, <1>3, <1>4 DEF FileIsSaved
<1>8. AddersExclude'
  <2> SUFFICES ASSUME NEW u \in Callers
               PROVE  /\ handler'[u] = "AddProxy" => adder' = u
                      /\ step'[u] = "adding" => handler'[u] = "AddProxy"
    BY DEF AddersExclude
  <2> QED
    BY <1>3, <1>4, <1>5 DEF ConfigInv, AddersExclude
<1>9. AddersKeep'
  <2> SUFFICES ASSUME NEW u \in Callers, handler'[u] = "AddProxy",
                      step'[u] \in {"write", "writing"}
               PROVE  target'[u] \in IdsOf(draft'[u])
                      /\ sure' \subseteq IdsOf(draft'[u])
    BY DEF AddersKeep
  <2>1. u # t /\ handler[u] = "AddProxy" /\ adder = u
    BY <1>3, <1>5 DEF ConfigInv, AddersExclude
  <2>2. handler[t] # "AddProxy"
    BY <2>1 DEF ConfigInv, AddersExclude
  <2>3. sure' \subseteq sure
    BY <2>2
  <2> QED
    BY <1>3, <2>1, <2>3 DEF ConfigInv, AddersKeep
<1>10. UpdatesKeep'
  <2> SUFFICES ASSUME NEW u \in Callers
               PROVE  /\ step'[u] \in {"write", "writing"} =>
                         UpdateFits(handler'[u], base'[u], draft'[u])
                      /\ step'[u] = "testing" =>
                         base'[u] # NoConfig /\ target'[u] \in IdsOf(base'[u])
    BY DEF UpdatesKeep, UpdateFits, AtMostOneDiffers, IdsOf
  <2> QED
    BY <1>3, <1>4 DEF ConfigInv, UpdatesKeep
<1>11. DraftsRest'
  <2> SUFFICES ASSUME NEW u \in Callers, step'[u] \in {"write", "writing"}
               PROVE  \/ draft'[u] = Default
                      \/ base'[u] # NoConfig /\ OnePart(base'[u], draft'[u])
    BY DEF DraftsRest, OnePart, TheStore!Parts
  <2>1. u # t
    BY <1>4
  <2> QED
    BY <1>3, <2>1 DEF ConfigInv, DraftsRest
<1>12. AddedProxiesSurvive'
  <2>1. handler[t] = "AddProxy" =>
           target[t] \in IdsOf(draft[t]) /\ sure \subseteq IdsOf(draft[t])
    BY <1>1 DEF ConfigInv, AddersKeep
  <2> QED
    BY <2>1 DEF AddedProxiesSurvive
<1> QED
  BY <1>6, <1>7, <1>8, <1>9, <1>10, <1>11, <1>12 DEF ConfigInv

(* The process starts again with what is in the file.                      *)
LEMMA CrashKeeps ==
    ASSUME ConfigInv, Crash
    PROVE  ConfigInv'
<1> USE DEF Crash
<1>1. Loaded' = Loaded /\ Loaded \in Configs
  BY LoadedType DEF Loaded, ConfigInv
<1>2. ConfigTypes'
  BY <1>1, DefaultType DEF ConfigInv, ConfigTypes, MayBeConfig, Steps, Handlers
<1>3. FileIsSaved'
  BY <1>1 DEF FileIsSaved
<1>4. AddersExclude' /\ AddersKeep' /\ UpdatesKeep'
  BY DEF AddersExclude, AddersKeep, UpdatesKeep
<1>5. DraftsRest'
  BY DEF DraftsRest
<1>6. AddedProxiesSurvive'
  BY DEF ConfigInv, FileIsSaved, AddedProxiesSurvive
<1> QED
  BY <1>2, <1>3, <1>4, <1>5, <1>6 DEF ConfigInv

(* The handlers that return before they have written, or after.            *)
LEMMA HandlersReturn ==
    ASSUME ConfigInv, NEW t \in Callers,
           \/ AddProxyRefused(t) \/ DelayTestFails(t) \/ OpenFails(t)
           \/ NotStarted(t) \/ InstallSelected(t) \/ InstallGroup(t)
    PROVE  /\ Returns(t) /\ step[t] # "writing"
           /\ inUse' \subseteq Ids \cup {NoId} /\ faults' \in Nat
           /\ UNCHANGED <<disk, file, writer, given, edits, saved, sure>>
           /\ faults' = faults \/ faults' = faults + 1
<1>1. /\ inUse \subseteq Ids \cup {NoId} /\ faults \in Nat
      /\ IdsOf(Loaded) \subseteq Ids \cup {NoId}
      /\ \A u \in Callers : step[u] \in Steps
  BY LoadedType, IdsType DEF ConfigInv, ConfigTypes
<1>2. CASE AddProxyRefused(t) \/ DelayTestFails(t) \/ NotStarted(t)
  BY <1>1, <1>2 DEF AddProxyRefused, DelayTestFails, NotStarted
<1>3. CASE OpenFails(t)
  BY <1>1, <1>3 DEF OpenFails
<1>4. CASE InstallSelected(t) \/ InstallGroup(t)
  BY <1>1, <1>4 DEF InstallSelected, InstallGroup
<1> QED
  BY <1>2, <1>3, <1>4

(* Every step keeps the invariant.                                         *)
LEMMA ConfigSteps == ConfigInv /\ [ConfigNext]_configVars => ConfigInv'
<1> SUFFICES ASSUME ConfigInv, [ConfigNext]_configVars PROVE ConfigInv'
  OBVIOUS
<1>1. CASE UNCHANGED configVars
  BY <1>1 DEF configVars, ConfigInv, ConfigTypes, FileIsSaved, Loaded,
              AddersExclude, AddersKeep, UpdatesKeep, DraftsRest, OnePart,
              TheStore!Parts, AddedProxiesSurvive
<1>2. CASE Crash
  BY <1>2, CrashKeeps
<1>3. ASSUME NEW t \in Callers, ConfigStep(t) PROVE ConfigInv'
  <2>1. CASE \/ AddProxy(t) \/ DeleteProxies(t) \/ UpdateProxy(t)
             \/ DelayTested(t) \/ AddSubscription(t) \/ DeleteSubscription(t)
             \/ UpdateSubscription(t) \/ UpdateSubscriptionProxies(t)
             \/ SetProxySelectedId(t) \/ SetRuleSelectedId(t) \/ SetSetting(t)
             \/ AddCustomizedRule(t) \/ EditCustomizedRule(t)
             \/ DeleteCustomizedRule(t)
    BY <2>1, HandlersEdit, EditKeeps
  <2>2. CASE \/ AddProxyRefused(t) \/ DelayTestFails(t) \/ OpenFails(t)
             \/ NotStarted(t) \/ InstallSelected(t) \/ InstallGroup(t)
    BY <2>2, HandlersReturn, ReturnKeeps
  <2>3. CASE AddProxyLock(t)
    BY <2>3, AddProxyLockKeeps
  <2>4. CASE GetProxyDelay(t) \/ GetSelectedId(t)
    BY <2>4, ReadKeeps
  <2>5. CASE Reset(t) \/ Truncate(t)
    BY <2>5, BeginsKeep
  <2>6. CASE Commit(t) \/ WriteFails(t)
    BY <2>6, WriteKeeps
  <2> QED
    BY <1>3, <2>1, <2>2, <2>3, <2>4, <2>5, <2>6 DEF ConfigStep
<1> QED
  BY <1>1, <1>2, <1>3 DEF ConfigNext

(* The invariant holds before the file is read.                            *)
LEMMA ConfigStarts == ConfigInit => ConfigInv
<1> SUFFICES ASSUME ConfigInit PROVE ConfigInv
  OBVIOUS
<1> USE DEF ConfigInit
<1>1. ConfigTypes
  BY DefaultType DEF ConfigTypes, MayBeConfig, Steps, Handlers
<1>2. FileIsSaved
  BY DEF FileIsSaved, Loaded
<1>3. AddersExclude /\ AddersKeep /\ UpdatesKeep
  BY DEF AddersExclude, AddersKeep, UpdatesKeep
<1>4. DraftsRest /\ AddedProxiesSurvive
  BY DEF DraftsRest, AddedProxiesSurvive
<1> QED
  BY <1>1, <1>2, <1>3, <1>4 DEF ConfigInv

(* The invariant of the handlers and the file, which the others rest on.   *)
THEOREM ConfigHolds == ConfigSpec => []ConfigInv
BY ConfigStarts, ConfigSteps, PTL DEF ConfigSpec

(* A proxy whose id AddProxy returned is in the file until another handler *)
(* writes the file without it: addMux makes imports wait for each other.   *)
THEOREM ImportsSurvive == ConfigSpec => []AddedProxiesSurvive
<1>1. ConfigInv => AddedProxiesSurvive
  BY DEF ConfigInv
<1> QED
  BY <1>1, ConfigHolds, PTL

-----------------------------------------------------------------------------
(* What a step does to what is saved and to what the handlers have read.   *)

(* A handler saves when its write ends, and at no other step.              *)
LEMMA SavesWhenWritten ==
    ASSUME ConfigInv, NEW t \in Callers, ConfigStep(t), saved' # saved
    PROVE  Commit(t) \/ WriteFails(t)
<1>1. CASE \/ AddProxy(t) \/ DeleteProxies(t) \/ UpdateProxy(t)
           \/ DelayTested(t) \/ AddSubscription(t) \/ DeleteSubscription(t)
           \/ UpdateSubscription(t) \/ UpdateSubscriptionProxies(t)
           \/ SetProxySelectedId(t) \/ SetRuleSelectedId(t) \/ SetSetting(t)
           \/ AddCustomizedRule(t) \/ EditCustomizedRule(t)
           \/ DeleteCustomizedRule(t)
  BY <1>1, HandlersEdit DEF Edits
<1>2. CASE \/ AddProxyRefused(t) \/ DelayTestFails(t) \/ OpenFails(t)
           \/ NotStarted(t) \/ InstallSelected(t) \/ InstallGroup(t)
  BY <1>2, HandlersReturn
<1>3. CASE AddProxyLock(t) \/ GetProxyDelay(t) \/ GetSelectedId(t)
  BY <1>3 DEF AddProxyLock, GetProxyDelay, GetSelectedId
<1>4. CASE Reset(t) \/ Truncate(t)
  BY <1>4 DEF Reset, Truncate
<1> QED
  BY <1>1, <1>2, <1>3, <1>4 DEF ConfigStep

(* A crash leaves what was saved, or the default where it tore the file.   *)
LEMMA CrashSaves ==
    ASSUME ConfigInv, Crash
    PROVE  saved' = IF writer = NoCaller THEN saved ELSE Default
BY DEF ConfigInv, FileIsSaved, Crash, Loaded

(* UpdateProxy adds no entry and replaces one at most, and a delay test    *)
(* brings back no proxy that was gone when it ended.                       *)
THEOREM UpdatesReviveNothing == ConfigSpec => UpdateRevivesNothing
<1> DEFINE Bound(t) ==
              /\ handler[t] \in {"Update", "Delay"} =>
                    AtMostOneDiffers(base[t].proxy, saved'.proxy)
              /\ handler[t] = "Delay" =>
                    IdsOf(saved') \ IdsOf(saved) \subseteq IdsOf(base[t])
           Right == \A t \in Callers :
                       step[t] = "writing" /\ saved' # saved => Bound(t)
<1>1. ConfigInv /\ [ConfigNext]_configVars => [Right]_configVars
  <2> SUFFICES ASSUME ConfigInv, ConfigNext, NEW t \in Callers,
                      step[t] = "writing", saved' # saved
               PROVE  Bound(t)
    OBVIOUS
  <2>1. writer = t /\ t # NoCaller
    BY ConfigAssumption DEF ConfigInv, FileIsSaved
  <2>2. saved' \in {draft[t], Default}
    <3>1. CASE Crash
      BY <2>1, <3>1, CrashSaves
    <3>2. ASSUME NEW u \in Callers, ConfigStep(u)
          PROVE  saved' \in {draft[t], Default}
      <4>1. Commit(u) \/ WriteFails(u)
        BY <3>2, SavesWhenWritten
      <4>2. step[u] = "writing"
        BY <4>1 DEF Commit, WriteFails
      <4>3. u = t
        BY <2>1, <4>2 DEF ConfigInv, FileIsSaved
      <4> QED
        BY <4>1, <4>3 DEF Commit, WriteFails
    <3> QED
      BY <3>1, <3>2 DEF ConfigNext
  <2>3. UpdateFits(handler[t], base[t], draft[t])
    BY DEF ConfigInv, UpdatesKeep
  <2>4. handler[t] \in {"Update", "Delay"} =>
           AtMostOneDiffers(base[t].proxy, Default.proxy)
    <3> SUFFICES ASSUME handler[t] \in {"Update", "Delay"}
                 PROVE  AtMostOneDiffers(base[t].proxy, Default.proxy)
      OBVIOUS
    <3>1. base[t] \in Configs
      BY <2>3 DEF UpdateFits, ConfigInv, ConfigTypes, MayBeConfig
    <3>2. Len(base[t].proxy) \in Nat
      BY <3>1, LenProperties DEF Configs
    <3>3. Default.proxy = <<>> /\ Len(<<>>) = 0
      BY EmptySeq, Zenon DEF Default
    <3> QED
      BY <3>2, <3>3 DEF AtMostOneDiffers
  <2> QED
    BY <2>2, <2>3, <2>4, DefaultType DEF UpdateFits
<1> QED
  BY <1>1, ConfigHolds, PTL DEF ConfigSpec, UpdateRevivesNothing

(* Read and Write are the store: whatever a handler does to it is a load,  *)
(* a save or a fault of Store, and it forgets what it read when it returns.*)
LEMMA StepsOfStore ==
    ConfigInv /\ [ConfigNext]_configVars =>
        [TheStore!Next]_<<saved, base, faults>>
<1> SUFFICES ASSUME ConfigInv, [ConfigNext]_configVars
             PROVE  TheStore!Next \/ UNCHANGED <<saved, base, faults>>
  OBVIOUS
<1>1. CASE UNCHANGED configVars
  BY <1>1 DEF configVars
<1>2. CASE Crash
  <2>1. /\ saved' \in {saved, Default} /\ faults' = faults + 1
        /\ base' = [u \in Callers |-> NoConfig]
    BY <1>2, CrashSaves DEF Crash
  <2> QED
    BY <2>1 DEF TheStore!Next, TheStore!Fault
<1>3. ASSUME NEW t \in Callers, ConfigStep(t)
      PROVE  TheStore!Next \/ UNCHANGED <<saved, base, faults>>
  <2>1. ASSUME Reads(t), UNCHANGED <<saved, faults>> PROVE TheStore!Load(t)
    BY <2>1 DEF Reads, ConfigInv, FileIsSaved, TheStore!Load
  <2>2. CASE \/ AddProxy(t) \/ DeleteProxies(t) \/ UpdateProxy(t)
             \/ DelayTested(t) \/ AddSubscription(t) \/ DeleteSubscription(t)
             \/ UpdateSubscription(t) \/ UpdateSubscriptionProxies(t)
             \/ SetProxySelectedId(t) \/ SetRuleSelectedId(t) \/ SetSetting(t)
             \/ AddCustomizedRule(t) \/ EditCustomizedRule(t)
             \/ DeleteCustomizedRule(t)
    <3>1. Reads(t) /\ UNCHANGED <<saved, faults>>
      BY <2>2, HandlersEdit DEF Edits
    <3> QED
      BY <2>1, <3>1 DEF TheStore!Next
  <2>3. CASE GetProxyDelay(t) \/ GetSelectedId(t)
    <3>1. Reads(t) /\ UNCHANGED <<saved, faults>>
      BY <2>3 DEF GetProxyDelay, GetSelectedId
    <3> QED
      BY <2>1, <3>1 DEF TheStore!Next
  <2>4. CASE AddProxyLock(t) \/ Reset(t) \/ Truncate(t)
    BY <2>4 DEF AddProxyLock, Reset, Truncate
  <2>5. CASE \/ AddProxyRefused(t) \/ DelayTestFails(t) \/ OpenFails(t)
             \/ NotStarted(t) \/ InstallSelected(t) \/ InstallGroup(t)
    <3>1. /\ base' = TheStore!Forgotten(t) /\ saved' = saved
          /\ faults' = faults \/ faults' = faults + 1
      BY <2>5, HandlersReturn DEF Returns, TheStore!Forgotten
    <3> QED
      BY <3>1 DEF TheStore!Next, TheStore!GiveUp, TheStore!Fault
  <2>6. CASE Commit(t)
    <3>1. saved' = draft[t] /\ faults' = faults /\ step[t] = "writing"
      BY <2>6 DEF Commit
    <3>2. base' \in {base, TheStore!Forgotten(t)}
      BY <2>6 DEF Commit, AfterWrite, Returns, TheStore!Forgotten
    <3>3. \/ draft[t] = Default
          \/ base[t] # NoConfig /\ OnePart(base[t], draft[t])
      BY <3>1 DEF ConfigInv, DraftsRest
    <3>4. TheStore!Save(t)
      BY <3>1, <3>2, <3>3 DEF TheStore!Save, OnePart
    <3> QED
      BY <3>4 DEF TheStore!Next
  <2>7. CASE WriteFails(t)
    <3>1. /\ base' = TheStore!Forgotten(t) /\ saved' = Default
          /\ faults' = faults + 1
      BY <2>7 DEF WriteFails, Returns, TheStore!Forgotten
    <3> QED
      BY <3>1 DEF TheStore!Next, TheStore!Fault
  <2> QED
    BY <1>3, <2>2, <2>3, <2>4, <2>5, <2>6, <2>7 DEF ConfigStep
<1> QED
  BY <1>1, <1>2, <1>3 DEF ConfigNext

(* The handlers of the API implement the store that they rely on.          *)
THEOREM ConfigIsStore == ConfigSpec => ImplementsStore
<1>1. ConfigInit => TheStore!Init
  BY DEF ConfigInit, TheStore!Init
<1> QED
  BY <1>1, StepsOfStore, ConfigHolds, PTL
     DEF ConfigSpec, ImplementsStore, TheStore!Spec

-----------------------------------------------------------------------------
(* Runs of a sequence.                                                     *)

(* s is what all holds from behind its first elements on.                  *)
IsRun(s, all, from) ==
    Len(s) <= Len(all) - from /\ s = SubSeq(all, from + 1, from + Len(s))

(* A run agrees with the sequence element by element.                      *)
LEMMA RunByElements ==
    ASSUME NEW s \in Seq(Nat), NEW all \in Seq(Nat), NEW from \in Nat,
           Len(s) <= Len(all) - from
    PROVE  IsRun(s, all, from) <=> \A i \in 1..Len(s) : s[i] = all[from + i]
<1> DEFINE t == SubSeq(all, from + 1, from + Len(s))
<1>1. Len(s) \in Nat /\ Len(all) \in Nat
  BY LenProperties
<1>2. \A i \in (from + 1)..(from + Len(s)) : all[i] \in Nat
  BY <1>1, ElementOfSeq
<1>3. /\ t \in Seq(Nat) /\ Len(t) = Len(s)
      /\ \A i \in 1..Len(s) : t[i] = all[from + i]
  <2>1. /\ t \in Seq(Nat)
        /\ Len(t) = IF from + 1 <= from + Len(s)
                    THEN from + Len(s) - (from + 1) + 1 ELSE 0
        /\ \A i \in 1..(from + Len(s) - (from + 1) + 1) :
              t[i] = all[from + 1 + i - 1]
    BY <1>1, <1>2, SubSeqProperties
  <2> QED
    BY <1>1, <2>1
<1>4. ASSUME \A i \in 1..Len(s) : s[i] = all[from + i] PROVE s = t
  <2> HIDE DEF t
  <2> QED
    BY <1>3, <1>4, SeqEqual
<1> QED
  BY <1>3, <1>4 DEF IsRun

(* A run stays one when the sequence grows.                                *)
LEMMA RunOfLonger ==
    ASSUME NEW s \in Seq(Nat), NEW all \in Seq(Nat), NEW from \in Nat,
           NEW m \in Nat, IsRun(s, all, from)
    PROVE  IsRun(s, Append(all, m), from)
<1>1. Len(s) \in Nat /\ Len(all) \in Nat
  BY LenProperties
<1>2. /\ Append(all, m) \in Seq(Nat) /\ Len(Append(all, m)) = Len(all) + 1
      /\ \A i \in 1..Len(all) : Append(all, m)[i] = all[i]
  BY AppendProperties
<1>3. Len(s) <= Len(all) - from
  BY DEF IsRun
<1>4. \A i \in 1..Len(s) : s[i] = all[from + i]
  BY <1>1, <1>3, RunByElements
<1> QED
  <2> DEFINE b == Append(all, m)
  <2>1. Len(s) <= Len(b) - from /\ \A i \in 1..Len(s) : s[i] = b[from + i]
    BY <1>1, <1>2, <1>3, <1>4
  <2>2. b \in Seq(Nat)
    BY <1>2
  <2> HIDE DEF b
  <2>3. IsRun(s, b, from)
    BY <2>1, <2>2, RunByElements
  <2> QED
    BY <2>3 DEF b

(* A run up to the end grows with the sequence.                            *)
LEMMA RunGrows ==
    ASSUME NEW s \in Seq(Nat), NEW all \in Seq(Nat), NEW from \in Nat,
           NEW m \in Nat, IsRun(s, all, from), Len(s) = Len(all) - from
    PROVE  /\ IsRun(Append(s, m), Append(all, m), from)
           /\ Len(Append(s, m)) = Len(Append(all, m)) - from
<1>1. Len(s) \in Nat /\ Len(all) \in Nat
  BY LenProperties
<1>2. /\ Append(all, m) \in Seq(Nat) /\ Len(Append(all, m)) = Len(all) + 1
      /\ \A i \in 1..Len(all) : Append(all, m)[i] = all[i]
      /\ Append(all, m)[Len(all) + 1] = m
  BY AppendProperties
<1>3. /\ Append(s, m) \in Seq(Nat) /\ Len(Append(s, m)) = Len(s) + 1
      /\ \A i \in 1..Len(s) : Append(s, m)[i] = s[i]
      /\ Append(s, m)[Len(s) + 1] = m
  BY AppendProperties
<1>4. \A i \in 1..Len(s) : s[i] = all[from + i]
  <2>1. Len(s) <= Len(all) - from
    BY <1>1
  <2> QED
    BY <2>1, RunByElements
<1>5. \A i \in 1..(Len(s) + 1) : Append(s, m)[i] = Append(all, m)[from + i]
  <2> SUFFICES ASSUME NEW i \in 1..(Len(s) + 1)
               PROVE  Append(s, m)[i] = Append(all, m)[from + i]
    OBVIOUS
  <2>1. CASE i = Len(s) + 1
    <3>1. from + i = Len(all) + 1
      BY <1>1, <2>1
    <3> QED
      BY <1>2, <1>3, <2>1, <3>1
  <2>2. CASE i # Len(s) + 1
    <3>1. i \in 1..Len(s) /\ from + i \in 1..Len(all)
      BY <1>1, <2>2
    <3> QED
      BY <1>2, <1>3, <1>4, <3>1
  <2> QED
    BY <2>1, <2>2
<1>6. Len(Append(s, m)) = Len(Append(all, m)) - from
  BY <1>1, <1>2, <1>3
<1>7. IsRun(Append(s, m), Append(all, m), from)
  <2> DEFINE t == Append(s, m)
             b == Append(all, m)
  <2>1. Len(t) <= Len(b) - from /\ \A i \in 1..Len(t) : t[i] = b[from + i]
    BY <1>1, <1>2, <1>3, <1>5
  <2>2. t \in Seq(Nat) /\ b \in Seq(Nat)
    BY <1>2, <1>3
  <2> HIDE DEF t, b
  <2>3. IsRun(t, b, from)
    BY <2>1, <2>2, RunByElements
  <2> QED
    BY <2>3 DEF t, b
<1> QED
  BY <1>6, <1>7

(* The empty sequence is a run, up to the end when nothing came since.      *)
LEMMA EmptyRun ==
    ASSUME NEW all \in Seq(Nat), NEW from \in Nat, from <= Len(all)
    PROVE  IsRun(<<>>, all, from)
<1>1. <<>> \in Seq(Nat)
  BY EmptySeq, Zenon
<1>2. Len(<<>>) = 0
  BY EmptySeq, Zenon
<1>3. Len(all) \in Nat
  BY LenProperties
<1> DEFINE s == <<>>
<1>4. s \in Seq(Nat) /\ Len(s) <= Len(all) - from /\ 1..Len(s) = {}
  BY <1>1, <1>2, <1>3
<1> HIDE DEF s
<1>5. IsRun(s, all, from)
  BY <1>4, RunByElements
<1> QED
  BY <1>5 DEF s

(* How a stream is cut into parts does not matter.                         *)
LEMMA JoinsAssociate ==
    ASSUME NEW s \in Seq(Nat), NEW t \in Seq(Nat), NEW u \in Seq(Nat)
    PROVE  (s \o t) \o u = s \o (t \o u)
BY ConcatAssociative, SMTT(30)

(* Joining and appending associate.                                        *)
LEMMA ConcatAppend ==
    ASSUME NEW s \in Seq(Nat), NEW t \in Seq(Nat), NEW m \in Nat
    PROVE  s \o Append(t, m) = Append(s \o t, m)
<1>1. <<m>> \in Seq(Nat)
  OBVIOUS
<1>2. Append(t, m) = t \o <<m>>
  BY AppendIsConcat, Zenon
<1>3. s \o t \in Seq(Nat)
  BY ConcatProperties, Zenon
<1>4. Append(s \o t, m) = (s \o t) \o <<m>>
  BY <1>3, AppendIsConcat, Zenon
<1>5. (s \o t) \o <<m>> = s \o (t \o <<m>>)
  BY <1>1, ConcatAssociative
<1> QED
  BY <1>2, <1>4, <1>5, Zenon

(* What is first in a sequence moves to the end of the one before it.      *)
LEMMA HeadMoves ==
    ASSUME NEW s \in Seq(Nat), NEW t \in Seq(Nat), t # <<>>
    PROVE  Append(s, Head(t)) \o Tail(t) = s \o t
<1>1. Head(t) \in Nat /\ Tail(t) \in Seq(Nat)
  BY HeadTailProperties, Zenon
<1>2. <<Head(t)>> \in Seq(Nat)
  BY <1>1
<1>3. Append(s, Head(t)) = s \o <<Head(t)>>
  BY <1>1, AppendIsConcat, Zenon
<1>4. (s \o <<Head(t)>>) \o Tail(t) = s \o (<<Head(t)>> \o Tail(t))
  BY <1>1, <1>2, ConcatAssociative
<1>5. t = <<Head(t)>> \o Tail(t)
  <2>1. Len(t) \in Nat \ {0}
    BY EmptySeq, Zenon
  <2>2. 1 \in 1..Len(t) /\ Len(t) \in 1..Len(t)
    BY <2>1
  <2>3. /\ Head(SubSeq(t, 1, Len(t))) = t[1]
        /\ SubSeq(t, 1, Len(t)) = <<t[1]>> \o SubSeq(t, 1 + 1, Len(t))
        /\ Tail(SubSeq(t, 1, Len(t))) = SubSeq(t, 1 + 1, Len(t))
    BY <2>2, HeadTailOfSubSeq, SubSeqRecursiveFirst, Zenon
  <2>4. SubSeq(t, 1, Len(t)) = t
    BY SubSeqFull, Zenon
  <2> QED
    BY <2>3, <2>4, Zenon
<1> QED
  BY <1>3, <1>4, <1>5, Zenon

(* A sequence that is cut in two is the first part and then the other.     *)
LEMMA PartsOfSequence ==
    ASSUME NEW s \in Seq(Nat), NEW t \in Seq(Nat), NEW n \in 1..Len(t)
    PROVE  /\ SubSeq(t, 1, n) \in Seq(Nat)
           /\ SubSeq(t, n + 1, Len(t)) \in Seq(Nat)
           /\ (s \o SubSeq(t, 1, n)) \o SubSeq(t, n + 1, Len(t)) = s \o t
<1> DEFINE first == SubSeq(t, 1, n)
           rest == SubSeq(t, n + 1, Len(t))
<1>1. Len(t) \in Nat
  BY LenProperties
<1>2. \A i \in 1..Len(t) : t[i] \in Nat
  BY ElementOfSeq
<1>3. first \in Seq(Nat) /\ rest \in Seq(Nat)
  BY <1>1, <1>2, SubSeqProperties
<1>4. first \o rest = t
  <2>1. /\ 1 \in 1..Len(t) + 1 /\ n \in 1 - 1..Len(t)
        /\ Len(t) \in n..Len(t)
    BY <1>1
  <2>2. first \o rest = SubSeq(t, 1, Len(t))
    BY <1>1, <2>1, ConcatAdjacentSubSeq
  <2> QED
    BY <2>2, SubSeqFull
<1>5. (s \o first) \o rest = s \o t
  <2>1. /\ s \in Seq(Nat) /\ first \in Seq(Nat) /\ rest \in Seq(Nat)
    BY <1>3
  <2> HIDE DEF first, rest
  <2>2. (s \o first) \o rest = s \o (first \o rest)
    BY <2>1, JoinsAssociate
  <2> QED
    BY <1>4, <2>2
<1> QED
  BY <1>3, <1>5

-----------------------------------------------------------------------------
(* The event hub.                                                          *)

Got(c) == written[c] \o frame[c] \o send[c]

HubTypes ==
    /\ members \subseteq Clients
    /\ send \in [Clients -> Seq(Nat)]
    /\ sendOpen \in [Clients -> BOOLEAN]
    /\ readPump \in [Clients -> {"none", "reading", "sending", "leaving",
                                 "closing", "done"}]
    /\ writePump \in [Clients -> {"none", "waiting", "frame", "closing",
                                  "done"}]
    /\ frame \in [Clients -> Seq(Nat)]
    /\ events \in Seq(Nat)
    /\ joinedAt \in [Clients -> Nat]
    /\ written \in [Clients -> Seq(Nat)]

(* A client has what was broadcast since it joined; all of it as a member. *)
ClientFollows(c) ==
    /\ IsRun(Got(c), events, joinedAt[c])
    /\ c \in members => Len(Got(c)) = Len(events) - joinedAt[c]

(* A connection that is not upgraded yet has no part in the hub, and a     *)
(* pump that waits holds nothing.                                          *)
ClientFits(c) ==
    /\ readPump[c] = "none" =>
          /\ c \notin members /\ writePump[c] = "none" /\ sendOpen[c]
          /\ send[c] = <<>> /\ frame[c] = <<>> /\ written[c] = <<>>
    /\ writePump[c] = "waiting" => frame[c] = <<>>

(* The channel of a member is open, so that no send or close fails.        *)
HubLives == ~hubDead /\ \A c \in members : sendOpen[c]

HubInv ==
    /\ HubTypes /\ HubLives
    /\ \A c \in Clients : ClientFits(c) /\ ClientFollows(c)

(* The sequences of a client are sequences.                                *)
LEMMA HubSequences ==
    ASSUME HubTypes, NEW c \in Clients
    PROVE  /\ written[c] \in Seq(Nat) /\ frame[c] \in Seq(Nat)
           /\ send[c] \in Seq(Nat) /\ written[c] \o frame[c] \in Seq(Nat)
           /\ Got(c) \in Seq(Nat) /\ joinedAt[c] \in Nat
<1>1. /\ written[c] \in Seq(Nat) /\ frame[c] \in Seq(Nat)
      /\ send[c] \in Seq(Nat) /\ joinedAt[c] \in Nat
  BY DEF HubTypes
<1>2. written[c] \o frame[c] \in Seq(Nat)
  BY <1>1, ConcatProperties, Zenon
<1>3. Got(c) \in Seq(Nat)
  BY <1>1, <1>2, ConcatProperties, Zenon DEF Got
<1> QED
  BY <1>1, <1>2, <1>3

(* Nobody is a client at first.                                            *)
LEMMA HubStarts ==
    ASSUME HubInit
    PROVE  HubInv
<1> USE DEF HubInit
<1>1. <<>> \in Seq(Nat) /\ Len(<<>>) = 0
  <2>1. <<>> \in Seq(Nat)
    BY EmptySeq, Zenon
  <2>2. Len(<<>>) = 0
    BY EmptySeq, Zenon
  <2> QED
    BY <2>1, <2>2
<1>2. HubTypes
  BY <1>1 DEF HubTypes
<1>3. HubLives
  BY DEF HubLives
<1>4. ASSUME NEW c \in Clients PROVE ClientFits(c) /\ ClientFollows(c)
  <2>1. ClientFits(c)
    BY DEF ClientFits
  <2>2. <<>> \o <<>> = <<>>
    BY <1>1, ConcatEmptySeq, Zenon
  <2>3. Got(c) = <<>>
    BY <2>2 DEF Got
  <2>4. IsRun(<<>>, events, joinedAt[c])
    <3>1. /\ events \in Seq(Nat) /\ joinedAt[c] \in Nat
          /\ joinedAt[c] <= Len(events)
      BY <1>1
    <3> HIDE DEF HubInit
    <3> QED
      BY <3>1, EmptyRun
  <2> QED
    BY <2>1, <2>3, <2>4 DEF ClientFollows
<1> QED
  BY <1>2, <1>3, <1>4 DEF HubInv

(* A step that moves no message and admits no member.                      *)
LEMMA NoMessageMoves ==
    ASSUME HubInv, NEW c \in Clients, members' \subseteq members,
           UNCHANGED <<send, frame, events, joinedAt, written>>
    PROVE  ClientFollows(c)'
BY DEF HubInv, ClientFollows, Got

(* The connection is registered with nothing broadcast to it yet.          *)
LEMMA RegisterKeeps ==
    ASSUME HubInv, NEW d \in Clients, Register(d)
    PROVE  HubInv'
<1> USE DEF Register
<1>1. HubTypes'
  BY LenProperties DEF HubInv, HubTypes
<1>2. HubLives'
  BY DEF HubInv, HubLives, ClientFits
<1>3. ASSUME NEW c \in Clients PROVE ClientFits(c)'
  BY <1>3 DEF HubInv, HubTypes, ClientFits
<1>4. ASSUME NEW c \in Clients, c # d PROVE ClientFollows(c)'
  <2>1. /\ (c \in members') = (c \in members)
        /\ joinedAt'[c] = joinedAt[c]
    BY <1>4 DEF HubInv, HubTypes
  <2> QED
    BY <2>1 DEF HubInv, ClientFollows, Got
<1>5. ClientFollows(d)'
  <2>1. events \in Seq(Nat) /\ Len(events) \in Nat
    BY LenProperties DEF HubInv, HubTypes
  <2>2. written[d] = <<>> /\ frame[d] = <<>> /\ send[d] = <<>>
    BY DEF HubInv, ClientFits
  <2>3. <<>> \o <<>> = <<>> /\ Len(<<>>) = 0
    <3>1. <<>> \in Seq(Nat)
      BY EmptySeq, Zenon
    <3>2. Len(<<>>) = 0
      BY EmptySeq, Zenon
    <3>3. <<>> \o <<>> = <<>>
      BY <3>1, ConcatEmptySeq, Zenon
    <3> QED
      BY <3>2, <3>3
  <2>4. Got(d)' = <<>>
    BY <2>2, <2>3 DEF Got
  <2>5. joinedAt'[d] = Len(events)
    BY DEF HubInv, HubTypes
  <2>6. IsRun(<<>>, events, Len(events))
    BY <2>1, EmptyRun
  <2> QED
    BY <2>1, <2>3, <2>4, <2>5, <2>6 DEF ClientFollows
<1> QED
  BY <1>1, <1>2, <1>3, <1>4, <1>5 DEF HubInv

(* The hub closes the channel of a client that it still has, once.         *)
LEMMA UnregisterKeeps ==
    ASSUME HubInv, NEW d \in Clients, Unregister(d)
    PROVE  HubInv'
<1> USE DEF Unregister
<1>1. HubTypes'
  BY DEF HubInv, HubTypes
<1>2. HubLives'
  BY DEF HubInv, HubTypes, HubLives
<1>3. ASSUME NEW c \in Clients PROVE ClientFits(c)'
  BY <1>3 DEF HubInv, HubTypes, ClientFits
<1>4. ASSUME NEW c \in Clients PROVE ClientFollows(c)'
  BY <1>4, NoMessageMoves
<1> QED
  BY <1>1, <1>2, <1>3, <1>4 DEF HubInv

(* A member with room is sent the message, one without is dropped.         *)
LEMMA HandToHubKeeps ==
    ASSUME HubInv, NEW d \in Clients, HandToHub(d)
    PROVE  HubInv'
<1> DEFINE m == Len(events) + 1
<1> USE DEF HandToHub, Broadcast
<1>1. events \in Seq(Nat) /\ Len(events) \in Nat /\ m \in Nat
  BY LenProperties DEF HubInv, HubTypes
<1>2. events' = Append(events, m)
  OBVIOUS
<1>3. \A c \in Clients : Append(send[c], m) \in Seq(Nat)
  BY <1>1, AppendProperties DEF HubInv, HubTypes
<1>4. HubTypes'
  <2>1. Append(events, m) \in Seq(Nat)
    BY <1>1, AppendProperties
  <2> QED
    BY <1>3, <2>1 DEF HubInv, HubTypes
<1>5. HubLives'
  BY DEF HubInv, HubTypes, HubLives
<1>6. ASSUME NEW c \in Clients PROVE ClientFits(c)'
  BY <1>6 DEF HubInv, HubTypes, ClientFits
<1>7. ASSUME NEW c \in Clients PROVE ClientFollows(c)'
  <2>1. Got(c) \in Seq(Nat) /\ joinedAt[c] \in Nat
    BY HubSequences DEF HubInv
  <2>2. IsRun(Got(c), events, joinedAt[c])
    BY DEF HubInv, ClientFollows
  <2> HIDE DEF m
  <2>3. CASE c \in members /\ ~Full(c)
    <3>1. Got(c)' = Append(Got(c), m)
      <4>1. send'[c] = Append(send[c], m)
        BY <2>3 DEF m
      <4>2. /\ written[c] \o frame[c] \in Seq(Nat) /\ send[c] \in Seq(Nat)
        BY HubSequences DEF HubInv
      <4>3. (written[c] \o frame[c]) \o Append(send[c], m)
               = Append((written[c] \o frame[c]) \o send[c], m)
        BY <1>1, <4>2, ConcatAppend
      <4> QED
        BY <4>1, <4>3 DEF Got
    <3>2. Len(Got(c)) = Len(events) - joinedAt[c]
      BY <2>3 DEF HubInv, ClientFollows
    <3>3. /\ IsRun(Append(Got(c), m), Append(events, m), joinedAt[c])
          /\ Len(Append(Got(c), m)) = Len(Append(events, m)) - joinedAt[c]
      BY <1>1, <2>1, <2>2, <3>2, RunGrows
    <3> QED
      BY <1>2, <3>1, <3>3 DEF ClientFollows
  <2>4. CASE ~(c \in members /\ ~Full(c))
    <3>1. Got(c)' = Got(c) /\ c \notin members'
      BY <2>4 DEF Got
    <3>2. IsRun(Got(c), Append(events, m), joinedAt[c])
      BY <1>1, <2>1, <2>2, RunOfLonger
    <3> QED
      BY <1>2, <3>1, <3>2 DEF ClientFollows
  <2> QED
    BY <2>3, <2>4
<1> QED
  BY <1>4, <1>5, <1>6, <1>7 DEF HubInv

(* The messages for a frame are the first of the channel.                  *)
LEMMA TakeMessagesKeeps ==
    ASSUME HubInv, NEW d \in Clients, TakeMessages(d)
    PROVE  HubInv'
<1> PICK n \in 1..Len(send[d]) :
        /\ frame' = [frame EXCEPT ![d] = SubSeq(send[d], 1, n)]
        /\ send' = [send EXCEPT ![d] = SubSeq(@, n + 1, Len(@))]
  BY DEF TakeMessages
<1> USE DEF TakeMessages
<1> DEFINE first == SubSeq(send[d], 1, n)
           rest == SubSeq(send[d], n + 1, Len(send[d]))
<1>1. send[d] \in Seq(Nat)
  BY DEF HubInv, HubTypes
<1>2. first \in Seq(Nat) /\ rest \in Seq(Nat)
  BY <1>1, PartsOfSequence
<1>5. HubTypes'
  BY <1>2 DEF HubInv, HubTypes
<1>6. HubLives'
  BY DEF HubInv, HubLives
<1>7. ASSUME NEW c \in Clients PROVE ClientFits(c)'
  BY <1>7 DEF HubInv, HubTypes, ClientFits
<1>8. ASSUME NEW c \in Clients PROVE ClientFollows(c)'
  <2>1. CASE c # d
    <3>1. frame'[c] = frame[c] /\ send'[c] = send[c]
      BY <2>1 DEF HubInv, HubTypes
    <3> QED
      BY <3>1 DEF HubInv, ClientFollows, Got
  <2>2. CASE c = d
    <3>1. frame[d] = <<>>
      BY DEF HubInv, ClientFits
    <3>2. written[d] \in Seq(Nat)
      BY DEF HubInv, HubTypes
    <3>3. Got(d) = written[d] \o send[d]
      BY <3>1, <3>2, ConcatEmptySeq DEF Got
    <3>4. Got(d)' = (written[d] \o first) \o rest
      BY DEF Got, HubInv, HubTypes
    <3>5. (written[d] \o first) \o rest = written[d] \o send[d]
      BY <1>1, <3>2, PartsOfSequence
    <3>6. Got(d)' = Got(d)
      BY <3>3, <3>4, <3>5
    <3> QED
      BY <2>2, <3>6 DEF HubInv, ClientFollows
  <2> QED
    BY <2>1, <2>2
<1> QED
  BY <1>5, <1>6, <1>7, <1>8 DEF HubInv

(* A frame is written as it was taken.                                     *)
LEMMA WriteFrameKeeps ==
    ASSUME HubInv, NEW d \in Clients, WriteFrame(d)
    PROVE  HubInv'
<1> USE DEF WriteFrame
<1>1. /\ written[d] \o frame[d] \in Seq(Nat)
  BY HubSequences DEF HubInv
<1>2. <<>> \in Seq(Nat)
  BY EmptySeq, Zenon
<1>3. HubTypes'
  BY <1>1, <1>2 DEF HubInv, HubTypes
<1>4. HubLives'
  BY DEF HubInv, HubLives
<1>5. ASSUME NEW c \in Clients PROVE ClientFits(c)'
  BY <1>5 DEF HubInv, HubTypes, ClientFits
<1>6. ASSUME NEW c \in Clients PROVE ClientFollows(c)'
  <2>1. CASE c # d
    <3>1. frame'[c] = frame[c] /\ written'[c] = written[c]
      BY <2>1 DEF HubInv, HubTypes
    <3> QED
      BY <3>1 DEF HubInv, ClientFollows, Got
  <2>2. CASE c = d
    <3>1. Got(d)' = ((written[d] \o frame[d]) \o <<>>) \o send[d]
      BY DEF Got, HubInv, HubTypes
    <3>2. (written[d] \o frame[d]) \o <<>> = written[d] \o frame[d]
      BY <1>1, ConcatEmptySeq
    <3>3. Got(d)' = Got(d)
      BY <3>1, <3>2 DEF Got
    <3> QED
      BY <2>2, <3>3 DEF HubInv, ClientFollows
  <2> QED
    BY <2>1, <2>2
<1> QED
  BY <1>3, <1>4, <1>5, <1>6 DEF HubInv

(* A step of a pump alone: neither the hub nor a message is concerned.     *)
LEMMA PumpKeeps ==
    ASSUME HubInv, NEW d \in Clients,
           \/ ReadMessage(d) \/ ReadFails(d) \/ ReadPumpCloses(d)
           \/ FrameFails(d) \/ SendClosed(d) \/ WritePumpCloses(d)
    PROVE  HubInv'
<1> USE DEF ReadMessage, ReadFails, ReadPumpCloses, FrameFails, SendClosed,
            WritePumpCloses
<1>1. HubTypes'
  BY DEF HubInv, HubTypes
<1>2. HubLives'
  BY DEF HubInv, HubLives
<1>3. ASSUME NEW c \in Clients PROVE ClientFits(c)'
  BY <1>3 DEF HubInv, HubTypes, ClientFits
<1>4. ASSUME NEW c \in Clients PROVE ClientFollows(c)'
  BY <1>4, NoMessageMoves
<1> QED
  BY <1>1, <1>2, <1>3, <1>4 DEF HubInv

(* Every step keeps the invariant of the hub.                              *)
LEMMA HubSteps == HubInv /\ [HubNext]_hubVars => HubInv'
<1> SUFFICES ASSUME HubInv, [HubNext]_hubVars PROVE HubInv'
  OBVIOUS
<1>1. CASE UNCHANGED hubVars
  BY <1>1 DEF hubVars, HubInv, HubTypes, HubLives, ClientFits, ClientFollows,
              Got
<1>2. ASSUME NEW c \in Clients, Register(c) PROVE HubInv'
  BY <1>2, RegisterKeeps
<1>3. ASSUME NEW c \in Clients, HubStep(c) PROVE HubInv'
  <2>1. CASE Unregister(c)
    BY <2>1, UnregisterKeeps
  <2>2. CASE HandToHub(c)
    BY <2>2, HandToHubKeeps
  <2>3. CASE TakeMessages(c)
    BY <2>3, TakeMessagesKeeps
  <2>4. CASE WriteFrame(c)
    BY <2>4, WriteFrameKeeps
  <2>5. CASE \/ ReadFails(c) \/ ReadPumpCloses(c) \/ FrameFails(c)
             \/ SendClosed(c) \/ WritePumpCloses(c)
    BY <2>5, PumpKeeps
  <2> QED
    BY <1>3, <2>1, <2>2, <2>3, <2>4, <2>5 DEF HubStep
<1>4. ASSUME NEW c \in Clients, ReadMessage(c) \/ ReadFails(c) \/ FrameFails(c)
      PROVE  HubInv'
  BY <1>4, PumpKeeps
<1> QED
  BY <1>1, <1>2, <1>3, <1>4 DEF HubNext

(* The invariant says of a client's messages what MissesNothing says.      *)
LEMMA FollowsMissesNothing == HubInv => MissesNothing
<1> SUFFICES ASSUME HubInv PROVE MissesNothing
  OBVIOUS
<1> QED
  BY DEF HubInv, ClientFollows, IsRun, Got, MissesNothing

(* A client is sent every message broadcast since it was registered, once  *)
(* and in order, while Hub.run has it in its map: whatever the pumps and   *)
(* the hub do between the messages, a client that cannot keep up is        *)
(* dropped rather than sent a stream with a gap.                           *)
THEOREM ClientsMissNothing == HubSpec => []MissesNothing
<1>1. HubInit => HubInv
  BY HubStarts
<1> QED
  BY <1>1, HubSteps, FollowsMissesNothing, PTL DEF HubSpec

(* Hub.run closes no channel twice and sends on none that is closed, which *)
(* would panic and end the program.                                        *)
THEOREM HubNeverPanics == HubSpec => []~hubDead
<1>1. HubInit => HubInv
  BY HubStarts
<1>2. HubInv => ~hubDead
  BY DEF HubInv, HubLives
<1> QED
  BY <1>1, <1>2, HubSteps, PTL DEF HubSpec

-----------------------------------------------------------------------------
(* The feed of the log.                                                    *)

Held(v) == IF v \in emitTo THEN <<emitting>> ELSE <<>>
Seen(v) == shown[v] \o out[v] \o logs[v] \o buffer[v] \o Held(v)

FeedTypes ==
    /\ emitting \in Nat
    /\ emitTo \subseteq Viewers /\ listeners \subseteq Viewers
    /\ view \in [Viewers -> {"none", "ticking", "writing", "leaving",
                             "done"}]
    /\ buffer \in [Viewers -> Seq(Nat)]
    /\ logs \in [Viewers -> Seq(Nat)]
    /\ out \in [Viewers -> Seq(Nat)]
    /\ logged \in Seq(Nat)
    /\ subAt \in [Viewers -> Nat]
    /\ shown \in [Viewers -> Seq(Nat)]

(* A viewer has the events since it subscribed; all of them as a listener. *)
ViewerFollows(v) ==
    /\ IsRun(Seen(v), logged, subAt[v])
    /\ v \in listeners => Len(Seen(v)) = Len(logged) - subAt[v]

(* Before it subscribes a viewer has nothing, and no list is being written *)
(* while its ticker waits.                                                 *)
ViewerFits(v) ==
    /\ view[v] = "none" =>
          /\ v \notin listeners
          /\ buffer[v] = <<>> /\ logs[v] = <<>> /\ shown[v] = <<>>
    /\ view[v] \in {"none", "ticking"} => out[v] = <<>>

(* Whoever process() still has to give its event to is subscribed: nobody  *)
(* leaves while it holds one.                                              *)
HoldsOne == emitTo \subseteq listeners /\ (emitting = 0 => emitTo = {})

FeedInv ==
    /\ FeedTypes /\ HoldsOne
    /\ \A v \in Viewers : ViewerFits(v) /\ ViewerFollows(v)

(* The sequences of a viewer are sequences.                                *)
LEMMA FeedSequences ==
    ASSUME FeedTypes, NEW v \in Viewers
    PROVE  /\ shown[v] \in Seq(Nat) /\ out[v] \in Seq(Nat)
           /\ logs[v] \in Seq(Nat) /\ buffer[v] \in Seq(Nat)
           /\ Held(v) \in Seq(Nat) /\ subAt[v] \in Nat
           /\ shown[v] \o out[v] \in Seq(Nat)
           /\ shown[v] \o out[v] \o logs[v] \in Seq(Nat)
           /\ shown[v] \o out[v] \o logs[v] \o buffer[v] \in Seq(Nat)
           /\ Seen(v) \in Seq(Nat)
<1>1. /\ shown[v] \in Seq(Nat) /\ out[v] \in Seq(Nat)
      /\ logs[v] \in Seq(Nat) /\ buffer[v] \in Seq(Nat)
      /\ subAt[v] \in Nat /\ emitting \in Nat
  BY DEF FeedTypes
<1>2. <<>> \in Seq(Nat) /\ <<emitting>> \in Seq(Nat)
  <2>1. <<>> \in Seq(Nat)
    BY EmptySeq, Zenon
  <2>2. <<emitting>> \in Seq(Nat)
    BY <1>1
  <2> QED
    BY <2>1, <2>2
<1>3. Held(v) \in Seq(Nat)
  BY <1>2 DEF Held
<1>4. shown[v] \o out[v] \in Seq(Nat)
  BY <1>1, ConcatProperties, Zenon
<1>5. shown[v] \o out[v] \o logs[v] \in Seq(Nat)
  BY <1>1, <1>4, ConcatProperties, Zenon
<1>6. shown[v] \o out[v] \o logs[v] \o buffer[v] \in Seq(Nat)
  BY <1>1, <1>5, ConcatProperties, Zenon
<1>7. Seen(v) \in Seq(Nat)
  BY <1>3, <1>6, ConcatProperties, Zenon DEF Seen
<1> QED
  BY <1>1, <1>3, <1>4, <1>5, <1>6, <1>7

(* Nobody views the log at first.                                          *)
LEMMA FeedStarts ==
    ASSUME FeedInit
    PROVE  FeedInv
<1> USE DEF FeedInit
<1>1. <<>> \in Seq(Nat)
  BY EmptySeq, Zenon
<1>2. Len(<<>>) = 0
  BY EmptySeq, Zenon
<1>3. FeedTypes
  BY <1>1 DEF FeedTypes
<1>4. HoldsOne
  BY DEF HoldsOne
<1>5. ASSUME NEW v \in Viewers PROVE ViewerFits(v) /\ ViewerFollows(v)
  <2>1. ViewerFits(v)
    BY DEF ViewerFits
  <2>2. <<>> \o <<>> = <<>>
    BY <1>1, ConcatEmptySeq, Zenon
  <2>3. Seen(v) = <<>>
    BY <2>2 DEF Seen, Held
  <2>4. IsRun(<<>>, logged, subAt[v])
    <3>1. logged \in Seq(Nat) /\ subAt[v] \in Nat /\ subAt[v] <= Len(logged)
      BY <1>1, <1>2
    <3> HIDE DEF FeedInit
    <3> QED
      BY <3>1, EmptyRun
  <2> QED
    BY <2>1, <2>3, <2>4 DEF ViewerFollows
<1> QED
  BY <1>3, <1>4, <1>5 DEF FeedInv

(* A step that moves no event and admits no viewer.                        *)
LEMMA NoEventMoves ==
    ASSUME FeedInv, NEW v \in Viewers, listeners' \subseteq listeners,
           Seen(v)' = Seen(v), logged' = logged, subAt'[v] = subAt[v]
    PROVE  ViewerFollows(v)'
BY DEF FeedInv, ViewerFollows

(* process() takes an event to give to all that listen.                    *)
LEMMA TakeKeeps ==
    ASSUME FeedInv, NEW l \in Loggers, Take(l)
    PROVE  FeedInv'
<1> USE DEF Take
<1> DEFINE m == Len(logged) + 1
<1>1. logged \in Seq(Nat) /\ Len(logged) \in Nat /\ m \in Nat /\ m # 0
  BY LenProperties DEF FeedInv, FeedTypes
<1>2. logged' = Append(logged, m)
  OBVIOUS
<1>3. FeedTypes'
  <2>1. Append(logged, m) \in Seq(Nat)
    BY <1>1, AppendProperties
  <2> QED
    BY <1>1, <2>1 DEF FeedInv, FeedTypes
<1>4. HoldsOne'
  BY <1>1 DEF FeedInv, FeedTypes, HoldsOne
<1>5. ASSUME NEW v \in Viewers PROVE ViewerFits(v)'
  BY <1>5 DEF FeedInv, FeedTypes, ViewerFits
<1>6. ASSUME NEW v \in Viewers PROVE ViewerFollows(v)'
  <2> DEFINE before == shown[v] \o out[v] \o logs[v] \o buffer[v]
  <2>1. before \in Seq(Nat) /\ Seen(v) \in Seq(Nat) /\ subAt[v] \in Nat
    BY FeedSequences DEF FeedInv
  <2>2. Held(v) = <<>>
    BY DEF FeedInv, HoldsOne, Held
  <2>3. Seen(v) = before
    BY <2>1, <2>2, ConcatEmptySeq DEF Seen
  <2>4. IsRun(Seen(v), logged, subAt[v])
    BY DEF FeedInv, ViewerFollows
  <2>5. Seen(v)' = before \o Held(v)'
    BY DEF Seen
  <2> HIDE DEF m, before
  <2>6. CASE v \in listeners
    <3>1. Held(v)' = <<m>>
      BY <2>6 DEF Held, m
    <3>2. Seen(v)' = Append(Seen(v), m)
      BY <1>1, <2>1, <2>3, <2>5, <3>1, AppendIsConcat
    <3>3. Len(Seen(v)) = Len(logged) - subAt[v]
      BY <2>6 DEF FeedInv, ViewerFollows
    <3>4. /\ IsRun(Append(Seen(v), m), Append(logged, m), subAt[v])
          /\ Len(Append(Seen(v), m)) = Len(Append(logged, m)) - subAt[v]
      BY <1>1, <2>1, <2>4, <3>3, RunGrows
    <3> QED
      BY <1>2, <3>2, <3>4 DEF ViewerFollows
  <2>7. CASE v \notin listeners
    <3>1. Held(v)' = <<>>
      BY <2>7 DEF Held
    <3>2. Seen(v)' = Seen(v)
      BY <2>1, <2>3, <2>5, <3>1, ConcatEmptySeq
    <3>3. IsRun(Seen(v), Append(logged, m), subAt[v])
      BY <1>1, <2>1, <2>4, RunOfLonger
    <3> QED
      BY <1>2, <2>7, <3>2, <3>3 DEF ViewerFollows
  <2> QED
    BY <2>6, <2>7
<1> QED
  BY <1>3, <1>4, <1>5, <1>6 DEF FeedInv

(* The event goes from process() to the end of a buffer.                   *)
LEMMA EmitKeeps ==
    ASSUME FeedInv, NEW w \in Viewers, Emit(w)
    PROVE  FeedInv'
<1> USE DEF Emit
<1>1. emitting \in Nat
  BY DEF FeedInv, FeedTypes
<1>2. Append(buffer[w], emitting) \in Seq(Nat)
  BY <1>1, AppendProperties DEF FeedInv, FeedTypes
<1>3. FeedTypes'
  BY <1>2 DEF FeedInv, FeedTypes
<1>4. HoldsOne'
  BY DEF FeedInv, HoldsOne
<1>5. ASSUME NEW v \in Viewers PROVE ViewerFits(v)'
  <2>1. view[w] # "none"
    BY DEF FeedInv, HoldsOne, ViewerFits
  <2> QED
    BY <1>5, <2>1 DEF FeedInv, FeedTypes, ViewerFits
<1>6. ASSUME NEW v \in Viewers, v # w PROVE ViewerFollows(v)'
  <2>1. buffer'[v] = buffer[v] /\ (v \in emitTo') = (v \in emitTo)
    BY <1>6 DEF FeedInv, FeedTypes
  <2>2. Seen(v)' = Seen(v)
    BY <2>1 DEF Seen, Held
  <2> QED
    BY <2>2, NoEventMoves
<1>7. ViewerFollows(w)'
  <2> DEFINE before == shown[w] \o out[w] \o logs[w]
  <2>1. before \in Seq(Nat) /\ buffer[w] \in Seq(Nat)
        /\ before \o buffer[w] \in Seq(Nat)
    BY FeedSequences DEF FeedInv
  <2>2. Seen(w) = (before \o buffer[w]) \o <<emitting>>
    BY DEF Seen, Held
  <2>3. Seen(w)' = (before \o Append(buffer[w], emitting)) \o <<>>
    BY DEF Seen, Held, FeedInv, FeedTypes
  <2> HIDE DEF before
  <2>4. before \o Append(buffer[w], emitting)
           = Append(before \o buffer[w], emitting)
    BY <1>1, <2>1, ConcatAppend
  <2>5. Append(before \o buffer[w], emitting)
           = (before \o buffer[w]) \o <<emitting>>
    BY <1>1, <2>1, AppendIsConcat
  <2>6. Append(before \o buffer[w], emitting) \in Seq(Nat)
    BY <1>1, <2>1, AppendProperties
  <2>7. Append(before \o buffer[w], emitting) \o <<>>
           = Append(before \o buffer[w], emitting)
    BY <2>6, ConcatEmptySeq
  <2>8. Seen(w)' = Seen(w)
    BY <2>2, <2>3, <2>4, <2>5, <2>7
  <2> QED
    BY <2>8, NoEventMoves
<1> QED
  BY <1>3, <1>4, <1>5, <1>6, <1>7 DEF FeedInv

(* process() is done with its event.                                       *)
LEMMA EmitDoneKeeps ==
    ASSUME FeedInv, EmitDone
    PROVE  FeedInv'
<1> USE DEF EmitDone
<1>1. FeedTypes'
  BY DEF FeedInv, FeedTypes
<1>2. HoldsOne'
  BY DEF FeedInv, HoldsOne
<1>3. ASSUME NEW v \in Viewers PROVE ViewerFits(v)'
  BY <1>3 DEF FeedInv, ViewerFits
<1>4. ASSUME NEW v \in Viewers PROVE ViewerFollows(v)'
  <2>1. Seen(v)' = Seen(v)
    BY DEF Seen, Held
  <2> QED
    BY <2>1, NoEventMoves
<1> QED
  BY <1>1, <1>2, <1>3, <1>4 DEF FeedInv

(* A viewer subscribes between two events, with all of them to come.       *)
LEMMA SubscribeKeeps ==
    ASSUME FeedInv, NEW w \in Viewers, Subscribe(w)
    PROVE  FeedInv'
<1> USE DEF Subscribe
<1>1. logged \in Seq(Nat) /\ Len(logged) \in Nat
  BY LenProperties DEF FeedInv, FeedTypes
<1>2. FeedTypes'
  BY <1>1 DEF FeedInv, FeedTypes
<1>3. HoldsOne'
  BY DEF FeedInv, HoldsOne
<1>4. ASSUME NEW v \in Viewers PROVE ViewerFits(v)'
  BY <1>4 DEF FeedInv, FeedTypes, ViewerFits
<1>5. ASSUME NEW v \in Viewers, v # w PROVE ViewerFollows(v)'
  <2>1. /\ subAt'[v] = subAt[v]
        /\ (v \in listeners') = (v \in listeners)
    BY <1>5 DEF FeedInv, FeedTypes
  <2>2. Seen(v)' = Seen(v)
    BY DEF Seen, Held
  <2> QED
    BY <2>1, <2>2 DEF FeedInv, ViewerFollows
<1>6. ViewerFollows(w)'
  <2>1. /\ shown[w] = <<>> /\ out[w] = <<>> /\ logs[w] = <<>>
        /\ buffer[w] = <<>>
    BY DEF FeedInv, ViewerFits
  <2>2. Held(w)' = <<>>
    BY DEF FeedInv, HoldsOne, Held
  <2>3. <<>> \in Seq(Nat)
    BY EmptySeq, Zenon
  <2>4. Len(<<>>) = 0
    BY EmptySeq, Zenon
  <2>5. <<>> \o <<>> = <<>>
    BY <2>3, ConcatEmptySeq, Zenon
  <2>6. Seen(w)' = <<>>
    BY <2>1, <2>2, <2>5 DEF Seen
  <2>7. subAt'[w] = Len(logged)
    BY DEF FeedInv, FeedTypes
  <2>8. IsRun(<<>>, logged, Len(logged))
    BY <1>1, EmptyRun
  <2> QED
    BY <1>1, <2>4, <2>6, <2>7, <2>8 DEF ViewerFollows
<1> QED
  BY <1>2, <1>3, <1>4, <1>5, <1>6 DEF FeedInv

(* The goroutine moves the oldest event of its buffer to the list.         *)
LEMMA MoveKeeps ==
    ASSUME FeedInv, NEW w \in Viewers, Move(w)
    PROVE  FeedInv'
<1> USE DEF Move
<1>1. /\ logs[w] \in Seq(Nat) /\ buffer[w] \in Seq(Nat)
      /\ shown[w] \o out[w] \in Seq(Nat)
  BY FeedSequences DEF FeedInv
<1>2. /\ Head(buffer[w]) \in Nat /\ Tail(buffer[w]) \in Seq(Nat)
  BY <1>1, HeadTailProperties
<1>3. Append(logs[w], Head(buffer[w])) \in Seq(Nat)
  BY <1>1, <1>2, AppendProperties
<1>4. FeedTypes'
  BY <1>2, <1>3 DEF FeedInv, FeedTypes
<1>5. HoldsOne'
  BY DEF FeedInv, HoldsOne
<1>6. view[w] # "none"
  BY DEF FeedInv, ViewerFits
<1>7. ASSUME NEW v \in Viewers PROVE ViewerFits(v)'
  BY <1>6, <1>7 DEF FeedInv, FeedTypes, ViewerFits
<1>8. ASSUME NEW v \in Viewers, v # w PROVE ViewerFollows(v)'
  <2>1. buffer'[v] = buffer[v] /\ logs'[v] = logs[v]
    BY <1>8 DEF FeedInv, FeedTypes
  <2>2. Seen(v)' = Seen(v)
    BY <2>1 DEF Seen, Held
  <2> QED
    BY <2>2, NoEventMoves
<1>9. ViewerFollows(w)'
  <2> DEFINE before == shown[w] \o out[w]
  <2>1. before \in Seq(Nat)
    BY <1>1
  <2>2. Seen(w)' = ((before \o Append(logs[w], Head(buffer[w])))
                       \o Tail(buffer[w])) \o Held(w)
    BY DEF Seen, Held, FeedInv, FeedTypes
  <2>3. Seen(w) = ((before \o logs[w]) \o buffer[w]) \o Held(w)
    BY DEF Seen
  <2> HIDE DEF before, Move
  <2>4. before \o Append(logs[w], Head(buffer[w]))
           = Append(before \o logs[w], Head(buffer[w]))
    BY <1>1, <1>2, <2>1, ConcatAppend
  <2>5. before \o logs[w] \in Seq(Nat)
    BY <1>1, <2>1, ConcatProperties
  <2>6. Append(before \o logs[w], Head(buffer[w])) \o Tail(buffer[w])
           = (before \o logs[w]) \o buffer[w]
    BY <1>1, <2>5, HeadMoves DEF Move
  <2>7. Seen(w)' = Seen(w)
    BY <2>2, <2>3, <2>4, <2>6
  <2> QED
    BY <2>7, NoEventMoves DEF Move
<1> QED
  BY <1>4, <1>5, <1>7, <1>8, <1>9 DEF FeedInv

(* The list is taken to be written, and a new one is started.              *)
LEMMA TickKeeps ==
    ASSUME FeedInv, NEW w \in Viewers, Tick(w)
    PROVE  FeedInv'
<1> USE DEF Tick
<1>1. <<>> \in Seq(Nat)
  BY EmptySeq, Zenon
<1>2. FeedTypes'
  BY <1>1 DEF FeedInv, FeedTypes
<1>3. HoldsOne'
  BY DEF FeedInv, HoldsOne
<1>4. ASSUME NEW v \in Viewers PROVE ViewerFits(v)'
  BY <1>4 DEF FeedInv, FeedTypes, ViewerFits
<1>5. ASSUME NEW v \in Viewers, v # w PROVE ViewerFollows(v)'
  <2>1. out'[v] = out[v] /\ logs'[v] = logs[v]
    BY <1>5 DEF FeedInv, FeedTypes
  <2>2. Seen(v)' = Seen(v)
    BY <2>1 DEF Seen, Held
  <2> QED
    BY <2>2, NoEventMoves
<1>6. ViewerFollows(w)'
  <2>1. /\ shown[w] \in Seq(Nat) /\ logs[w] \in Seq(Nat)
        /\ shown[w] \o logs[w] \in Seq(Nat)
    BY FeedSequences, ConcatProperties DEF FeedInv
  <2>2. out[w] = <<>>
    BY DEF FeedInv, ViewerFits
  <2>3. Seen(w) = ((shown[w] \o <<>>) \o logs[w]) \o buffer[w] \o Held(w)
    BY <2>2 DEF Seen
  <2>4. Seen(w)' = ((shown[w] \o logs[w]) \o <<>>) \o buffer[w] \o Held(w)
    BY DEF Seen, Held, FeedInv, FeedTypes
  <2>5. /\ shown[w] \o <<>> = shown[w]
        /\ (shown[w] \o logs[w]) \o <<>> = shown[w] \o logs[w]
    BY <2>1, ConcatEmptySeq
  <2>6. Seen(w)' = Seen(w)
    BY <2>3, <2>4, <2>5
  <2> QED
    BY <2>6, NoEventMoves
<1> QED
  BY <1>2, <1>3, <1>4, <1>5, <1>6 DEF FeedInv

(* What is written was shown as it was listed.                             *)
LEMMA WrittenKeeps ==
    ASSUME FeedInv, NEW w \in Viewers, Written(w)
    PROVE  FeedInv'
<1> USE DEF Written
<1>1. <<>> \in Seq(Nat)
  BY EmptySeq, Zenon
<1>2. shown[w] \o out[w] \in Seq(Nat)
  BY FeedSequences DEF FeedInv
<1>3. FeedTypes'
  BY <1>1, <1>2 DEF FeedInv, FeedTypes
<1>4. HoldsOne'
  BY DEF FeedInv, HoldsOne
<1>5. ASSUME NEW v \in Viewers PROVE ViewerFits(v)'
  BY <1>5 DEF FeedInv, FeedTypes, ViewerFits
<1>6. ASSUME NEW v \in Viewers PROVE ViewerFollows(v)'
  <2>1. CASE v # w
    <3>1. out'[v] = out[v] /\ shown'[v] = shown[v]
      BY <2>1 DEF FeedInv, FeedTypes
    <3>2. Seen(v)' = Seen(v)
      BY <3>1 DEF Seen, Held
    <3> QED
      BY <3>2, NoEventMoves
  <2>2. CASE v = w
    <3>1. Seen(w)' = ((shown[w] \o out[w]) \o <<>>) \o logs[w] \o buffer[w]
                        \o Held(w)
      BY DEF Seen, Held, FeedInv, FeedTypes
    <3>2. (shown[w] \o out[w]) \o <<>> = shown[w] \o out[w]
      BY <1>2, ConcatEmptySeq
    <3>3. Seen(w)' = Seen(w)
      BY <3>1, <3>2 DEF Seen
    <3> QED
      BY <2>2, <3>3, NoEventMoves
  <2> QED
    BY <2>1, <2>2
<1> QED
  BY <1>3, <1>4, <1>5, <1>6 DEF FeedInv

(* A viewer leaves between two events.                                     *)
LEMMA UnSubscribeKeeps ==
    ASSUME FeedInv, NEW w \in Viewers, UnSubscribe(w)
    PROVE  FeedInv'
<1> USE DEF UnSubscribe
<1>1. FeedTypes'
  BY DEF FeedInv, FeedTypes
<1>2. HoldsOne'
  BY DEF FeedInv, HoldsOne
<1>3. ASSUME NEW v \in Viewers PROVE ViewerFits(v)'
  BY <1>3 DEF FeedInv, FeedTypes, ViewerFits
<1>4. ASSUME NEW v \in Viewers PROVE ViewerFollows(v)'
  <2>1. Seen(v)' = Seen(v)
    BY DEF Seen, Held
  <2> QED
    BY <2>1, NoEventMoves
<1> QED
  BY <1>1, <1>2, <1>3, <1>4 DEF FeedInv

(* A step that neither moves an event nor changes who listens.             *)
LEMMA CallsKeep ==
    ASSUME FeedInv,
           \/ \E l \in Loggers : Log(l) \/ PrintEvent(l)
           \/ \E w \in Viewers : MoverEnds(w) \/ ViewFails(w)
    PROVE  FeedInv'
<1> USE DEF Log, PrintEvent, MoverEnds, ViewFails
<1>1. FeedTypes'
  BY DEF FeedInv, FeedTypes
<1>2. HoldsOne'
  BY DEF FeedInv, HoldsOne
<1>3. ASSUME NEW v \in Viewers PROVE ViewerFits(v)'
  BY <1>3 DEF FeedInv, FeedTypes, ViewerFits
<1>4. ASSUME NEW v \in Viewers PROVE ViewerFollows(v)'
  <2>1. Seen(v)' = Seen(v)
    BY DEF Seen, Held
  <2> QED
    BY <2>1, NoEventMoves
<1> QED
  BY <1>1, <1>2, <1>3, <1>4 DEF FeedInv

(* Every step keeps the invariant of the feed.                             *)
LEMMA FeedSteps == FeedInv /\ [FeedNext]_feedVars => FeedInv'
<1> SUFFICES ASSUME FeedInv, [FeedNext]_feedVars PROVE FeedInv'
  OBVIOUS
<1>1. CASE UNCHANGED feedVars
  BY <1>1 DEF feedVars, FeedInv, FeedTypes, HoldsOne, ViewerFits,
              ViewerFollows, Seen, Held
<1>2. ASSUME NEW l \in Loggers, Log(l) \/ LoggerStep(l) PROVE FeedInv'
  BY <1>2, TakeKeeps, CallsKeep DEF LoggerStep
<1>3. CASE EmitDone
  BY <1>3, EmitDoneKeeps
<1>4. ASSUME NEW v \in Viewers,
             \/ Subscribe(v) \/ Tick(v) \/ ViewFails(v) \/ Move(v)
             \/ UnSubscribe(v) \/ ViewerStep(v) \/ Written(v)
      PROVE  FeedInv'
  <2>1. CASE Subscribe(v) \/ UnSubscribe(v)
    BY <2>1, SubscribeKeeps, UnSubscribeKeeps
  <2>2. CASE Tick(v) \/ Move(v)
    BY <2>2, TickKeeps, MoveKeeps
  <2>3. CASE ViewFails(v)
    BY <2>3, CallsKeep
  <2>4. CASE ViewerStep(v)
    BY <2>4, EmitKeeps, CallsKeep DEF ViewerStep
  <2>5. CASE Written(v)
    BY <2>5, WrittenKeeps
  <2> QED
    BY <1>4, <2>1, <2>2, <2>3, <2>4, <2>5
<1> QED
  BY <1>1, <1>2, <1>3, <1>4 DEF FeedNext

(* The invariant says of a viewer's events what ViewersMissNothing says.   *)
LEMMA FollowsShowsAll == FeedInv => ViewersMissNothing
BY DEF FeedInv, ViewerFollows, IsRun, Seen, Held, ViewersMissNothing

(* A viewer is shown the events logged since it subscribed, each once and  *)
(* in order, whichever of them process(), the buffer, the list or a write  *)
(* holds, and whoever subscribes or leaves meanwhile.                      *)
THEOREM FeedMissesNothing == FeedSpec => []ViewersMissNothing
<1>1. FeedInit => FeedInv
  BY FeedStarts
<1> QED
  BY <1>1, FeedSteps, FollowsShowsAll, PTL DEF FeedSpec
===============================================================================
