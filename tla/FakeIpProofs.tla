----------------------------- MODULE FakeIpProofs -----------------------------
(***************************************************************************)
(* What holds of FakeIp for any hosts and any pool: the two entries of a   *)
(* host are neighbours whatever the cache evicts, so the directions agree, *)
(* an address stays with its host, and the pool is a map without clashes.  *)
(***************************************************************************)
EXTENDS FakeIp, FiniteSetTheorems, WellFoundedInduction, TLAPS

Entry == [key : Hosts, val : Nat] \cup [key : Nat, val : Hosts]

Distinct(c) == \A i, j \in 1..Len(c) : c[i].key = c[j].key => i = j

Paired(c) ==
    /\ Len(c) % 2 = 0
    /\ \A i \in 1..Len(c) : i % 2 = 1 =>
        c[i].key = c[i + 1].val /\ c[i].val = c[i + 1].key

List(c) == c \in Seq(Entry) /\ Distinct(c)
Good(c) == List(c) /\ Paired(c)

(* The cache has an entry for k with value v.                              *)
Maps(c, k, v) == \E i \in 1..Len(c) : c[i].key = k /\ c[i].val = v

PoolInv ==
    /\ shape \in Shapes /\ offset \in Nat
    /\ Good(cache) /\ Len(cache) <= 2 * Size

-----------------------------------------------------------------------------
(* The cache as a list.                                                    *)

(* An entry is one direction of a host.                                    *)
LEMMA EntryFacts ==
    ASSUME NEW e \in Entry
    PROVE  /\ \/ e.key \in Hosts /\ e.val \in Nat
              \/ e.key \in Nat /\ e.val \in Hosts
           /\ e.key # e.val
           /\ e = [key |-> e.key, val |-> e.val]
<1>1. CASE e \in [key : Hosts, val : Nat]
  BY <1>1, HostAssumption
<1>2. CASE e \in [key : Nat, val : Hosts]
  BY <1>2, HostAssumption
<1> QED
  BY <1>1, <1>2 DEF Entry

(* A key has one place.                                                    *)
LEMMA PlaceFacts ==
    ASSUME NEW c, List(c), NEW i \in 1..Len(c)
    PROVE  Exist(c, c[i].key) /\ Place(c, c[i].key) = i
  BY DEF List, Distinct, Exist, Place

(* What Exist and Value say, in terms of entries.                          *)
LEMMA ValueFacts ==
    ASSUME NEW c, List(c), NEW k
    PROVE  /\ Exist(c, k) <=> \E v : Maps(c, k, v)
           /\ \A v : Maps(c, k, v) <=> Exist(c, k) /\ Value(c, k) = v
<1>1. \A i \in 1..Len(c) : c[i].key = k => Exist(c, k) /\ Place(c, k) = i
  BY PlaceFacts
<1>2. Exist(c, k) => \E i \in 1..Len(c) : c[i].key = k
  BY DEF Exist
<1> QED
  BY <1>1, <1>2 DEF Maps, Value

(* Neighbours point at each other, so every entry has its counterpart.     *)
LEMMA Symmetric ==
    ASSUME NEW c, Good(c), NEW k, NEW v, Maps(c, k, v)
    PROVE  Maps(c, v, k)
<1>1. PICK i \in 1..Len(c) : c[i].key = k /\ c[i].val = v
  BY DEF Maps
<1>2. Len(c) \in Nat /\ i \in Nat
  BY DEF Good, List
<1>3. CASE i % 2 = 1
  <2>1. i + 1 \in 1..Len(c)
    BY <1>2, <1>3 DEF Good, List, Paired
  <2> QED
    BY <1>1, <1>3, <2>1 DEF Good, List, Paired, Maps
<1>4. CASE i % 2 # 1
  <2>1. (i - 1) \in 1..Len(c) /\ (i - 1) % 2 = 1 /\ (i - 1) + 1 = i
    BY <1>2, <1>4
  <2> QED
    BY <1>1, <2>1 DEF Good, List, Paired, Maps
<1> QED
  BY <1>3, <1>4

(* The list without the entry at p.                                        *)
Drop(c, p) == [i \in 1..(Len(c) - 1) |-> IF i < p THEN c[i] ELSE c[i + 1]]

(* The list without the pair at p.                                         *)
Cut(c, p) == [i \in 1..(Len(c) - 2) |-> IF i < p THEN c[i] ELSE c[i + 2]]

(* Taking out a pair leaves pairs, and nothing of the pair.                *)
LEMMA CutFacts ==
    ASSUME NEW c, Good(c), NEW p \in 1..Len(c), p % 2 = 1
    PROVE  /\ Good(Cut(c, p)) /\ Len(Cut(c, p)) = Len(c) - 2
           /\ p + 1 \in 1..Len(c)
           /\ \A k, v : Maps(Cut(c, p), k, v) <=>
                  Maps(c, k, v) /\ k # c[p].key /\ k # c[p + 1].key
<1> DEFINE d == Cut(c, p)
           n == Len(c) - 2
           f == [i \in 1..n |-> IF i < p THEN i ELSE i + 2]
<1>1. Len(c) \in Nat /\ Len(c) % 2 = 0 /\ c \in Seq(Entry)
  BY DEF Good, List, Paired
<1>2. n \in Nat /\ p + 1 \in 1..Len(c) /\ p \in Nat
  BY <1>1
<1>3. \A i \in 1..n : f[i] \in 1..Len(c) /\ f[i] # p /\ f[i] # p + 1
  BY <1>1, <1>2
<1>4. d \in Seq(Entry) /\ Len(d) = n /\ \A i \in 1..n : d[i] = c[f[i]]
  <2>1. \A i \in 1..n : d[i] = c[f[i]] /\ c[f[i]] \in Entry
    BY <1>1, <1>2, <1>3 DEF Cut
  <2>2. d = [i \in 1..n |-> d[i]]
    BY DEF Cut
  <2> HIDE DEF d, n
  <2> QED
    BY <1>2, <2>1, <2>2
<1>5. Distinct(d)
  <2>1. \A i, j \in 1..n : f[i] = f[j] => i = j
    BY <1>1, <1>2
  <2> HIDE DEF d, n, f
  <2> SUFFICES ASSUME NEW i \in 1..n, NEW j \in 1..n, d[i].key = d[j].key
               PROVE  i = j
    BY <1>4 DEF Distinct
  <2>2. f[i] \in 1..Len(c) /\ f[j] \in 1..Len(c) /\ c[f[i]].key = c[f[j]].key
    BY <1>3, <1>4
  <2>3. f[i] = f[j]
    BY <2>2 DEF Good, List, Distinct
  <2> QED
    BY <2>1, <2>3
<1>6. Paired(d)
  <2>1. n % 2 = 0
    BY <1>1, <1>2
  <2>2. \A i \in 1..n : i % 2 = 1 => i + 1 \in 1..n
    BY <1>2, <2>1
  <2>3. \A i \in 1..n : i % 2 = 1 => f[i] % 2 = 1 /\ f[i + 1] = f[i] + 1
    <3> SUFFICES ASSUME NEW i \in 1..n, i % 2 = 1
                 PROVE  f[i] % 2 = 1 /\ f[i + 1] = f[i] + 1
      OBVIOUS
    <3>1. i \in Nat /\ (i + 2) % 2 = 1 /\ (i < p <=> i + 1 < p)
      BY <1>2
    <3>2. f[i] = (IF i < p THEN i ELSE i + 2)
          /\ f[i + 1] = (IF i + 1 < p THEN i + 1 ELSE i + 3)
      BY <1>2, <2>2
    <3> HIDE DEF f, n
    <3> QED
      BY <3>1, <3>2
  <2> HIDE DEF d, n, f
  <2> SUFFICES ASSUME NEW i \in 1..n, i % 2 = 1
               PROVE  d[i].key = d[i + 1].val /\ d[i].val = d[i + 1].key
    BY <1>4, <2>1 DEF Paired
  <2>4. d[i] = c[f[i]] /\ d[i + 1] = c[f[i] + 1] /\ f[i] \in 1..Len(c)
        /\ f[i] % 2 = 1
    BY <1>3, <1>4, <2>2, <2>3
  <2> QED
    BY <2>4 DEF Good, List, Paired
<1>7. \A k, v : Maps(d, k, v) <=>
          Maps(c, k, v) /\ k # c[p].key /\ k # c[p + 1].key
  <2>1. \A j \in 1..Len(c) : j # p /\ j # p + 1 => \E i \in 1..n : f[i] = j
    <3> SUFFICES ASSUME NEW j \in 1..Len(c), j # p, j # p + 1
                 PROVE  \E i \in 1..n : f[i] = j
      OBVIOUS
    <3>1. CASE j < p
      BY <1>1, <1>2, <3>1
    <3>2. CASE j > p + 1
      <4>1. j - 2 \in 1..n /\ f[j - 2] = j
        BY <1>1, <1>2, <3>2
      <4> QED
        BY <4>1
    <3> QED
      BY <1>2, <3>1, <3>2
  <2> HIDE DEF d, n, f
  <2>2. \A i \in 1..n : d[i].key # c[p].key /\ d[i].key # c[p + 1].key
    <3> SUFFICES ASSUME NEW i \in 1..n
                 PROVE  d[i].key # c[p].key /\ d[i].key # c[p + 1].key
      OBVIOUS
    <3>1. d[i] = c[f[i]] /\ f[i] \in 1..Len(c) /\ f[i] # p /\ f[i] # p + 1
      BY <1>3, <1>4
    <3> QED
      BY <1>2, <3>1 DEF Good, List, Distinct
  <2> SUFFICES ASSUME NEW k, NEW v
               PROVE  Maps(d, k, v) <=>
                          Maps(c, k, v) /\ k # c[p].key /\ k # c[p + 1].key
    OBVIOUS
  <2>3. Maps(d, k, v) => Maps(c, k, v) /\ k # c[p].key /\ k # c[p + 1].key
    BY <1>3, <1>4, <2>2 DEF Maps
  <2>4. ASSUME Maps(c, k, v), k # c[p].key, k # c[p + 1].key
        PROVE  Maps(d, k, v)
    <3>1. PICK j \in 1..Len(c) : c[j].key = k /\ c[j].val = v
      BY <2>4 DEF Maps
    <3>2. PICK i \in 1..n : f[i] = j
      BY <2>1, <2>4, <3>1
    <3> QED
      BY <1>4, <3>1, <3>2 DEF Maps
  <2> QED
    BY <2>3, <2>4
<1> QED
  BY <1>2, <1>4, <1>5, <1>6, <1>7 DEF Good, List

(* Without takes out one place.                                            *)
LEMMA WithoutIsDrop ==
    ASSUME NEW c, List(c), NEW p \in 1..Len(c)
    PROVE  Without(c, c[p].key) = Drop(c, p)
  BY PlaceFacts DEF Without, Drop

(* Nothing is taken out where there is nothing.                            *)
LEMMA WithoutNothing ==
    ASSUME NEW c, NEW k, ~Exist(c, k) PROVE Without(c, k) = c
  BY DEF Without

(* Both entries of a host go, in either order.                             *)
LEMMA WithoutPair ==
    ASSUME NEW c, Good(c), NEW p \in 1..Len(c), p % 2 = 1
    PROVE  /\ Without(Without(c, c[p].key), c[p + 1].key) = Cut(c, p)
           /\ Without(Without(c, c[p + 1].key), c[p].key) = Cut(c, p)
<1>1. /\ Len(c) \in Nat /\ c \in Seq(Entry) /\ p \in Nat /\ p + 1 \in 1..Len(c)
      /\ Len(c) - 2 \in Nat
  BY CutFacts DEF Good, List
<1>2. \A q \in 1..Len(c) :
          /\ Without(c, c[q].key) = Drop(c, q)
          /\ Drop(c, q) \in Seq(Entry) /\ Len(Drop(c, q)) = Len(c) - 1
          /\ \A i \in 1..(Len(c) - 1) :
                Drop(c, q)[i] = IF i < q THEN c[i] ELSE c[i + 1]
  <2> SUFFICES ASSUME NEW q \in 1..Len(c)
               PROVE  /\ Drop(c, q) \in Seq(Entry)
                      /\ Len(Drop(c, q)) = Len(c) - 1
                      /\ \A i \in 1..(Len(c) - 1) :
                            Drop(c, q)[i] = IF i < q THEN c[i] ELSE c[i + 1]
    BY WithoutIsDrop DEF Good
  <2>1. \A i \in 1..(Len(c) - 1) : (IF i < q THEN c[i] ELSE c[i + 1]) \in Entry
    BY <1>1
  <2>2. Len(c) - 1 \in Nat
    BY <1>1
  <2> QED
    BY <2>1, <2>2 DEF Drop
<1>3. ASSUME NEW d, d \in Seq(Entry), Len(d) = Len(c) - 1, NEW q \in 1..Len(d),
             \A i \in 1..Len(d) : d[i].key = d[q].key => i = q
      PROVE  Without(d, d[q].key) =
                 [i \in 1..(Len(c) - 2) |-> IF i < q THEN d[i] ELSE d[i + 1]]
  <2>1. Exist(d, d[q].key) /\ Place(d, d[q].key) = q
    BY <1>3 DEF Exist, Place
  <2>2. Len(d) - 1 = Len(c) - 2
    BY <1>1, <1>3
  <2> QED
    BY <2>1, <2>2 DEF Without
<1>4. Without(Without(c, c[p].key), c[p + 1].key) = Cut(c, p)
  <2> DEFINE d == Drop(c, p)
  <2>1. /\ d \in Seq(Entry) /\ Len(d) = Len(c) - 1 /\ p \in 1..Len(d)
        /\ \A i \in 1..Len(d) : d[i] = IF i < p THEN c[i] ELSE c[i + 1]
        /\ Without(c, c[p].key) = d
    BY <1>1, <1>2
  <2> HIDE DEF d
  <2>2. d[p] = c[p + 1] /\ \A i \in 1..Len(d) : d[i].key = d[p].key => i = p
    BY <1>1, <2>1 DEF Good, List, Distinct
  <2>3. Without(d, c[p + 1].key) =
            [i \in 1..(Len(c) - 2) |-> IF i < p THEN d[i] ELSE d[i + 1]]
    BY <1>3, <2>1, <2>2
  <2>4. \A i \in 1..(Len(c) - 2) : (IF i < p THEN d[i] ELSE d[i + 1]) =
                                   IF i < p THEN c[i] ELSE c[i + 2]
    <3> SUFFICES ASSUME NEW i \in 1..(Len(c) - 2)
                 PROVE  (IF i < p THEN d[i] ELSE d[i + 1]) =
                        IF i < p THEN c[i] ELSE c[i + 2]
      OBVIOUS
    <3>1. i \in 1..Len(d) /\ i + 1 \in 1..Len(d)
      BY <1>1, <2>1
    <3>2. ~(i < p) => ~(i + 1 < p) /\ (i + 1) + 1 = i + 2
      BY <1>1
    <3> QED
      BY <2>1, <3>1, <3>2
  <2> QED
    BY <2>1, <2>3, <2>4 DEF Cut
<1>5. Without(Without(c, c[p + 1].key), c[p].key) = Cut(c, p)
  <2> DEFINE d == Drop(c, p + 1)
  <2>1. /\ d \in Seq(Entry) /\ Len(d) = Len(c) - 1 /\ p \in 1..Len(d)
        /\ \A i \in 1..Len(d) : d[i] = IF i < p + 1 THEN c[i] ELSE c[i + 1]
        /\ Without(c, c[p + 1].key) = d
    BY <1>1, <1>2
  <2> HIDE DEF d
  <2>2. d[p] = c[p] /\ \A i \in 1..Len(d) : d[i].key = d[p].key => i = p
    BY <1>1, <2>1 DEF Good, List, Distinct
  <2>3. Without(d, c[p].key) =
            [i \in 1..(Len(c) - 2) |-> IF i < p THEN d[i] ELSE d[i + 1]]
    BY <1>3, <2>1, <2>2
  <2>4. \A i \in 1..(Len(c) - 2) : (IF i < p THEN d[i] ELSE d[i + 1]) =
                                   IF i < p THEN c[i] ELSE c[i + 2]
    <3> SUFFICES ASSUME NEW i \in 1..(Len(c) - 2)
                 PROVE  (IF i < p THEN d[i] ELSE d[i + 1]) =
                        IF i < p THEN c[i] ELSE c[i + 2]
      OBVIOUS
    <3>1. i \in 1..Len(d) /\ i + 1 \in 1..Len(d)
      BY <1>1, <2>1
    <3>2. i < p => d[i] = c[i]
      BY <1>1, <2>1, <3>1
    <3>3. ~(i < p) => ~(i + 1 < p + 1) /\ (i + 1) + 1 = i + 2
      BY <1>1
    <3> QED
      BY <2>1, <3>1, <3>2, <3>3
  <2> QED
    BY <2>1, <2>3, <2>4 DEF Cut
<1> QED
  BY <1>4, <1>5

-----------------------------------------------------------------------------
(* The calls of the store.                                                 *)

(* The list with a pair at its end.                                        *)
AddPair(c, k, v) ==
    Append(Append(c, [key |-> k, val |-> v]), [key |-> v, val |-> k])

IsPair(k, v) == (k \in Hosts /\ v \in Nat) \/ (k \in Nat /\ v \in Hosts)

(* A new pair at the end leaves pairs.                                     *)
LEMMA AddPairFacts ==
    ASSUME NEW c, Good(c), NEW k, NEW v, IsPair(k, v),
           ~Exist(c, k), ~Exist(c, v)
    PROVE  /\ Good(AddPair(c, k, v)) /\ Len(AddPair(c, k, v)) = Len(c) + 2
           /\ \A x, y : Maps(AddPair(c, k, v), x, y) <=>
                  Maps(c, x, y) \/ (x = k /\ y = v) \/ (x = v /\ y = k)
<1> DEFINE a == [key |-> k, val |-> v]
           b == [key |-> v, val |-> k]
           d == AddPair(c, k, v)
           n == Len(c)
<1>1. a \in Entry /\ b \in Entry /\ k # v
  BY HostAssumption DEF IsPair, Entry
<1>2. a.key = k /\ a.val = v /\ b.key = v /\ b.val = k
  OBVIOUS
<1>3. c \in Seq(Entry) /\ n \in Nat /\ n % 2 = 0
  BY DEF Good, List, Paired
<1>4. \A i \in 1..n : c[i].key # k /\ c[i].key # v
  BY DEF Exist
<1> HIDE DEF a, b
<1>5. d = Append(Append(c, a), b)
  BY DEF AddPair, a, b
<1> HIDE DEF d
<1>6. /\ d \in Seq(Entry) /\ Len(d) = n + 2 /\ d[n + 1] = a /\ d[n + 2] = b
      /\ \A i \in 1..n : d[i] = c[i]
  BY <1>1, <1>3, <1>5
<1> HIDE DEF n
<1>7. \A i \in 1..Len(d) : i \in 1..n \/ i = n + 1 \/ i = n + 2
  BY <1>3, <1>6
<1>8. Distinct(d)
  <2> SUFFICES ASSUME NEW i \in 1..Len(d), NEW j \in 1..Len(d),
                      d[i].key = d[j].key
               PROVE  i = j
    BY DEF Distinct
  <2>1. CASE i \in 1..n /\ j \in 1..n
    BY <1>6, <2>1 DEF Good, List, Distinct, n
  <2>2. CASE i \notin 1..n \/ j \notin 1..n
    BY <1>1, <1>2, <1>4, <1>6, <1>7, <2>2
  <2> QED
    BY <2>1, <2>2
<1>9. Paired(d)
  <2>1. Len(d) % 2 = 0
    BY <1>3, <1>6
  <2> SUFFICES ASSUME NEW i \in 1..Len(d), i % 2 = 1
               PROVE  d[i].key = d[i + 1].val /\ d[i].val = d[i + 1].key
    BY <2>1 DEF Paired
  <2>2. CASE i \in 1..n
    <3>1. i + 1 \in 1..n
      BY <1>3, <2>2
    <3> QED
      BY <1>6, <2>2, <3>1 DEF Good, List, Paired, n
  <2>3. CASE i \notin 1..n
    <3>1. i = n + 1
      BY <1>3, <1>7, <2>3
    <3> QED
      BY <1>2, <1>3, <1>6, <3>1
  <2> QED
    BY <2>2, <2>3
<1>10. \A x, y : Maps(d, x, y) <=>
           Maps(c, x, y) \/ (x = k /\ y = v) \/ (x = v /\ y = k)
  <2> SUFFICES ASSUME NEW x, NEW y
               PROVE  Maps(d, x, y) <=>
                          Maps(c, x, y) \/ (x = k /\ y = v) \/ (x = v /\ y = k)
    OBVIOUS
  <2>1. Maps(d, x, y) => Maps(c, x, y) \/ (x = k /\ y = v) \/ (x = v /\ y = k)
    BY <1>2, <1>6, <1>7 DEF Maps, n
  <2>2. Maps(c, x, y) => Maps(d, x, y)
    <3>1. \A i \in 1..n : i \in 1..Len(d)
      BY <1>3, <1>6
    <3> QED
      BY <1>6, <3>1 DEF Maps, n
  <2>3. Maps(d, k, v) /\ Maps(d, v, k)
    <3>1. n + 1 \in 1..Len(d) /\ n + 2 \in 1..Len(d)
      BY <1>3, <1>6
    <3> QED
      BY <1>2, <1>6, <3>1 DEF Maps
  <2> QED
    BY <2>1, <2>2, <2>3
<1> QED
  BY <1>6, <1>8, <1>9, <1>10 DEF Good, List, n, d

(* A host's pair has a place.                                              *)
LEMMA PairPlace ==
    ASSUME NEW c, Good(c), NEW k, NEW v, Maps(c, k, v)
    PROVE  /\ IsPair(k, v)
           /\ \E p \in 1..Len(c) :
                 /\ p % 2 = 1
                 /\ \/ c[p].key = k /\ c[p + 1].key = v
                    \/ c[p].key = v /\ c[p + 1].key = k
<1>1. PICK i \in 1..Len(c) : c[i].key = k /\ c[i].val = v
  BY DEF Maps
<1>2. Len(c) \in Nat /\ i \in Nat /\ c[i] \in Entry
  BY DEF Good, List
<1>3. IsPair(k, v)
  BY <1>1, <1>2, EntryFacts DEF IsPair
<1>4. CASE i % 2 = 1
  BY <1>1, <1>4, <1>3 DEF Good, List, Paired
<1>5. CASE i % 2 # 1
  <2>1. (i - 1) \in 1..Len(c) /\ (i - 1) % 2 = 1 /\ (i - 1) + 1 = i
    BY <1>2, <1>5
  <2>2. c[i - 1].key = v
    BY <1>1, <2>1 DEF Good, List, Paired
  <2> QED
    BY <1>1, <1>3, <2>1, <2>2
<1> QED
  BY <1>4, <1>5

(* What is left when one entry is taken out.                               *)
LEMMA WithoutFacts ==
    ASSUME NEW c, List(c), NEW k, Exist(c, k)
    PROVE  /\ List(Without(c, k)) /\ Len(Without(c, k)) = Len(c) - 1
           /\ \A x, y : Maps(Without(c, k), x, y) <=> Maps(c, x, y) /\ x # k
<1>1. PICK p \in 1..Len(c) : c[p].key = k
  BY DEF Exist
<1> DEFINE d == Drop(c, p)
<1>2. Without(c, k) = d
  BY <1>1, WithoutIsDrop
<1>3. Len(c) \in Nat /\ c \in Seq(Entry) /\ p \in Nat /\ Len(c) - 1 \in Nat
  BY DEF List
<1>4. d \in Seq(Entry) /\ Len(d) = Len(c) - 1
  <2>1. \A i \in 1..(Len(c) - 1) : (IF i < p THEN c[i] ELSE c[i + 1]) \in Entry
    BY <1>3
  <2> QED
    BY <1>3, <2>1 DEF Drop
<1>5. \A i \in 1..Len(d) : \/ i < p /\ i \in 1..Len(c) /\ d[i] = c[i]
                           \/ /\ i + 1 > p /\ i + 1 \in 1..Len(c)
                              /\ d[i] = c[i + 1]
  BY <1>3, <1>4 DEF Drop
<1>6. /\ \A i \in 1..Len(c) : i < p => i \in 1..Len(d) /\ d[i] = c[i]
      /\ \A i \in 1..Len(c) : i > p => i - 1 \in 1..Len(d) /\ d[i - 1] = c[i]
  BY <1>3, <1>4 DEF Drop
<1> HIDE DEF d
<1>7. Distinct(d)
  BY <1>3, <1>5 DEF List, Distinct
<1>8. \A i \in 1..Len(d) : d[i].key # k
  BY <1>1, <1>3, <1>5 DEF List, Distinct
<1>9. ASSUME NEW x, NEW y
      PROVE  Maps(d, x, y) <=> Maps(c, x, y) /\ x # k
  <2>1. Maps(d, x, y) => Maps(c, x, y) /\ x # k
    BY <1>5, <1>8 DEF Maps
  <2>2. ASSUME Maps(c, x, y), x # k PROVE Maps(d, x, y)
    <3>1. PICK i \in 1..Len(c) : c[i].key = x /\ c[i].val = y
      BY <2>2 DEF Maps
    <3>2. i < p \/ i > p
      BY <1>1, <1>3, <2>2, <3>1
    <3> QED
      BY <1>6, <3>1, <3>2 DEF Maps
  <2> QED
    BY <2>1, <2>2
<1> QED
  BY <1>2, <1>4, <1>7, <1>9 DEF List

(* An entry taken out of a list that has just got another at its end.      *)
LEMMA WithoutOfAppend ==
    ASSUME NEW w, List(w), NEW a \in Entry, NEW v, a.key # v, Exist(w, v)
    PROVE  /\ Without(Append(w, a), v) = Append(Without(w, v), a)
           /\ Exist(Append(w, a), v) /\ Value(Append(w, a), v) = Value(w, v)
<1>1. PICK q \in 1..Len(w) : w[q].key = v
  BY DEF Exist
<1> DEFINE d == Append(w, a)
           n == Len(w)
<1>2. n \in Nat /\ w \in Seq(Entry) /\ q \in Nat /\ n - 1 \in Nat
  BY DEF List
<1>3. /\ d \in Seq(Entry) /\ Len(d) = n + 1 /\ d[n + 1] = a
      /\ \A i \in 1..n : d[i] = w[i]
  BY <1>2
<1> HIDE DEF d
<1>4. Place(w, v) = q
  BY <1>1, PlaceFacts
<1>5. \A i \in 1..Len(d) : d[i].key = v <=> i = q
  BY <1>1, <1>2, <1>3 DEF List, Distinct
<1>6. q \in 1..Len(d)
  BY <1>2, <1>3
<1>7. Place(d, v) = q /\ Exist(d, v)
  BY <1>5, <1>6 DEF Place, Exist
<1>8. Value(d, v) = Value(w, v)
  BY <1>3, <1>4, <1>7 DEF Value
<1>9. Without(d, v) = [i \in 1..n |-> IF i < q THEN d[i] ELSE d[i + 1]]
  BY <1>2, <1>3, <1>7 DEF Without
<1>10. /\ Without(w, v) \in Seq(Entry) /\ Len(Without(w, v)) = n - 1
       /\ \A i \in 1..(n - 1) :
              Without(w, v)[i] = IF i < q THEN w[i] ELSE w[i + 1]
  <2>1. Without(w, v) = Drop(w, q)
    BY <1>1, WithoutIsDrop
  <2> QED
    BY <2>1, WithoutFacts DEF List, Drop
<1> DEFINE u == Without(w, v)
<1> HIDE DEF u, n
<1>11. /\ Append(u, a) = [i \in 1..n |-> Append(u, a)[i]]
       /\ Append(u, a)[n] = a
       /\ \A i \in 1..(n - 1) : Append(u, a)[i] = u[i]
  <2>1. u \in Seq(Entry) /\ Len(u) = n - 1
    BY <1>10 DEF u
  <2>2. Append(u, a) \in Seq(Entry) /\ Len(Append(u, a)) = n
    BY <1>2, <2>1 DEF n
  <2>3. n \in Nat /\ n = Len(u) + 1
    BY <1>2, <2>1 DEF n
  <2>4. Append(u, a)[n] = a /\ \A i \in 1..(n - 1) : Append(u, a)[i] = u[i]
    BY <2>1, <2>3
  <2> DEFINE z == Append(u, a)
  <2> HIDE DEF z
  <2>5. z \in Seq(Entry) /\ Len(z) = n
    BY <2>2 DEF z
  <2>6. z = [i \in 1..n |-> z[i]]
    BY <2>3, <2>5
  <2> QED
    BY <2>4, <2>6 DEF z
<1>12. \A i \in 1..n : Append(u, a)[i] = IF i < q THEN d[i] ELSE d[i + 1]
  <2> SUFFICES ASSUME NEW i \in 1..n
               PROVE  Append(u, a)[i] = IF i < q THEN d[i] ELSE d[i + 1]
    OBVIOUS
  <2>1. CASE i = n
    <3>1. ~(i < q) /\ d[i + 1] = a
      BY <1>2, <1>3, <2>1 DEF n
    <3> QED
      BY <1>11, <2>1, <3>1
  <2>2. CASE i # n
    <3>1. i \in 1..(n - 1) /\ i + 1 \in 1..n
      BY <1>2, <2>2
    <3> QED
      BY <1>3, <1>10, <1>11, <3>1 DEF u
  <2> QED
    BY <2>1, <2>2
<1>13. Without(d, v) = Append(u, a)
  BY <1>9, <1>11, <1>12
<1> QED
  BY <1>7, <1>8, <1>13 DEF d, u

(* A pair of c that is now at its end, for g.                              *)
Moved(c, g, k, v) ==
    \E p \in 1..Len(c) :
        /\ p % 2 = 1 /\ {k, v} = {c[p].key, c[p + 1].key}
        /\ g = AddPair(Cut(c, p), k, v)

(* Getting one entry of a host and then the other puts both at the end.    *)
LEMMA GetPair ==
    ASSUME NEW c, Good(c), NEW k, NEW v, Maps(c, k, v)
    PROVE  LET g == Get(Get(c, k), v)
           IN  /\ Good(g) /\ Len(g) = Len(c)
               /\ \A x, y : Maps(g, x, y) <=> Maps(c, x, y)
               /\ Moved(c, g, k, v)
<1> DEFINE a == [key |-> k, val |-> v]
           b == [key |-> v, val |-> k]
           g == Get(Get(c, k), v)
           w == Without(c, k)
           d == Append(w, a)
<1>1. IsPair(k, v) /\ Maps(c, v, k)
  BY PairPlace, Symmetric
<1>2. PICK p \in 1..Len(c) :
          /\ p % 2 = 1
          /\ \/ c[p].key = k /\ c[p + 1].key = v
             \/ c[p].key = v /\ c[p + 1].key = k
  BY PairPlace
<1>3. Without(w, v) = Cut(c, p)
  BY <1>2, WithoutPair DEF Good
<1>4. /\ List(c) /\ Exist(c, k) /\ Value(c, k) = v
      /\ List(w) /\ Exist(w, v) /\ Value(w, v) = k /\ k # v
  <2>1. List(c) /\ k # v
    BY <1>1, HostAssumption DEF Good, IsPair
  <2>2. Exist(c, k) /\ Value(c, k) = v
    BY <2>1, ValueFacts
  <2>3. List(w) /\ Maps(w, v, k)
    BY <1>1, <2>1, <2>2, WithoutFacts
  <2> QED
    BY <2>1, <2>2, <2>3, ValueFacts
<1>5. a \in Entry /\ a.key = k /\ d = Get(c, k)
  BY <1>1, <1>4 DEF Get, Entry, IsPair
<1> HIDE DEF a, w
<1>6. Without(d, v) = Append(Cut(c, p), a) /\ Exist(d, v) /\ Value(d, v) = k
  <2>1. a.key # v
    BY <1>4, <1>5
  <2>2. /\ Without(Append(w, a), v) = Append(Without(w, v), a)
        /\ Exist(Append(w, a), v) /\ Value(Append(w, a), v) = Value(w, v)
    BY <1>4, <1>5, <2>1, WithoutOfAppend
  <2> QED
    BY <1>3, <1>4, <2>2
<1>7. g = AddPair(Cut(c, p), k, v)
  BY <1>5, <1>6 DEF Get, AddPair, a
<1>8. /\ Good(Cut(c, p)) /\ Len(Cut(c, p)) = Len(c) - 2
      /\ \A x, y : Maps(Cut(c, p), x, y) <=> Maps(c, x, y) /\ x # k /\ x # v
  BY <1>2, CutFacts
<1>9. ~Exist(Cut(c, p), k) /\ ~Exist(Cut(c, p), v)
  BY <1>8, ValueFacts DEF Good
<1>10. /\ Good(g) /\ Len(g) = Len(Cut(c, p)) + 2
       /\ \A x, y : Maps(g, x, y) <=>
              Maps(Cut(c, p), x, y) \/ (x = k /\ y = v) \/ (x = v /\ y = k)
  BY <1>1, <1>7, <1>8, <1>9, AddPairFacts
<1>11. \A y : (Maps(c, k, y) <=> y = v) /\ (Maps(c, v, y) <=> y = k)
  BY <1>1, <1>4, ValueFacts
<1> HIDE DEF g
<1>12. \A x, y : Maps(g, x, y) <=> Maps(c, x, y)
  BY <1>8, <1>10, <1>11
<1>13. Len(c) \in Nat
  BY DEF Good, List
<1>14. Moved(c, g, k, v)
  BY <1>2, <1>7 DEF Moved
<1>15. Good(g) /\ Len(g) = Len(c)
  BY <1>8, <1>10, <1>13
<1> QED
  BY <1>12, <1>14, <1>15, Zenon DEF g

(* Two sequences of the same length and elements are equal.                *)
LEMMA SameList ==
    ASSUME NEW s \in Seq(Entry), NEW t \in Seq(Entry), Len(s) = Len(t),
           \A i \in 1..Len(s) : s[i] = t[i]
    PROVE  s = t
  OBVIOUS

(* Setting both entries of a new host puts them at the end; what is        *)
(* evicted to make room for them is one pair.                              *)
LEMMA SetPair ==
    ASSUME NEW c, Good(c), Size \in Nat \ {0}, Len(c) <= 2 * Size,
           NEW k, NEW v, IsPair(k, v), ~Exist(c, k), ~Exist(c, v)
    PROVE  LET g == Set(Set(c, k, v), v, k)
           IN  /\ Good(g) /\ Len(g) <= 2 * Size
               /\ \A x, y : Maps(g, x, y) =>
                      Maps(c, x, y) \/ (x = k /\ y = v) \/ (x = v /\ y = k)
               /\ Maps(g, k, v) /\ Maps(g, v, k)
               /\ \/ Len(c) < 2 * Size /\ g = AddPair(c, k, v)
                  \/ Len(c) = 2 * Size /\ g = AddPair(Cut(c, 1), k, v)
<1> DEFINE a == [key |-> k, val |-> v]
           b == [key |-> v, val |-> k]
           d == Append(c, a)
           g == Set(Set(c, k, v), v, k)
<1>1. /\ c \in Seq(Entry) /\ Len(c) \in Nat /\ Len(c) % 2 = 0
      /\ a \in Entry /\ b \in Entry /\ a.key = k /\ b.key = v /\ k # v
  BY HostAssumption DEF Good, List, Paired, IsPair, Entry
<1> HIDE DEF a, b
<1>2. /\ d \in Seq(Entry) /\ Len(d) = Len(c) + 1 /\ d[Len(c) + 1] = a
      /\ \A i \in 1..Len(c) : d[i] = c[i]
  BY <1>1
<1>3. Set(c, k, v) = IF Len(d) > 2 * Size THEN Tail(d) ELSE d
  BY WithoutNothing DEF Set, a
<1> HIDE DEF d
<1>4. \A i \in 1..Len(d) : d[i].key # v
  <2>1. \A i \in 1..Len(d) : i \in 1..Len(c) \/ i = Len(c) + 1
    BY <1>1, <1>2
  <2> QED
    BY <1>1, <1>2, <2>1 DEF Exist
<1>5. CASE Len(c) < 2 * Size
  <2>1. Set(c, k, v) = d
    BY <1>1, <1>2, <1>3, <1>5
  <2>2. ~Exist(d, v)
    BY <1>4 DEF Exist
  <2>3. Len(Append(d, b)) = Len(c) + 2 /\ ~(Len(c) + 2 > 2 * Size)
    BY <1>1, <1>2, <1>5
  <2>4. g = Append(d, b)
    BY <2>1, <2>2, <2>3, WithoutNothing DEF Set, b
  <2>5. g = AddPair(c, k, v)
    BY <2>4 DEF AddPair, a, b, d
  <2> QED
    BY <1>5, <2>3, <2>4, <2>5, AddPairFacts
<1>6. CASE Len(c) = 2 * Size
  <2> DEFINE t == Tail(d)
             e == Append(t, b)
  <2>1. Set(c, k, v) = t
    BY <1>1, <1>2, <1>3, <1>6
  <2>2. /\ t \in Seq(Entry) /\ Len(t) = Len(c)
        /\ \A i \in 1..Len(c) : t[i] = d[i + 1]
    BY <1>1, <1>2
  <2> HIDE DEF t
  <2>3. ~Exist(t, v)
    <3>1. \A i \in 1..Len(t) : i + 1 \in 1..Len(d)
      BY <1>1, <1>2, <2>2
    <3> QED
      BY <1>4, <2>2, <3>1 DEF Exist
  <2>4. /\ e \in Seq(Entry) /\ Len(e) = Len(c) + 1 /\ e[Len(c) + 1] = b
        /\ \A i \in 1..Len(c) : e[i] = t[i]
    BY <1>1, <2>2
  <2>5. g = Tail(e)
    <3>1. Set(t, v, k) = IF Len(e) > 2 * Size THEN Tail(e) ELSE e
      BY <2>3, WithoutNothing DEF Set, b
    <3>2. Len(e) > 2 * Size
      BY <1>1, <1>6, <2>4
    <3> QED
      BY <2>1, <3>1, <3>2
  <2> HIDE DEF e
  <2>6. /\ g \in Seq(Entry) /\ Len(g) = Len(c)
        /\ \A i \in 1..Len(c) : g[i] = e[i + 1]
    BY <1>1, <2>4, <2>5
  <2>7. 1 \in 1..Len(c) /\ 1 % 2 = 1 /\ Len(c) - 2 \in Nat
    BY <1>1, <1>6
  <2> DEFINE u == Cut(c, 1)
             w == AddPair(u, k, v)
  <2>8. /\ Good(u) /\ Len(u) = Len(c) - 2
        /\ \A x, y : Maps(u, x, y) => Maps(c, x, y)
        /\ \A i \in 1..(Len(c) - 2) : u[i] = c[i + 2]
    BY <2>7, CutFacts DEF Cut
  <2> HIDE DEF u
  <2>9. ~Exist(u, k) /\ ~Exist(u, v)
    BY <2>8, ValueFacts DEF Good
  <2>10. /\ Good(w) /\ Len(w) = Len(u) + 2
         /\ \A x, y : Maps(w, x, y) <=>
                Maps(u, x, y) \/ (x = k /\ y = v) \/ (x = v /\ y = k)
    BY <2>8, <2>9, AddPairFacts
  <2>11. /\ w[Len(c) - 1] = a /\ w[Len(c)] = b
         /\ \A i \in 1..(Len(c) - 2) : w[i] = c[i + 2]
    <3>1. w = Append(Append(u, a), b)
      BY DEF AddPair, a, b
    <3> HIDE DEF w
    <3>2. u \in Seq(Entry)
      BY <2>8 DEF Good, List
    <3> QED
      BY <1>1, <2>7, <2>8, <3>1, <3>2
  <2> HIDE DEF w
  <2>12. g = w
    <3>1. w \in Seq(Entry) /\ Len(w) = Len(g)
      BY <1>1, <2>6, <2>8, <2>10 DEF Good, List
    <3>2. \A i \in 1..Len(c) : g[i] = w[i]
      <4> SUFFICES ASSUME NEW i \in 1..Len(c) PROVE g[i] = w[i]
        OBVIOUS
      <4>1. CASE i = Len(c)
        BY <1>1, <2>4, <2>6, <2>11, <4>1
      <4>2. CASE i < Len(c)
        <5>1. g[i] = d[i + 2]
          <6>1. i + 1 \in 1..Len(c) /\ (i + 1) + 1 = i + 2
            BY <1>1, <4>2
          <6> QED
            BY <2>2, <2>4, <2>6, <6>1
        <5>2. CASE i = Len(c) - 1
          BY <1>1, <1>2, <2>11, <5>1, <5>2
        <5>3. CASE i # Len(c) - 1
          <6>1. i \in 1..(Len(c) - 2) /\ i + 2 \in 1..Len(c)
            BY <1>1, <4>2, <5>3
          <6> QED
            BY <1>2, <2>11, <5>1, <6>1
        <5> QED
          BY <5>2, <5>3
      <4> QED
        BY <1>1, <4>1, <4>2
    <3> HIDE DEF g
    <3> QED
      BY <2>6, <3>1, <3>2, SameList
  <2>13. g = AddPair(Cut(c, 1), k, v)
    BY <2>12 DEF w, u
  <2> HIDE DEF g
  <2> QED
    BY <1>1, <1>6, <2>6, <2>8, <2>10, <2>12, <2>13 DEF g
<1> HIDE DEF g
<1> QED
  BY <1>1, <1>5, <1>6 DEF g

-----------------------------------------------------------------------------
(* The pool.                                                               *)

(* Of some distances there is a least one.                                 *)
LEMMA Nearest ==
    ASSUME NEW S, S \subseteq Nat, S # {}
    PROVE  \E i \in S : \A j \in S : i <= j
<1>1. PICK i \in S : \A j \in S : <<j, i>> \notin OpToRel(<, Nat)
  BY WFMin, NatLessThanWellFounded
<1>2. \A j \in S : ~(j < i)
  BY <1>1, Zenon DEF OpToRel
<1> QED
  BY <1>2

(* The pool was made with a shape, and calls keep it.                      *)
LEMMA ShapeFacts ==
    ASSUME PoolInv
    PROVE  /\ Slots \in Nat \ {0} /\ Size \in Nat \ {0} /\ Ips \subseteq AllIps
           /\ NewOffset \in Ips
<1>1. shape \in [slots : Nat \ {0}, size : Nat \ {0}] /\ shape \in Shapes
  BY ShapesAssumption DEF PoolInv
<1>2. Slots \in Nat \ {0} /\ Size \in Nat \ {0}
  BY <1>1 DEF Slots, Size
<1>3. Ips \subseteq AllIps
  BY <1>1 DEF Ips, Slots, AllIps
<1>4. \A x \in Nat : x % Slots \in 0..(Slots - 1)
  BY <1>2
<1>5. offset \in Nat /\ \A d \in Ips : d \in Nat
  BY <1>2 DEF PoolInv, Ips
<1>6. \A d \in Ips : Ahead(d) \in Ips
  BY <1>4, <1>5 DEF Ahead, Ips
<1>7. Next1(offset) \in Ips
  BY <1>4, <1>5 DEF Next1, Ips
<1>8. CASE FreeAfter = {}
  BY <1>2, <1>3, <1>7, <1>8 DEF NewOffset
<1>9. CASE FreeAfter # {}
  <2>1. FreeAfter \subseteq Ips /\ FreeAfter \subseteq Nat
    BY <1>5 DEF FreeAfter
  <2>2. (CHOOSE d \in FreeAfter : \A x \in FreeAfter : d <= x) \in FreeAfter
    BY <1>9, <2>1, Nearest
  <2> QED
    BY <1>2, <1>3, <1>6, <1>9, <2>1, <2>2 DEF NewOffset
<1> QED
  BY <1>8, <1>9

(* Deleting an address takes out both entries of its host.                 *)
LEMMA DelFacts ==
    ASSUME NEW c, Good(c), NEW n, Exist(c, n)
    PROVE  /\ Good(DelByIp(c, n)) /\ Len(DelByIp(c, n)) = Len(c) - 2
           /\ \A x, y : Maps(DelByIp(c, n), x, y) => Maps(c, x, y) /\ x # n
<1> DEFINE v == Value(c, n)
<1>1. Maps(c, n, v)
  BY ValueFacts DEF Good
<1>2. DelByIp(c, n) = Without(Without(c, v), n)
  BY DEF DelByIp
<1> HIDE DEF v
<1>3. PICK p \in 1..Len(c) :
          /\ p % 2 = 1
          /\ \/ c[p].key = n /\ c[p + 1].key = v
             \/ c[p].key = v /\ c[p + 1].key = n
  BY <1>1, PairPlace
<1>4. DelByIp(c, n) = Cut(c, p)
  BY <1>2, <1>3, WithoutPair
<1>5. /\ Good(Cut(c, p)) /\ Len(Cut(c, p)) = Len(c) - 2
      /\ \A x, y : Maps(Cut(c, p), x, y) <=>
             Maps(c, x, y) /\ x # c[p].key /\ x # c[p + 1].key
  BY <1>3, CutFacts
<1> QED
  BY <1>3, <1>4, <1>5

SameMaps == \A x, y : Maps(cache', x, y) <=> Maps(cache, x, y)

(* A known host keeps its address, and becomes the most recently used.     *)
LEMMA LookupKnownKeeps ==
    ASSUME PoolInv, NEW h \in Hosts, LookupKnown(h), UNCHANGED shape
    PROVE  PoolInv' /\ SameMaps /\ Maps(cache, h, Value(cache, h))
<1>1. Good(cache) /\ Maps(cache, h, Value(cache, h))
  BY ValueFacts DEF PoolInv, LookupKnown, Good
<1>2. cache' = Get(Get(cache, h), Value(cache, h))
  BY DEF LookupKnown, GetByHost
<1>3. Good(cache') /\ Len(cache') = Len(cache) /\ SameMaps
  BY <1>1, <1>2, GetPair DEF SameMaps
<1> QED
  BY <1>1, <1>3 DEF PoolInv, LookupKnown, Size

(* So does the host of an address that is looked back.                     *)
LEMMA LookBackKeeps ==
    ASSUME PoolInv, NEW n \in Ips, LookBack(n), UNCHANGED shape
    PROVE  PoolInv' /\ SameMaps
<1>1. CASE Exist(cache, n)
  <2>1. Good(cache) /\ Maps(cache, n, Value(cache, n))
    BY <1>1, ValueFacts DEF PoolInv, Good
  <2>2. cache' = Get(Get(cache, n), Value(cache, n))
    BY <1>1 DEF LookBack, GetByIp
  <2>3. Good(cache') /\ Len(cache') = Len(cache) /\ SameMaps
    BY <2>1, <2>2, GetPair DEF SameMaps
  <2> QED
    BY <1>1, <2>3 DEF PoolInv, LookBack, Size
<1>2. CASE ~Exist(cache, n)
  BY <1>2 DEF PoolInv, LookBack, Size, SameMaps
<1> QED
  BY <1>1, <1>2

(* A new host gets an address that nobody else has; others may be          *)
(* forgotten, and nobody's address changes.                                *)
LEMMA LookupNewKeeps ==
    ASSUME PoolInv, NEW h \in Hosts, LookupNew(h), UNCHANGED shape
    PROVE  /\ PoolInv' /\ NewOffset \in Ips
           /\ Maps(cache', h, NewOffset)
           /\ \A x, y : Maps(cache', x, y) =>
                  Maps(cache, x, y) \/ (x = h /\ y = NewOffset)
                                    \/ (x = NewOffset /\ y = h)
<1> DEFINE ip    == NewOffset
           freed == IF FreeAfter = {} THEN DelByIp(cache, ip) ELSE cache
<1>1. /\ Good(cache) /\ List(cache) /\ Len(cache) \in Nat
      /\ Len(cache) <= 2 * Size /\ ~Exist(cache, h)
  BY DEF PoolInv, LookupNew, Good, List
<1>2. /\ Slots \in Nat \ {0} /\ Size \in Nat \ {0} /\ ip \in Ips /\ ip \in Nat
  BY ShapeFacts DEF Ips
<1>3. cache' = Set(Set(freed, ip, h), h, ip) /\ offset' = ip
  BY DEF LookupNew
<1>4. /\ Good(freed) /\ Len(freed) <= 2 * Size
      /\ \A x, y : Maps(freed, x, y) => Maps(cache, x, y) /\ x # ip
  <2>1. CASE FreeAfter = {}
    <3>1. Exist(cache, ip)
      <4>1. \A d \in Ips : Exist(cache, Ahead(d))
        BY <2>1 DEF FreeAfter
      <4>2. ip = Next1(offset) /\ offset \in Nat
        BY <2>1 DEF NewOffset, PoolInv
      <4>3. CASE Slots = 1
        <5>1. 0 \in Ips /\ ip = Ahead(0)
          BY <4>2, <4>3 DEF Ips, Ahead, Next1
        <5> QED
          BY <4>1, <5>1
      <4>4. CASE Slots # 1
        <5>1. 1 \in Ips /\ ip = Ahead(1)
          BY <1>2, <4>2, <4>4 DEF Ips, Ahead, Next1
        <5> QED
          BY <4>1, <5>1
      <4> QED
        BY <4>3, <4>4
    <3>2. freed = DelByIp(cache, ip)
      BY <2>1
    <3> HIDE DEF freed, ip
    <3> QED
      BY <1>1, <1>2, <3>1, <3>2, DelFacts
  <2>2. CASE FreeAfter # {}
    <3>1. ~Exist(cache, ip)
      <4>1. FreeAfter \subseteq Nat
        BY <1>2 DEF FreeAfter, Ips
      <4>2. (CHOOSE d \in FreeAfter : \A x \in FreeAfter : d <= x)
              \in FreeAfter
        BY <2>2, <4>1, Nearest
      <4> QED
        BY <2>2, <4>2 DEF NewOffset, FreeAfter
    <3>2. freed = cache
      BY <2>2
    <3> HIDE DEF freed, ip
    <3>3. \A x, y : Maps(cache, x, y) => x # ip
      BY <1>1, <3>1, ValueFacts
    <3> QED
      BY <1>1, <3>2, <3>3
  <2> QED
    BY <2>1, <2>2
<1> HIDE DEF freed, ip
<1>5. ~Exist(freed, ip) /\ ~Exist(freed, h)
  <2>1. List(freed)
    BY <1>4 DEF Good
  <2>2. \A y : ~Maps(freed, ip, y) /\ ~Maps(freed, h, y)
    BY <1>1, <1>4, ValueFacts
  <2> QED
    BY <2>1, <2>2, ValueFacts
<1>6. IsPair(ip, h)
  BY <1>2 DEF IsPair
<1>7. /\ Good(cache') /\ Len(cache') <= 2 * Size
      /\ \A x, y : Maps(cache', x, y) =>
             Maps(freed, x, y) \/ (x = ip /\ y = h) \/ (x = h /\ y = ip)
      /\ Maps(cache', ip, h) /\ Maps(cache', h, ip)
  BY <1>2, <1>3, <1>4, <1>5, <1>6, SetPair
<1>8. PoolInv'
  BY <1>2, <1>3, <1>7 DEF PoolInv, Size
<1> QED
  BY <1>2, <1>4, <1>7, <1>8 DEF ip

(* Every call keeps the pairs.                                             *)
LEMMA NextPool == PoolInv /\ [Next]_vars => PoolInv'
<1> SUFFICES ASSUME PoolInv, [Next]_vars PROVE PoolInv'
  OBVIOUS
<1>1. CASE UNCHANGED vars
  BY <1>1 DEF vars, PoolInv, Size
<1> QED
  BY <1>1, LookupKnownKeeps, LookBackKeeps, LookupNewKeeps DEF Next

(* An empty cache is in pairs.                                             *)
LEMMA InitPool == Init => PoolInv
<1> SUFFICES ASSUME Init PROVE PoolInv
  OBVIOUS
<1>1. cache = <<>> /\ shape \in Shapes /\ offset = 0
  BY DEF Init
<1>2. Size \in Nat
  BY <1>1, ShapesAssumption DEF Size
<1>3. /\ <<>> \in Seq(Entry) /\ Len(<<>>) = 0 /\ 1..0 = {}
  OBVIOUS
<1> QED
  BY <1>1, <1>2, <1>3 DEF PoolInv, Good, List, Distinct, Paired

(* However many hosts share the pool, the cache holds whole pairs.         *)
THEOREM PairsStay == Spec => []PoolInv
  BY InitPool, NextPool, PTL DEF Spec

(* The entries of a host are neighbours and fill the cache from an even    *)
(* position, so that evictions, one entry at a time, forget whole hosts.   *)
THEOREM PairsOfEntries == Spec => []EntriesPaired
<1>1. PoolInv => EntriesPaired
  BY DEF PoolInv, Good, Paired, EntriesPaired
<1> QED
  BY <1>1, PairsStay, PTL

(* No host keeps an address that maps back to nothing or to another host,  *)
(* and no address a host that has another.                                 *)
THEOREM DirectionsAgree == Spec => []BothDirections
<1>1. PoolInv => BothDirections
  BY ValueFacts, Symmetric DEF PoolInv, Good, BothDirections
<1> QED
  BY <1>1, PairsStay, PTL

(* What a step does to the addresses of those who keep one.                *)
LEMMA AddressesStay ==
    ASSUME PoolInv, [Next]_vars, NEW h \in Hosts,
           Exist(cache, h), Exist(cache', h)
    PROVE  Value(cache, h) = Value(cache', h)
<1>1. List(cache) /\ List(cache') /\ PoolInv'
  BY NextPool DEF PoolInv, Good
<1>2. Maps(cache', h, Value(cache', h))
  BY <1>1, ValueFacts
<1>3. CASE SameMaps
  BY <1>1, <1>2, <1>3, ValueFacts DEF SameMaps
<1>4. ASSUME NEW g \in Hosts, LookupNew(g), UNCHANGED shape
      PROVE  Value(cache, h) = Value(cache', h)
  <2>1. g # h /\ NewOffset \notin Hosts
    BY <1>4, LookupNewKeeps, HostAssumption DEF LookupNew, Ips
  <2>2. Maps(cache, h, Value(cache', h))
    BY <1>2, <1>4, <2>1, LookupNewKeeps
  <2> QED
    BY <1>1, <2>2, ValueFacts
<1>5. CASE UNCHANGED vars
  BY <1>5 DEF vars
<1> QED
  BY <1>3, <1>4, <1>5, LookupKnownKeeps, LookBackKeeps DEF Next

(* An address does not change hands while its host is kept.                *)
THEOREM AddressesAreStable == Spec => KeptAddressIsStable
<1>1. PoolInv /\ [Next]_vars =>
          [\A h \in Hosts : Exist(cache, h) /\ Exist(cache', h)
                              => Value(cache, h) = Value(cache', h)]_vars
  BY AddressesStay
<1> QED
  BY <1>1, PairsStay, PTL DEF Spec, KeptAddressIsStable

-----------------------------------------------------------------------------
(* The refinement.                                                         *)

(* The map of the hosts, in terms of entries.                              *)
HostMapOK ==
    /\ HostMap = [h \in Names |-> HostMap[h]]
    /\ \A h \in Hosts : \A n :
          Maps(cache, h, n) <=> h \in Names /\ HostMap[h] = n
    /\ Map!Injective(HostMap)

(* It is what the entries of the hosts say.                                *)
LEMMA HostMapFacts == PoolInv => HostMapOK
<1> SUFFICES ASSUME PoolInv PROVE HostMapOK
  OBVIOUS
<1>1. List(cache) /\ Good(cache)
  BY DEF PoolInv, Good
<1>2. HostMap = [h \in Names |-> HostMap[h]]
  BY DEF HostMap
<1>3. \A h \in Hosts : \A n :
        Maps(cache, h, n) <=> h \in Names /\ HostMap[h] = n
  BY <1>1, ValueFacts DEF HostMap, Names
<1>4. ASSUME NEW x \in Names, NEW y \in Names, HostMap[x] = HostMap[y]
      PROVE  x = y
  <2>1. x \in Hosts /\ y \in Hosts
    BY DEF Names
  <2>2. Maps(cache, x, HostMap[x]) /\ Maps(cache, y, HostMap[x])
    BY <1>3, <1>4, <2>1
  <2>3. Maps(cache, HostMap[x], x) /\ Maps(cache, HostMap[x], y)
    BY <1>1, <2>2, Symmetric
  <2> QED
    BY <1>1, <2>3, ValueFacts
<1>5. DOMAIN HostMap = Names
  BY DEF HostMap
<1> QED
  BY <1>2, <1>3, <1>4, <1>5 DEF Map!Injective, HostMapOK

(* Equal entries make equal maps.                                          *)
LEMMA SameMapsSameHosts ==
    ASSUME PoolInv, PoolInv', SameMaps PROVE HostMap' = HostMap
<1>1. List(cache) /\ List(cache')
  BY DEF PoolInv, Good
<1>2. \A h : Exist(cache', h) <=> Exist(cache, h)
  BY <1>1, ValueFacts DEF SameMaps
<1>3. \A h : Exist(cache, h) => Value(cache', h) = Value(cache, h)
  BY <1>1, <1>2, ValueFacts DEF SameMaps
<1>4. Names' = Names
  BY <1>2 DEF Names
<1>5. \A h \in Names : Value(cache', h) = Value(cache, h)
  BY <1>3 DEF Names
<1> QED
  BY <1>4, <1>5 DEF HostMap

(* A lookup of a known host is a lookup in the map, which does not change. *)
LEMMA KnownIsLookup ==
    ASSUME PoolInv, NEW h \in Hosts, LookupKnown(h), UNCHANGED shape
    PROVE  Map!Lookup(h)
<1>1. PoolInv' /\ HostMap' = HostMap /\ Maps(cache, h, Value(cache, h))
  BY LookupKnownKeeps, SameMapsSameHosts
<1>2. h \in Names /\ HostMap[h] = Value(cache, h) /\ DOMAIN HostMap = Names
      /\ Map!Injective(HostMap)
  BY <1>1, HostMapFacts DEF HostMap, HostMapOK
<1>3. reply' = [host |-> h, ip |-> HostMap'[h]]
  BY <1>1, <1>2 DEF LookupKnown
<1>4. Map!Injective(HostMap')
  BY <1>1, <1>2
<1> QED
  BY <1>1, <1>2, <1>3, <1>4 DEF Map!Lookup

(* A look back finds the host whose address it is, if there is one.        *)
LEMMA LookBackIsLookBack ==
    ASSUME PoolInv, NEW n \in Ips, LookBack(n), UNCHANGED shape
    PROVE  n \in AllIps /\ Map!LookBack(n)
<1>1. HostMap' = HostMap /\ n \in AllIps
  BY LookBackKeeps, SameMapsSameHosts, ShapeFacts
<1>2. /\ DOMAIN HostMap = Names /\ Names \subseteq Hosts
      /\ Good(cache) /\ List(cache)
  BY DEF HostMap, Names, PoolInv, Good
<1>3. CASE Exist(cache, n)
  <2> DEFINE h == Value(cache, n)
  <2>1. reply' = [host |-> h, ip |-> n]
    BY <1>3 DEF LookBack
  <2>2. Maps(cache, n, h)
    BY <1>2, <1>3, ValueFacts
  <2> HIDE DEF h
  <2>3. Maps(cache, h, n) /\ h \in Hosts
    <3>1. IsPair(n, h) /\ n \in Nat
      BY <1>2, <2>2, PairPlace, ShapeFacts DEF Ips
    <3> QED
      BY <1>2, <2>2, <3>1, Symmetric, HostAssumption DEF IsPair
  <2>4. h \in DOMAIN HostMap /\ HostMap[h] = n
    BY <1>2, <2>3, HostMapFacts DEF HostMapOK
  <2> QED
    BY <1>1, <2>1, <2>4 DEF Map!LookBack
<1>4. CASE ~Exist(cache, n)
  <2>1. reply' = [host |-> NoHost, ip |-> n]
    BY <1>4 DEF LookBack
  <2>2. ASSUME NEW h \in DOMAIN HostMap, HostMap[h] = n PROVE FALSE
    <3>1. Maps(cache, h, n)
      BY <1>2, <2>2, HostMapFacts DEF HostMapOK
    <3> QED
      BY <1>2, <1>4, <3>1, Symmetric, ValueFacts
  <2> QED
    BY <1>1, <2>1, <2>2 DEF Map!LookBack
<1> QED
  BY <1>1, <1>3, <1>4

(* A lookup of a new host adds it to the map, and may forget others.       *)
LEMMA NewIsLookup ==
    ASSUME PoolInv, NEW h \in Hosts, LookupNew(h), UNCHANGED shape
    PROVE  Map!Lookup(h)
<1> DEFINE ip   == NewOffset
           kept == Names' \ {h}
<1>1. /\ PoolInv' /\ ip \in Ips /\ Maps(cache', h, ip)
      /\ \A x, y : Maps(cache', x, y) =>
             Maps(cache, x, y) \/ (x = h /\ y = ip) \/ (x = ip /\ y = h)
  BY LookupNewKeeps
<1>2. ip \in AllIps /\ ip \notin Hosts
  BY <1>1, ShapeFacts, HostAssumption DEF Ips
<1>3. /\ DOMAIN HostMap = Names /\ h \notin Names
      /\ Names' \subseteq Hosts
  BY DEF HostMap, Names, LookupNew
<1>4. /\ \A x \in Hosts : \A n :
             Maps(cache, x, n) <=> x \in Names /\ HostMap[x] = n
      /\ \A x \in Hosts : \A n :
             Maps(cache', x, n) <=> x \in Names' /\ HostMap'[x] = n
      /\ HostMap' = [x \in Names' |-> HostMap'[x]]
      /\ Map!Injective(HostMap')
  <2>1. HostMapOK
    BY HostMapFacts
  <2>2. PoolInv' => HostMapOK'
    BY HostMapFacts, PTL
  <2> QED
    BY <1>1, <2>1, <2>2 DEF HostMapOK, Map!Injective
<1>5. reply' = [host |-> h, ip |-> ip]
  BY DEF LookupNew
<1> HIDE DEF ip
<1>6. h \in Names' /\ HostMap'[h] = ip
  BY <1>1, <1>4
<1>7. \A x \in kept : x \in Names /\ HostMap'[x] = HostMap[x]
  <2> SUFFICES ASSUME NEW x \in kept
               PROVE  x \in Names /\ HostMap'[x] = HostMap[x]
    OBVIOUS
  <2>1. x \in Hosts /\ x # h /\ x # ip /\ Maps(cache', x, HostMap'[x])
    BY <1>2, <1>3, <1>4
  <2> QED
    BY <1>1, <1>4, <2>1
<1>8. HostMap' = [x \in kept \cup {h} |-> IF x = h THEN ip ELSE HostMap[x]]
  <2>1. Names' = kept \cup {h}
    BY <1>6
  <2>2. \A x \in Names' : HostMap'[x] = IF x = h THEN ip ELSE HostMap[x]
    BY <1>6, <1>7
  <2> HIDE DEF kept
  <2> QED
    BY <1>4, <2>1, <2>2
<1>9. kept \in SUBSET DOMAIN HostMap
  BY <1>3, <1>7
<1> HIDE DEF kept
<1> QED
  BY <1>2, <1>3, <1>4, <1>5, <1>6, <1>8, <1>9 DEF Map!Lookup

(* Every call of the pool is one of the map.                               *)
LEMMA NextIsMap ==
    PoolInv /\ [Next]_vars => [Map!Next]_<<HostMap, reply>>
<1> SUFFICES ASSUME PoolInv, [Next]_vars PROVE [Map!Next]_<<HostMap, reply>>
  OBVIOUS
<1>1. CASE UNCHANGED vars
  BY <1>1 DEF vars, HostMap, Names
<1> QED
  BY <1>1, KnownIsLookup, NewIsLookup, LookBackIsLookBack DEF Next, Map!Next

(* The pool is a map without clashes: a lookup answers with the host's own *)
(* address, and a look back with the host whose address it is.             *)
THEOREM PoolIsMap == Spec => ImplementsMap
<1>1. Init => Map!Init
  <2> SUFFICES ASSUME Init PROVE Map!Init
    OBVIOUS
  <2>1. Names = {}
    BY DEF Init, Names, Exist
  <2>2. HostMap = <<>>
    BY <2>1 DEF HostMap
  <2> QED
    BY <2>2 DEF Init, Map!Init
<1> QED
  BY <1>1, NextIsMap, PairsStay, PTL DEF Spec, ImplementsMap, Map!Spec
-----------------------------------------------------------------------------
(* The pairs of the cache, counted.                                        *)

(* Two places in one pair are one place or neighbours.                     *)
LEMMA SamePair ==
    ASSUME NEW i \in Nat, NEW j \in Nat, (i + 1) \div 2 = (j + 1) \div 2
    PROVE  \/ i = j
           \/ i % 2 = 1 /\ j = i + 1
           \/ j % 2 = 1 /\ i = j + 1
  OBVIOUS

(* No pair has two keys of a kind.                                         *)
LEMMA KeysCounted ==
    ASSUME NEW c, Good(c), NEW T, T \subseteq Hosts \/ T \subseteq Nat,
           \A k \in T : Exist(c, k)
    PROVE  IsFiniteSet(T) /\ Cardinality(T) <= Len(c) \div 2
<1> DEFINE m == Len(c) \div 2
           Pair(k) == (Place(c, k) + 1) \div 2
           f == [k \in T |-> Pair(k)]
<1>1. Len(c) \in Nat /\ m \in Nat /\ Len(c) = 2 * m
  BY DEF Good, List, Paired
<1>2. \A k \in T : /\ Place(c, k) \in 1..Len(c)
                   /\ c[Place(c, k)].key = k
                   /\ Pair(k) \in 1..m
  <2> SUFFICES ASSUME NEW k \in T
               PROVE  /\ Place(c, k) \in 1..Len(c)
                      /\ c[Place(c, k)].key = k
                      /\ Pair(k) \in 1..m
    OBVIOUS
  <2>1. PICK i \in 1..Len(c) : c[i].key = k
    BY DEF Exist
  <2>2. Place(c, k) = i
    BY <2>1, PlaceFacts DEF Good
  <2> QED
    BY <1>1, <2>1, <2>2
<1>3. ASSUME NEW k \in T, NEW l \in T, Pair(k) = Pair(l) PROVE k = l
  <2> DEFINE i == Place(c, k)
             j == Place(c, l)
  <2>1. /\ i \in 1..Len(c) /\ j \in 1..Len(c)
        /\ c[i].key = k /\ c[j].key = l /\ c[i] \in Entry /\ c[j] \in Entry
        /\ (i + 1) \div 2 = (j + 1) \div 2
    BY <1>2, <1>3 DEF Good, List
  <2> HIDE DEF i, j
  <2>2. \/ i = j
        \/ i % 2 = 1 /\ j = i + 1
        \/ j % 2 = 1 /\ i = j + 1
    <3>1. i \in Nat /\ j \in Nat
      BY <1>1, <2>1
    <3> QED
      BY <2>1, <3>1, SamePair
  <2>3. \A e \in Entry : ~(e.key \in T /\ e.val \in T)
    BY EntryFacts, HostAssumption
  <2>4. CASE i % 2 = 1 /\ j = i + 1
    <3>1. c[i].val = c[j].key
      BY <2>1, <2>4 DEF Good, Paired
    <3> QED
      BY <2>1, <2>3, <3>1
  <2>5. CASE j % 2 = 1 /\ i = j + 1
    <3>1. c[j].val = c[i].key
      BY <2>1, <2>5 DEF Good, Paired
    <3> QED
      BY <2>1, <2>3, <3>1
  <2> QED
    BY <2>1, <2>2, <2>4, <2>5
<1>4. f \in Injection(T, 1..m)
  <2> HIDE DEF Pair, m
  <2> QED
    BY <1>2, <1>3 DEF Injection, IsInjective
<1>5. IsFiniteSet(1..m) /\ Cardinality(1..m) = m
  BY <1>1, FS_Interval
<1> HIDE DEF f
<1>6. IsFiniteSet(T) /\ Cardinality(T) <= Cardinality(1..m)
  BY <1>4, <1>5, FS_Injection
<1> QED
  BY <1>5, <1>6

(* Every pair has a host.                                                  *)
LEMMA HostsCounted ==
    ASSUME NEW c, Good(c), NEW H, H = {h \in Hosts : Exist(c, h)}
    PROVE  IsFiniteSet(H) /\ Cardinality(H) = Len(c) \div 2
<1> DEFINE m == Len(c) \div 2
           Host(i) == IF c[2 * i].key \in Hosts THEN c[2 * i].key
                      ELSE c[2 * i - 1].key
           f == [i \in 1..m |-> Host(i)]
<1>1. Len(c) \in Nat /\ m \in Nat /\ Len(c) = 2 * m
  BY DEF Good, List, Paired
<1>2. IsFiniteSet(H) /\ Cardinality(H) <= m /\ Cardinality(H) \in Nat
  <2>1. IsFiniteSet(H) /\ Cardinality(H) <= m
    BY KeysCounted
  <2> QED
    BY <2>1, FS_CardinalityType
<1>3. ASSUME NEW i \in 1..m
      PROVE  /\ Host(i) \in Hosts
             /\ \E j \in 1..Len(c) : /\ j = 2 * i \/ j = 2 * i - 1
                                     /\ c[j].key = Host(i)
  <2> DEFINE q == 2 * i - 1
  <2>1. q \in 1..Len(c) /\ q + 1 \in 1..Len(c) /\ q % 2 = 1 /\ q + 1 = 2 * i
    BY <1>1
  <2>2. Host(i) = IF c[q + 1].key \in Hosts THEN c[q + 1].key ELSE c[q].key
    BY <2>1
  <2>3. \A j : j = q => j = 2 * i - 1
    OBVIOUS
  <2> HIDE DEF q, Host
  <2>4. c[q].key = c[q + 1].val /\ c[q + 1] \in Entry
    BY <2>1 DEF Good, List, Paired
  <2>5. c[q + 1].key \in Hosts \/ c[q].key \in Hosts
    BY <2>4, EntryFacts
  <2> QED
    BY <2>1, <2>2, <2>3, <2>5
<1>4. \A i \in 1..m : Host(i) \in H
  BY <1>3 DEF Exist
<1>5. ASSUME NEW i \in 1..m, NEW j \in 1..m, Host(i) = Host(j) PROVE i = j
  <2>1. PICK x \in 1..Len(c) : /\ x = 2 * i \/ x = 2 * i - 1
                               /\ c[x].key = Host(i)
    BY <1>3
  <2>2. PICK y \in 1..Len(c) : /\ y = 2 * j \/ y = 2 * j - 1
                               /\ c[y].key = Host(j)
    BY <1>3
  <2> HIDE DEF Host
  <2>3. x = y
    BY <1>5, <2>1, <2>2 DEF Good, List, Distinct
  <2> QED
    BY <1>1, <2>1, <2>2, <2>3
<1>6. f \in Injection(1..m, H)
  <2> HIDE DEF Host, m
  <2> QED
    BY <1>4, <1>5 DEF Injection, IsInjective
<1>7. IsFiniteSet(1..m) /\ Cardinality(1..m) = m
  BY <1>1, FS_Interval
<1> HIDE DEF f
<1>8. Cardinality(1..m) <= Cardinality(H)
  BY <1>2, <1>6, FS_Injection
<1> QED
  BY <1>1, <1>2, <1>7, <1>8

(* A range larger than the cache always has a free address.                *)
LEMMA RoomIsLeft ==
    ASSUME PoolInv, Size < Slots, offset \in Ips
    PROVE  FreeAfter # {}
<1> SUFFICES ASSUME FreeAfter = {} PROVE FALSE
  OBVIOUS
<1>1. Slots \in Nat \ {0} /\ Size \in Nat \ {0}
  BY ShapeFacts
<1>2. \A d \in Ips : Exist(cache, Ahead(d))
  BY DEF FreeAfter
<1>3. ASSUME NEW n \in Ips PROVE Exist(cache, n)
  <2>1. n \in Nat /\ offset \in Nat /\ n < Slots /\ offset < Slots
    BY <1>1 DEF Ips
  <2>2. CASE n >= offset
    <3>1. n - offset \in Ips /\ offset + (n - offset) = n
      BY <1>1, <2>1, <2>2 DEF Ips
    <3>2. n % Slots = n
      BY <1>1, <2>1
    <3> QED
      BY <1>2, <3>1, <3>2 DEF Ahead
  <2>3. CASE n < offset
    <3> DEFINE d == n - offset + Slots
    <3>1. d \in Ips /\ offset + d = n + Slots
      BY <1>1, <2>1, <2>3 DEF Ips
    <3>2. (n + Slots) % Slots = n
      BY <1>1, <2>1
    <3> HIDE DEF d
    <3> QED
      BY <1>2, <3>1, <3>2 DEF Ahead
  <2> QED
    BY <2>1, <2>2, <2>3
<1>4. Ips \subseteq Nat
  BY <1>1 DEF Ips
<1>5. Cardinality(Ips) <= Len(cache) \div 2
  BY <1>3, <1>4, KeysCounted DEF PoolInv
<1>6. Cardinality(Ips) = Slots
  BY <1>1, FS_Interval DEF Ips
<1>7. Len(cache) \in Nat /\ Len(cache) <= 2 * Size
  BY DEF PoolInv, Good, List
<1> QED
  BY <1>1, <1>5, <1>6, <1>7

-----------------------------------------------------------------------------
(* The order of the cache is the order of use.                             *)

(* The entry of x is before that of y.                                     *)
Before(c, x, y) ==
    \E i, j \in 1..Len(c) : i < j /\ c[i].key = x /\ c[j].key = y

(* Taking out a pair leaves the others in their order.                     *)
LEMMA CutOrder ==
    ASSUME NEW c, Good(c), NEW p \in 1..Len(c), p % 2 = 1, NEW x, NEW y,
           Before(Cut(c, p), x, y)
    PROVE  Before(c, x, y)
<1> DEFINE n == Len(c) - 2
           d == Cut(c, p)
           f == [i \in 1..n |-> IF i < p THEN i ELSE i + 2]
<1>1. Len(c) \in Nat /\ p \in Nat /\ Len(d) = n
  BY CutFacts DEF Good, List
<1>2. \A i \in 1..n : d[i] = c[f[i]] /\ f[i] \in 1..Len(c)
  BY <1>1 DEF Cut
<1>3. \A i, j \in 1..n : i < j => f[i] < f[j]
  BY <1>1
<1>4. PICK i \in 1..n, j \in 1..n : i < j /\ d[i].key = x /\ d[j].key = y
  BY <1>1 DEF Before
<1> HIDE DEF d, f, n
<1> QED
  BY <1>2, <1>3, <1>4 DEF Before

(* The host of a pair that is added comes after all others.                *)
LEMMA AddOrder ==
    ASSUME NEW c, Good(c), NEW k, NEW v, IsPair(k, v),
           ~Exist(c, k), ~Exist(c, v), NEW h \in Hosts, h \in {k, v},
           NEW x \in Hosts, NEW y \in Hosts, Before(AddPair(c, k, v), x, y)
    PROVE  x # h /\ (y # h => Before(c, x, y))
<1> DEFINE a == [key |-> k, val |-> v]
           b == [key |-> v, val |-> k]
           d == AddPair(c, k, v)
           n == Len(c)
<1>1. a \in Entry /\ b \in Entry /\ a.key = k /\ b.key = v
  BY DEF IsPair, Entry
<1>2. c \in Seq(Entry) /\ n \in Nat
  BY DEF Good, List
<1>3. {k, v} \cap Hosts = {h}
  BY HostAssumption DEF IsPair
<1> HIDE DEF a, b
<1>4. d = Append(Append(c, a), b)
  BY DEF AddPair, a, b
<1>5. /\ Good(d) /\ Len(d) = n + 2
  BY AddPairFacts
<1> HIDE DEF d
<1>6. /\ d[n + 1] = a /\ d[n + 2] = b /\ \A i \in 1..n : d[i] = c[i]
  BY <1>1, <1>2, <1>4
<1>7. PICK i \in 1..Len(d), j \in 1..Len(d) :
          i < j /\ d[i].key = x /\ d[j].key = y
  BY DEF Before, d
<1>8. \A q \in 1..Len(d) : q \in 1..n \/ q = n + 1 \/ q = n + 2
  BY <1>2, <1>5
<1>9. \A q \in 1..n : d[q].key # k /\ d[q].key # v
  BY <1>6 DEF Exist
<1>10. x # y
  BY <1>5, <1>7 DEF Good, List, Distinct
<1>11. i \in 1..n
  BY <1>1, <1>2, <1>3, <1>5, <1>6, <1>7, <1>8, <1>10
<1>12. x # h
  BY <1>7, <1>9, <1>11
<1>13. ASSUME y # h PROVE Before(c, x, y)
  <2>1. j \in 1..n
    BY <1>1, <1>3, <1>6, <1>7, <1>8, <1>13
  <2> QED
    BY <1>6, <1>7, <1>11, <2>1 DEF Before
<1> QED
  BY <1>12, <1>13
(* For every host in the cache since holds those that come after it; for   *)
(* one that was forgotten it holds as many as the cache has room for.      *)
InOrder ==
    /\ DOMAIN since \subseteq Hosts
    /\ \A x \in Hosts : Exist(cache, x) => x \in DOMAIN since
    /\ \A x, y \in Hosts : Before(cache, x, y) => y \in since[x]
    /\ \A x \in DOMAIN since :
          /\ IsFiniteSet(since[x])
          /\ Exist(cache, x) \/ Cardinality(since[x]) >= Size

UseInv == PoolInv /\ (Size < Slots => offset \in Ips /\ InOrder)

(* The use of a host puts it behind some of the others.                    *)
LEMMA UseKeeps ==
    ASSUME Size \in Nat, UNCHANGED shape, InOrder, NEW h \in Hosts, Use(h),
           NEW k, NEW v, IsPair(k, v), h \in {k, v},
           NEW d, Good(d), ~Exist(d, k), ~Exist(d, v),
           cache' = AddPair(d, k, v),
           \A x, y : Before(d, x, y) => Before(cache, x, y),
           \A x : Exist(d, x) => Exist(cache, x),
           \A x \in DOMAIN since :
               x # h /\ Exist(cache, x) =>
                   \/ Exist(d, x)
                   \/ Cardinality(since[x] \cup {h}) >= Size
    PROVE  InOrder'
<1> USE DEF Use
<1>1. Size' = Size
  BY DEF Size
<1>2. /\ Good(cache')
      /\ \A x, y : Maps(cache', x, y) <=>
             Maps(d, x, y) \/ (x = k /\ y = v) \/ (x = v /\ y = k)
  BY AddPairFacts
<1>3. \A x : Exist(cache', x) <=> Exist(d, x) \/ x = k \/ x = v
  BY <1>2, ValueFacts DEF Good
<1>4. \A x \in Hosts : Exist(cache', x) <=> Exist(d, x) \/ x = h
  BY <1>3, HostAssumption DEF IsPair
<1>5. /\ DOMAIN since' = DOMAIN since \cup {h} /\ since'[h] = {}
      /\ \A x \in DOMAIN since : x # h => since'[x] = since[x] \cup {h}
  OBVIOUS
<1> HIDE DEF Use
<1>6. DOMAIN since' \subseteq Hosts
  BY <1>5 DEF InOrder
<1>7. \A x \in Hosts : Exist(cache', x) => x \in DOMAIN since'
  BY <1>4, <1>5 DEF InOrder
<1>8. ASSUME NEW x \in Hosts, NEW y \in Hosts, Before(cache', x, y)
      PROVE  y \in since'[x]
  <2>1. x # h /\ (y # h => Before(d, x, y))
    BY <1>8, AddOrder
  <2>2. Exist(cache', x)
    BY <1>8 DEF Before, Exist
  <2>3. x \in DOMAIN since
    BY <1>4, <2>1, <2>2 DEF InOrder
  <2>4. y # h => y \in since[x]
    BY <2>1 DEF InOrder
  <2> QED
    BY <1>5, <2>1, <2>3, <2>4
<1>9. ASSUME NEW x \in DOMAIN since'
      PROVE  /\ IsFiniteSet(since'[x])
             /\ Exist(cache', x) \/ Cardinality(since'[x]) >= Size
  <2>1. CASE x = h
    BY <1>4, <1>5, <2>1, FS_EmptySet
  <2>2. CASE x # h
    <3>1. x \in DOMAIN since /\ x \in Hosts
      BY <1>5, <1>6, <2>2
    <3>2. IsFiniteSet(since[x])
      BY <3>1 DEF InOrder
    <3>3. /\ IsFiniteSet(since[x] \cup {h})
          /\ Cardinality(since[x] \cup {h}) >= Cardinality(since[x])
          /\ Cardinality(since[x]) \in Nat
          /\ Cardinality(since[x] \cup {h}) \in Nat
      <4>1. IsFiniteSet(since[x] \cup {h})
        BY <3>2, FS_AddElement
      <4>2. since[x] \in SUBSET (since[x] \cup {h})
        OBVIOUS
      <4>3. Cardinality(since[x]) <= Cardinality(since[x] \cup {h})
        BY <4>1, <4>2, FS_Subset
      <4>4. /\ Cardinality(since[x]) \in Nat
            /\ Cardinality(since[x] \cup {h}) \in Nat
        BY <3>2, <4>1, FS_CardinalityType
      <4> QED
        BY <4>1, <4>3, <4>4
    <3>4. since'[x] = since[x] \cup {h}
      BY <1>5, <2>2, <3>1
    <3>5. Exist(cache, x) \/ Cardinality(since[x]) >= Size
      BY <3>1 DEF InOrder
    <3>6. Exist(cache, x) =>
              Exist(d, x) \/ Cardinality(since[x] \cup {h}) >= Size
      BY <2>2, <3>1
    <3> QED
      BY <1>4, <3>1, <3>3, <3>4, <3>5, <3>6
  <2> QED
    BY <2>1, <2>2
<1> QED
  BY <1>1, <1>6, <1>7, <1>8, <1>9 DEF InOrder

(* Using a host that is in the cache forgets nobody.                       *)
LEMMA UseKnown ==
    ASSUME PoolInv, UNCHANGED shape, InOrder, NEW h \in Hosts, Use(h),
           NEW k, NEW v, Maps(cache, k, v), h \in {k, v},
           cache' = Get(Get(cache, k), v)
    PROVE  InOrder'
<1>1. Good(cache) /\ Size \in Nat /\ IsPair(k, v)
  BY ShapeFacts, PairPlace DEF PoolInv
<1>2. PICK p \in 1..Len(cache) :
          /\ p % 2 = 1 /\ {k, v} = {cache[p].key, cache[p + 1].key}
          /\ cache' = AddPair(Cut(cache, p), k, v)
  <2>1. Moved(cache, cache', k, v)
    BY <1>1, GetPair
  <2> QED
    BY <2>1 DEF Moved
<1> DEFINE d == Cut(cache, p)
<1>3. /\ Good(d)
      /\ \A x, y : Maps(d, x, y) <=>
             /\ Maps(cache, x, y)
             /\ x # cache[p].key /\ x # cache[p + 1].key
  BY <1>1, <1>2, CutFacts
<1>4. \A x, y : Before(d, x, y) => Before(cache, x, y)
  BY <1>1, <1>2, CutOrder
<1>5. cache' = AddPair(d, k, v)
  BY <1>2
<1> HIDE DEF d
<1>6. \A x : Exist(d, x) <=> Exist(cache, x) /\ x \notin {k, v}
  BY <1>1, <1>2, <1>3, ValueFacts DEF Good
<1>7. \A x \in Hosts : x # h => x \notin {k, v}
  BY <1>1, HostAssumption DEF IsPair
<1> QED
  BY <1>1, <1>3, <1>4, <1>5, <1>6, <1>7, UseKeeps DEF InOrder

(* A new host forgets the one used longest ago when the cache is full,     *)
(* since whose last use all others of the cache and the new one were used. *)
LEMMA UseNew ==
    ASSUME PoolInv, UNCHANGED shape, Size < Slots, offset \in Ips, InOrder,
           NEW h \in Hosts, LookupNew(h)
    PROVE  InOrder'
<1> DEFINE ip == NewOffset
<1>1. /\ Good(cache) /\ List(cache) /\ Len(cache) \in Nat
      /\ Len(cache) <= 2 * Size /\ Size \in Nat \ {0}
  BY ShapeFacts DEF PoolInv, Good, List
<1>2. FreeAfter # {}
  BY RoomIsLeft
<1>3. ip \in Nat /\ ip \in Ips /\ ~Exist(cache, ip)
  <2>1. ip \in Ips /\ Ips \subseteq Nat
    BY ShapeFacts DEF Ips
  <2>2. FreeAfter \subseteq Nat
    BY <2>1 DEF FreeAfter
  <2>3. (CHOOSE x \in FreeAfter : \A y \in FreeAfter : x <= y) \in FreeAfter
    BY <1>2, <2>2, Nearest
  <2> QED
    BY <1>2, <2>1, <2>3 DEF NewOffset, FreeAfter
<1>4. /\ cache' = Set(Set(cache, ip, h), h, ip) /\ Use(h)
      /\ ~Exist(cache, h)
  BY <1>2 DEF LookupNew
<1> HIDE DEF ip
<1>5. IsPair(ip, h)
  BY <1>3 DEF IsPair
<1>6. \/ Len(cache) < 2 * Size /\ cache' = AddPair(cache, ip, h)
      \/ Len(cache) = 2 * Size /\ cache' = AddPair(Cut(cache, 1), ip, h)
  BY <1>1, <1>3, <1>4, <1>5, SetPair
<1>7. CASE cache' = AddPair(cache, ip, h)
  BY <1>1, <1>3, <1>4, <1>5, <1>7, UseKeeps
<1>8. CASE Len(cache) = 2 * Size /\ cache' = AddPair(Cut(cache, 1), ip, h)
  <2> DEFINE d == Cut(cache, 1)
             H == {x \in Hosts : Exist(cache, x)}
  <2>1. 1 \in 1..Len(cache) /\ 1 % 2 = 1
    BY <1>1, <1>8
  <2>2. /\ Good(d) /\ 1 + 1 \in 1..Len(cache)
        /\ \A x, y : Maps(d, x, y) <=>
               /\ Maps(cache, x, y)
               /\ x # cache[1].key /\ x # cache[1 + 1].key
    BY <1>1, <2>1, CutFacts
  <2>3. \A x, y : Before(d, x, y) => Before(cache, x, y)
    BY <1>1, <2>1, CutOrder
  <2>4. cache' = AddPair(d, ip, h)
    BY <1>8
  <2> HIDE DEF d
  <2>5. \A x : Exist(d, x) <=> /\ Exist(cache, x)
                               /\ x # cache[1].key /\ x # cache[1 + 1].key
    BY <1>1, <2>2, ValueFacts DEF Good
  <2>6. ~Exist(d, ip) /\ ~Exist(d, h)
    BY <1>3, <1>4, <2>5
  <2>7. ASSUME NEW x \in DOMAIN since, Exist(cache, x), ~Exist(d, x)
        PROVE  Cardinality(since[x] \cup {h}) >= Size
    <3>1. x \in H /\ IsFiniteSet(since[x])
      BY <2>7 DEF InOrder
    <3>2. ASSUME NEW y \in H, y # x PROVE Before(cache, x, y)
      <4>1. PICK j \in 1..Len(cache) : cache[j].key = y
        BY DEF Exist
      <4>2. PICK i \in {1, 2} : cache[i].key = x
        BY <2>5, <2>7
      <4>3. i \in 1..Len(cache) /\ i # j
        BY <2>1, <2>2, <3>2, <4>1, <4>2
      <4>4. CASE i < j
        BY <4>1, <4>2, <4>3, <4>4 DEF Before
      <4>5. CASE ~(i < j)
        <5>1. i = 2 /\ j = 1
          BY <1>1, <4>1, <4>2, <4>3, <4>5
        <5>2. cache[1].val = x /\ cache[1].key = y /\ cache[1] \in Entry
          BY <1>1, <2>1, <4>1, <4>2, <5>1 DEF Good, List, Paired
        <5> QED
          BY <3>1, <5>2, EntryFacts, HostAssumption
      <4> QED
        BY <4>4, <4>5
    <3>3. H \ {x} \subseteq since[x]
      BY <3>1, <3>2 DEF InOrder
    <3>4. IsFiniteSet(H) /\ Cardinality(H) = Size
      BY <1>1, <1>8, HostsCounted
    <3>5. h \notin H
      BY <1>4
    <3> HIDE DEF H
    <3>6. IsFiniteSet(H \ {x}) /\ Cardinality(H \ {x}) = Size - 1
      BY <3>1, <3>4, FS_RemoveElement
    <3>7. Cardinality((H \ {x}) \cup {h}) = Size
      <4>1. h \notin H \ {x}
        BY <3>5
      <4>2. Cardinality((H \ {x}) \cup {h}) = Cardinality(H \ {x}) + 1
        BY <3>6, <4>1, FS_AddElement, Zenon
      <4> QED
        BY <1>1, <3>6, <4>2
    <3>8. IsFiniteSet(since[x] \cup {h})
      BY <3>1, FS_AddElement
    <3>9. (H \ {x}) \cup {h} \subseteq since[x] \cup {h}
      BY <3>3
    <3>10. Cardinality((H \ {x}) \cup {h}) <= Cardinality(since[x] \cup {h})
      BY <3>8, <3>9, FS_Subset
    <3>11. Cardinality(since[x] \cup {h}) \in Nat
      BY <3>8, FS_CardinalityType
    <3> QED
      BY <1>1, <3>7, <3>10, <3>11
  <2>8. \A x : Exist(d, x) => Exist(cache, x)
    BY <2>5
  <2> HIDE DEF H
  <2> QED
    BY <1>1, <1>4, <1>5, <2>2, <2>3, <2>4, <2>6, <2>7, <2>8, UseKeeps
<1> QED
  BY <1>6, <1>7, <1>8

(* Every call keeps the order of use.                                      *)
LEMMA NextUse == UseInv /\ [Next]_vars => UseInv'
<1> SUFFICES ASSUME UseInv, [Next]_vars PROVE UseInv'
  OBVIOUS
<1>1. PoolInv /\ PoolInv'
  BY NextPool DEF UseInv
<1>2. CASE UNCHANGED vars
  BY <1>1, <1>2 DEF vars, UseInv, InOrder, Size, Slots, Ips
<1>3. CASE Next
  <2>1. UNCHANGED shape
    BY <1>3 DEF Next
  <2>2. Size' = Size /\ Slots' = Slots /\ Ips' = Ips
    BY <2>1 DEF Size, Slots, Ips
  <2> SUFFICES ASSUME Size < Slots PROVE offset' \in Ips /\ InOrder'
    BY <1>1, <2>2 DEF UseInv
  <2>3. offset \in Ips /\ InOrder
    BY DEF UseInv
  <2>4. ASSUME NEW h \in Hosts, LookupKnown(h)
        PROVE  offset' \in Ips /\ InOrder'
    <3>1. Maps(cache, h, Value(cache, h))
      BY <1>1, <2>1, <2>4, LookupKnownKeeps
    <3>2. /\ cache' = Get(Get(cache, h), Value(cache, h)) /\ Use(h)
          /\ UNCHANGED offset
      BY <2>4 DEF LookupKnown, GetByHost
    <3> QED
      BY <1>1, <2>1, <2>3, <3>1, <3>2, UseKnown
  <2>5. ASSUME NEW h \in Hosts, LookupNew(h)
        PROVE  offset' \in Ips /\ InOrder'
    <3>1. offset' \in Ips
      BY <1>1, <2>5, ShapeFacts DEF LookupNew
    <3> QED
      BY <1>1, <2>1, <2>3, <2>5, <3>1, UseNew
  <2>6. ASSUME NEW n \in Ips, LookBack(n)
        PROVE  offset' \in Ips /\ InOrder'
    <3>1. CASE Exist(cache, n)
      <4>1. Good(cache) /\ Maps(cache, n, Value(cache, n))
        BY <1>1, <3>1, ValueFacts DEF PoolInv, Good
      <4>2. Value(cache, n) \in Hosts
        <5>1. IsPair(n, Value(cache, n)) /\ n \in Nat
          BY <1>1, <4>1, PairPlace, ShapeFacts DEF Ips
        <5> QED
          BY <5>1, HostAssumption DEF IsPair
      <4>3. /\ cache' = Get(Get(cache, n), Value(cache, n))
            /\ Use(Value(cache, n)) /\ UNCHANGED offset
        BY <2>6, <3>1 DEF LookBack, GetByIp
      <4> QED
        BY <1>1, <2>1, <2>3, <4>1, <4>2, <4>3, UseKnown
    <3>2. CASE ~Exist(cache, n)
      <4>1. UNCHANGED <<cache, offset, since>>
        BY <2>6, <3>2 DEF LookBack
      <4> QED
        BY <2>2, <2>3, <4>1 DEF InOrder
    <3> QED
      BY <3>1, <3>2
  <2> QED
    BY <1>3, <2>4, <2>5, <2>6 DEF Next
<1> QED
  BY <1>2, <1>3

(* Nobody has used the pool that was just made.                            *)
LEMMA InitUse == Init => UseInv
<1> SUFFICES ASSUME Init PROVE UseInv
  OBVIOUS
<1>1. PoolInv
  BY InitPool
<1>2. cache = <<>> /\ since = <<>> /\ offset = 0
  BY DEF Init
<1>3. Len(<<>>) = 0 /\ DOMAIN since = {}
  BY <1>2
<1>4. offset \in Ips
  BY <1>1, <1>2, ShapeFacts DEF Ips
<1>5. InOrder
  BY <1>2, <1>3 DEF InOrder, Exist, Before
<1> QED
  BY <1>1, <1>4, <1>5 DEF UseInv

(* While the range is larger than the cache, the hosts used most recently, *)
(* as many as the cache has room for, keep their addresses.                *)
THEOREM RecentHostsStay == Spec => []RecentHostsKept
<1>1. UseInv => RecentHostsKept
  <2> SUFFICES ASSUME UseInv, Size < Slots, NEW h \in DOMAIN since,
                      Cardinality(since[h]) < Size
               PROVE  Exist(cache, h)
    BY DEF RecentHostsKept
  <2>1. IsFiniteSet(since[h])
        /\ (Exist(cache, h) \/ Cardinality(since[h]) >= Size)
    BY DEF UseInv, InOrder
  <2>2. Cardinality(since[h]) \in Nat /\ Size \in Nat
    BY <2>1, FS_CardinalityType, ShapeFacts DEF UseInv
  <2> QED
    BY <2>1, <2>2
<1> QED
  BY <1>1, InitUse, NextUse, PTL DEF Spec
=============================================================================
