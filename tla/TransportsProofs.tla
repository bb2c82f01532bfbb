--------------------------- MODULE TransportsProofs ---------------------------
(***************************************************************************)
(* What the transports and the dials of the outbounds promise, for any     *)
(* sizes of writes, pieces and buffers: a connection carries its bytes in  *)
(* their order, each once, and shows none of the bytes around them; a dial *)
(* leaves no socket open that its caller does not have.                    *)
(*                                                                         *)
(* A link is a sequence of atoms, of which DataOf keeps those that its     *)
(* user wrote.  FrameInv says that what was read and what the link still   *)
(* has make up what was sent (Stock, DataOf), and keeps for each transport *)
(* the form of its wire (Shape) that its reader needs in order to take the *)
(* next bytes for what they are.  A writer makes a wire of that form       *)
(* (Carries), a reader takes from its front and leaves one (Serves); the   *)
(* loops of both are functions of the round, and hold their facts by       *)
(* induction (AllNumbers).                                                 *)
(***************************************************************************)
EXTENDS Framing, Outbound, SequenceTheorems, WellFoundedInduction, TLAPS

-----------------------------------------------------------------------------
(* Atoms, links, and what holds of them at every step.                     *)

Kinds == {"data", "mark", "size", "id", "status", "option"}
Atoms == [k : Kinds, n : Nat]
Links == [wire : Seq(Atoms), held : Seq(Atoms), under : Seq(Atoms),
          remain : Nat, recv : Nat, opened : BOOLEAN, replied : BOOLEAN,
          failed : BOOLEAN]

(* The bytes a link still has for Read.                                    *)
Stock(l) == l.held \o l.under \o l.wire

-----------------------------------------------------------------------------
(* Shapes of a wire.                                                       *)

Payload    == {"data", "mark"}
Of(K, w)   == \A i \in 1..Len(w) : w[i].k \in K
Sized      == {"size", "data"}

(* After r payload atoms, which end a record, whole records follow, and    *)
(* what else there is, is no payload.                                      *)
Enclosed(w, i, from) ==
    \E j \in from..Len(w) : j < i /\ w[j].k = "size" /\ i <= j + w[j].n
Ahead(w, i) ==
    /\ i + w[i].n <= Len(w)
    /\ \A j \in 1..Len(w) : i < j /\ j <= i + w[i].n => w[j].k \in Payload
Framed(w, r) ==
    /\ r <= Len(w)
    /\ \A i \in 1..Len(w) : i <= r => w[i].k \in Payload
    /\ \A i \in 1..Len(w) : w[i].k = "size" => Ahead(w, i)
    /\ \A i \in 1..Len(w) : r < i /\ w[i].k \in Payload =>
          Enclosed(w, i, r + 1)

(* The frames of a multiplexed connection, and records with an identifier. *)
Muxed(w) ==
    \A i \in 1..Len(w) :
        /\ w[i].k = "status" => i < Len(w) /\ w[i + 1].k = "option"
        /\ w[i].k = "option" /\ w[i].n = 1 =>
              i < Len(w) /\ w[i + 1].k = "size"
        /\ w[i].k = "size" =>
              2 < i /\ w[i - 1] = Atom("option", 1) /\ w[i - 2].k = "status"
Ided(w) ==
    \A i \in 1..Len(w) :
        /\ w[i].k = "id" => i < Len(w) /\ w[i + 1].k = "size"
        /\ w[i].k = "size" => 1 < i /\ w[i - 1].k = "id"

Headed(w) == 2 <= Len(w) /\ w[1] = Mark /\ w[2] = Mark

(* What the wire holds behind the server's side of the handshake.          *)
Body(l) == IF l.opened THEN l.wire ELSE After(l.wire, 2)
(* That side comes first, and once.                                        *)
Greeted(l) ==
    /\ l.opened => answered
    /\ ~l.opened => IF answered THEN Headed(l.wire) ELSE l.wire = <<>>
Refused(l) == answered /\ ~l.opened /\ l.wire = <<Refusal>>

Raw     == {"ssStream", "vmessRaw", "vless", "vmessHttp", "h2", "obfsHttp",
            "ssrHttp"}
Buffers == {"ssAead", "vmessChunk", "vmessAead"}
Counts  == {"obfsTls", "gun"}
Webs    == {"websocket", "earlyData"}

RawShape(l)    ==
    /\ Greeted(l) /\ Of({"data"}, Body(l))
    /\ layer \notin {"obfsHttp", "ssrHttp"} => l.held = <<>>
BufferShape(l) == Greeted(l) /\ Of(Sized, Body(l)) /\ Framed(Body(l), 0)
CountShape(l)  ==
    /\ Greeted(l) /\ l.held = <<>>
    /\ ~l.opened => l.remain = 0
    /\ Of(Sized, Body(l)) /\ Framed(Body(l), l.remain)
WebShape(l) ==
    l.held = <<>> /\ Of(Sized, l.wire) /\ Framed(l.wire, l.remain)
(* The reply is in the first record of a Snell server, and leads it.       *)
Replies(w) ==
    /\ 2 <= Len(w) /\ w[1].k = "size" /\ 1 <= w[1].n /\ w[2].k = "mark"
    /\ Of(Sized, After(w, 2))
SnellShape(l) ==
    /\ Greeted(l) /\ Framed(Body(l), 0)
    /\ l.replied => l.opened /\ Of(Sized, l.wire)
    /\ ~l.replied =>
          /\ ~l.opened /\ l.held = <<>>
          /\ answered => Replies(Body(l))
MuxShape(l) ==
    /\ l.held = <<>> /\ Muxed(l.wire) /\ Framed(l.wire, l.remain)
    /\ Of({"status", "option"} \cup Sized, l.wire)
Sha1Shape(l) == Of(Sized, l.under \o l.wire) /\ Framed(l.under \o l.wire, 0)
(* The bytes that lead the first record are those at its third place.      *)
MarkThird(w) ==
    /\ 3 <= Len(w) /\ w[3].k = "mark"
    /\ \A i \in 1..Len(w) : i # 3 => w[i].k # "mark"
LedOff(l) ==
    LET s == l.under \o l.wire
    IN  /\ packs = 0 => s = <<>> /\ l.recv = 1
        /\ 0 < packs /\ l.recv = 1 => MarkThird(s)
NumberedShape(l) ==
    LET s == l.under \o l.wire
    IN  /\ Of({"id", "mark"} \cup Sized, s) /\ Framed(s, 0) /\ Ided(s)
        /\ 0 < l.recv
        /\ layer = "authChain" => LedOff(l)
        /\ layer = "authAes128" \/ 1 < l.recv => Of({"id"} \cup Sized, s)

Shape(l) ==
    /\ Of({"data"}, l.held)
    /\ layer \notin Ssr => l.under = <<>>
    /\ layer \in Raw     => RawShape(l) \/ (layer \in Vmess /\ Refused(l))
    /\ layer \in Buffers => BufferShape(l) \/ (layer \in Vmess /\ Refused(l))
    /\ layer \in Counts  => CountShape(l)
    /\ layer \in Webs    => WebShape(l)
    /\ layer = "snell"   => SnellShape(l)
    /\ layer = "trojan"  => l.held = <<>> /\ Of({"data"}, l.wire)
    /\ layer = "mux"     => MuxShape(l)
    /\ layer = "authSha1" => Sha1Shape(l)
    /\ layer \in Numbered => NumberedShape(l)

(* Before there is a transport.                                            *)
Untouched(l) ==
    /\ l.wire = <<>> /\ l.held = <<>> /\ l.under = <<>>
    /\ l.remain = 0 /\ l.recv = 1
    /\ ~l.opened /\ ~l.replied /\ ~l.failed

FrameType ==
    /\ layer \in Layers \cup {""} /\ up \in Seq(Atoms) /\ wrote \in Nat
    /\ started \in BOOLEAN /\ link \in Links /\ answered \in BOOLEAN
    /\ heard \in Nat /\ packs \in Nat /\ got \in Seq(Atoms)
    /\ astray \in BOOLEAN

FrameInv ==
    /\ FrameType
    /\ layer = "" => /\ ~answered /\ Untouched(link)
                     /\ packs = 0 /\ wrote = 0
    /\ layer # "" /\ ~link.failed /\ ~astray => Shape(link)
    /\ DataOf(up) = Bytes(1, wrote) /\ WellFramed(up)
    /\ astray => layer = "mux"
    /\ ~astray => got = Bytes(1, Len(got))
    /\ ~link.failed /\ ~astray => got \o DataOf(Stock(link)) = Bytes(1, heard)
-----------------------------------------------------------------------------
(* Numbers, and loops over them.                                           *)

(* Of some numbers there is a least one.                                   *)
LEMMA LeastOf ==
    ASSUME NEW S, S \subseteq Nat, S # {}
    PROVE  \E i \in S : \A j \in S : i <= j
<1>1. PICK i \in S : \A j \in S : <<j, i>> \notin OpToRel(<, Nat)
  BY WFMin, NatLessThanWellFounded
<1>2. \A j \in S : ~(j < i)
  BY <1>1, Zenon DEF OpToRel
<1> QED
  BY <1>2

(* Induction, for a set of numbers.                                        *)
LEMMA AllNumbers ==
    ASSUME NEW S, 0 \in S, \A n \in Nat : n \in S => n + 1 \in S
    PROVE  Nat \subseteq S
<1> SUFFICES ASSUME Nat \ S # {} PROVE FALSE
  OBVIOUS
<1>1. PICK i \in Nat \ S : \A j \in Nat \ S : i <= j
  BY LeastOf
<1>2. i # 0 /\ i - 1 \in Nat
  BY <1>1
<1>3. i - 1 \in S
  BY <1>1, <1>2
<1> QED
  BY <1>1, <1>2, <1>3

(* F is what a loop that begins with x has after each of m rounds.         *)
IsLoop(F, x, Round, m) ==
    F = [i \in 0..m |-> IF i = 0 THEN x ELSE Round[<<F[i - 1], i>>]]

(* Every loop has such results.                                            *)
LEMMA LoopRuns ==
    ASSUME NEW S, NEW x \in S, NEW Round \in [S \X Nat -> S], NEW m \in Nat
    PROVE  \E F \in [0..m -> S] : IsLoop(F, x, Round, m)
<1> DEFINE Runs(j) == \E F \in [0..j -> S] : IsLoop(F, x, Round, j)
           Done == {j \in Nat : Runs(j)}
<1>1. 0 \in Done
  <2> DEFINE F == [i \in 0..0 |-> x]
  <2>1. F \in [0..0 -> S] /\ IsLoop(F, x, Round, 0)
    BY DEF IsLoop
  <2> QED
    BY <2>1
<1>2. ASSUME NEW j \in Nat, j \in Done PROVE j + 1 \in Done
  <2> PICK F \in [0..j -> S] : IsLoop(F, x, Round, j)
    BY <1>2
  <2> DEFINE next == Round[<<F[j], j + 1>>]
             G == [i \in 0..(j + 1) |-> IF i = j + 1 THEN next ELSE F[i]]
  <2>1. next \in S
    OBVIOUS
  <2>2. \A i \in 0..j : F[i] \in S
    OBVIOUS
  <2>3. G \in [0..(j + 1) -> S]
    BY <2>1, <2>2
  <2>4. ASSUME NEW i \in 0..(j + 1)
        PROVE  G[i] = IF i = 0 THEN x ELSE Round[<<G[i - 1], i>>]
    <3>1. CASE i = 0
      BY <3>1 DEF IsLoop
    <3>2. CASE i # 0
      <4>1. i - 1 \in 0..j /\ i - 1 # j + 1 /\ i - 1 \in 0..(j + 1)
        BY <3>2
      <4>2. G[i - 1] = F[i - 1]
        BY <4>1
      <4>3. CASE i = j + 1
        BY <4>2, <4>3, <3>2
      <4>4. CASE i # j + 1
        <5>1. i \in 0..j
          BY <4>4
        <5>2. G[i] = F[i]
          BY <4>4
        <5>3. F[i] = IF i = 0 THEN x ELSE Round[<<F[i - 1], i>>]
          BY <5>1 DEF IsLoop
        <5> QED
          BY <5>2, <5>3, <4>2, <3>2
      <4> QED
        BY <4>3, <4>4
    <3> QED
      BY <3>1, <3>2
  <2>5. G = [i \in 0..(j + 1) |-> G[i]]
    OBVIOUS
  <2> HIDE DEF G
  <2>6. IsLoop(G, x, Round, j + 1)
    BY <2>4, <2>5 DEF IsLoop
  <2>7. Runs(j + 1)
    BY <2>3, <2>6
  <2>8. j + 1 \in Nat
    OBVIOUS
  <2> HIDE DEF Runs
  <2> QED
    BY <2>7, <2>8
<1>3. m \in Done
  <2> HIDE DEF Done
  <2> QED
    BY <1>1, <1>2, AllNumbers
<1> QED
  BY <1>3

-----------------------------------------------------------------------------
(* Sequences of atoms.                                                     *)

(* An atom is of its kind and has its number.                              *)
LEMMA AtomTypes ==
    /\ \A k \in Kinds, n \in Nat : Atom(k, n) \in Atoms
    /\ \A k \in Kinds, n \in Nat : Atom(k, n).k = k /\ Atom(k, n).n = n
    /\ Mark \in Atoms /\ Refusal \in Atoms
    /\ \A n \in Nat : Size(n) \in Atoms /\ Size(n).k = "size" /\ Size(n).n = n
    /\ Mark.k = "mark" /\ Refusal.k = "mark" /\ Mark # Refusal
<1>1. \A k, n : Atom(k, n).k = k /\ Atom(k, n).n = n
  BY DEF Atom
<1>2. \A k \in Kinds, n \in Nat : Atom(k, n) \in Atoms
  BY DEF Atom, Atoms
<1>3. /\ Mark \in Atoms /\ Refusal \in Atoms
      /\ \A n \in Nat : Size(n) \in Atoms
  <2>1. "mark" \in Kinds /\ "size" \in Kinds
    BY DEF Kinds
  <2>2. Atom("mark", 1) \in Atoms /\ Atom("mark", 0) \in Atoms
    BY <1>2, <2>1
  <2>3. \A n \in Nat : Atom("size", n) \in Atoms
    BY <1>2, <2>1
  <2> QED
    BY <2>2, <2>3 DEF Mark, Refusal, Size
<1>4. /\ Mark.k = "mark" /\ Refusal.k = "mark" /\ Mark # Refusal
      /\ \A n \in Nat : Size(n).k = "size" /\ Size(n).n = n
  BY <1>1 DEF Mark, Refusal, Size
<1> QED
  BY <1>1, <1>2, <1>3, <1>4

(* What follows from a wire being a sequence of atoms.                     *)
LEMMA Wires ==
    ASSUME NEW w \in Seq(Atoms)
    PROVE  /\ Len(w) \in Nat /\ DOMAIN w = 1..Len(w)
           /\ \A i \in 1..Len(w) : w[i] \in Atoms /\ w[i].k \in Kinds
                                   /\ w[i].n \in Nat
           /\ w = <<>> <=> Len(w) = 0
<1>1. Len(w) \in Nat /\ DOMAIN w = 1..Len(w)
  BY LenProperties
<1>2. \A i \in 1..Len(w) : w[i] \in Atoms
  BY ElementOfSeq
<1>3. w = <<>> <=> Len(w) = 0
  BY EmptySeq
<1> QED
  BY <1>1, <1>2, <1>3 DEF Atoms

(* Two sequences with the same elements are the same.                      *)
LEMMA SameWires ==
    ASSUME NEW v \in Seq(Atoms), NEW w \in Seq(Atoms), Len(v) = Len(w),
           \A i \in 1..Len(v) : v[i] = w[i]
    PROVE  v = w
BY SeqEqual

(* Two wires one behind the other.                                         *)
LEMMA Joined ==
    ASSUME NEW v \in Seq(Atoms), NEW w \in Seq(Atoms)
    PROVE  /\ v \o w \in Seq(Atoms) /\ Len(v \o w) = Len(v) + Len(w)
           /\ \A i \in 1..(Len(v) + Len(w)) :
                 (v \o w)[i] = IF i <= Len(v) THEN v[i] ELSE w[i - Len(v)]
           /\ \A i \in 1..Len(v) : (v \o w)[i] = v[i]
           /\ \A i \in 1..Len(w) : (v \o w)[Len(v) + i] = w[i]
<1>1. /\ v \o w \in Seq(Atoms) /\ Len(v \o w) = Len(v) + Len(w)
      /\ \A i \in 1..(Len(v) + Len(w)) :
            (v \o w)[i] = IF i <= Len(v) THEN v[i] ELSE w[i - Len(v)]
  BY ConcatProperties
<1>2. Len(v) \in Nat /\ Len(w) \in Nat
  BY Wires
<1>3. \A i \in 1..Len(v) : (v \o w)[i] = v[i]
  BY <1>1, <1>2
<1>4. \A i \in 1..Len(w) : (v \o w)[Len(v) + i] = w[i]
  BY <1>1, <1>2
<1> QED
  BY <1>1, <1>3, <1>4

(* Joining wires associates, and nothing joined changes nothing.           *)
LEMMA JoinAssociates ==
    ASSUME NEW u \in Seq(Atoms), NEW v \in Seq(Atoms), NEW w \in Seq(Atoms)
    PROVE  /\ (u \o v) \o w = u \o (v \o w)
           /\ <<>> \o u = u /\ u \o <<>> = u
<1>1. (u \o v) \o w = u \o (v \o w)
  BY ConcatAssociative
<1>2. <<>> \o u = u /\ u \o <<>> = u
  BY ConcatEmptySeq
<1> QED
  BY <1>1, <1>2

(* The first n atoms of a wire.                                            *)
LEMMA Uptos ==
    ASSUME NEW w \in Seq(Atoms), NEW n \in Nat
    PROVE  /\ Upto(w, n) \in Seq(Atoms)
           /\ Len(Upto(w, n)) = Least(n, Len(w))
           /\ \A i \in 1..Len(Upto(w, n)) : Upto(w, n)[i] = w[i]
<1> DEFINE m == Least(n, Len(w))
<1>1. Len(w) \in Nat /\ m \in Nat /\ m <= Len(w)
  BY Wires DEF Least
<1>2. \A i \in 1..m : w[i] \in Atoms
  BY <1>1, Wires
<1>3. /\ SubSeq(w, 1, m) \in Seq(Atoms)
      /\ Len(SubSeq(w, 1, m)) = IF 1 <= m THEN m - 1 + 1 ELSE 0
      /\ \A i \in 1..(m - 1 + 1) : SubSeq(w, 1, m)[i] = w[1 + i - 1]
  BY <1>1, <1>2, SubSeqProperties
<1> QED
  BY <1>1, <1>3 DEF Upto

(* What is behind the first n atoms of a wire.                             *)
LEMMA Afters ==
    ASSUME NEW w \in Seq(Atoms), NEW n \in Nat
    PROVE  /\ After(w, n) \in Seq(Atoms)
           /\ Len(After(w, n)) = IF n <= Len(w) THEN Len(w) - n ELSE 0
           /\ \A i \in 1..Len(After(w, n)) : After(w, n)[i] = w[n + i]
<1>1. Len(w) \in Nat
  BY Wires
<1>2. \A i \in (n + 1)..Len(w) : w[i] \in Atoms
  BY <1>1, Wires
<1>3. /\ SubSeq(w, n + 1, Len(w)) \in Seq(Atoms)
      /\ Len(SubSeq(w, n + 1, Len(w))) =
            IF n + 1 <= Len(w) THEN Len(w) - (n + 1) + 1 ELSE 0
      /\ \A i \in 1..(Len(w) - (n + 1) + 1) :
            SubSeq(w, n + 1, Len(w))[i] = w[n + 1 + i - 1]
  BY <1>1, <1>2, SubSeqProperties
<1> QED
  BY <1>1, <1>3 DEF After

(* A sequence is its head and the rest of it.                              *)
LEMMA Parted ==
    ASSUME NEW w \in Seq(Atoms), NEW n \in Nat
    PROVE  Upto(w, n) \o After(w, n) = w
<1>1. /\ Upto(w, n) \in Seq(Atoms) /\ After(w, n) \in Seq(Atoms)
      /\ Len(w) \in Nat
  BY Uptos, Afters, Wires
<1>2. Len(Upto(w, n)) + Len(After(w, n)) = Len(w)
  BY <1>1, Uptos, Afters DEF Least
<1>3. Upto(w, n) \o After(w, n) \in Seq(Atoms)
      /\ Len(Upto(w, n) \o After(w, n)) = Len(w)
  BY <1>1, <1>2, Joined
<1>4. ASSUME NEW i \in 1..Len(w) PROVE (Upto(w, n) \o After(w, n))[i] = w[i]
  <2>1. (Upto(w, n) \o After(w, n))[i] =
           IF i <= Len(Upto(w, n)) THEN Upto(w, n)[i]
           ELSE After(w, n)[i - Len(Upto(w, n))]
    BY <1>1, <1>2, Joined
  <2>2. CASE i <= Len(Upto(w, n))
    BY <2>1, <2>2, Uptos, <1>1
  <2>3. CASE ~(i <= Len(Upto(w, n)))
    <3>1. Len(Upto(w, n)) = n /\ n <= Len(w)
      BY <2>3, <1>1, Uptos DEF Least
    <3>2. i - n \in 1..Len(After(w, n))
      BY <3>1, <2>3, <1>1, Afters
    <3> QED
      BY <2>1, <2>3, <3>1, <3>2, Afters
  <2> QED
    BY <2>2, <2>3
<1> QED
  BY <1>3, <1>4, SameWires
(* An atom behind two sequences.                                           *)
LEMMA JoinAppends ==
    ASSUME NEW u \in Seq(Atoms), NEW v \in Seq(Atoms), NEW x \in Atoms
    PROVE  Append(u \o v, x) = u \o Append(v, x)
<1> DEFINE y == <<x>>
<1>1. y \in Seq(Atoms)
  OBVIOUS
<1>2. u \o v \in Seq(Atoms)
  BY Joined
<1>3. Append(u \o v, x) = (u \o v) \o y /\ Append(v, x) = v \o y
  BY <1>2, AppendIsConcat
<1> HIDE DEF y
<1>4. (u \o v) \o y = u \o (v \o y)
  BY <1>1, ConcatAssociative
<1> QED
  BY <1>3, <1>4

-----------------------------------------------------------------------------
(* The application's bytes on a wire.                                      *)

Kept(F, w, i) == IF w[i].k = "data" THEN Append(F[i - 1], w[i]) ELSE F[i - 1]

(* F is what the search for bytes has found after each atom of w.          *)
Finds(F, w) ==
    /\ F \in [0..Len(w) -> Seq(Atoms)]
    /\ F[0] = <<>> /\ \A i \in 1..Len(w) : F[i] = Kept(F, w, i)

(* DataOf is what a loop over the wire has found at its end.               *)
LEMMA Found ==
    ASSUME NEW w \in Seq(Atoms)
    PROVE  \E F : Finds(F, w) /\ DataOf(w) = F[Len(w)]
<1> DEFINE W == Seq(Atoms)
           Round == [p \in W \X Nat |->
                        IF p[2] \in 1..Len(w)
                        THEN IF w[p[2]].k = "data" THEN Append(p[1], w[p[2]])
                             ELSE p[1]
                        ELSE <<>>]
           Loop(F) == F = [i \in 0..Len(w) |->
                              IF i = 0 THEN <<>>
                              ELSE IF w[i].k = "data"
                              THEN Append(F[i - 1], w[i])
                              ELSE F[i - 1]]
           found == CHOOSE F : Loop(F)
<1>1. Len(w) \in Nat /\ \A i \in 1..Len(w) : w[i] \in Atoms
  BY Wires
<1>2. <<>> \in W
  BY EmptySeq
<1>3. \A s \in W, i \in 1..Len(w) : Append(s, w[i]) \in W
  BY <1>1, AppendProperties
<1>4. Round \in [W \X Nat -> W]
  <2> HIDE DEF W
  <2>1. ASSUME NEW p \in W \X Nat
        PROVE  (IF p[2] \in 1..Len(w)
                THEN IF w[p[2]].k = "data" THEN Append(p[1], w[p[2]])
                     ELSE p[1]
                ELSE <<>>) \in W
    <3>1. p[1] \in W /\ p[2] \in Nat
      OBVIOUS
    <3> QED
      BY <1>2, <1>3, <3>1
  <2> QED
    BY <2>1
<1>5. PICK F \in [0..Len(w) -> W] : IsLoop(F, <<>>, Round, Len(w))
  <2> HIDE DEF Round, W
  <2> QED
    BY <1>1, <1>2, <1>4, LoopRuns
<1>6. \A i \in 1..Len(w) : F[i - 1] \in W /\ <<F[i - 1], i>> \in W \X Nat
  <2> HIDE DEF W
  <2> QED
    BY <1>1
<1>7. \A i \in 1..Len(w) : Round[<<F[i - 1], i>>] = Kept(F, w, i)
  <2> HIDE DEF W
  <2> QED
    BY <1>6 DEF Kept
<1>8. Loop(F)
  <2> HIDE DEF Round, W
  <2>1. ASSUME NEW i \in 0..Len(w)
        PROVE  F[i] = IF i = 0 THEN <<>> ELSE Kept(F, w, i)
    <3>1. F[i] = IF i = 0 THEN <<>> ELSE Round[<<F[i - 1], i>>]
      BY <1>5 DEF IsLoop
    <3> QED
      BY <3>1, <1>7, <1>1
  <2> QED
    BY <1>5, <2>1 DEF Kept
<1>9. Loop(found)
  BY <1>8
<1>10. \A G : Loop(G) =>
          G[0] = <<>> /\ \A i \in 1..Len(w) : G[i] = Kept(G, w, i)
  <2> SUFFICES ASSUME NEW G, Loop(G)
               PROVE  G[0] = <<>> /\ \A i \in 1..Len(w) : G[i] = Kept(G, w, i)
    OBVIOUS
  <2>1. \A i \in 0..Len(w) : G[i] = IF i = 0 THEN <<>> ELSE Kept(G, w, i)
    BY DEF Kept
  <2>2. 0 \in 0..Len(w) /\ \A i \in 1..Len(w) : i \in 0..Len(w) /\ i # 0
    BY <1>1
  <2> HIDE DEF Loop
  <2> QED
    BY <2>1, <2>2
<1>11. \A i \in 0..Len(w) : found[i] = F[i]
  <2> DEFINE Same == {i \in Nat : i <= Len(w) => found[i] = F[i]}
  <2> HIDE DEF found, Loop
  <2>1. 0 \in Same
    BY <1>8, <1>9, <1>10
  <2>2. ASSUME NEW i \in Nat, i \in Same PROVE i + 1 \in Same
    <3> SUFFICES ASSUME i + 1 <= Len(w) PROVE found[i + 1] = F[i + 1]
      OBVIOUS
    <3>1. i + 1 \in 1..Len(w) /\ (i + 1) - 1 = i /\ found[i] = F[i]
      BY <2>2, <1>1
    <3> QED
      BY <3>1, <1>8, <1>9, <1>10 DEF Kept
  <2> HIDE DEF Same
  <2>3. Nat \subseteq Same
    BY <2>1, <2>2, AllNumbers
  <2> QED
    BY <2>3, <1>1 DEF Same
<1>12. DataOf(w) = found[Len(w)]
  BY DEF DataOf
<1>13. F[0] = <<>> /\ \A i \in 1..Len(w) : F[i] = Kept(F, w, i)
  BY <1>8, <1>10
<1> HIDE DEF found
<1> QED
  BY <1>1, <1>11, <1>12, <1>13 DEF Finds

(* The bytes of two wires in a row.                                        *)
LEMMA DataOfJoined ==
    ASSUME NEW v \in Seq(Atoms), NEW w \in Seq(Atoms)
    PROVE  DataOf(v \o w) = DataOf(v) \o DataOf(w)
<1> DEFINE u == v \o w
<1>1. /\ u \in Seq(Atoms) /\ Len(u) = Len(v) + Len(w)
      /\ \A i \in 1..Len(v) : u[i] = v[i]
      /\ \A i \in 1..Len(w) : u[Len(v) + i] = w[i]
      /\ Len(v) \in Nat /\ Len(w) \in Nat
  BY Joined, Wires
<1>2. PICK F : Finds(F, v) /\ DataOf(v) = F[Len(v)]
  BY Found
<1>3. PICK G : Finds(G, w) /\ DataOf(w) = G[Len(w)]
  BY Found
<1>4. PICK H : Finds(H, u) /\ DataOf(u) = H[Len(u)]
  BY <1>1, Found
<1> HIDE DEF u
<1> DEFINE Ahd  == {i \in Nat : i <= Len(v) => H[i] = F[i]}
           Follows(i) == H[Len(v) + i] = F[Len(v)] \o G[i]
           Then == {i \in Nat : i <= Len(w) => Follows(i)}
<1>5. 0 \in Ahd
  BY <1>2, <1>4 DEF Finds
<1>6. ASSUME NEW i \in Nat, i \in Ahd PROVE i + 1 \in Ahd
  <2> SUFFICES ASSUME i + 1 <= Len(v) PROVE H[i + 1] = F[i + 1]
    OBVIOUS
  <2>1. i + 1 \in 1..Len(v) /\ i + 1 \in 1..Len(u) /\ (i + 1) - 1 = i
        /\ H[i] = F[i]
    BY <1>6, <1>1
  <2> QED
    BY <2>1, <1>1, <1>2, <1>4 DEF Finds, Kept
<1>7. H[Len(v)] = F[Len(v)]
  <2> HIDE DEF Ahd
  <2>1. Nat \subseteq Ahd
    BY <1>5, <1>6, AllNumbers
  <2> QED
    BY <2>1, <1>1 DEF Ahd
<1>8. F[Len(v)] \in Seq(Atoms) /\ \A i \in 0..Len(w) : G[i] \in Seq(Atoms)
  <2>1. F[Len(v)] \in Seq(Atoms)
    BY <1>1, <1>2 DEF Finds
  <2>2. \A i \in 0..Len(w) : G[i] \in Seq(Atoms)
    BY <1>3 DEF Finds
  <2> QED
    BY <2>1, <2>2
<1>9. 0 \in Then
  <2>1. F[Len(v)] \o <<>> = F[Len(v)]
    BY <1>8, JoinAssociates
  <2>2. G[0] = <<>>
    BY <1>3 DEF Finds
  <2>3. Len(v) + 0 = Len(v)
    BY <1>1
  <2>4. Follows(0)
    BY <1>7, <2>1, <2>2, <2>3
  <2> HIDE DEF Follows
  <2> QED
    BY <2>4
<1>10. ASSUME NEW i \in Nat, i \in Then PROVE i + 1 \in Then
  <2> DEFINE x == w[i + 1]
  <2>1. ASSUME i + 1 <= Len(w) PROVE Follows(i + 1)
    <3>1. /\ i + 1 \in 1..Len(w) /\ (i + 1) - 1 = i /\ x \in Atoms
          /\ i \in 0..Len(w)
      BY <1>1, <2>1, Wires
    <3>2. Follows(i)
      <4> HIDE DEF Follows
      <4> QED
        BY <1>10, <3>1
    <3>3. /\ Len(v) + (i + 1) \in 1..Len(u)
          /\ (Len(v) + (i + 1)) - 1 = Len(v) + i
      BY <1>1, <3>1
    <3>4. u[Len(v) + (i + 1)] = x
      BY <1>1, <3>1
    <3>5. H[Len(v) + (i + 1)] =
             IF x.k = "data" THEN Append(H[Len(v) + i], x)
             ELSE H[Len(v) + i]
      BY <1>4, <3>3, <3>4 DEF Finds, Kept
    <3>6. G[i + 1] = IF x.k = "data" THEN Append(G[i], x) ELSE G[i]
      BY <1>3, <3>1 DEF Finds, Kept
    <3>7. Append(F[Len(v)] \o G[i], x) = F[Len(v)] \o Append(G[i], x)
      <4>1. F[Len(v)] \in Seq(Atoms) /\ G[i] \in Seq(Atoms)
        BY <1>8, <3>1
      <4> HIDE DEF x
      <4> QED
        BY <4>1, <3>1, JoinAppends
    <3> HIDE DEF x
    <3>8. CASE x.k = "data"
      BY <3>2, <3>5, <3>6, <3>7, <3>8, Zenon
    <3>9. CASE x.k # "data"
      BY <3>2, <3>5, <3>6, <3>9, Zenon
    <3> QED
      BY <3>8, <3>9
  <2>2. i + 1 \in Nat
    OBVIOUS
  <2> HIDE DEF Follows
  <2> QED
    BY <2>1, <2>2
<1>11. Follows(Len(w))
  <2> HIDE DEF Then, Follows
  <2>1. Nat \subseteq Then
    BY <1>9, <1>10, AllNumbers
  <2> QED
    BY <2>1, <1>1 DEF Then
<1> QED
  BY <1>1, <1>2, <1>3, <1>4, <1>11 DEF u

(* A wire of bytes alone is what it carries.                               *)
LEMMA DataOfBytes ==
    ASSUME NEW w \in Seq(Atoms), Of({"data"}, w)
    PROVE  DataOf(w) = w
<1>1. Len(w) \in Nat /\ \A i \in 1..Len(w) : w[i] \in Atoms
  BY Wires
<1>2. PICK F : Finds(F, w) /\ DataOf(w) = F[Len(w)]
  BY Found
<1> DEFINE All == {i \in Nat : i <= Len(w) =>
                      /\ Len(F[i]) = i
                      /\ \A j \in 1..i : F[i][j] = w[j]}
<1>3. 0 \in All
  BY <1>2, EmptySeq DEF Finds
<1>4. ASSUME NEW i \in Nat, i \in All PROVE i + 1 \in All
  <2> SUFFICES ASSUME i + 1 <= Len(w)
               PROVE  /\ Len(F[i + 1]) = i + 1
                      /\ \A j \in 1..(i + 1) : F[i + 1][j] = w[j]
    OBVIOUS
  <2>1. i + 1 \in 1..Len(w) /\ (i + 1) - 1 = i /\ i \in 0..Len(w)
        /\ w[i + 1] \in Atoms /\ w[i + 1].k = "data"
    BY <1>1 DEF Of
  <2>2. F[i + 1] = Append(F[i], w[i + 1]) /\ F[i] \in Seq(Atoms)
    BY <1>2, <2>1 DEF Finds, Kept
  <2>3. Len(F[i]) = i /\ \A j \in 1..i : F[i][j] = w[j]
    BY <1>4, <2>1
  <2>4. /\ Len(Append(F[i], w[i + 1])) = Len(F[i]) + 1
        /\ \A j \in 1..Len(F[i]) : Append(F[i], w[i + 1])[j] = F[i][j]
        /\ Append(F[i], w[i + 1])[Len(F[i]) + 1] = w[i + 1]
    BY <2>1, <2>2, AppendProperties
  <2> QED
    BY <2>2, <2>3, <2>4
<1>5. Len(F[Len(w)]) = Len(w) /\ \A j \in 1..Len(w) : F[Len(w)][j] = w[j]
  <2> HIDE DEF All
  <2>1. Nat \subseteq All
    BY <1>3, <1>4, AllNumbers
  <2> QED
    BY <2>1, <1>1 DEF All
<1>6. F[Len(w)] \in Seq(Atoms)
  BY <1>1, <1>2 DEF Finds
<1> QED
  BY <1>2, <1>5, <1>6, SameWires

(* A wire without bytes carries none.                                      *)
LEMMA DataOfNone ==
    ASSUME NEW w \in Seq(Atoms), \A i \in 1..Len(w) : w[i].k # "data"
    PROVE  DataOf(w) = <<>>
<1>1. Len(w) \in Nat
  BY Wires
<1>2. PICK F : Finds(F, w) /\ DataOf(w) = F[Len(w)]
  BY Found
<1> DEFINE None == {i \in Nat : i <= Len(w) => F[i] = <<>>}
<1>3. 0 \in None
  BY <1>2 DEF Finds
<1>4. ASSUME NEW i \in Nat, i \in None PROVE i + 1 \in None
  <2> SUFFICES ASSUME i + 1 <= Len(w) PROVE F[i + 1] = <<>>
    OBVIOUS
  <2>1. i + 1 \in 1..Len(w) /\ (i + 1) - 1 = i /\ F[i] = <<>>
    BY <1>4, <1>1
  <2> QED
    BY <1>2, <2>1 DEF Finds, Kept
<1>5. Nat \subseteq None
  <2> HIDE DEF None
  <2> QED
    BY <1>3, <1>4, AllNumbers
<1> QED
  BY <1>1, <1>2, <1>5

(* There is no data on an empty wire.                                      *)
LEMMA DataOfNil == DataOf(<<>>) = <<>>
<1> DEFINE e == <<>>
<1>1. e \in Seq(Atoms) /\ Len(e) = 0
  BY EmptySeq
<1> HIDE DEF e
<1>2. \A i \in 1..Len(e) : e[i].k # "data"
  BY <1>1
<1>3. DataOf(e) = <<>>
  BY <1>1, <1>2, DataOfNone
<1> QED
  BY <1>3 DEF e

(* The data of a wire is a wire.                                           *)
LEMMA DataOfType ==
    ASSUME NEW w \in Seq(Atoms)
    PROVE  DataOf(w) \in Seq(Atoms)
<1>1. PICK F : Finds(F, w) /\ DataOf(w) = F[Len(w)]
  BY Found
<1> QED
  BY <1>1, Wires DEF Finds

(* Taking what is no byte from the front, or the bytes there, in turn.     *)
LEMMA DataOfParts ==
    ASSUME NEW w \in Seq(Atoms), NEW n \in Nat
    PROVE  /\ DataOf(w) = DataOf(Upto(w, n)) \o DataOf(After(w, n))
           /\ Of({"data"}, Upto(w, n)) =>
                 DataOf(w) = Upto(w, n) \o DataOf(After(w, n))
           /\ (\A i \in 1..Len(w) : i <= n => w[i].k # "data") =>
                 DataOf(w) = DataOf(After(w, n))
<1> DEFINE u == Upto(w, n)
           a == After(w, n)
<1>1. /\ u \in Seq(Atoms) /\ a \in Seq(Atoms) /\ u \o a = w
      /\ Len(u) = Least(n, Len(w)) /\ Len(w) \in Nat
      /\ \A i \in 1..Len(u) : u[i] = w[i]
  BY Uptos, Afters, Parted, Wires
<1>2. DataOf(w) = DataOf(u) \o DataOf(a)
  BY <1>1, DataOfJoined
<1>3. Of({"data"}, u) => DataOf(u) = u
  BY <1>1, DataOfBytes
<1>4. ASSUME \A i \in 1..Len(w) : i <= n => w[i].k # "data"
      PROVE  DataOf(w) = DataOf(a)
  <2>1. \A i \in 1..Len(u) : u[i].k # "data"
    BY <1>1, <1>4 DEF Least
  <2>2. DataOf(u) = <<>>
    BY <2>1, <1>1, DataOfNone
  <2>3. <<>> \o DataOf(a) = DataOf(a)
    BY <1>1, DataOfType, JoinAssociates
  <2> QED
    BY <1>2, <2>2, <2>3
<1> QED
  BY <1>2, <1>3, <1>4
-----------------------------------------------------------------------------
(* Numbered bytes, kinds of atoms, and what is behind a part of a wire.    *)

(* The bytes from one number to another, and each of them.                 *)
LEMMA BytesFrom ==
    ASSUME NEW m \in Nat, NEW n \in Nat
    PROVE  /\ Bytes(m + 1, m + n) \in Seq(Atoms)
           /\ Len(Bytes(m + 1, m + n)) = n
           /\ \A i \in 1..n : Bytes(m + 1, m + n)[i] = Atom("data", m + i)
           /\ Of({"data"}, Bytes(m + 1, m + n))
<1> DEFINE b == Bytes(m + 1, m + n)
<1>1. /\ (m + n) - (m + 1) + 1 = n
      /\ \A i \in 1..n : (m + 1) + i - 1 = m + i /\ m + i \in Nat
  OBVIOUS
<1>2. b = [i \in 1..n |-> Atom("data", (m + 1) + i - 1)]
  BY <1>1 DEF Bytes
<1>3. \A i \in 1..n : b[i] = Atom("data", m + i) /\ b[i] \in Atoms
                      /\ b[i].k = "data"
  <2> SUFFICES ASSUME NEW i \in 1..n
               PROVE  b[i] = Atom("data", m + i) /\ b[i] \in Atoms
                      /\ b[i].k = "data"
    OBVIOUS
  <2>1. b[i] = Atom("data", m + i) /\ m + i \in Nat
    BY <1>1, <1>2
  <2> HIDE DEF b
  <2> QED
    BY <2>1, AtomTypes DEF Kinds
<1>4. DOMAIN b = 1..n /\ b = [i \in 1..n |-> b[i]]
  BY <1>2
<1> HIDE DEF b
<1>5. b \in [1..n -> Atoms]
  BY <1>3, <1>4
<1>6. b \in Seq(Atoms)
  BY <1>5
<1>7. Len(b) = n
  BY <1>4, <1>6, Wires
<1> QED
  BY <1>3, <1>6, <1>7 DEF b, Of

(* The bytes that follow others make one run with them.                    *)
LEMMA BytesGrow ==
    ASSUME NEW m \in Nat, NEW n \in Nat
    PROVE  /\ Bytes(1, m) \o Bytes(m + 1, m + n) = Bytes(1, m + n)
           /\ Bytes(1, m) \in Seq(Atoms) /\ Len(Bytes(1, m)) = m
           /\ Of({"data"}, Bytes(1, m)) /\ Bytes(1, 0) = <<>>
<1> DEFINE b == Bytes(m + 1, m + n)
           First(j) == /\ Bytes(1, j) \in Seq(Atoms) /\ Len(Bytes(1, j)) = j
                       /\ \A i \in 1..j : Bytes(1, j)[i] = Atom("data", i)
                       /\ Of({"data"}, Bytes(1, j))
<1>1. ASSUME NEW j \in Nat PROVE First(j)
  <2>1. 0 + 1 = 1 /\ 0 + j = j /\ \A i \in 1..j : 0 + i = i
    OBVIOUS
  <2>2. /\ Bytes(0 + 1, 0 + j) \in Seq(Atoms) /\ Len(Bytes(0 + 1, 0 + j)) = j
        /\ \A i \in 1..j : Bytes(0 + 1, 0 + j)[i] = Atom("data", 0 + i)
        /\ Of({"data"}, Bytes(0 + 1, 0 + j))
    BY BytesFrom
  <2> QED
    BY <2>1, <2>2
<1>2. First(m) /\ First(m + n) /\ First(0)
  <2> HIDE DEF First
  <2> QED
    BY <1>1
<1>3. /\ b \in Seq(Atoms) /\ Len(b) = n
      /\ \A i \in 1..n : b[i] = Atom("data", m + i)
  BY BytesFrom
<1> HIDE DEF b
<1> DEFINE a == Bytes(1, m)
           j == a \o b
<1>8. /\ a \in Seq(Atoms) /\ Len(a) = m
      /\ \A i \in 1..m : a[i] = Atom("data", i)
  BY <1>2
<1> HIDE DEF a
<1>4. /\ j \in Seq(Atoms) /\ Len(j) = m + n
      /\ \A i \in 1..(m + n) : j[i] = IF i <= m THEN a[i] ELSE b[i - m]
  BY <1>3, <1>8, Joined
<1>5. \A i \in 1..(m + n) : j[i] = Atom("data", i)
  <2> HIDE DEF j
  <2> SUFFICES ASSUME NEW i \in 1..(m + n) PROVE j[i] = Atom("data", i)
    OBVIOUS
  <2>1. CASE i <= m
    BY <2>1, <1>8, <1>4
  <2>2. CASE ~(i <= m)
    <3>1. i - m \in 1..n /\ m + (i - m) = i
      BY <2>2
    <3> QED
      BY <3>1, <2>2, <1>3, <1>4
  <2> QED
    BY <2>1, <2>2
<1>6. j = Bytes(1, m + n)
  <2> HIDE DEF j
  <2> QED
    BY <1>2, <1>4, <1>5, SameWires
<1>7. Bytes(1, 0) = <<>>
  BY <1>2, Wires
<1> QED
  BY <1>2, <1>6, <1>7 DEF a, b

(* What is before others in the numbered bytes, is the first of them.      *)
LEMMA BytesBegin ==
    ASSUME NEW v \in Seq(Atoms), NEW w \in Seq(Atoms), NEW m \in Nat,
           v \o w = Bytes(1, m)
    PROVE  v = Bytes(1, Len(v))
<1>1. Len(v) \in Nat /\ Len(w) \in Nat /\ Len(v \o w) = Len(v) + Len(w)
      /\ \A i \in 1..Len(v) : (v \o w)[i] = v[i]
  BY Wires, Joined
<1>2. Len(v) <= m
  <2>1. m \in Nat /\ 0 \in Nat
    OBVIOUS
  <2>2. Len(Bytes(1, m)) = m
    BY <2>1, BytesGrow
  <2> QED
    BY <1>1, <2>2
<1> DEFINE n == m - Len(v)
<1>3. n \in Nat /\ Len(v) + n = m
  BY <1>1, <1>2
<1> HIDE DEF n
<1> DEFINE b == Bytes(1, Len(v))
           c == Bytes(Len(v) + 1, Len(v) + n)
<1>4. /\ b \in Seq(Atoms) /\ Len(b) = Len(v) /\ c \in Seq(Atoms)
      /\ b \o c = Bytes(1, m)
  BY <1>1, <1>3, BytesGrow, BytesFrom
<1> HIDE DEF b, c
<1>5. \A i \in 1..Len(b) : (b \o c)[i] = b[i]
  BY <1>4, Joined
<1>6. v = b
  BY <1>1, <1>4, <1>5, SameWires
<1> QED
  BY <1>6 DEF b

(* A wire is of some kinds when both its parts are.                        *)
LEMMA OfParts ==
    ASSUME NEW K, NEW v \in Seq(Atoms), NEW w \in Seq(Atoms)
    PROVE  /\ Of(K, v) /\ Of(K, w) => Of(K, v \o w)
           /\ Of(K, v \o w) => Of(K, v) /\ Of(K, w)
           /\ Of(K, <<>>)
<1>1. /\ Len(v \o w) = Len(v) + Len(w)
      /\ \A i \in 1..(Len(v) + Len(w)) :
            (v \o w)[i] = IF i <= Len(v) THEN v[i] ELSE w[i - Len(v)]
      /\ Len(v) \in Nat /\ Len(w) \in Nat
      /\ \A i \in 1..Len(v) : (v \o w)[i] = v[i]
      /\ \A i \in 1..Len(w) : (v \o w)[Len(v) + i] = w[i]
  BY Joined, Wires
<1>2. ASSUME Of(K, v), Of(K, w) PROVE Of(K, v \o w)
  <2> SUFFICES ASSUME NEW i \in 1..(Len(v) + Len(w)) PROVE (v \o w)[i].k \in K
    BY <1>1 DEF Of
  <2>1. CASE i <= Len(v)
    BY <1>1, <1>2, <2>1 DEF Of
  <2>2. CASE ~(i <= Len(v))
    <3>1. i - Len(v) \in 1..Len(w)
      BY <1>1, <2>2
    <3> QED
      BY <1>1, <1>2, <2>2, <3>1 DEF Of
  <2> QED
    BY <2>1, <2>2
<1>3. ASSUME Of(K, v \o w) PROVE Of(K, v) /\ Of(K, w)
  <2>1. \A i \in 1..Len(v) : i \in 1..Len(v \o w)
    BY <1>1
  <2>2. \A i \in 1..Len(w) : Len(v) + i \in 1..Len(v \o w)
    BY <1>1
  <2> QED
    BY <1>1, <1>3, <2>1, <2>2 DEF Of
<1>4. Of(K, <<>>)
  BY EmptySeq DEF Of
<1> QED
  BY <1>2, <1>3, <1>4

(* A cut leaves no other kinds.                                            *)
LEMMA OfCut ==
    ASSUME NEW K, NEW w \in Seq(Atoms), Of(K, w), NEW n \in Nat
    PROVE  Of(K, Upto(w, n)) /\ Of(K, After(w, n))
<1>1. Upto(w, n) \in Seq(Atoms) /\ After(w, n) \in Seq(Atoms)
      /\ Upto(w, n) \o After(w, n) = w
  BY Uptos, Afters, Parted
<1>2. Of(K, Upto(w, n) \o After(w, n))
  BY <1>1
<1> QED
  BY <1>1, <1>2, OfParts

(* Two cuts are one.                                                       *)
LEMMA AfterAfter ==
    ASSUME NEW w \in Seq(Atoms), NEW m \in Nat, NEW n \in Nat
    PROVE  After(After(w, m), n) = After(w, m + n)
<1> DEFINE a == After(w, m)
           b == After(a, n)
           c == After(w, m + n)
<1>1. /\ a \in Seq(Atoms) /\ Len(a) = IF m <= Len(w) THEN Len(w) - m ELSE 0
      /\ \A i \in 1..Len(a) : a[i] = w[m + i]
      /\ Len(w) \in Nat /\ m + n \in Nat
  BY Afters, Wires
<1>2. /\ c \in Seq(Atoms)
      /\ Len(c) = IF m + n <= Len(w) THEN Len(w) - (m + n) ELSE 0
      /\ \A i \in 1..Len(c) : c[i] = w[(m + n) + i]
  BY <1>1, Afters
<1> HIDE DEF a, c
<1>3. /\ b \in Seq(Atoms) /\ Len(b) = IF n <= Len(a) THEN Len(a) - n ELSE 0
      /\ \A i \in 1..Len(b) : b[i] = a[n + i]
  BY <1>1, Afters
<1> HIDE DEF b
<1>4. Len(b) = Len(c)
  BY <1>1, <1>2, <1>3
<1>5. ASSUME NEW i \in 1..Len(b) PROVE b[i] = c[i]
  <2>1. n + i \in 1..Len(a) /\ m + (n + i) = (m + n) + i
    BY <1>1, <1>3
  <2> QED
    BY <2>1, <1>1, <1>2, <1>3, <1>4
<1> QED
  BY <1>2, <1>3, <1>4, <1>5, SameWires DEF a, b, c

(* Behind as many atoms as v has, comes what follows v.                    *)
LEMMA AfterJoined ==
    ASSUME NEW v \in Seq(Atoms), NEW w \in Seq(Atoms)
    PROVE  /\ After(v \o w, Len(v)) = w
           /\ \A n \in 0..Len(v) : After(v \o w, n) = After(v, n) \o w
<1>1. /\ v \o w \in Seq(Atoms) /\ Len(v \o w) = Len(v) + Len(w)
      /\ \A i \in 1..Len(w) : (v \o w)[Len(v) + i] = w[i]
      /\ Len(v) \in Nat /\ Len(w) \in Nat
  BY Joined, Wires
<1>2. ASSUME NEW n \in 0..Len(v)
      PROVE  After(v \o w, n) = After(v, n) \o w
  <2> DEFINE a == After(v, n)
             b == After(v \o w, n)
  <2>1. /\ b \in Seq(Atoms) /\ Len(b) = Len(v) + Len(w) - n
        /\ \A i \in 1..Len(b) : b[i] = (v \o w)[n + i]
    <3>1. v \o w \in Seq(Atoms) /\ n \in Nat /\ n <= Len(v \o w)
      BY <1>1
    <3> DEFINE u == v \o w
    <3>2. u \in Seq(Atoms) /\ n <= Len(u)
          /\ Len(u) = Len(v) + Len(w)
      BY <3>1, <1>1
    <3> HIDE DEF u
    <3>3. /\ After(u, n) \in Seq(Atoms)
          /\ Len(After(u, n)) = Len(u) - n
          /\ \A i \in 1..Len(After(u, n)) : After(u, n)[i] = u[n + i]
      BY <3>1, <3>2, Afters
    <3> QED
      BY <3>2, <3>3 DEF u
  <2>2. /\ a \in Seq(Atoms) /\ Len(a) = Len(v) - n
        /\ \A i \in 1..Len(a) : a[i] = v[n + i]
    BY <1>1, Afters
  <2> HIDE DEF a, b
  <2>3. /\ a \o w \in Seq(Atoms) /\ Len(a \o w) = Len(a) + Len(w)
        /\ \A i \in 1..(Len(a) + Len(w)) :
              (a \o w)[i] = IF i <= Len(a) THEN a[i] ELSE w[i - Len(a)]
    BY <2>2, Joined
  <2>4. \A i \in 1..(Len(v) + Len(w)) :
           (v \o w)[i] = IF i <= Len(v) THEN v[i] ELSE w[i - Len(v)]
    BY Joined
  <2>5. ASSUME NEW i \in 1..Len(b) PROVE b[i] = (a \o w)[i]
    <3>1. n + i \in 1..(Len(v) + Len(w)) /\ b[i] = (v \o w)[n + i]
      BY <2>1, <1>1
    <3>2. CASE i <= Len(a)
      BY <3>1, <3>2, <2>2, <2>3, <2>4, <1>1
    <3>3. CASE ~(i <= Len(a))
      <4>1. i - Len(a) = (n + i) - Len(v) /\ ~(n + i <= Len(v))
        BY <3>3, <2>2, <1>1
      <4> QED
        BY <3>1, <3>3, <4>1, <2>1, <2>2, <2>3, <2>4, <1>1
    <3> QED
      BY <3>2, <3>3
  <2>6. b = a \o w
    <3>1. Len(b) = Len(a \o w)
      BY <2>1, <2>2, <2>3, <1>1
    <3> QED
      BY <2>1, <2>3, <2>5, <3>1, SameWires
  <2> QED
    BY <2>6 DEF a, b
<1>3. After(v, Len(v)) = <<>>
  <2>1. After(v, Len(v)) \in Seq(Atoms) /\ Len(After(v, Len(v))) = 0
    BY <1>1, Afters
  <2> QED
    BY <2>1, Wires
<1>4. <<>> \o w = w
  BY JoinAssociates
<1>5. Len(v) \in 0..Len(v)
  BY <1>1
<1>6. After(v \o w, Len(v)) = After(v, Len(v)) \o w
  BY <1>2, <1>5
<1> QED
  BY <1>2, <1>3, <1>4, <1>6
-----------------------------------------------------------------------------
(* Wires of whole records.                                                 *)

(* Whole records behind a framed wire keep it framed.                      *)
LEMMA FramedJoins ==
    ASSUME NEW v \in Seq(Atoms), NEW w \in Seq(Atoms), NEW r \in Nat,
           Framed(v, r), Framed(w, 0)
    PROVE  Framed(v \o w, r)
<1> DEFINE u == v \o w
           m == Len(v)
<1>1. /\ u \in Seq(Atoms) /\ Len(u) = m + Len(w)
      /\ \A i \in 1..m : u[i] = v[i]
      /\ \A i \in 1..Len(w) : u[m + i] = w[i]
      /\ m \in Nat /\ Len(w) \in Nat
  BY Joined, Wires
<1>2. \A i \in 1..Len(u) : i \in 1..m \/ (i - m \in 1..Len(w) /\ m < i)
  BY <1>1
<1>3. \A i \in 1..Len(u) : i - m \in 1..Len(w) => u[i] = w[i - m]
  <2> HIDE DEF u, m
  <2> SUFFICES ASSUME NEW i \in 1..Len(u), i - m \in 1..Len(w)
               PROVE  u[i] = w[i - m]
    OBVIOUS
  <2>1. m + (i - m) = i
    BY <1>1
  <2> QED
    BY <1>1, <2>1
<1>4. \A i \in 1..Len(v) : v[i].n \in Nat
  BY Wires
<1>5. \A i \in 1..Len(w) : w[i].n \in Nat
  BY Wires
<1>6. r <= m /\ m = Len(v)
  BY DEF Framed
<1> HIDE DEF u, m
<1>7. r <= Len(u) /\ \A i \in 1..Len(u) : i <= r => u[i].k \in Payload
  <2>1. \A i \in 1..Len(u) : i <= r => i \in 1..m
    BY <1>1, <1>6
  <2> QED
    BY <1>1, <1>6, <2>1 DEF Framed
<1>8. ASSUME NEW i \in 1..Len(u), u[i].k = "size" PROVE Ahead(u, i)
  <2>1. CASE i \in 1..m
    <3>1. u[i] = v[i] /\ Ahead(v, i) /\ v[i].n \in Nat
      BY <1>1, <1>4, <1>6, <1>8, <2>1 DEF Framed
    <3>2. i + v[i].n <= m
      BY <3>1, <1>6 DEF Ahead
    <3>3. i + u[i].n <= Len(u)
      BY <3>1, <3>2, <1>1
    <3>4. ASSUME NEW j \in 1..Len(u), i < j, j <= i + u[i].n
          PROVE  u[j].k \in Payload
      <4>1. j \in 1..m
        <5>1. j <= i + v[i].n
          BY <3>1, <3>4
        <5> QED
          BY <5>1, <3>1, <3>2, <1>1
      <4> QED
        BY <4>1, <3>1, <3>4, <1>1, <1>6 DEF Ahead
    <3> QED
      BY <3>3, <3>4 DEF Ahead
  <2>2. CASE ~(i \in 1..m)
    <3>1. i - m \in 1..Len(w) /\ u[i] = w[i - m]
      BY <1>2, <1>3, <2>2
    <3>2. Ahead(w, i - m) /\ w[i - m].n \in Nat
      BY <3>1, <1>5, <1>8 DEF Framed
    <3>3. i + u[i].n <= Len(u)
      BY <3>1, <3>2, <1>1 DEF Ahead
    <3>4. ASSUME NEW j \in 1..Len(u), i < j, j <= i + u[i].n
          PROVE  u[j].k \in Payload
      <4>1. j - m \in 1..Len(w) /\ u[j] = w[j - m]
        BY <3>1, <3>4, <1>1, <1>3
      <4>2. i - m < j - m /\ j - m <= (i - m) + w[i - m].n
        BY <3>1, <3>2, <3>4, <1>1
      <4> QED
        BY <4>1, <4>2, <3>2 DEF Ahead
    <3> QED
      BY <3>3, <3>4 DEF Ahead
  <2> QED
    BY <2>1, <2>2
<1>9. ASSUME NEW i \in 1..Len(u), r < i, u[i].k \in Payload
      PROVE  Enclosed(u, i, r + 1)
  <2>1. CASE i \in 1..m
    <3>1. u[i] = v[i] /\ Enclosed(v, i, r + 1)
      BY <1>1, <1>6, <1>9, <2>1 DEF Framed
    <3>2. PICK j \in (r + 1)..Len(v) :
             j < i /\ v[j].k = "size" /\ i <= j + v[j].n
      BY <3>1 DEF Enclosed
    <3>3. j \in (r + 1)..Len(u) /\ u[j] = v[j]
      BY <3>2, <1>1, <1>6
    <3> QED
      BY <3>2, <3>3 DEF Enclosed
  <2>2. CASE ~(i \in 1..m)
    <3>1. i - m \in 1..Len(w) /\ u[i] = w[i - m]
      BY <1>2, <1>3, <2>2
    <3>2. Enclosed(w, i - m, 0 + 1)
      BY <3>1, <1>9 DEF Framed
    <3>3. PICK j \in 1..Len(w) :
             j < i - m /\ w[j].k = "size" /\ i - m <= j + w[j].n
      BY <3>2 DEF Enclosed
    <3>4. m + j \in (r + 1)..Len(u) /\ u[m + j] = w[j] /\ w[j].n \in Nat
      BY <3>3, <1>1, <1>5, <1>6
    <3>5. m + j < i /\ i <= (m + j) + w[j].n
      BY <3>3, <3>4, <1>1
    <3> QED
      BY <3>3, <3>4, <3>5 DEF Enclosed
  <2> QED
    BY <2>1, <2>2
<1>10. Framed(u, r)
  BY <1>7, <1>8, <1>9 DEF Framed
<1> QED
  BY <1>10 DEF u

(* What has neither sizes nor payload.                                     *)
LEMMA FramedBare ==
    ASSUME NEW w \in Seq(Atoms), Of({"id", "status", "option"}, w)
    PROVE  Framed(w, 0)
BY Wires DEF Framed, Of, Payload

(* An empty wire is framed.                                                *)
LEMMA FramedNone == Framed(<<>>, 0) /\ <<>> \in Seq(Atoms)
<1>1. <<>> \in Seq(Atoms) /\ Len(<<>>) = 0
  BY EmptySeq
<1> QED
  BY <1>1 DEF Framed

(* A record is the size of its payload and the payload.                    *)
LEMMA RecordParts ==
    ASSUME NEW bs \in Seq(Atoms)
    PROVE  /\ Record(bs) \in Seq(Atoms) /\ Len(Record(bs)) = 1 + Len(bs)
           /\ Record(bs)[1].k = "size" /\ Record(bs)[1].n = Len(bs)
           /\ \A i \in 1..Len(bs) : Record(bs)[1 + i] = bs[i]
           /\ DataOf(Record(bs)) = DataOf(bs)
           /\ \A K : Of(K, bs) => Of({"size"} \cup K, Record(bs))
<1> DEFINE x == Size(Len(bs))
           s == <<x>>
<1>1. Len(bs) \in Nat
  BY Wires
<1>2. x \in Atoms /\ x.k = "size" /\ x.n = Len(bs)
  BY <1>1, AtomTypes
<1> HIDE DEF x
<1>3. s \in Seq(Atoms) /\ Len(s) = 1 /\ s[1] = x
  BY <1>2
<1>4. Record(bs) = s \o bs
  BY DEF Record, x
<1> HIDE DEF s
<1>5. /\ s \o bs \in Seq(Atoms) /\ Len(s \o bs) = 1 + Len(bs)
      /\ \A i \in 1..Len(s) : (s \o bs)[i] = s[i]
      /\ \A i \in 1..Len(bs) : (s \o bs)[1 + i] = bs[i]
  <2>1. /\ s \o bs \in Seq(Atoms) /\ Len(s \o bs) = Len(s) + Len(bs)
        /\ \A i \in 1..Len(s) : (s \o bs)[i] = s[i]
        /\ \A i \in 1..Len(bs) : (s \o bs)[Len(s) + i] = bs[i]
    BY <1>3, Joined
  <2> QED
    BY <2>1, <1>3
<1>6. (s \o bs)[1] = x
  BY <1>3, <1>5
<1>7. DataOf(s \o bs) = DataOf(bs)
  <2>1. \A i \in 1..Len(s) : s[i].k # "data"
    BY <1>2, <1>3
  <2>2. DataOf(s) = <<>>
    BY <1>3, <2>1, DataOfNone
  <2>3. DataOf(s \o bs) = DataOf(s) \o DataOf(bs)
    BY <1>3, DataOfJoined
  <2>4. <<>> \o DataOf(bs) = DataOf(bs)
    BY DataOfType, JoinAssociates
  <2> QED
    BY <2>2, <2>3, <2>4
<1>8. ASSUME NEW K, Of(K, bs) PROVE Of({"size"} \cup K, s \o bs)
  <2>1. Of({"size"} \cup K, s) /\ Of({"size"} \cup K, bs)
    BY <1>2, <1>3, <1>8 DEF Of
  <2> QED
    BY <2>1, <1>3, OfParts
<1> QED
  BY <1>2, <1>4, <1>5, <1>6, <1>7, <1>8

(* A record is framed.                                                     *)
LEMMA FramedRecord ==
    ASSUME NEW bs \in Seq(Atoms), Of(Payload, bs)
    PROVE  Framed(Record(bs), 0)
<1> DEFINE u == Record(bs)
<1>1. /\ u \in Seq(Atoms) /\ Len(u) = 1 + Len(bs)
      /\ u[1].k = "size" /\ u[1].n = Len(bs)
      /\ \A i \in 1..Len(bs) : u[1 + i] = bs[i]
      /\ Len(bs) \in Nat
  BY RecordParts, Wires
<1> HIDE DEF u
<1>2. \A i \in 1..Len(u) : i # 1 => u[i].k \in Payload
  <2> SUFFICES ASSUME NEW i \in 1..Len(u), i # 1 PROVE u[i].k \in Payload
    OBVIOUS
  <2>1. i - 1 \in 1..Len(bs) /\ 1 + (i - 1) = i
    BY <1>1
  <2> QED
    BY <1>1, <2>1 DEF Of
<1>3. Ahead(u, 1)
  BY <1>1, <1>2 DEF Ahead
<1>4. \A i \in 1..Len(u) : i # 1 => Enclosed(u, i, 0 + 1)
  BY <1>1 DEF Enclosed
<1>5. "size" \notin Payload
  BY DEF Payload
<1> QED
  BY <1>1, <1>2, <1>3, <1>4, <1>5 DEF Framed, u

(* Of the payload in front, some is taken.                                 *)
LEMMA FramedTakes ==
    ASSUME NEW w \in Seq(Atoms), NEW r \in Nat, NEW k \in 0..r, Framed(w, r)
    PROVE  /\ Framed(After(w, k), r - k)
           /\ Of(Payload, Upto(w, k)) /\ Len(Upto(w, k)) = k
<1> DEFINE a == After(w, k)
<1>1. r <= Len(w) /\ Len(w) \in Nat /\ k \in Nat /\ k <= Len(w)
  BY Wires DEF Framed
<1>2. /\ a \in Seq(Atoms) /\ Len(a) = Len(w) - k
      /\ \A i \in 1..Len(a) : a[i] = w[k + i]
  BY <1>1, Afters
<1> HIDE DEF a
<1>3. \A i \in 1..Len(a) : k + i \in 1..Len(w)
  BY <1>1, <1>2
<1>4. \A i \in 1..Len(w) : w[i].n \in Nat
  BY Wires
<1>5. r - k <= Len(a) /\ \A i \in 1..Len(a) : i <= r - k => a[i].k \in Payload
  <2> SUFFICES ASSUME NEW i \in 1..Len(a), i <= r - k PROVE a[i].k \in Payload
    BY <1>1, <1>2
  <2>1. k + i <= r
    BY <1>1
  <2> QED
    BY <2>1, <1>2, <1>3 DEF Framed
<1>6. ASSUME NEW i \in 1..Len(a), a[i].k = "size" PROVE Ahead(a, i)
  <2>1. Ahead(w, k + i) /\ a[i] = w[k + i] /\ a[i].n \in Nat
    BY <1>2, <1>3, <1>4, <1>6 DEF Framed
  <2>2. i + a[i].n <= Len(a)
    BY <2>1, <1>1, <1>2 DEF Ahead
  <2>3. ASSUME NEW j \in 1..Len(a), i < j, j <= i + a[i].n
        PROVE  a[j].k \in Payload
    <3>1. k + i < k + j /\ k + j <= (k + i) + w[k + i].n
      BY <2>1, <2>3, <1>1
    <3> QED
      BY <3>1, <2>1, <1>2, <1>3 DEF Ahead
  <2> QED
    BY <2>2, <2>3 DEF Ahead
<1>7. ASSUME NEW i \in 1..Len(a), r - k < i, a[i].k \in Payload
      PROVE  Enclosed(a, i, (r - k) + 1)
  <2>1. r < k + i /\ w[k + i].k \in Payload
    BY <1>1, <1>2, <1>7
  <2>2. Enclosed(w, k + i, r + 1)
    BY <2>1, <1>3 DEF Framed
  <2>3. PICK j \in (r + 1)..Len(w) :
           j < k + i /\ w[j].k = "size" /\ k + i <= j + w[j].n
    BY <2>2 DEF Enclosed
  <2>4. j - k \in ((r - k) + 1)..Len(a) /\ j - k \in 1..Len(a)
        /\ k + (j - k) = j /\ j \in 1..Len(w)
    BY <2>3, <1>1, <1>2
  <2>5. a[j - k] = w[j] /\ w[j].n \in Nat
    BY <2>4, <1>2, <1>4
  <2>6. j - k < i /\ i <= (j - k) + w[j].n
    BY <2>3, <2>5, <1>1
  <2> QED
    BY <2>3, <2>4, <2>5, <2>6 DEF Enclosed
<1>8. Framed(a, r - k)
  BY <1>5, <1>6, <1>7 DEF Framed
<1>9. /\ Len(Upto(w, k)) = k
      /\ \A i \in 1..Len(Upto(w, k)) : Upto(w, k)[i] = w[i]
  BY <1>1, Uptos DEF Least
<1>10. Of(Payload, Upto(w, k))
  <2>1. \A i \in 1..k : i \in 1..Len(w) /\ i <= r
    BY <1>1
  <2> QED
    BY <1>9, <2>1 DEF Of, Framed
<1> QED
  BY <1>8, <1>9, <1>10 DEF a

(* Everything up to the size of a record is taken.                         *)
LEMMA FramedSkips ==
    ASSUME NEW w \in Seq(Atoms), Framed(w, 0), NEW p \in 1..Len(w),
           w[p].k = "size"
    PROVE  /\ Framed(After(w, p), w[p].n)
           /\ w[p].n \in Nat /\ p + w[p].n <= Len(w)
<1> DEFINE a == After(w, p)
           n == w[p].n
<1>1. Len(w) \in Nat /\ p \in Nat /\ n \in Nat
      /\ \A i \in 1..Len(w) : w[i].n \in Nat
  BY Wires
<1>2. /\ a \in Seq(Atoms) /\ Len(a) = Len(w) - p
      /\ \A i \in 1..Len(a) : a[i] = w[p + i]
  BY <1>1, Afters
<1>3. Ahead(w, p)
  BY DEF Framed
<1>4. n = w[p].n
  OBVIOUS
<1> HIDE DEF a, n
<1>5. \A i \in 1..Len(a) : p + i \in 1..Len(w)
  BY <1>1, <1>2
<1>6. p + n <= Len(w)
      /\ \A j \in 1..Len(w) : p < j /\ j <= p + n => w[j].k \in Payload
  BY <1>3, <1>4 DEF Ahead
<1>7. n <= Len(a) /\ \A i \in 1..Len(a) : i <= n => a[i].k \in Payload
  <2> SUFFICES ASSUME NEW i \in 1..Len(a), i <= n PROVE a[i].k \in Payload
    BY <1>1, <1>2, <1>6
  <2>1. p < p + i /\ p + i <= p + n
    BY <1>1
  <2> QED
    BY <2>1, <1>2, <1>5, <1>6
<1>8. ASSUME NEW i \in 1..Len(a), a[i].k = "size" PROVE Ahead(a, i)
  <2>1. Ahead(w, p + i) /\ a[i] = w[p + i] /\ a[i].n \in Nat
    BY <1>1, <1>2, <1>5, <1>8 DEF Framed
  <2>2. i + a[i].n <= Len(a)
    BY <2>1, <1>1, <1>2 DEF Ahead
  <2>3. ASSUME NEW j \in 1..Len(a), i < j, j <= i + a[i].n
        PROVE  a[j].k \in Payload
    <3>1. p + i < p + j /\ p + j <= (p + i) + w[p + i].n
      BY <2>1, <2>3, <1>1
    <3> QED
      BY <3>1, <2>1, <1>2, <1>5 DEF Ahead
  <2> QED
    BY <2>2, <2>3 DEF Ahead
<1>9. ASSUME NEW i \in 1..Len(a), n < i, a[i].k \in Payload
      PROVE  Enclosed(a, i, n + 1)
  <2>1. Enclosed(w, p + i, 0 + 1)
    <3>1. p + i \in 1..Len(w) /\ w[p + i].k \in Payload /\ 0 < p + i
      BY <1>1, <1>2, <1>5, <1>9
    <3> QED
      BY <3>1 DEF Framed
  <2>2. PICK j \in 1..Len(w) :
           j < p + i /\ w[j].k = "size" /\ p + i <= j + w[j].n
    BY <2>1 DEF Enclosed
  <2>3. w[j].n \in Nat /\ Ahead(w, j)
    BY <2>2, <1>1 DEF Framed
  <2>4. w[j].k \notin Payload /\ w[p].k \notin Payload
    BY <2>2 DEF Payload
  <2>5. ~(j < p)
    <3> SUFFICES ASSUME j < p PROVE FALSE
      OBVIOUS
    <3>1. p <= j + w[j].n
      BY <2>2, <2>3, <1>1
    <3> QED
      BY <3>1, <2>3, <2>4 DEF Ahead
  <2>6. j # p
    BY <2>2, <1>1, <1>4, <1>9
  <2>7. ~(p < j /\ j <= p + n)
    BY <2>4, <1>6
  <2>8. p + n < j
    BY <2>5, <2>6, <2>7, <1>1
  <2>9. j - p \in (n + 1)..Len(a) /\ j - p \in 1..Len(a) /\ p + (j - p) = j
    BY <2>8, <1>1, <1>2
  <2>10. a[j - p] = w[j]
    BY <2>9, <1>2
  <2>11. j - p < i /\ i <= (j - p) + w[j].n
    BY <2>2, <2>3, <1>1
  <2> QED
    BY <2>2, <2>9, <2>10, <2>11 DEF Enclosed
<1>10. Framed(a, n)
  BY <1>7, <1>8, <1>9 DEF Framed
<1> QED
  BY <1>1, <1>6, <1>10 DEF a, n

(* A whole record is taken, with what is before it.                        *)
LEMMA FramedPasses ==
    ASSUME NEW w \in Seq(Atoms), Framed(w, 0), NEW p \in 1..Len(w),
           w[p].k = "size"
    PROVE  Framed(After(w, p + w[p].n), 0)
<1> DEFINE n == w[p].n
<1>1. Framed(After(w, p), n) /\ n \in Nat /\ p \in Nat
  BY FramedSkips
<1>2. After(w, p) \in Seq(Atoms)
  BY <1>1, Afters
<1> HIDE DEF n
<1>3. n \in 0..n /\ n - n = 0
  BY <1>1
<1>4. Framed(After(After(w, p), n), 0)
  BY <1>1, <1>2, <1>3, FramedTakes
<1>5. After(After(w, p), n) = After(w, p + n)
  BY <1>1, AfterAfter
<1> QED
  BY <1>4, <1>5 DEF n

(* With no payload left over, a wire begins with something else.           *)
LEMMA FramedBegins ==
    ASSUME NEW w \in Seq(Atoms), Framed(w, 0), w # <<>>
    PROVE  1 \in 1..Len(w) /\ w[1].k \notin Payload
<1>1. Len(w) \in Nat /\ Len(w) # 0
  BY Wires
<1>2. 1 \in 1..Len(w)
  BY <1>1
<1>3. ~Enclosed(w, 1, 0 + 1)
  BY <1>1 DEF Enclosed
<1> QED
  BY <1>2, <1>3 DEF Framed
-----------------------------------------------------------------------------
(* What the loop of a Write makes of the bytes.                            *)

(* The pieces of a Write are as many as cover its bytes.                   *)
LEMMA PiecesCover ==
    ASSUME NEW bs \in Seq(Atoms)
    PROVE  /\ Pieces(bs) \in Nat /\ Len(bs) <= Pieces(bs) * Chunk
           /\ Len(bs) = 0 => Pieces(bs) = 0
           /\ Len(bs) # 0 => Pieces(bs) # 0
           /\ Chunk \in Nat /\ 0 < Chunk
<1> DEFINE n == Len(bs) + Chunk - 1
           q == n \div Chunk
           r == n % Chunk
<1>1. Len(bs) \in Nat /\ Chunk \in Nat /\ 0 < Chunk /\ n \in Nat
  BY Wires, FramingAssumption
<1>2. q \in Int /\ r \in 0..(Chunk - 1) /\ n = Chunk * q + r
  <2> HIDE DEF n
  <2> QED
    BY <1>1
<1>3. Pieces(bs) = q
  BY DEF Pieces
<1>4. n = Len(bs) + Chunk - 1
  OBVIOUS
<1> HIDE DEF n, q, r
<1>5. Chunk * q > Len(bs) - 1
  BY <1>1, <1>2, <1>4
<1>6. Len(bs) <= q * Chunk
  BY <1>1, <1>2, <1>5
<1>7. q \in Nat
  <2> SUFFICES ASSUME q <= -1 PROVE FALSE
    BY <1>2
  <2>1. Chunk * q <= Chunk * (-1)
    BY <1>1, <1>2
  <2> QED
    BY <2>1, <1>1, <1>2, <1>5
<1>8. ASSUME Len(bs) = 0 PROVE q = 0
  <2> SUFFICES ASSUME 1 <= q PROVE FALSE
    BY <1>7
  <2>1. Chunk * 1 <= Chunk * q
    BY <1>1, <1>7
  <2> QED
    BY <2>1, <1>1, <1>2, <1>4, <1>8
<1>9. ASSUME Len(bs) # 0 PROVE q # 0
  BY <1>1, <1>6, <1>9
<1> QED
  BY <1>1, <1>3, <1>6, <1>7, <1>8, <1>9

(* A piece is the next Chunk bytes, the last one what is left.             *)
LEMMA PieceParts ==
    ASSUME NEW bs \in Seq(Atoms), NEW i \in Nat
    PROVE  /\ Piece(bs, i + 1) \in Seq(Atoms)
           /\ i * Chunk \in Nat /\ (i + 1) * Chunk \in Nat
           /\ Piece(bs, i + 1) = Upto(After(bs, i * Chunk), Chunk)
           /\ After(After(bs, i * Chunk), Chunk) = After(bs, (i + 1) * Chunk)
           /\ \A K : Of(K, bs) => Of(K, Piece(bs, i + 1))
           /\ DataOf(After(bs, i * Chunk)) =
                 DataOf(Piece(bs, i + 1)) \o DataOf(After(bs, (i + 1) * Chunk))
<1>1. Chunk \in Nat /\ 0 < Chunk
  BY FramingAssumption
<1>2. i * Chunk \in Nat /\ (i + 1) * Chunk = i * Chunk + Chunk
      /\ (i + 1) * Chunk \in Nat /\ (i + 1) - 1 = i
  BY <1>1
<1> DEFINE a == After(bs, i * Chunk)
<1>3. a \in Seq(Atoms) /\ Upto(a, Chunk) \in Seq(Atoms)
  BY <1>1, <1>2, Afters, Uptos
<1>4. Piece(bs, i + 1) = Upto(a, Chunk)
  BY <1>2 DEF Piece
<1>5. After(a, Chunk) = After(bs, (i + 1) * Chunk)
  BY <1>1, <1>2, AfterAfter
<1>6. \A K : Of(K, bs) => Of(K, Upto(a, Chunk))
  <2> SUFFICES ASSUME NEW K, Of(K, bs) PROVE Of(K, Upto(a, Chunk))
    OBVIOUS
  <2>1. Of(K, a)
    BY <1>2, OfCut
  <2> HIDE DEF a
  <2> QED
    BY <2>1, <1>1, <1>3, OfCut
<1>7. DataOf(a) = DataOf(Upto(a, Chunk)) \o DataOf(After(a, Chunk))
  <2> HIDE DEF a
  <2> QED
    BY <1>1, <1>3, DataOfParts
<1> QED
  BY <1>2, <1>3, <1>4, <1>5, <1>6, <1>7

(* S is what a Write has sent after each of m rounds that send R.          *)
Chains(S, R, m) == S[0] = <<>> /\ \A i \in 1..m : S[i] = S[i - 1] \o R[i]
Sends(S, R, m)  == Chains(S, R, m) /\ \A i \in 0..m : S[i] \in Seq(Atoms)

(* The loop of a Write has a result.                                       *)
LEMMA SendsRun ==
    ASSUME NEW m \in Nat, NEW R, \A i \in 1..m : R[i] \in Seq(Atoms)
    PROVE  \E S : /\ Sends(S, R, m)
                  /\ S = [i \in 0..m |-> IF i = 0 THEN <<>>
                                         ELSE S[i - 1] \o R[i]]
<1> DEFINE W == Seq(Atoms)
           Round == [p \in W \X Nat |-> IF p[2] \in 1..m THEN p[1] \o R[p[2]]
                                        ELSE <<>>]
<1>1. <<>> \in W
  BY FramedNone
<1>2. \A s \in W, i \in 1..m : s \o R[i] \in W
  BY Joined
<1>3. Round \in [W \X Nat -> W]
  <2> HIDE DEF W
  <2>1. ASSUME NEW p \in W \X Nat
        PROVE  (IF p[2] \in 1..m THEN p[1] \o R[p[2]] ELSE <<>>) \in W
    <3>1. p[1] \in W
      OBVIOUS
    <3> QED
      BY <3>1, <1>1, <1>2
  <2> QED
    BY <2>1
<1>4. PICK S \in [0..m -> W] : IsLoop(S, <<>>, Round, m)
  <2> HIDE DEF Round, W
  <2> QED
    BY <1>1, <1>3, LoopRuns
<1>5. \A i \in 0..m : S[i] \in W
  <2> HIDE DEF W
  <2> QED
    BY <1>4
<1>6. ASSUME NEW i \in 1..m PROVE Round[<<S[i - 1], i>>] = S[i - 1] \o R[i]
  <2>1. i - 1 \in 0..m
    OBVIOUS
  <2>2. S[i - 1] \in W
    BY <2>1, <1>5
  <2> DEFINE p == <<S[i - 1], i>>
  <2>3. p \in W \X Nat /\ p[1] = S[i - 1] /\ p[2] = i
    <3> HIDE DEF W
    <3> QED
      BY <2>2
  <2> HIDE DEF p, W
  <2>4. Round[p] = p[1] \o R[p[2]]
    BY <2>3
  <2> QED
    BY <2>3, <2>4 DEF p
<1> HIDE DEF Round
<1>7. ASSUME NEW i \in 0..m
      PROVE  S[i] = IF i = 0 THEN <<>> ELSE S[i - 1] \o R[i]
  <2>1. S[i] = IF i = 0 THEN <<>> ELSE Round[<<S[i - 1], i>>]
    BY <1>4 DEF IsLoop
  <2>2. i = 0 \/ i \in 1..m
    OBVIOUS
  <2> QED
    BY <2>1, <2>2, <1>6
<1>8. S = [i \in 0..m |-> S[i]]
  <2> HIDE DEF W
  <2> QED
    BY <1>4
<1>9. S = [i \in 0..m |-> IF i = 0 THEN <<>> ELSE S[i - 1] \o R[i]]
  BY <1>7, <1>8
<1>10. S[0] = <<>> /\ \A i \in 1..m : S[i] = S[i - 1] \o R[i]
  <2>1. 0 \in 0..m /\ \A i \in 1..m : i \in 0..m /\ i # 0
    OBVIOUS
  <2> QED
    BY <1>7, <2>1
<1> QED
  BY <1>5, <1>9, <1>10 DEF Sends, Chains

(* What is sent is the same for all results of the loop.                   *)
LEMMA SendsOnce ==
    ASSUME NEW m \in Nat, NEW R, NEW S, NEW T, Sends(S, R, m),
           Chains(T, R, m)
    PROVE  T[m] = S[m]
<1> DEFINE Same == {i \in Nat : i <= m => T[i] = S[i]}
<1>1. 0 \in Same
  BY DEF Sends, Chains
<1>2. ASSUME NEW i \in Nat, i \in Same PROVE i + 1 \in Same
  <2> SUFFICES ASSUME i + 1 <= m PROVE T[i + 1] = S[i + 1]
    OBVIOUS
  <2>1. i + 1 \in 1..m /\ (i + 1) - 1 = i /\ T[i] = S[i]
    BY <1>2
  <2>2. T[i + 1] = T[i] \o R[i + 1] /\ S[i + 1] = S[i] \o R[i + 1]
    BY <2>1 DEF Sends, Chains
  <2> QED
    BY <2>1, <2>2
<1>3. Nat \subseteq Same
  <2> HIDE DEF Same
  <2> QED
    BY <1>1, <1>2, AllNumbers
<1> QED
  BY <1>3

(* Records is the result of the loop that sends a record for each piece.   *)
LEMMA RecordsSent ==
    ASSUME NEW bs \in Seq(Atoms)
    PROVE  \E S : /\ Sends(S, [i \in 1..Pieces(bs) |-> Record(Piece(bs, i))],
                           Pieces(bs))
                  /\ Records(bs) = S[Pieces(bs)]
<1> DEFINE m == Pieces(bs)
           R == [i \in 1..m |-> Record(Piece(bs, i))]
           Loop(F) == F = [i \in 0..m |->
                             IF i = 0 THEN <<>>
                             ELSE F[i - 1] \o Record(Piece(bs, i))]
           sent == CHOOSE F : Loop(F)
<1>1. m \in Nat
  BY PiecesCover
<1>2. \A i \in 1..m : R[i] = Record(Piece(bs, i)) /\ R[i] \in Seq(Atoms)
  <2> SUFFICES ASSUME NEW i \in 1..m PROVE Record(Piece(bs, i)) \in Seq(Atoms)
    OBVIOUS
  <2>1. i - 1 \in Nat /\ (i - 1) + 1 = i
    BY <1>1
  <2>2. Piece(bs, i) \in Seq(Atoms)
    BY <2>1, PieceParts
  <2> QED
    BY <2>2, RecordParts
<1>3. Records(bs) = sent[m]
  BY DEF Records
<1> HIDE DEF m, R
<1>4. PICK S : /\ Sends(S, R, m)
               /\ S = [i \in 0..m |-> IF i = 0 THEN <<>> ELSE S[i - 1] \o R[i]]
  BY <1>1, <1>2, SendsRun
<1>5. Loop(S)
  <2>1. \A i \in 0..m : i = 0 \/ i \in 1..m
    BY <1>1
  <2> QED
    BY <1>2, <1>4, <2>1
<1>6. Loop(sent)
  BY <1>5
<1>7. Chains(sent, R, m)
  <2> HIDE DEF sent
  <2>1. 0 \in 0..m /\ \A i \in 1..m : i \in 0..m /\ i # 0
    BY <1>1
  <2> QED
    BY <1>2, <1>6, <2>1 DEF Chains
<1> HIDE DEF sent
<1>8. sent[m] = S[m]
  BY <1>1, <1>4, <1>7, SendsOnce
<1> QED
  BY <1>3, <1>4, <1>8 DEF m, R

(* Records hold the bytes in their order, each with its size before it.    *)
LEMMA RecordsParts ==
    ASSUME NEW bs \in Seq(Atoms), Of(Payload, bs)
    PROVE  /\ Records(bs) \in Seq(Atoms) /\ Framed(Records(bs), 0)
           /\ DataOf(Records(bs)) = DataOf(bs)
           /\ \A K : Of(K, bs) => Of({"size"} \cup K, Records(bs))
<1> DEFINE m == Pieces(bs)
           R == [i \in 1..m |-> Record(Piece(bs, i))]
           rest(i) == DataOf(After(bs, i * Chunk))
<1>1. m \in Nat /\ Len(bs) <= m * Chunk /\ Chunk \in Nat /\ Len(bs) \in Nat
  BY PiecesCover, Wires
<1>2. PICK S : Sends(S, R, m) /\ Records(bs) = S[m]
  BY RecordsSent
<1>3. \A i \in 1..m : R[i] = Record(Piece(bs, i))
  OBVIOUS
<1> HIDE DEF m, R
<1>4. DataOf(After(bs, 0 * Chunk)) = DataOf(bs)
  <2>1. 0 * Chunk = 0
    BY <1>1
  <2>2. \A i \in 1..Len(bs) : i <= 0 => bs[i].k # "data"
    BY <1>1
  <2>3. DataOf(bs) = DataOf(After(bs, 0))
    BY <2>2, DataOfParts
  <2> QED
    BY <2>1, <2>3
<1>5. DataOf(After(bs, m * Chunk)) = <<>>
  <2>1. m * Chunk \in Nat
    BY <1>1
  <2>2. After(bs, m * Chunk) \in Seq(Atoms) /\ Len(After(bs, m * Chunk)) = 0
    BY <2>1, <1>1, Afters
  <2> QED
    BY <2>2, DataOfNone
<1> DEFINE Good(i) == /\ S[i] \in Seq(Atoms) /\ Framed(S[i], 0)
                      /\ DataOf(S[i]) \o rest(i) = DataOf(bs)
                      /\ \A K : Of(K, bs) => Of({"size"} \cup K, S[i])
           All == {i \in Nat : i <= m => Good(i)}
<1>6. Good(0)
  <2>1. S[0] = <<>>
    BY <1>2 DEF Sends, Chains
  <2>2. DataOf(<<>>) = <<>> /\ <<>> \in Seq(Atoms)
    BY DataOfNil, FramedNone
  <2>3. <<>> \o DataOf(bs) = DataOf(bs)
    BY DataOfType, JoinAssociates
  <2>4. \A K : Of({"size"} \cup K, <<>>)
    BY EmptySeq DEF Of
  <2> QED
    BY <2>1, <2>2, <2>3, <2>4, <1>4, FramedNone
<1>7. ASSUME NEW i \in Nat, i + 1 <= m, Good(i) PROVE Good(i + 1)
  <2> DEFINE p == Piece(bs, i + 1)
             r == Record(p)
             s == S[i]
             d == DataOf(After(bs, (i + 1) * Chunk))
  <2>1. i + 1 \in 1..m /\ (i + 1) - 1 = i
    BY <1>1, <1>7
  <2>2. S[i + 1] = s \o r
    BY <2>1, <1>2, <1>3 DEF Sends, Chains
  <2>3. /\ p \in Seq(Atoms) /\ (i + 1) * Chunk \in Nat
        /\ \A K : Of(K, bs) => Of(K, p)
        /\ rest(i) = DataOf(p) \o d
    BY PieceParts
  <2>4. /\ r \in Seq(Atoms) /\ DataOf(r) = DataOf(p)
        /\ \A K : Of(K, p) => Of({"size"} \cup K, r)
    <3> HIDE DEF p
    <3> QED
      BY <2>3, RecordParts
  <2>5. Framed(r, 0)
    <3> HIDE DEF p
    <3> QED
      BY <2>3, FramedRecord
  <2>6. /\ s \in Seq(Atoms) /\ Framed(s, 0)
        /\ DataOf(s) \o rest(i) = DataOf(bs)
        /\ \A K : Of(K, bs) => Of({"size"} \cup K, s)
    BY <1>7
  <2>7. d \in Seq(Atoms)
    BY <2>3, Afters, DataOfType
  <2> HIDE DEF p, r, s, d, rest
  <2>8. s \o r \in Seq(Atoms) /\ Framed(s \o r, 0)
    BY <2>4, <2>5, <2>6, Joined, FramedJoins
  <2>9. DataOf(s \o r) \o d = DataOf(bs)
    <3>1. DataOf(s \o r) = DataOf(s) \o DataOf(p)
      BY <2>4, <2>6, DataOfJoined
    <3>2. DataOf(s) \in Seq(Atoms) /\ DataOf(p) \in Seq(Atoms)
      BY <2>3, <2>6, DataOfType
    <3>3. (DataOf(s) \o DataOf(p)) \o d = DataOf(s) \o (DataOf(p) \o d)
      BY <3>2, <2>7, ConcatAssociative
    <3> QED
      BY <3>1, <3>3, <2>3, <2>6
  <2>10. \A K : Of(K, bs) => Of({"size"} \cup K, s \o r)
    <3> SUFFICES ASSUME NEW K, Of(K, bs) PROVE Of({"size"} \cup K, s \o r)
      OBVIOUS
    <3>1. Of({"size"} \cup K, s) /\ Of({"size"} \cup K, r)
      BY <2>3, <2>4, <2>6
    <3> QED
      BY <3>1, <2>4, <2>6, OfParts
  <2> QED
    BY <2>2, <2>8, <2>9, <2>10 DEF rest, d
<1>8. Good(m)
  <2> HIDE DEF Good
  <2>1. 0 \in All
    BY <1>6
  <2>2. ASSUME NEW i \in Nat, i \in All PROVE i + 1 \in All
    BY <1>7, <2>2, <1>1
  <2>3. Nat \subseteq All
    <3> HIDE DEF All
    <3> QED
      BY <2>1, <2>2, AllNumbers
  <2> QED
    BY <2>3, <1>1
<1>9. DataOf(S[m]) = DataOf(bs)
  <2>1. /\ S[m] \in Seq(Atoms)
        /\ DataOf(S[m]) \o DataOf(After(bs, m * Chunk)) = DataOf(bs)
    BY <1>8
  <2>2. DataOf(S[m]) \o <<>> = DataOf(S[m])
    BY <2>1, DataOfType, JoinAssociates
  <2> QED
    BY <2>1, <2>2, <1>5
<1> QED
  BY <1>2, <1>8, <1>9

-----------------------------------------------------------------------------
(* The records of a ShadowsocksR server.                                   *)

(* Numbered records one behind the other stay numbered.                    *)
LEMMA IdedJoins ==
    ASSUME NEW v \in Seq(Atoms), NEW w \in Seq(Atoms), Ided(v), Ided(w)
    PROVE  Ided(v \o w)
<1> DEFINE u == v \o w
           m == Len(v)
<1>1. /\ u \in Seq(Atoms) /\ Len(u) = m + Len(w)
      /\ \A i \in 1..m : u[i] = v[i]
      /\ \A i \in 1..Len(w) : u[m + i] = w[i]
      /\ m \in Nat /\ Len(w) \in Nat /\ m = Len(v)
  BY Joined, Wires
<1> HIDE DEF u, m
<1>4. m \in Nat /\ Len(w) \in Nat /\ Len(u) = m + Len(w)
  BY <1>1
<1>2. ASSUME NEW i \in 1..Len(u)
      PROVE  /\ u[i].k = "id" => i < Len(u) /\ u[i + 1].k = "size"
             /\ u[i].k = "size" => 1 < i /\ u[i - 1].k = "id"
  <2>1. CASE i \in 1..m
    <3>1. u[i] = v[i] /\ (i < m => u[i + 1] = v[i + 1])
          /\ (1 < i => u[i - 1] = v[i - 1])
      <4>1. (i < m => i + 1 \in 1..m) /\ (1 < i => i - 1 \in 1..m)
        BY <2>1, <1>4
      <4> QED
        BY <2>1, <4>1, <1>1
    <3>2. /\ v[i].k = "id" => i < m /\ v[i + 1].k = "size"
          /\ v[i].k = "size" => 1 < i /\ v[i - 1].k = "id"
      BY <2>1, <1>1 DEF Ided
    <3>3. i < m => i < Len(u)
      BY <2>1, <1>4
    <3> QED
      BY <3>1, <3>2, <3>3
  <2>2. CASE ~(i \in 1..m)
    <3> DEFINE j == i - m
    <3>1. j \in 1..Len(w) /\ m + j = i
      BY <2>2, <1>1
    <3> HIDE DEF j
    <3>2. u[i] = w[j]
      BY <3>1, <1>1
    <3>3. ASSUME w[j].k = "id" PROVE i < Len(u) /\ u[i + 1].k = "size"
      <4>1. j < Len(w) /\ w[j + 1].k = "size"
        BY <3>1, <3>3 DEF Ided
      <4>2. j + 1 \in 1..Len(w) /\ m + (j + 1) = i + 1
        BY <3>1, <4>1, <1>4
      <4>3. u[i + 1] = w[j + 1]
        BY <4>2, <1>1
      <4> QED
        BY <4>1, <4>3, <3>1, <1>1
    <3>4. ASSUME w[j].k = "size" PROVE 1 < i /\ u[i - 1].k = "id"
      <4>1. 1 < j /\ w[j - 1].k = "id"
        BY <3>1, <3>4 DEF Ided
      <4>2. j - 1 \in 1..Len(w) /\ m + (j - 1) = i - 1
        BY <3>1, <4>1, <1>1
      <4>3. u[i - 1] = w[j - 1]
        BY <4>2, <1>1
      <4> QED
        BY <4>1, <4>3, <3>1, <1>1
    <3> QED
      BY <3>2, <3>3, <3>4
  <2> QED
    BY <2>1, <2>2
<1>3. Ided(u)
  BY <1>2 DEF Ided
<1> QED
  BY <1>3 DEF u

(* The bytes that lead a record, if any.                                   *)
Led(id) == layer = "authChain" /\ id = 1

(* A numbered record is its number and a record, which what leads the      *)
(* first one comes with.                                                   *)
LEMMA NumberedRecordParts ==
    ASSUME NEW bs \in Seq(Atoms), Of({"data"}, bs), NEW id \in Nat
    PROVE  LET w == NumberedRecord(bs, id)
           IN  /\ w \in Seq(Atoms) /\ Framed(w, 0) /\ Ided(w) /\ DataOf(w) = bs
               /\ Of({"id", "mark"} \cup Sized, w)
               /\ ~Led(id) => Of({"id"} \cup Sized, w)
               /\ Led(id) => MarkThird(w)
<1> DEFINE lead == IF layer = "authChain" /\ id = 1 THEN <<Mark>> ELSE <<>>
           x == Atom("id", id)
           h == <<x>>
           b == lead \o bs
           r == Record(b)
           w == h \o r
<1>1. w = NumberedRecord(bs, id)
  BY DEF NumberedRecord
<1>2. /\ lead \in Seq(Atoms) /\ Len(lead) = IF Led(id) THEN 1 ELSE 0
      /\ \A i \in 1..Len(lead) : lead[i].k = "mark"
  <2>1. Mark \in Atoms /\ Mark.k = "mark"
    BY AtomTypes
  <2>2. CASE Led(id)
    <3>1. lead = <<Mark>>
      BY <2>2 DEF Led
    <3> HIDE DEF lead
    <3> QED
      BY <2>1, <2>2, <3>1
  <2>3. CASE ~Led(id)
    <3>1. lead = <<>>
      BY <2>3 DEF Led
    <3> HIDE DEF lead
    <3> QED
      BY <2>3, <3>1, EmptySeq
  <2> QED
    BY <2>2, <2>3
<1>3. x \in Atoms /\ x.k = "id"
  BY AtomTypes DEF Kinds
<1> HIDE DEF lead, x
<1>4. h \in Seq(Atoms) /\ Len(h) = 1 /\ h[1] = x
  BY <1>3
<1>5. /\ b \in Seq(Atoms) /\ Len(b) = Len(lead) + Len(bs)
      /\ \A i \in 1..Len(lead) : b[i] = lead[i]
      /\ \A i \in 1..Len(bs) : b[Len(lead) + i] = bs[i]
      /\ Len(bs) \in Nat
  BY <1>2, Joined, Wires
<1>6. Of(Payload, b) /\ DataOf(b) = bs
  <2>1. Of(Payload, lead) /\ Of(Payload, bs)
    BY <1>2 DEF Of, Payload
  <2>2. DataOf(lead) = <<>>
    BY <1>2, DataOfNone
  <2>3. DataOf(bs) = bs
    BY DataOfBytes
  <2>4. DataOf(lead \o bs) = <<>> \o bs
    BY <2>2, <2>3, <1>2, DataOfJoined
  <2>5. <<>> \o bs = bs
    BY JoinAssociates
  <2> QED
    BY <2>1, <2>4, <2>5, <1>2, OfParts
<1> HIDE DEF b
<1>7. /\ r \in Seq(Atoms) /\ Len(r) = 1 + Len(b)
      /\ r[1].k = "size" /\ \A i \in 1..Len(b) : r[1 + i] = b[i]
      /\ DataOf(r) = DataOf(b)
      /\ Framed(r, 0)
  BY <1>5, <1>6, RecordParts, FramedRecord
<1> HIDE DEF r, h
<1>8. /\ w \in Seq(Atoms) /\ Len(w) = 2 + Len(b)
      /\ w[1] = x /\ w[2].k = "size" /\ w[2] = r[1]
      /\ \A i \in 1..Len(b) : w[2 + i] = b[i]
  <2>1. /\ w \in Seq(Atoms) /\ Len(w) = Len(h) + Len(r)
        /\ \A i \in 1..Len(h) : w[i] = h[i]
        /\ \A i \in 1..Len(r) : w[Len(h) + i] = r[i]
    BY <1>4, <1>7, Joined
  <2>2. Len(b) \in Nat
    BY <1>5, Wires
  <2> HIDE DEF w
  <2>3. w[1] = x
    BY <2>1, <1>4
  <2>4. w[2] = r[1]
    <3>1. 1 \in 1..Len(r) /\ Len(h) + 1 = 2
      BY <1>4, <1>7, <2>2
    <3> QED
      BY <2>1, <3>1
  <2>5. ASSUME NEW i \in 1..Len(b) PROVE w[2 + i] = b[i]
    <3>1. 1 + i \in 1..Len(r) /\ Len(h) + (1 + i) = 2 + i
      BY <1>4, <1>7, <2>2
    <3> QED
      BY <2>1, <1>7, <3>1
  <2> QED
    BY <2>1, <2>2, <2>3, <2>4, <2>5, <1>4, <1>7
<1>9. DataOf(w) = bs /\ Framed(w, 0)
  <2>1. \A i \in 1..Len(h) : h[i].k # "data"
    BY <1>3, <1>4
  <2>2. DataOf(h) = <<>>
    BY <1>4, <2>1, DataOfNone
  <2>3. Of({"id", "status", "option"}, h)
    BY <1>3, <1>4 DEF Of
  <2>4. Framed(h, 0)
    BY <1>4, <2>3, FramedBare
  <2>5. DataOf(h \o r) = <<>> \o bs
    BY <2>2, <1>4, <1>6, <1>7, DataOfJoined
  <2>6. <<>> \o bs = bs
    BY JoinAssociates
  <2> QED
    BY <2>4, <2>5, <2>6, <1>4, <1>7, FramedJoins
<1> HIDE DEF w
<1>10. Len(b) \in Nat /\ Len(lead) \in Nat
  BY <1>2, <1>5, Wires
<1>11. \A i \in 1..Len(w) :
          i = 1 \/ i = 2 \/ (i - 2 \in 1..Len(b) /\ 2 + (i - 2) = i)
  BY <1>8, <1>10
<1>12. \A i \in 1..Len(b) : i <= Len(lead) => b[i].k = "mark"
  BY <1>2, <1>5, <1>10
<1>13. ASSUME NEW i \in 1..Len(b), ~(i <= Len(lead)) PROVE b[i].k = "data"
  <2>1. i - Len(lead) \in 1..Len(bs) /\ Len(lead) + (i - Len(lead)) = i
    BY <1>5, <1>10, <1>13
  <2>2. b[i] = bs[i - Len(lead)]
    BY <2>1, <1>5
  <2> QED
    BY <2>1, <2>2 DEF Of
<1>14. \A i \in 1..Len(w) : 2 < i => w[i] = b[i - 2] /\ w[i].k \in Payload
  <2>1. \A i \in 1..Len(w) : 2 < i => w[i] = b[i - 2] /\ i - 2 \in 1..Len(b)
    BY <1>8, <1>11
  <2> QED
    BY <2>1, <1>6 DEF Of
<1>15. Ided(w)
  <2> SUFFICES ASSUME NEW i \in 1..Len(w)
               PROVE  /\ w[i].k = "id" => i < Len(w) /\ w[i + 1].k = "size"
                      /\ w[i].k = "size" => 1 < i /\ w[i - 1].k = "id"
    BY DEF Ided
  <2>1. CASE i = 1
    BY <2>1, <1>3, <1>8, <1>10
  <2>2. CASE i = 2
    BY <2>2, <1>3, <1>8, <1>10
  <2>3. CASE 2 < i
    BY <2>3, <1>14 DEF Payload
  <2> QED
    BY <2>1, <2>2, <2>3
<1>16. Of({"id", "mark"} \cup Sized, w)
  BY <1>3, <1>8, <1>11, <1>14 DEF Of, Payload, Sized
<1>17. ASSUME ~Led(id) PROVE Of({"id"} \cup Sized, w)
  <2>1. \A i \in 1..Len(b) : b[i].k = "data"
    BY <1>2, <1>13, <1>17
  <2> QED
    BY <2>1, <1>3, <1>8, <1>11, <1>14 DEF Of, Sized
<1>18. ASSUME Led(id) PROVE MarkThird(w)
  <2>1. Len(lead) = 1 /\ 1 \in 1..Len(b)
    BY <1>2, <1>5, <1>18
  <2>2. 3 <= Len(w) /\ 3 \in 1..Len(w) /\ 3 - 2 = 1
    BY <2>1, <1>8, <1>10
  <2>3. w[3].k = "mark"
    <3>1. w[3] = b[1]
      BY <2>1, <2>2, <1>14
    <3> QED
      BY <3>1, <2>1, <1>12
  <2>4. ASSUME NEW i \in 1..Len(w), i # 3 PROVE w[i].k # "mark"
    <3>1. CASE i = 1 \/ i = 2
      BY <3>1, <1>3, <1>8
    <3>2. CASE 2 < i
      <4>1. i - 2 \in 1..Len(b) /\ ~(i - 2 <= Len(lead)) /\ w[i] = b[i - 2]
        BY <3>2, <2>4, <2>1, <1>11, <1>14
      <4> QED
        BY <4>1, <1>13
    <3> QED
      BY <3>1, <3>2
  <2> QED
    BY <2>2, <2>3, <2>4 DEF MarkThird
<1> QED
  BY <1>1, <1>8, <1>9, <1>15, <1>16, <1>17, <1>18

(* Behind the first record there are no leading bytes.                     *)
LEMMA MarkJoins ==
    ASSUME NEW v \in Seq(Atoms), NEW w \in Seq(Atoms), MarkThird(v),
           \A i \in 1..Len(w) : w[i].k # "mark"
    PROVE  MarkThird(v \o w)
<1>1. /\ Len(v \o w) = Len(v) + Len(w)
      /\ \A i \in 1..(Len(v) + Len(w)) :
            (v \o w)[i] = IF i <= Len(v) THEN v[i] ELSE w[i - Len(v)]
      /\ Len(v) \in Nat /\ Len(w) \in Nat /\ 3 <= Len(v)
  BY Joined, Wires DEF MarkThird
<1>2. 3 <= Len(v \o w) /\ (v \o w)[3].k = "mark"
  BY <1>1 DEF MarkThird
<1>3. ASSUME NEW i \in 1..Len(v \o w), i # 3 PROVE (v \o w)[i].k # "mark"
  <2>1. i \in 1..(Len(v) + Len(w))
    BY <1>1
  <2>2. CASE i <= Len(v)
    <3>1. i \in 1..Len(v)
      BY <2>1, <2>2, <1>1
    <3> QED
      BY <2>1, <2>2, <3>1, <1>1, <1>3 DEF MarkThird
  <2>3. CASE ~(i <= Len(v))
    <3>1. i - Len(v) \in 1..Len(w)
      BY <2>1, <2>3, <1>1
    <3> QED
      BY <2>1, <2>3, <3>1, <1>1
  <2> QED
    BY <2>2, <2>3
<1> QED
  BY <1>2, <1>3 DEF MarkThird

(* NumberedRecords is the result of the loop over the pieces.              *)
LEMMA NumberedSent ==
    ASSUME NEW bs \in Seq(Atoms), Of({"data"}, bs), NEW p \in Nat \ {0}
    PROVE  \E S : /\ Sends(S, [i \in 1..Pieces(bs) |->
                                  NumberedRecord(Piece(bs, i), p + i - 1)],
                           Pieces(bs))
                  /\ NumberedRecords(bs, p) = S[Pieces(bs)]
<1> DEFINE m == Pieces(bs)
           R == [i \in 1..m |-> NumberedRecord(Piece(bs, i), p + i - 1)]
           Loop(F) == F = [i \in 0..m |->
                              IF i = 0 THEN <<>>
                              ELSE F[i - 1] \o
                                   NumberedRecord(Piece(bs, i), p + i - 1)]
           sent == CHOOSE F : Loop(F)
<1>1. m \in Nat
  BY PiecesCover
<1>2. \A i \in 1..m : /\ R[i] = NumberedRecord(Piece(bs, i), p + i - 1)
                      /\ R[i] \in Seq(Atoms)
  <2> SUFFICES ASSUME NEW i \in 1..m
               PROVE  NumberedRecord(Piece(bs, i), p + i - 1) \in Seq(Atoms)
    OBVIOUS
  <2>1. i - 1 \in Nat /\ (i - 1) + 1 = i /\ p + i - 1 \in Nat
    BY <1>1
  <2>2. Piece(bs, i) \in Seq(Atoms) /\ Of({"data"}, Piece(bs, i))
    BY <2>1, PieceParts
  <2> QED
    BY <2>1, <2>2, NumberedRecordParts
<1>3. NumberedRecords(bs, p) = sent[m]
  BY DEF NumberedRecords
<1> HIDE DEF m, R
<1>4. PICK S : /\ Sends(S, R, m)
               /\ S = [i \in 0..m |-> IF i = 0 THEN <<>> ELSE S[i - 1] \o R[i]]
  BY <1>1, <1>2, SendsRun
<1>5. Loop(S)
  <2>1. \A i \in 0..m : i = 0 \/ i \in 1..m
    BY <1>1
  <2> QED
    BY <1>2, <1>4, <2>1
<1>6. Loop(sent)
  BY <1>5
<1>7. Chains(sent, R, m)
  <2> HIDE DEF sent
  <2>1. 0 \in 0..m /\ \A i \in 1..m : i \in 0..m /\ i # 0
    BY <1>1
  <2> QED
    BY <1>2, <1>6, <2>1 DEF Chains
<1> HIDE DEF sent
<1>8. sent[m] = S[m]
  BY <1>1, <1>4, <1>7, SendsOnce
<1> QED
  BY <1>3, <1>4, <1>8 DEF m, R

(* What the server sends of a Numbered protocol.                           *)
LEMMA NumberedRecordsParts ==
    ASSUME NEW bs \in Seq(Atoms), Of({"data"}, bs), NEW p \in Nat \ {0}
    PROVE  /\ NumberedRecords(bs, p) \in Seq(Atoms)
           /\ Framed(NumberedRecords(bs, p), 0)
           /\ Ided(NumberedRecords(bs, p))
           /\ DataOf(NumberedRecords(bs, p)) = bs
           /\ Of({"id", "mark"} \cup Sized, NumberedRecords(bs, p))
           /\ ~Led(p) => Of({"id"} \cup Sized, NumberedRecords(bs, p))
           /\ Led(p) /\ Pieces(bs) # 0 => MarkThird(NumberedRecords(bs, p))
           /\ Pieces(bs) = 0 => NumberedRecords(bs, p) = <<>>
<1> DEFINE m == Pieces(bs)
           R == [i \in 1..m |-> NumberedRecord(Piece(bs, i), p + i - 1)]
           rest(i) == DataOf(After(bs, i * Chunk))
<1>1. m \in Nat /\ Len(bs) <= m * Chunk /\ Chunk \in Nat /\ Len(bs) \in Nat
  BY PiecesCover, Wires
<1>2. PICK S : Sends(S, R, m) /\ NumberedRecords(bs, p) = S[m]
  BY NumberedSent
<1>3. \A i \in 1..m : R[i] = NumberedRecord(Piece(bs, i), p + i - 1)
  OBVIOUS
<1> HIDE DEF m, R
<1>4. DataOf(After(bs, 0 * Chunk)) = bs
  <2>1. 0 * Chunk = 0
    BY <1>1
  <2>2. \A i \in 1..Len(bs) : i <= 0 => bs[i].k # "data"
    BY <1>1
  <2>3. DataOf(bs) = DataOf(After(bs, 0))
    BY <2>2, DataOfParts
  <2> QED
    BY <2>1, <2>3, DataOfBytes
<1>5. DataOf(After(bs, m * Chunk)) = <<>>
  <2>1. m * Chunk \in Nat
    BY <1>1
  <2>2. After(bs, m * Chunk) \in Seq(Atoms) /\ Len(After(bs, m * Chunk)) = 0
    BY <2>1, <1>1, Afters
  <2> QED
    BY <2>2, DataOfNone
<1> DEFINE Good(i) == /\ S[i] \in Seq(Atoms) /\ Framed(S[i], 0) /\ Ided(S[i])
                      /\ DataOf(S[i]) \o rest(i) = bs
                      /\ Of({"id", "mark"} \cup Sized, S[i])
                      /\ ~Led(p) => Of({"id"} \cup Sized, S[i])
                      /\ Led(p) /\ 0 < i => MarkThird(S[i])
           All == {i \in Nat : i <= m => Good(i)}
<1>6. Good(0) /\ S[0] = <<>>
  <2>1. S[0] = <<>>
    BY <1>2 DEF Sends, Chains
  <2>2. DataOf(<<>>) = <<>> /\ <<>> \in Seq(Atoms)
    BY DataOfNil, FramedNone
  <2>3. <<>> \o bs = bs
    BY JoinAssociates
  <2>4. Ided(<<>>) /\ \A K : Of(K, <<>>)
    BY EmptySeq DEF Of, Ided
  <2> QED
    BY <2>1, <2>2, <2>3, <2>4, <1>4, FramedNone
<1>7. ASSUME NEW i \in Nat, i + 1 <= m, Good(i) PROVE Good(i + 1)
  <2> DEFINE c == Piece(bs, i + 1)
             r == NumberedRecord(c, p + i)
             s == S[i]
             d == DataOf(After(bs, (i + 1) * Chunk))
  <2>1. i + 1 \in 1..m /\ (i + 1) - 1 = i /\ p + (i + 1) - 1 = p + i
        /\ p + i \in Nat
    BY <1>1, <1>7
  <2>2. S[i + 1] = s \o r
    BY <2>1, <1>2, <1>3 DEF Sends, Chains
  <2>3. /\ c \in Seq(Atoms) /\ (i + 1) * Chunk \in Nat
        /\ Of({"data"}, c) /\ rest(i) = DataOf(c) \o d
    BY PieceParts
  <2>4. DataOf(c) = c
    BY <2>3, DataOfBytes
  <2>5. /\ r \in Seq(Atoms) /\ Framed(r, 0) /\ Ided(r) /\ DataOf(r) = c
        /\ Of({"id", "mark"} \cup Sized, r)
        /\ ~Led(p + i) => Of({"id"} \cup Sized, r)
        /\ Led(p + i) => MarkThird(r)
    <3> HIDE DEF c
    <3> QED
      BY <2>1, <2>3, NumberedRecordParts
  <2>6. d \in Seq(Atoms)
    BY <2>3, Afters, DataOfType
  <2>7. /\ s \in Seq(Atoms) /\ Framed(s, 0) /\ Ided(s)
        /\ DataOf(s) \o rest(i) = bs
        /\ Of({"id", "mark"} \cup Sized, s)
        /\ ~Led(p) => Of({"id"} \cup Sized, s)
        /\ Led(p) /\ 0 < i => MarkThird(s)
        /\ i = 0 => s = <<>>
    BY <1>6, <1>7
  <2>8. /\ Led(p + i) <=> Led(p) /\ i = 0
        /\ i = 0 \/ 0 < i
    BY DEF Led
  <2> HIDE DEF c, r, s, d, rest
  <2>9. s \o r \in Seq(Atoms) /\ Framed(s \o r, 0) /\ Ided(s \o r)
    BY <2>5, <2>7, Joined, FramedJoins, IdedJoins
  <2>10. DataOf(s \o r) \o d = bs
    <3>1. DataOf(s \o r) = DataOf(s) \o c
      BY <2>5, <2>7, DataOfJoined
    <3>2. DataOf(s) \in Seq(Atoms) /\ c \in Seq(Atoms)
      BY <2>3, <2>7, DataOfType
    <3>3. (DataOf(s) \o c) \o d = DataOf(s) \o (c \o d)
      BY <3>2, <2>6, JoinAssociates
    <3> QED
      BY <3>1, <3>3, <2>3, <2>4, <2>7
  <2>11. Of({"id", "mark"} \cup Sized, s \o r)
    BY <2>5, <2>7, OfParts
  <2>12. ~Led(p) => Of({"id"} \cup Sized, s \o r)
    BY <2>5, <2>7, <2>8, OfParts
  <2>13. ASSUME Led(p) PROVE MarkThird(s \o r)
    <3>1. CASE i = 0
      <4>1. s \o r = r
        BY <3>1, <2>5, <2>7, JoinAssociates
      <4> QED
        BY <3>1, <4>1, <2>5, <2>8, <2>13
    <3>2. CASE 0 < i
      <4>1. Of({"id"} \cup Sized, r)
        BY <3>2, <2>5, <2>8
      <4>2. \A j \in 1..Len(r) : r[j].k # "mark"
        BY <4>1 DEF Of, Sized
      <4> QED
        BY <3>2, <4>2, <2>5, <2>7, <2>13, MarkJoins
    <3> QED
      BY <3>1, <3>2, <2>8
  <2> QED
    BY <2>2, <2>9, <2>10, <2>11, <2>12, <2>13 DEF rest, d
<1>8. Good(m)
  <2> HIDE DEF Good
  <2>1. 0 \in All
    BY <1>6
  <2>2. ASSUME NEW i \in Nat, i \in All PROVE i + 1 \in All
    BY <1>7, <2>2, <1>1
  <2>3. Nat \subseteq All
    <3> HIDE DEF All
    <3> QED
      BY <2>1, <2>2, AllNumbers
  <2> QED
    BY <2>3, <1>1
<1>9. DataOf(S[m]) = bs
  <2>1. /\ S[m] \in Seq(Atoms)
        /\ DataOf(S[m]) \o DataOf(After(bs, m * Chunk)) = bs
    BY <1>8
  <2>2. DataOf(S[m]) \o <<>> = DataOf(S[m])
    BY <2>1, DataOfType, JoinAssociates
  <2> QED
    BY <2>1, <2>2, <1>5
<1>10. /\ S[m] \in Seq(Atoms) /\ Framed(S[m], 0) /\ Ided(S[m])
       /\ Of({"id", "mark"} \cup Sized, S[m])
       /\ ~Led(p) => Of({"id"} \cup Sized, S[m])
       /\ Led(p) /\ m # 0 => MarkThird(S[m])
       /\ m = 0 => S[m] = <<>>
  BY <1>1, <1>6, <1>8
<1> QED
  BY <1>2, <1>9, <1>10 DEF m

-----------------------------------------------------------------------------
(* What a Snell server sends first.                                         *)

(* What is sent behind the reply of a Snell server leaves it in front.     *)
LEMMA RepliesJoins ==
    ASSUME NEW v \in Seq(Atoms), NEW w \in Seq(Atoms), Replies(v),
           Of(Sized, w)
    PROVE  Replies(v \o w)
<1>1. /\ Len(v \o w) = Len(v) + Len(w) /\ v \o w \in Seq(Atoms)
      /\ \A i \in 1..Len(v) : (v \o w)[i] = v[i]
      /\ Len(v) \in Nat /\ Len(w) \in Nat /\ 2 <= Len(v)
  BY Joined, Wires DEF Replies
<1>2. 1 \in 1..Len(v) /\ 2 \in 1..Len(v) /\ 2 \in 0..Len(v)
      /\ 2 <= Len(v) + Len(w)
  BY <1>1
<1>3. After(v \o w, 2) = After(v, 2) \o w
  BY <1>2, AfterJoined
<1>4. Of(Sized, After(v, 2) \o w)
  <2>1. After(v, 2) \in Seq(Atoms) /\ Of(Sized, After(v, 2))
    BY Afters DEF Replies
  <2> QED
    BY <2>1, OfParts
<1> QED
  BY <1>1, <1>2, <1>3, <1>4 DEF Replies

(* A record that begins with the reply is a first one of a Snell server.   *)
LEMMA LedRecord ==
    ASSUME NEW c \in Seq(Atoms), c # <<>>, c[1].k = "mark",
           \A i \in 1..Len(c) : 1 < i => c[i].k = "data"
    PROVE  Replies(Record(c))
<1> DEFINE r == Record(c)
<1>1. /\ r \in Seq(Atoms) /\ Len(r) = 1 + Len(c)
      /\ r[1].k = "size" /\ r[1].n = Len(c)
      /\ \A i \in 1..Len(c) : r[1 + i] = c[i]
      /\ Len(c) \in Nat /\ 1 <= Len(c)
  BY RecordParts, Wires
<1> HIDE DEF r
<1>2. 1 \in 1..Len(c) /\ 1 + 1 = 2 /\ 2 <= Len(r)
  BY <1>1
<1>3. r[2].k = "mark"
  BY <1>1, <1>2
<1>4. ASSUME NEW i \in 1..Len(After(r, 2)) PROVE After(r, 2)[i].k = "data"
  <2>1. /\ Len(After(r, 2)) = Len(r) - 2
        /\ After(r, 2)[i] = r[2 + i]
    BY <1>1, <1>2, Afters
  <2>2. 1 + i \in 1..Len(c) /\ 1 + (1 + i) = 2 + i /\ 1 < 1 + i
    BY <2>1, <1>1
  <2>3. r[1 + (1 + i)] = c[1 + i]
    BY <2>2, <1>1
  <2> QED
    BY <2>1, <2>2, <2>3
<1> QED
  BY <1>1, <1>2, <1>3, <1>4 DEF Replies, Of, Sized, r

(* Of a wire with one leading atom, the first piece has it.                *)
LEMMA LedPieces ==
    ASSUME NEW b \in Seq(Atoms), b # <<>>, b[1].k = "mark",
           \A i \in 1..Len(b) : 1 < i => b[i].k = "data", NEW i \in Nat
    PROVE  LET c == Piece(b, i + 1)
           IN  /\ 0 < i => Of({"data"}, c)
               /\ i = 0 => /\ c # <<>> /\ c[1].k = "mark"
                           /\ \A j \in 1..Len(c) : 1 < j => c[j].k = "data"
<1> DEFINE a == After(b, i * Chunk)
           c == Piece(b, i + 1)
<1>1. i * Chunk \in Nat /\ c = Upto(a, Chunk) /\ Chunk \in Nat /\ 0 < Chunk
  BY PieceParts, PiecesCover
<1>2. /\ a \in Seq(Atoms) /\ Len(a) \in Nat /\ Len(b) \in Nat
      /\ Len(a) = IF i * Chunk <= Len(b) THEN Len(b) - i * Chunk ELSE 0
      /\ \A j \in 1..Len(a) : a[j] = b[i * Chunk + j]
  BY <1>1, Afters, Wires
<1> HIDE DEF a
<1>3. /\ c \in Seq(Atoms) /\ Len(c) = Least(Chunk, Len(a))
      /\ \A j \in 1..Len(c) : c[j] = a[j]
  BY <1>1, <1>2, Uptos
<1> HIDE DEF c
<1>4. \A j \in 1..Len(c) : j \in 1..Len(a)
  BY <1>1, <1>2, <1>3 DEF Least
<1>5. ASSUME 0 < i PROVE Of({"data"}, c)
  <2> SUFFICES ASSUME NEW j \in 1..Len(c) PROVE c[j].k = "data"
    BY DEF Of
  <2>1. 0 < i * Chunk
    <3>1. \E x \in Nat : i = x + 1
      <4>1. i - 1 \in Nat /\ i = (i - 1) + 1
        BY <1>5
      <4> QED
        BY <4>1
    <3>2. PICK x \in Nat : i = x + 1
      BY <3>1
    <3>3. (x + 1) * Chunk = x * Chunk + Chunk /\ x * Chunk \in Nat
      BY <1>1
    <3> QED
      BY <3>2, <3>3, <1>1
  <2>2. j \in 1..Len(a) /\ c[j] = b[i * Chunk + j]
    BY <1>2, <1>3, <1>4
  <2>3. i * Chunk + j \in 1..Len(b) /\ 1 < i * Chunk + j
    BY <2>1, <2>2, <1>1, <1>2
  <2> QED
    BY <2>2, <2>3
<1>6. ASSUME i = 0
      PROVE  /\ c # <<>> /\ c[1].k = "mark"
             /\ \A j \in 1..Len(c) : 1 < j => c[j].k = "data"
  <2>1. i * Chunk = 0
    BY <1>1, <1>6
  <2>2. Len(a) = Len(b) /\ 1 <= Len(b) /\ 1 \in 1..Len(c)
    BY <2>1, <1>1, <1>2, <1>3, Wires DEF Least
  <2>3. \A j \in 1..Len(c) : c[j] = b[j] /\ j \in 1..Len(b)
    BY <2>1, <2>2, <1>2, <1>3, <1>4
  <2> QED
    BY <2>2, <2>3, EmptySeq
<1> QED
  BY <1>5, <1>6 DEF c

(* The first records of a Snell server are led by its reply.               *)
LEMMA RepliesSent ==
    ASSUME NEW x \in Atoms, x.k = "mark",
           NEW bs \in Seq(Atoms), Of({"data"}, bs)
    PROVE  LET w == Records(<<x>> \o bs)
           IN  /\ w \in Seq(Atoms) /\ Framed(w, 0) /\ DataOf(w) = bs
               /\ Replies(w)
<1> DEFINE h == <<x>>
           b == h \o bs
           m == Pieces(b)
           R == [i \in 1..m |-> Record(Piece(b, i))]
<1>1. /\ b \in Seq(Atoms) /\ Len(b) = 1 + Len(bs) /\ b[1] = x
      /\ \A i \in 1..Len(bs) : b[1 + i] = bs[i]
      /\ Len(bs) \in Nat /\ Of(Payload, b) /\ DataOf(b) = bs
  <2>1. h \in Seq(Atoms) /\ Len(h) = 1 /\ h[1] = x
    OBVIOUS
  <2> HIDE DEF h
  <2>2. /\ b \in Seq(Atoms) /\ Len(b) = Len(h) + Len(bs)
        /\ \A i \in 1..Len(h) : b[i] = h[i]
        /\ \A i \in 1..Len(bs) : b[Len(h) + i] = bs[i]
        /\ Len(bs) \in Nat
    BY <2>1, Joined, Wires
  <2>3. Of(Payload, h) /\ Of(Payload, bs)
    BY <2>1 DEF Of, Payload
  <2>4. DataOf(h) = <<>>
    BY <2>1, DataOfNone
  <2>5. DataOf(h \o bs) = <<>> \o bs
    BY <2>1, <2>4, DataOfJoined, DataOfBytes
  <2>6. <<>> \o bs = bs
    BY JoinAssociates
  <2> QED
    BY <2>1, <2>2, <2>3, <2>5, <2>6, OfParts
<1>2. \A i \in 1..Len(b) : 1 < i => b[i].k = "data"
  <2> HIDE DEF b
  <2>1. \A i \in 1..Len(b) : 1 < i => i - 1 \in 1..Len(bs) /\ 1 + (i - 1) = i
    BY <1>1
  <2> QED
    BY <2>1, <1>1 DEF Of
<1>3. b # <<>> /\ b[1].k = "mark"
  BY <1>1, Wires
<1> HIDE DEF b
<1>4. /\ Records(b) \in Seq(Atoms) /\ Framed(Records(b), 0)
      /\ DataOf(Records(b)) = bs
  BY <1>1, RecordsParts
<1>5. m \in Nat /\ m # 0
  BY <1>1, <1>3, PiecesCover
<1>6. PICK S : Sends(S, R, m) /\ Records(b) = S[m]
  BY <1>1, RecordsSent
<1>7. \A i \in 1..m : R[i] = Record(Piece(b, i))
  OBVIOUS
<1> HIDE DEF m, R
<1> DEFINE Good(i) == /\ S[i] \in Seq(Atoms)
                      /\ i = 0 => S[i] = <<>>
                      /\ 0 < i => Replies(S[i])
           All == {i \in Nat : i <= m => Good(i)}
<1>8. Good(0)
  BY <1>6 DEF Sends, Chains
<1>9. ASSUME NEW i \in Nat, i + 1 <= m, Good(i) PROVE Good(i + 1)
  <2> DEFINE c == Piece(b, i + 1)
             r == Record(c)
             s == S[i]
  <2>1. i + 1 \in 1..m /\ (i + 1) - 1 = i /\ 0 < i + 1 /\ i + 1 # 0
    BY <1>5, <1>9
  <2>2. S[i + 1] = s \o r
    BY <2>1, <1>6, <1>7 DEF Sends, Chains
  <2>3. c \in Seq(Atoms)
    BY <1>1, PieceParts
  <2>4. /\ 0 < i => Of({"data"}, c)
        /\ i = 0 => /\ c # <<>> /\ c[1].k = "mark"
                    /\ \A j \in 1..Len(c) : 1 < j => c[j].k = "data"
    BY <1>1, <1>2, <1>3, LedPieces
  <2> HIDE DEF c
  <2>5. r \in Seq(Atoms) /\ (Of({"data"}, c) => Of({"size"} \cup {"data"}, r))
    BY <2>3, RecordParts
  <2>6. s \in Seq(Atoms) /\ (i = 0 => s = <<>>) /\ (0 < i => Replies(s))
    BY <1>9
  <2>7. i = 0 => Replies(r)
    BY <2>3, <2>4, LedRecord
  <2> HIDE DEF r, s
  <2>8. s \o r \in Seq(Atoms)
    BY <2>5, <2>6, Joined
  <2>9. Replies(s \o r)
    <3>1. CASE i = 0
      <4>1. s \o r = r
        BY <3>1, <2>5, <2>6, JoinAssociates
      <4> QED
        BY <3>1, <4>1, <2>7
    <3>2. CASE 0 < i
      <4>1. {"size"} \cup {"data"} = Sized
        BY DEF Sized
      <4>2. Of(Sized, r) /\ Replies(s)
        BY <3>2, <4>1, <2>4, <2>5, <2>6
      <4> QED
        BY <4>2, <2>5, <2>6, RepliesJoins
    <3> QED
      BY <3>1, <3>2
  <2> QED
    BY <2>1, <2>2, <2>8, <2>9
<1>10. Good(m)
  <2> HIDE DEF Good
  <2>1. 0 \in All
    BY <1>8
  <2>2. ASSUME NEW i \in Nat, i \in All PROVE i + 1 \in All
    BY <1>9, <2>2, <1>5
  <2>3. Nat \subseteq All
    <3> HIDE DEF All
    <3> QED
      BY <2>1, <2>2, AllNumbers
  <2> QED
    BY <2>3, <1>5
<1>11. Replies(Records(b))
  BY <1>5, <1>6, <1>10
<1> QED
  BY <1>4, <1>11 DEF b

-----------------------------------------------------------------------------
(* What Write puts on the wire.                                            *)
Carries(w, bs) == w \in Seq(Atoms) /\ WellFramed(w) /\ DataOf(w) = bs

(* What it is for a wire to be well framed.                                *)
LEMMA WellFramedIs ==
    ASSUME NEW w \in Seq(Atoms)
    PROVE  WellFramed(w) <=>
               \A i \in 1..Len(w) : w[i].k = "size" => Ahead(w, i)
<1>1. /\ DOMAIN w = 1..Len(w) /\ Len(w) \in Nat
      /\ \A i \in 1..Len(w) : w[i].n \in Nat
  BY Wires
<1>2. ASSUME NEW i \in 1..Len(w)
      PROVE  Ahead(w, i) <=> \A j \in 1..w[i].n : /\ i + j <= Len(w)
                                                  /\ w[i + j].k \in Payload
  <2>1. ASSUME Ahead(w, i), NEW j \in 1..w[i].n
        PROVE  i + j <= Len(w) /\ w[i + j].k \in Payload
    <3>1. i + j <= Len(w) /\ i + j \in 1..Len(w) /\ i < i + j
          /\ i + j <= i + w[i].n
      BY <1>1, <2>1 DEF Ahead
    <3> QED
      BY <3>1, <2>1 DEF Ahead
  <2>2. ASSUME \A j \in 1..w[i].n : /\ i + j <= Len(w)
                                    /\ w[i + j].k \in Payload
        PROVE  Ahead(w, i)
    <3>1. i + w[i].n <= Len(w)
      <4>1. CASE w[i].n = 0
        BY <4>1, <1>1
      <4>2. CASE w[i].n # 0
        <5>1. w[i].n \in 1..w[i].n
          BY <4>2, <1>1
        <5> QED
          BY <5>1, <2>2
      <4> QED
        BY <4>1, <4>2
    <3>2. ASSUME NEW j \in 1..Len(w), i < j, j <= i + w[i].n
          PROVE  w[j].k \in Payload
      <4>1. j - i \in 1..w[i].n /\ i + (j - i) = j
        BY <3>2, <1>1
      <4> QED
        BY <4>1, <2>2
    <3> QED
      BY <3>1, <3>2 DEF Ahead
  <2> QED
    BY <2>1, <2>2
<1> QED
  BY <1>1, <1>2 DEF WellFramed, Payload

(* Two wires that carry bytes carry them one behind the other.             *)
LEMMA CarriesJoins ==
    ASSUME NEW v, NEW a, Carries(v, a), NEW w, NEW b, Carries(w, b)
    PROVE  Carries(v \o w, a \o b)
<1> DEFINE u == v \o w
           m == Len(v)
<1>1. v \in Seq(Atoms) /\ w \in Seq(Atoms)
  BY DEF Carries
<1>2. /\ u \in Seq(Atoms) /\ Len(u) = m + Len(w)
      /\ \A i \in 1..m : u[i] = v[i]
      /\ \A i \in 1..Len(w) : u[m + i] = w[i]
      /\ m \in Nat /\ Len(w) \in Nat /\ m = Len(v)
      /\ \A i \in 1..m : v[i].n \in Nat
      /\ \A i \in 1..Len(w) : w[i].n \in Nat
  BY <1>1, Joined, Wires
<1>3. DataOf(u) = a \o b
  BY <1>1, DataOfJoined DEF Carries
<1> HIDE DEF u, m
<1>4. ASSUME NEW i \in 1..Len(u), u[i].k = "size" PROVE Ahead(u, i)
  <2>1. CASE i \in 1..m
    <3>1. u[i] = v[i] /\ Ahead(v, i)
      BY <2>1, <1>1, <1>2, <1>4, WellFramedIs DEF Carries
    <3>2. i + v[i].n <= m
      BY <3>1, <1>2 DEF Ahead
    <3>3. i + u[i].n <= Len(u)
      BY <2>1, <3>1, <3>2, <1>2
    <3>4. ASSUME NEW j \in 1..Len(u), i < j, j <= i + u[i].n
          PROVE  u[j].k \in Payload
      <4>1. j \in 1..m
        BY <2>1, <3>1, <3>2, <3>4, <1>2
      <4>2. v[j].k \in Payload
        BY <4>1, <3>1, <3>4, <1>2 DEF Ahead
      <4> QED
        BY <4>1, <4>2, <1>2
    <3> QED
      BY <3>3, <3>4 DEF Ahead
  <2>2. CASE ~(i \in 1..m)
    <3> DEFINE k == i - m
    <3>1. k \in 1..Len(w) /\ i = m + k
      BY <2>2, <1>2
    <3> HIDE DEF k
    <3>2. u[i] = w[k]
      BY <3>1, <1>2
    <3>3. Ahead(w, k)
      BY <3>1, <3>2, <1>1, <1>4, WellFramedIs DEF Carries
    <3>4. k + w[k].n <= Len(w)
      BY <3>3 DEF Ahead
    <3>5. i + u[i].n <= Len(u)
      BY <3>1, <3>2, <3>4, <1>2
    <3>6. ASSUME NEW j \in 1..Len(u), i < j, j <= i + u[i].n
          PROVE  u[j].k \in Payload
      <4>1. /\ j - m \in 1..Len(w) /\ m + (j - m) = j
            /\ k < j - m /\ j - m <= k + w[k].n
        BY <3>1, <3>2, <3>6, <1>2
      <4>2. w[j - m].k \in Payload
        BY <4>1, <3>3 DEF Ahead
      <4>3. u[j] = w[j - m]
        BY <4>1, <1>2
      <4> QED
        BY <4>2, <4>3
    <3> QED
      BY <3>5, <3>6 DEF Ahead
  <2> QED
    BY <2>1, <2>2
<1>5. WellFramed(u)
  BY <1>2, <1>4, WellFramedIs
<1> QED
  BY <1>2, <1>3, <1>5 DEF Carries, u

(* Records, and bytes as they are.                                         *)
LEMMA CarriesBytes ==
    ASSUME NEW bs \in Seq(Atoms), Of({"data"}, bs)
    PROVE  /\ Carries(bs, bs) /\ Carries(Record(bs), bs)
           /\ Carries(Records(bs), bs)
<1>1. \A i \in 1..Len(bs) : bs[i].k # "size"
  BY DEF Of
<1>2. Of(Payload, bs) /\ DataOf(bs) = bs
  BY DataOfBytes DEF Of, Payload
<1>3. Carries(bs, bs)
  BY <1>1, <1>2, WellFramedIs DEF Carries
<1>4. \A w \in Seq(Atoms) : Framed(w, 0) => WellFramed(w)
  BY WellFramedIs DEF Framed
<1>5. Carries(Record(bs), bs)
  BY <1>2, <1>4, RecordParts, FramedRecord DEF Carries
<1>6. Carries(Records(bs), bs)
  BY <1>2, <1>4, RecordsParts DEF Carries
<1> QED
  BY <1>3, <1>5, <1>6

(* Headers, which carry nothing.                                           *)
LEMMA CarriesNothing ==
    /\ Carries(<<>>, <<>>) /\ Carries(Header, <<>>)
    /\ \A a, b \in Nat : Carries(MuxFrame(a, b), <<>>)
    /\ Header \in Seq(Atoms) /\ Len(Header) = 2
    /\ Header[1] = Mark /\ Header[2] = Mark
<1>1. ASSUME NEW x \in Atoms, NEW y \in Atoms,
             x.k \in {"mark", "status", "option"},
             y.k \in {"mark", "status", "option"}
      PROVE  Carries(<<x, y>>, <<>>)
  <2> DEFINE w == <<x, y>>
  <2>1. w \in Seq(Atoms) /\ Len(w) = 2 /\ w[1] = x /\ w[2] = y
    OBVIOUS
  <2> HIDE DEF w
  <2>2. \A i \in 1..Len(w) : w[i].k # "size" /\ w[i].k # "data"
    BY <1>1, <2>1
  <2>3. WellFramed(w) /\ DataOf(w) = <<>>
    BY <2>1, <2>2, WellFramedIs, DataOfNone
  <2> QED
    BY <2>1, <2>3 DEF Carries, w
<1>2. Carries(Header, <<>>)
  BY <1>1, AtomTypes DEF Header
<1>3. \A a, b \in Nat : Carries(MuxFrame(a, b), <<>>)
  BY <1>1, AtomTypes DEF MuxFrame, Kinds
<1>4. Carries(<<>>, <<>>)
  <2> DEFINE e == <<>>
  <2>1. e \in Seq(Atoms) /\ Len(e) = 0 /\ DataOf(e) = <<>>
    BY EmptySeq, DataOfNil
  <2> HIDE DEF e
  <2>2. WellFramed(e)
    <3>1. \A i \in 1..Len(e) : FALSE
      BY <2>1
    <3>2. \A i \in 1..Len(e) : e[i].k = "size" => Ahead(e, i)
      BY <3>1
    <3> QED
      BY <2>1, <3>2, WellFramedIs
  <2>3. Carries(e, <<>>)
    BY <2>1, <2>2 DEF Carries
  <2> QED
    BY <2>3 DEF e
<1>5. /\ Header \in Seq(Atoms) /\ Len(Header) = 2
      /\ Header[1] = Mark /\ Header[2] = Mark
  BY AtomTypes DEF Header
<1> QED
  BY <1>2, <1>3, <1>4, <1>5

(* A header before a wire carries nothing more.                            *)
LEMMA CarriesLed ==
    ASSUME NEW h, Carries(h, <<>>), NEW w, NEW b \in Seq(Atoms), Carries(w, b)
    PROVE  Carries(h \o w, b)
<1>1. Carries(h \o w, <<>> \o b)
  BY CarriesJoins
<1>2. <<>> \o b = b
  BY JoinAssociates
<1> QED
  BY <1>1, <1>2

(* A transport may put its handshake before the first of the bytes.        *)
LEMMA CarriesFirst ==
    ASSUME NEW w, NEW b \in Seq(Atoms), Carries(w, b), NEW first \in BOOLEAN
    PROVE  Carries((IF first THEN Header ELSE <<>>) \o w, b)
<1> DEFINE h == IF first THEN Header ELSE <<>>
<1>1. Carries(h, <<>>)
  BY CarriesNothing
<1> HIDE DEF h
<1>2. Carries(h \o w, b)
  BY <1>1, CarriesLed
<1> QED
  BY <1>2 DEF h

(* What Write sends carries its bytes, in every transport.                 *)
LEMMA WrittenCarries ==
    ASSUME NEW bs \in Seq(Atoms), Of({"data"}, bs), NEW first \in BOOLEAN,
           NEW w \in Written(bs, first)
    PROVE  Carries(w, bs)
<1>1. /\ Carries(bs, bs) /\ Carries(Record(bs), bs) /\ Carries(Records(bs), bs)
      /\ FALSE \in BOOLEAN
  BY CarriesBytes
<1>2. /\ Carries(StreamWrite(bs, first), bs)
      /\ Carries(AeadWrite(bs, first), bs) /\ Carries(AeadWrite(bs, FALSE), bs)
      /\ Carries(TlsWrite(bs, first), bs)
      /\ Carries(ObfsHttpWrite(bs, first), bs)
      /\ Carries(VmessHttpWrite(bs, first), bs)
      /\ Carries(H2Write(bs, first), bs)
      /\ Carries(GunWrite(bs, first), bs)
  BY <1>1, CarriesFirst
  DEF StreamWrite, AeadWrite, TlsWrite, ObfsHttpWrite, VmessHttpWrite, H2Write,
      GunWrite
<1>3. Carries(WebsocketWrite(bs), bs) /\ Carries(ChunkWrite(bs), bs)
      /\ Carries(VmessAeadWrite(bs), bs)
  BY <1>1 DEF WebsocketWrite, ChunkWrite, VmessAeadWrite
<1>4. ASSUME NEW n \in Nat
      PROVE  /\ Carries(Record(Upto(bs, n)), Upto(bs, n))
             /\ Carries(After(bs, n), After(bs, n))
             /\ Carries(Record(After(bs, n)), After(bs, n))
             /\ Carries(Records(After(bs, n)), After(bs, n))
             /\ Upto(bs, n) \o After(bs, n) = bs
             /\ Upto(bs, n) \in Seq(Atoms) /\ After(bs, n) \in Seq(Atoms)
  <2>1. /\ Upto(bs, n) \in Seq(Atoms) /\ Of({"data"}, Upto(bs, n))
        /\ After(bs, n) \in Seq(Atoms) /\ Of({"data"}, After(bs, n))
    BY Uptos, Afters, OfCut
  <2>2. Carries(Record(Upto(bs, n)), Upto(bs, n))
    BY <2>1, CarriesBytes
  <2>3. /\ Carries(After(bs, n), After(bs, n))
        /\ Carries(Record(After(bs, n)), After(bs, n))
        /\ Carries(Records(After(bs, n)), After(bs, n))
    BY <2>1, CarriesBytes
  <2> QED
    BY <2>1, <2>2, <2>3, Parted
<1>5. ASSUME NEW n \in Nat
      PROVE  Carries(Header \o Record(Upto(bs, n)), Upto(bs, n))
  BY <1>4, CarriesLed, CarriesNothing
<1>6. ASSUME NEW n \in Nat, NEW v, Carries(v, After(bs, n))
      PROVE  Carries(Header \o Record(Upto(bs, n)) \o v, bs)
  <2>1. Carries(Header \o Record(Upto(bs, n)) \o v,
                Upto(bs, n) \o After(bs, n))
    BY <1>5, <1>6, CarriesJoins
  <2> QED
    BY <2>1, <1>4
<1>7. Carries(EarlyDial(bs), bs)
  <2>1. Early \in Nat /\ Len(bs) \in Nat
    BY FramingAssumption, Wires
  <2>2. CASE Len(bs) > Early
    BY <2>1, <2>2, <1>4, <1>6 DEF EarlyDial, WebsocketWrite
  <2>3. CASE ~(Len(bs) > Early)
    <3>1. After(bs, Early) \in Seq(Atoms) /\ Len(After(bs, Early)) = 0
      BY <2>1, <2>3, Afters
    <3>2. After(bs, Early) = <<>>
      BY <3>1, Wires
    <3>3. Carries(<<>>, After(bs, Early))
      BY <3>2, CarriesNothing
    <3> QED
      BY <2>1, <2>3, <3>3, <1>6 DEF EarlyDial
  <2> QED
    BY <2>2, <2>3
<1>8. Carries(EarlyWrite(bs, first), bs)
  BY <1>3, <1>7 DEF EarlyWrite
<1>9. Carries(MuxWrite(bs, first), bs)
  <2> DEFINE f == IF first THEN MuxFrame(1, 0) ELSE <<>>
  <2>1. Carries(f, <<>>) /\ Carries(MuxFrame(2, 1), <<>>)
    BY CarriesNothing
  <2>2. MuxWrite(bs, first) = f \o MuxFrame(2, 1) \o Record(bs)
    BY DEF MuxWrite
  <2> HIDE DEF f
  <2>3. <<>> \in Seq(Atoms)
    BY EmptySeq
  <2>4. Carries(f \o MuxFrame(2, 1), <<>>)
    BY <2>1, <2>3, CarriesLed
  <2> QED
    BY <2>2, <2>4, <1>1, CarriesLed
<1>10. ASSUME NEW n \in 1..Len(bs)
       PROVE  /\ Carries(Header \o Record(Upto(bs, n)) \o After(bs, n), bs)
              /\ Carries(Header \o Record(Upto(bs, n))
                           \o Records(After(bs, n)), bs)
  BY <1>4, <1>6, Wires
<1>11. \A v \in AuthPacked(bs, first) : Carries(v, bs)
  BY <1>1, <1>10 DEF AuthPacked
<1>12. \A v \in SsrHttpWrite(bs, first) : Carries(v, bs)
  BY <1>1, <1>10 DEF SsrHttpWrite
<1> QED
  BY <1>1, <1>2, <1>3, <1>8, <1>9, <1>11, <1>12
  DEF Written, AuthSha1Encode, AuthAesEncode, AuthChainEncode

(* The same of what is sent when the connection is made.                   *)
LEMMA NewConnCarries ==
    ASSUME NEW l
    PROVE  Carries(NewConn(l), <<>>)
<1>1. Carries(Header, <<>>) /\ Carries(<<>>, <<>>)
  BY CarriesNothing
<1>2. Carries(SnellHeader, <<>>)
  <2> DEFINE m == <<Mark>>
  <2>1. m \in Seq(Atoms) /\ Len(m) = 1 /\ m[1].k = "mark"
    BY AtomTypes
  <2> HIDE DEF m
  <2>2. Of(Payload, m) /\ DataOf(m) = <<>>
    BY <2>1, DataOfNone DEF Of, Payload
  <2>3. Records(m) \in Seq(Atoms) /\ Framed(Records(m), 0)
        /\ DataOf(Records(m)) = <<>>
    BY <2>1, <2>2, RecordsParts
  <2>4. Carries(Records(m), <<>>)
    BY <2>3, WellFramedIs DEF Carries, Framed
  <2>5. <<>> \in Seq(Atoms) /\ TRUE \in BOOLEAN
    BY EmptySeq
  <2>6. Carries(Header \o Records(m), <<>>)
    BY <2>4, <2>5, <1>1, CarriesLed
  <2>7. SnellHeader = Header \o Records(m)
    BY DEF SnellHeader, AeadWrite, m
  <2> QED
    BY <2>6, <2>7
<1> QED
  BY <1>1, <1>2 DEF NewConn, VmessRequest, WebsocketDial, TrojanHeader

-----------------------------------------------------------------------------
(* What the server puts on the wire.                                       *)

(* Frames of a multiplexed connection.                                     *)
LEMMA MuxedJoins ==
    ASSUME NEW v \in Seq(Atoms), NEW w \in Seq(Atoms), Muxed(v), Muxed(w)
    PROVE  Muxed(v \o w)
<1> DEFINE u == v \o w
           m == Len(v)
<1>1. /\ u \in Seq(Atoms) /\ Len(u) = m + Len(w)
      /\ \A i \in 1..m : u[i] = v[i]
      /\ \A i \in 1..Len(w) : u[m + i] = w[i]
      /\ m \in Nat /\ Len(w) \in Nat /\ m = Len(v)
  BY Joined, Wires
<1> HIDE DEF u, m
<1>2. m \in Nat /\ Len(w) \in Nat /\ Len(u) = m + Len(w)
  BY <1>1
<1>3. ASSUME NEW i \in 1..Len(u), i \in 1..m
      PROVE  /\ u[i].k = "status" => i < Len(u) /\ u[i + 1].k = "option"
             /\ u[i].k = "option" /\ u[i].n = 1 =>
                   i < Len(u) /\ u[i + 1].k = "size"
             /\ u[i].k = "size" => /\ 2 < i /\ u[i - 1] = Atom("option", 1)
                                   /\ u[i - 2].k = "status"
  <2>1. /\ i < m => i + 1 \in 1..m /\ i < Len(u)
        /\ 2 < i => i - 1 \in 1..m /\ i - 2 \in 1..m
    BY <1>2, <1>3
  <2>2. /\ v[i].k = "status" => i < m /\ v[i + 1].k = "option"
        /\ v[i].k = "option" /\ v[i].n = 1 => i < m /\ v[i + 1].k = "size"
        /\ v[i].k = "size" => /\ 2 < i /\ v[i - 1] = Atom("option", 1)
                              /\ v[i - 2].k = "status"
    BY <1>1, <1>3 DEF Muxed
  <2>3. u[i] = v[i]
    BY <1>1, <1>3
  <2>4. i < m => u[i + 1] = v[i + 1]
    BY <2>1, <1>1
  <2>5. 2 < i => u[i - 1] = v[i - 1] /\ u[i - 2] = v[i - 2]
    BY <2>1, <1>1
  <2> QED
    BY <2>1, <2>2, <2>3, <2>4, <2>5
<1>4. ASSUME NEW i \in 1..Len(u), ~(i \in 1..m)
      PROVE  /\ u[i].k = "status" => i < Len(u) /\ u[i + 1].k = "option"
             /\ u[i].k = "option" /\ u[i].n = 1 =>
                   i < Len(u) /\ u[i + 1].k = "size"
             /\ u[i].k = "size" => /\ 2 < i /\ u[i - 1] = Atom("option", 1)
                                   /\ u[i - 2].k = "status"
  <2> DEFINE j == i - m
  <2>1. j \in 1..Len(w) /\ m + j = i
    BY <1>2, <1>4
  <2> HIDE DEF j
  <2>2. /\ j < Len(w) => /\ j + 1 \in 1..Len(w) /\ m + (j + 1) = i + 1
                         /\ i < Len(u)
        /\ 2 < j => /\ j - 1 \in 1..Len(w) /\ m + (j - 1) = i - 1
                    /\ j - 2 \in 1..Len(w) /\ m + (j - 2) = i - 2 /\ 2 < i
    BY <2>1, <1>2
  <2>3. u[i] = w[j]
    BY <2>1, <1>1
  <2>4. j < Len(w) => u[i + 1] = w[j + 1]
    BY <2>2, <1>1
  <2>5. 2 < j => u[i - 1] = w[j - 1] /\ u[i - 2] = w[j - 2]
    BY <2>2, <1>1
  <2>6. /\ w[j].k = "status" => j < Len(w) /\ w[j + 1].k = "option"
        /\ w[j].k = "option" /\ w[j].n = 1 => j < Len(w) /\ w[j + 1].k = "size"
        /\ w[j].k = "size" => /\ 2 < j /\ w[j - 1] = Atom("option", 1)
                              /\ w[j - 2].k = "status"
    BY <2>1 DEF Muxed
  <2> QED
    BY <2>2, <2>3, <2>4, <2>5, <2>6
<1>5. Muxed(u)
  BY <1>3, <1>4 DEF Muxed
<1> QED
  BY <1>5 DEF u

(* The two atoms that head a frame of the multiplexer.                     *)
MuxHead(f, b) ==
    /\ f \in Seq(Atoms) /\ Len(f) = 2
    /\ f[1].k = "status" /\ f[2].k = "option"
    /\ f[2].n = b /\ f[2] = Atom("option", b)
    /\ Framed(f, 0) /\ DataOf(f) = <<>>
    /\ Of({"status", "option"} \cup Sized, f)

(* The head of a frame of the multiplexer holds no data.                   *)
LEMMA MuxFrameParts ==
    ASSUME NEW a \in Nat, NEW b \in Nat
    PROVE  MuxHead(MuxFrame(a, b), b)
<1> DEFINE x == Atom("status", a)
           y == Atom("option", b)
           f == <<x, y>>
<1>1. x \in Atoms /\ y \in Atoms /\ x.k = "status" /\ y.k = "option" /\ y.n = b
  BY AtomTypes DEF Kinds
<1>2. MuxFrame(a, b) = f /\ y = Atom("option", b)
  BY DEF MuxFrame
<1> HIDE DEF x, y
<1>3. f \in Seq(Atoms) /\ Len(f) = 2 /\ f[1] = x /\ f[2] = y
  BY <1>1
<1> HIDE DEF f
<1>4. /\ Of({"id", "status", "option"}, f)
      /\ Of({"status", "option"} \cup Sized, f)
  BY <1>1, <1>3 DEF Of
<1>5. \A i \in 1..Len(f) : f[i].k # "data"
  BY <1>1, <1>3
<1>6. Framed(f, 0)
  BY <1>3, <1>4, FramedBare
<1>7. DataOf(f) = <<>>
  BY <1>3, <1>5, DataOfNone
<1> QED
  BY <1>1, <1>2, <1>3, <1>4, <1>6, <1>7 DEF MuxHead

(* The frames that a server of the multiplexer sends.                      *)
LEMMA MuxFrames ==
    ASSUME NEW bs \in Seq(Atoms), Of({"data"}, bs)
    PROVE  /\ MuxFrame(4, 0) \in Seq(Atoms) /\ Muxed(MuxFrame(4, 0))
           /\ DataOf(MuxFrame(4, 0)) = <<>> /\ Framed(MuxFrame(4, 0), 0)
           /\ Of({"status", "option"} \cup Sized, MuxFrame(4, 0))
           /\ LET w == MuxFrame(2, 1) \o Record(bs)
              IN  /\ w \in Seq(Atoms) /\ Muxed(w) /\ DataOf(w) = bs
                  /\ Framed(w, 0) /\ Of({"status", "option"} \cup Sized, w)
<1>1. /\ MuxFrame(4, 0) \in Seq(Atoms) /\ Len(MuxFrame(4, 0)) = 2
      /\ MuxFrame(4, 0)[1].k = "status" /\ MuxFrame(4, 0)[2].k = "option"
      /\ MuxFrame(4, 0)[2].n = 0
      /\ Framed(MuxFrame(4, 0), 0) /\ DataOf(MuxFrame(4, 0)) = <<>>
      /\ Of({"status", "option"} \cup Sized, MuxFrame(4, 0))
  <2>1. MuxHead(MuxFrame(4, 0), 0)
    BY MuxFrameParts
  <2> QED
    BY <2>1 DEF MuxHead
<1>2. Muxed(MuxFrame(4, 0))
  BY <1>1 DEF Muxed
<1> DEFINE h == MuxFrame(2, 1)
           r == Record(bs)
           w == h \o r
<1>3. /\ h \in Seq(Atoms) /\ Len(h) = 2 /\ Framed(h, 0) /\ DataOf(h) = <<>>
      /\ h[1].k = "status" /\ h[2].k = "option" /\ h[2] = Atom("option", 1)
      /\ Of({"status", "option"} \cup Sized, h)
  <2>1. MuxHead(MuxFrame(2, 1), 1)
    BY MuxFrameParts
  <2> QED
    BY <2>1 DEF MuxHead
<1>4. Of(Payload, bs) /\ DataOf(bs) = bs
  BY DataOfBytes DEF Of, Payload
<1>5. /\ r \in Seq(Atoms) /\ Len(r) = 1 + Len(bs) /\ Framed(r, 0)
      /\ r[1].k = "size" /\ DataOf(r) = bs /\ Len(bs) \in Nat
      /\ \A i \in 1..Len(bs) : r[1 + i] = bs[i]
      /\ Of({"size"} \cup {"data"}, r)
  BY <1>4, RecordParts, FramedRecord, Wires
<1> HIDE DEF h, r
<1>6. /\ w \in Seq(Atoms) /\ Len(w) = 2 + Len(r) /\ Framed(w, 0)
      /\ w[1] = h[1] /\ w[2] = h[2]
      /\ \A i \in 1..Len(r) : w[2 + i] = r[i]
  <2>1. /\ w \in Seq(Atoms) /\ Len(w) = Len(h) + Len(r)
        /\ \A i \in 1..Len(h) : w[i] = h[i]
        /\ \A i \in 1..Len(r) : w[Len(h) + i] = r[i]
    BY <1>3, <1>5, Joined
  <2>2. Framed(w, 0)
    BY <1>3, <1>5, FramedJoins
  <2> HIDE DEF w
  <2> QED
    BY <2>1, <2>2, <1>3
<1>7. DataOf(w) = bs
  <2>1. DataOf(w) = <<>> \o bs
    BY <1>3, <1>5, DataOfJoined
  <2> QED
    BY <2>1, JoinAssociates
<1>8. Of({"status", "option"} \cup Sized, w)
  <2>1. Of({"status", "option"} \cup Sized, r)
    BY <1>5 DEF Of, Sized
  <2> QED
    BY <2>1, <1>3, <1>5, OfParts
<1> HIDE DEF w
<1>9. Muxed(w)
  <2>1. Len(w) = 3 + Len(bs) /\ 1 \in 1..Len(r) /\ 2 + 1 = 3 /\ w[3] = r[1]
    BY <1>5, <1>6
  <2>2. ASSUME NEW i \in 1..Len(w), 3 < i PROVE w[i].k = "data"
    <3>1. i - 3 \in 1..Len(bs) /\ 1 + (i - 3) \in 1..Len(r)
          /\ 2 + (1 + (i - 3)) = i
      BY <2>1, <2>2, <1>5
    <3>2. w[i] = bs[i - 3]
      BY <3>1, <1>5, <1>6
    <3> QED
      BY <3>1, <3>2 DEF Of
  <2>3. \A i \in 1..Len(w) : i = 1 \/ i = 2 \/ i = 3 \/ 3 < i
    BY <2>1, <1>5
  <2>4. 1 < Len(w) /\ 2 < Len(w)
    BY <2>1, <1>5
  <2> SUFFICES ASSUME NEW i \in 1..Len(w)
               PROVE  /\ w[i].k = "status" =>
                           i < Len(w) /\ w[i + 1].k = "option"
                      /\ w[i].k = "option" /\ w[i].n = 1 =>
                            i < Len(w) /\ w[i + 1].k = "size"
                      /\ w[i].k = "size" =>
                            /\ 2 < i /\ w[i - 1] = Atom("option", 1)
                            /\ w[i - 2].k = "status"
    BY DEF Muxed
  <2>5. CASE i = 1
    BY <2>5, <2>4, <1>3, <1>6
  <2>6. CASE i = 2
    BY <2>6, <2>1, <2>4, <1>3, <1>5, <1>6
  <2>7. CASE i = 3
    BY <2>7, <2>1, <1>3, <1>5, <1>6
  <2>8. CASE 3 < i
    BY <2>8, <2>2
  <2> QED
    BY <2>3, <2>5, <2>6, <2>7, <2>8
<1>10. w = MuxFrame(2, 1) \o Record(bs)
  BY DEF w, h, r
<1> QED
  BY <1>1, <1>2, <1>6, <1>7, <1>8, <1>9, <1>10

(* The server's side of the handshake comes first, what follows is behind  *)
(* it.                                                                     *)
LEMMA GreetedGrows ==
    ASSUME NEW l \in Links, Greeted(l), NEW g \in Seq(Atoms)
    PROVE  LET h == IF ~answered THEN Header ELSE <<>>
               m == [l EXCEPT !.wire = l.wire \o (h \o g)]
           IN  /\ Body(m) = Body(l) \o g
               /\ m.opened => answered
               /\ ~m.opened => Headed(m.wire)
               /\ Body(l) \in Seq(Atoms)
<1> DEFINE h == IF ~answered THEN Header ELSE <<>>
           m == [l EXCEPT !.wire = l.wire \o (h \o g)]
<1>1. l.wire \in Seq(Atoms)
  BY DEF Links
<1>2. /\ Header \in Seq(Atoms) /\ Len(Header) = 2
      /\ Header[1] = Mark /\ Header[2] = Mark
  BY CarriesNothing
<1>3. m.wire = l.wire \o (h \o g) /\ m.opened = l.opened
  BY DEF Links
<1>4. Body(l) \in Seq(Atoms)
  BY <1>1, Afters DEF Body
<1>5. CASE l.opened
  <2>1. answered /\ h = <<>>
    BY <1>5 DEF Greeted
  <2>2. h \o g = g
    BY <2>1, JoinAssociates
  <2> QED
    BY <2>1, <2>2, <1>3, <1>4, <1>5 DEF Body
<1>6. CASE ~l.opened /\ answered
  <2>1. h = <<>> /\ Headed(l.wire)
    BY <1>6 DEF Greeted
  <2>2. h \o g = g
    BY <2>1, JoinAssociates
  <2>3. Len(l.wire) \in Nat /\ 2 <= Len(l.wire)
    BY <2>1, <1>1, Wires DEF Headed
  <2>4. 2 \in 0..Len(l.wire) /\ 1 \in 1..Len(l.wire) /\ 2 \in 1..Len(l.wire)
    BY <2>3
  <2>5. After(l.wire \o g, 2) = After(l.wire, 2) \o g
    BY <2>4, <1>1, AfterJoined
  <2>6. Headed(l.wire \o g)
    <3>1. /\ Len(l.wire \o g) = Len(l.wire) + Len(g) /\ Len(g) \in Nat
          /\ (l.wire \o g)[1] = l.wire[1] /\ (l.wire \o g)[2] = l.wire[2]
      BY <2>4, <1>1, Joined, Wires
    <3>2. 2 <= Len(l.wire \o g)
      BY <3>1, <2>3
    <3> QED
      BY <3>1, <3>2, <2>1 DEF Headed
  <2> QED
    BY <2>2, <2>5, <2>6, <1>3, <1>4, <1>6 DEF Body
<1>7. CASE ~l.opened /\ ~answered
  <2>1. h = Header /\ l.wire = <<>>
    BY <1>7 DEF Greeted
  <2> HIDE DEF h
  <2>2. h \o g \in Seq(Atoms)
    BY <2>1, <1>2, Joined
  <2>3. m.wire = h \o g
    BY <2>1, <2>2, <1>3, JoinAssociates
  <2>4. After(h \o g, 2) = g
    BY <2>1, <1>2, AfterJoined
  <2>5. Body(l) = <<>>
    <3>1. Len(l.wire) = 0
      BY <2>1, <1>1, Wires
    <3>2. After(l.wire, 2) \in Seq(Atoms) /\ Len(After(l.wire, 2)) = 0
      BY <3>1, <1>1, Afters
    <3>3. After(l.wire, 2) = <<>>
      BY <3>2, Wires
    <3> QED
      BY <3>3, <1>7 DEF Body
  <2>6. Headed(h \o g)
    <3>1. /\ Len(h \o g) = 2 + Len(g) /\ Len(g) \in Nat
          /\ (h \o g)[1] = Mark /\ (h \o g)[2] = Mark
      <4>1. /\ h \in Seq(Atoms) /\ Len(h) = 2 /\ h[1] = Mark /\ h[2] = Mark
            /\ 1 \in 1..Len(h) /\ 2 \in 1..Len(h)
        BY <2>1, <1>2
      <4>2. /\ Len(h \o g) = Len(h) + Len(g)
            /\ \A i \in 1..Len(h) : (h \o g)[i] = h[i]
        BY <4>1, Joined
      <4> QED
        BY <4>1, <4>2, Wires
    <3> QED
      BY <3>1 DEF Headed
  <2>7. <<>> \o g = g
    BY JoinAssociates
  <2> QED
    BY <2>3, <2>4, <2>5, <2>6, <2>7, <1>3, <1>4, <1>7 DEF Body, h
<1> QED
  BY <1>5, <1>6, <1>7

(* What the server sends in each transport.                                *)
LEMMA ServerSends ==
    ASSUME NEW bs, NEW first
    PROVE  LET f == ServerFrames(bs, first)
               head == IF first THEN Header ELSE <<>>
           IN  /\ layer \in Raw => f = head \o bs
               /\ layer \in Buffers => f = head \o Records(bs)
               /\ layer = "snell" /\ first =>
                     f = Header \o Records(<<Mark>> \o bs)
               /\ layer = "snell" /\ ~first => f = Records(bs)
               /\ layer = "obfsTls" => f = head \o Records(bs)
               /\ layer = "gun" =>
                     f = head \o (IF bs = <<>> THEN <<>> ELSE Record(bs))
               /\ layer \in Webs => f = IF bs = <<>> THEN <<>> ELSE Record(bs)
               /\ layer = "mux" => f = IF bs = <<>> THEN MuxFrame(4, 0)
                                       ELSE MuxFrame(2, 1) \o Record(bs)
               /\ layer = "authSha1" => f = Records(bs)
               /\ layer \in Numbered => f = NumberedRecords(bs, packs + 1)
               /\ layer = "trojan" => f = bs
<1> DEFINE f == ServerFrames(bs, first)
           head == IF first THEN Header ELSE <<>>
           r == Records(bs)
           n == NumberedRecords(bs, packs + 1)
           o == IF bs = <<>> THEN <<>> ELSE Record(bs)
           m == IF bs = <<>> THEN MuxFrame(4, 0)
                ELSE MuxFrame(2, 1) \o Record(bs)
           x == Header \o Records(<<Mark>> \o bs)
           raw == head \o bs
           buf == head \o r
           gun == head \o o
           sn == IF first THEN x ELSE r
<1>1. f = CASE layer = "ssAead" -> buf
            [] layer = "snell"  -> sn
            [] layer \in {"vmessChunk", "vmessAead"} -> buf
            [] layer = "obfsTls" -> buf
            [] layer \in {"websocket", "earlyData"} -> o
            [] layer = "gun" -> gun
            [] layer = "mux" -> m
            [] layer = "authSha1"  -> r
            [] layer \in Numbered  -> n
            [] layer = "trojan"    -> bs
            [] OTHER               -> raw
  BY DEF ServerFrames, AeadWrite, Numbered
<1> HIDE DEF f, raw, buf, gun, m, x, o, n, r
<1>2. layer \in Raw => f = raw
  BY <1>1 DEF Raw, Numbered
<1>3. layer \in Buffers => f = buf
  BY <1>1 DEF Buffers, Numbered
<1>4. layer = "snell" => f = sn
  BY <1>1 DEF Numbered
<1>5. layer = "obfsTls" => f = buf
  BY <1>1 DEF Numbered
<1>6. layer = "gun" => f = gun
  BY <1>1 DEF Numbered
<1>7. layer \in Webs => f = o
  BY <1>1 DEF Webs, Numbered
<1>8. layer = "mux" => f = m
  BY <1>1 DEF Numbered
<1>9. layer = "authSha1" => f = r
  BY <1>1 DEF Numbered
<1>10. layer \in Numbered => f = n
  BY <1>1 DEF Numbered
<1>11. layer = "trojan" => f = bs
  BY <1>1 DEF Numbered
<1> QED
  BY <1>2, <1>3, <1>4, <1>5, <1>6, <1>7, <1>8, <1>9, <1>10, <1>11
  DEF f, raw, buf, gun, m, x, o, n, r

(* Every transport is of one of these kinds.                               *)
LEMMA LayerClasses ==
    ASSUME layer \in Layers
    PROVE  layer \in Raw \cup Buffers \cup Webs \cup Numbered
                    \cup {"snell", "obfsTls", "gun", "mux", "authSha1",
                          "trojan"}
BY DEF Layers, Ssr, Vmess, Numbered, Raw, Buffers, Webs

(* What the server sends carries its bytes, in every transport.            *)
LEMMA ServerCarries ==
    ASSUME NEW bs \in Seq(Atoms), Of({"data"}, bs), NEW first \in BOOLEAN,
           packs \in Nat, layer \in Layers
    PROVE  /\ ServerFrames(bs, first) \in Seq(Atoms)
           /\ DataOf(ServerFrames(bs, first)) = bs
<1>1. /\ bs \in Seq(Atoms) /\ DataOf(bs) = bs
      /\ Record(bs) \in Seq(Atoms) /\ DataOf(Record(bs)) = bs
      /\ Records(bs) \in Seq(Atoms) /\ DataOf(Records(bs)) = bs
  BY CarriesBytes DEF Carries
<1>2. ASSUME NEW w \in Seq(Atoms), DataOf(w) = bs
      PROVE  LET v == (IF first THEN Header ELSE <<>>) \o w
             IN  v \in Seq(Atoms) /\ DataOf(v) = bs
  <2> DEFINE h == IF first THEN Header ELSE <<>>
  <2>1. h \in Seq(Atoms) /\ DataOf(h) = <<>>
    BY CarriesNothing DEF Carries
  <2> HIDE DEF h
  <2>2. DataOf(h \o w) = <<>> \o bs
    BY <2>1, <1>2, DataOfJoined
  <2>3. h \o w \in Seq(Atoms) /\ <<>> \o bs = bs
    BY <2>1, Joined, JoinAssociates
  <2> QED
    BY <2>2, <2>3 DEF h
<1>3. ASSUME bs = <<>>
      PROVE  <<>> \in Seq(Atoms) /\ DataOf(<<>>) = bs
  BY <1>3, DataOfNil
<1>4. /\ MuxFrame(4, 0) \in Seq(Atoms) /\ DataOf(MuxFrame(4, 0)) = <<>>
      /\ MuxFrame(2, 1) \o Record(bs) \in Seq(Atoms)
      /\ DataOf(MuxFrame(2, 1) \o Record(bs)) = bs
  BY MuxFrames
<1>5. /\ NumberedRecords(bs, packs + 1) \in Seq(Atoms)
      /\ DataOf(NumberedRecords(bs, packs + 1)) = bs
  <2>1. packs + 1 \in Nat \ {0}
    OBVIOUS
  <2> QED
    BY <2>1, NumberedRecordsParts
<1>6. ASSUME first
      PROVE  LET v == Header \o Records(<<Mark>> \o bs)
             IN  v \in Seq(Atoms) /\ DataOf(v) = bs
  <2> DEFINE r == Records(<<Mark>> \o bs)
  <2>1. Mark \in Atoms /\ Mark.k = "mark"
    BY AtomTypes
  <2>2. r \in Seq(Atoms) /\ DataOf(r) = bs
    BY <2>1, RepliesSent
  <2> HIDE DEF r
  <2>3. Header \o r \in Seq(Atoms) /\ DataOf(Header \o r) = bs
    BY <2>2, <1>2, <1>6
  <2> QED
    BY <2>3 DEF r
<1>7. AeadWrite(bs, first) \in Seq(Atoms) /\ DataOf(AeadWrite(bs, first)) = bs
  BY <1>1, <1>2 DEF AeadWrite
<1> DEFINE head == IF first THEN Header ELSE <<>>
<1>8. /\ head \o bs \in Seq(Atoms) /\ DataOf(head \o bs) = bs
      /\ head \o Records(bs) \in Seq(Atoms) /\ DataOf(head \o Records(bs)) = bs
  BY <1>1, <1>2
<1>9. LET v == head \o (IF bs = <<>> THEN <<>> ELSE Record(bs))
      IN  v \in Seq(Atoms) /\ DataOf(v) = bs
  <2> DEFINE r == IF bs = <<>> THEN <<>> ELSE Record(bs)
  <2>1. r \in Seq(Atoms) /\ DataOf(r) = bs
    BY <1>1, <1>3
  <2> HIDE DEF r
  <2>2. head \o r \in Seq(Atoms) /\ DataOf(head \o r) = bs
    BY <2>1, <1>2
  <2> QED
    BY <2>2 DEF r
<1> HIDE DEF head
<1>10. /\ head \o (IF bs = <<>> THEN <<>> ELSE Record(bs)) \in Seq(Atoms)
       /\ DataOf(head \o (IF bs = <<>> THEN <<>> ELSE Record(bs))) = bs
  BY <1>9
<1>11. head = IF first THEN Header ELSE <<>>
  BY DEF head
<1>12. layer \in Raw \cup Buffers \cup Webs \cup Numbered
                \cup {"snell", "obfsTls", "gun", "mux", "authSha1", "trojan"}
  BY LayerClasses
<1> DEFINE f == ServerFrames(bs, first)
<1> HIDE DEF f
<1>13. /\ layer \in Raw => f = head \o bs
       /\ layer \in Buffers => f = head \o Records(bs)
       /\ layer = "snell" /\ first => f = Header \o Records(<<Mark>> \o bs)
       /\ layer = "snell" /\ ~first => f = Records(bs)
       /\ layer = "obfsTls" => f = head \o Records(bs)
       /\ layer = "gun" => f = head \o (IF bs = <<>> THEN <<>> ELSE Record(bs))
       /\ layer \in Webs => f = IF bs = <<>> THEN <<>> ELSE Record(bs)
       /\ layer = "mux" => f = IF bs = <<>> THEN MuxFrame(4, 0)
                               ELSE MuxFrame(2, 1) \o Record(bs)
       /\ layer = "authSha1" => f = Records(bs)
       /\ layer \in Numbered => f = NumberedRecords(bs, packs + 1)
       /\ layer = "trojan" => f = bs
  BY <1>11, ServerSends DEF f
<1>14. CASE layer \in Raw
  BY <1>8, <1>13, <1>14 DEF f
<1>15. CASE layer \in Buffers
  BY <1>8, <1>13, <1>15 DEF f
<1>16. CASE layer = "snell"
  BY <1>1, <1>6, <1>13, <1>16 DEF f
<1>17. CASE layer = "obfsTls"
  BY <1>8, <1>13, <1>17 DEF f
<1>18. CASE layer = "gun"
  BY <1>10, <1>13, <1>18 DEF f
<1>19. CASE layer \in Webs
  BY <1>1, <1>3, <1>13, <1>19 DEF f
<1>20. CASE layer = "mux"
  BY <1>4, <1>13, <1>20 DEF f
<1>21. CASE layer \in Numbered
  BY <1>5, <1>13, <1>21 DEF f
<1>22. CASE layer = "authSha1" \/ layer = "trojan"
  BY <1>1, <1>13, <1>22 DEF f
<1> QED
  BY <1>12, <1>14, <1>15, <1>16, <1>17, <1>18, <1>19, <1>20, <1>21, <1>22

(* What the server sends leaves the wire in its shape.                     *)
LEMMA ServerShape ==
    ASSUME FrameType, layer \in Layers, Shape(link),
           NEW bs \in Seq(Atoms), Of({"data"}, bs), NEW f \in Seq(Atoms),
           f = ServerFrames(bs, ~answered),
           ~(answered /\ link.wire # <<>> /\ link.wire[1] = Refusal),
           link' = [link EXCEPT !.wire = link.wire \o f],
           packs' = packs + (IF layer \in Numbered THEN Pieces(bs) ELSE 0),
           answered' = TRUE, layer' = layer
    PROVE  Shape(link)'
<1> DEFINE head == IF ~answered THEN Header ELSE <<>>
           rec == IF bs = <<>> THEN <<>> ELSE Record(bs)
           s == link.under \o link.wire
<1>1. /\ link \in Links /\ answered \in BOOLEAN /\ packs \in Nat
      /\ link.wire \in Seq(Atoms) /\ link.under \in Seq(Atoms)
      /\ link.held \in Seq(Atoms) /\ link.recv \in Nat
      /\ s \in Seq(Atoms)
  BY Joined DEF FrameType, Links
<1>2. /\ link'.wire = link.wire \o f /\ link'.held = link.held
      /\ link'.under = link.under /\ link'.remain = link.remain
      /\ link'.recv = link.recv /\ link'.opened = link.opened
      /\ link'.replied = link.replied
  BY <1>1 DEF Links
<1>3. ~Refused(link)
  <2>1. SUFFICES ASSUME Refused(link) PROVE FALSE
    OBVIOUS
  <2>2. link.wire = <<Refusal>>
    BY <2>1 DEF Refused
  <2>3. Len(link.wire) = 1 /\ link.wire[1] = Refusal
    BY <2>2
  <2>4. link.wire # <<>>
    BY <2>3, <1>1, Wires
  <2> QED
    BY <2>1, <2>3, <2>4 DEF Refused
<1>4. /\ Of({"data"}, link.held)
      /\ layer \notin Ssr => link.under = <<>>
      /\ layer \in Raw => RawShape(link)
      /\ layer \in Buffers => BufferShape(link)
      /\ layer \in Counts => CountShape(link)
      /\ layer \in Webs => WebShape(link)
      /\ layer = "snell" => SnellShape(link)
      /\ layer = "trojan" => link.held = <<>> /\ Of({"data"}, link.wire)
      /\ layer = "mux" => MuxShape(link)
      /\ layer = "authSha1" => Sha1Shape(link)
      /\ layer \in Numbered => NumberedShape(link)
  BY <1>3 DEF Shape
<1>5. /\ layer \in Raw => f = head \o bs
      /\ layer \in Buffers => f = head \o Records(bs)
      /\ layer = "snell" /\ ~answered => f = head \o Records(<<Mark>> \o bs)
      /\ layer = "snell" /\ answered => f = head \o Records(bs)
      /\ layer = "obfsTls" => f = head \o Records(bs)
      /\ layer = "gun" => f = head \o rec
      /\ layer \in Webs => f = rec
      /\ layer = "mux" => f = IF bs = <<>> THEN MuxFrame(4, 0)
                              ELSE MuxFrame(2, 1) \o Record(bs)
      /\ layer = "authSha1" => f = Records(bs)
      /\ layer \in Numbered => f = NumberedRecords(bs, packs + 1)
      /\ layer = "trojan" => f = bs
  <2>1. <<>> \o Records(bs) = Records(bs)
    BY CarriesBytes, JoinAssociates DEF Carries
  <2> HIDE DEF rec
  <2>2. /\ layer \in Raw => f = head \o bs
        /\ layer \in Buffers => f = head \o Records(bs)
        /\ layer = "snell" /\ ~answered =>
              f = Header \o Records(<<Mark>> \o bs)
        /\ layer = "snell" /\ ~(~answered) => f = Records(bs)
        /\ layer = "obfsTls" => f = head \o Records(bs)
        /\ layer = "gun" => f = head \o rec
        /\ layer \in Webs => f = rec
        /\ layer = "mux" => f = IF bs = <<>> THEN MuxFrame(4, 0)
                                ELSE MuxFrame(2, 1) \o Record(bs)
        /\ layer = "authSha1" => f = Records(bs)
        /\ layer \in Numbered => f = NumberedRecords(bs, packs + 1)
        /\ layer = "trojan" => f = bs
    BY ServerSends DEF rec
  <2> QED
    BY <2>1, <2>2
<1>6. /\ Records(bs) \in Seq(Atoms) /\ Framed(Records(bs), 0)
      /\ Of(Sized, Records(bs))
      /\ rec \in Seq(Atoms) /\ Framed(rec, 0) /\ Of(Sized, rec)
  <2>1. Of(Payload, bs) /\ {"size"} \cup {"data"} = Sized
    BY DEF Of, Payload, Sized
  <2>2. Records(bs) \in Seq(Atoms) /\ Framed(Records(bs), 0)
        /\ Of(Sized, Records(bs))
    BY <2>1, RecordsParts
  <2>3. Record(bs) \in Seq(Atoms) /\ Framed(Record(bs), 0)
        /\ Of(Sized, Record(bs))
    BY <2>1, RecordParts, FramedRecord
  <2>4. <<>> \in Seq(Atoms) /\ Framed(<<>>, 0) /\ Of(Sized, <<>>)
    BY FramedNone, OfParts
  <2> QED
    BY <2>2, <2>3, <2>4
<1> HIDE DEF rec
<1>7. ASSUME NEW g \in Seq(Atoms), f = head \o g, Greeted(link)
      PROVE  /\ Body(link') = Body(link) \o g /\ Body(link) \in Seq(Atoms)
             /\ Greeted(link)'
  <2>1. /\ Body(link') = Body(link) \o g
        /\ link'.opened => answered
        /\ ~link'.opened => Headed(link'.wire)
        /\ Body(link) \in Seq(Atoms)
    BY <1>1, <1>7, GreetedGrows
  <2> QED
    BY <2>1, <1>2 DEF Greeted
<1> HIDE DEF head
<1>8. CASE layer \in Raw
  <2>1. Greeted(link) /\ Of({"data"}, Body(link))
    BY <1>4, <1>8 DEF RawShape
  <2>2. Body(link') = Body(link) \o bs /\ Body(link) \in Seq(Atoms)
        /\ Greeted(link)'
    BY <2>1, <1>5, <1>7, <1>8
  <2>3. Of({"data"}, Body(link'))
    <3>1. Of({"data"}, Body(link) \o bs)
      BY <2>1, <2>2, OfParts
    <3> QED
      BY <3>1, <2>2
  <2>4. RawShape(link)'
    <3>1. layer \notin {"obfsHttp", "ssrHttp"} => link.held = <<>>
      BY <1>4, <1>8 DEF RawShape
    <3> QED
      BY <3>1, <2>2, <2>3, <1>2 DEF RawShape
  <2>5. layer' \notin Buffers \cup Counts \cup Webs \cup Ssr
                     \cup {"snell", "trojan", "mux"}
    BY <1>8 DEF Raw, Buffers, Counts, Webs, Ssr, Numbered
  <2> QED
    BY <2>4, <2>5, <1>2, <1>4 DEF Shape, Ssr
<1>9. CASE layer \in Buffers
  <2>1. Greeted(link) /\ Of(Sized, Body(link)) /\ Framed(Body(link), 0)
    BY <1>4, <1>9 DEF BufferShape
  <2>2. Body(link') = Body(link) \o Records(bs) /\ Body(link) \in Seq(Atoms)
        /\ Greeted(link)'
    BY <2>1, <1>5, <1>6, <1>7, <1>9
  <2>3. Of(Sized, Body(link')) /\ Framed(Body(link'), 0)
    <3>1. /\ Of(Sized, Body(link) \o Records(bs))
          /\ Framed(Body(link) \o Records(bs), 0)
      BY <2>1, <2>2, <1>6, OfParts, FramedJoins
    <3> QED
      BY <3>1, <2>2
  <2>4. BufferShape(link)'
    BY <2>2, <2>3 DEF BufferShape
  <2>5. layer' \notin Raw \cup Counts \cup Webs \cup Ssr
                     \cup {"snell", "trojan", "mux"}
    BY <1>9 DEF Raw, Buffers, Counts, Webs, Ssr, Numbered
  <2> QED
    BY <2>4, <2>5, <1>2, <1>4 DEF Shape, Ssr
<1>10. CASE layer \in Counts
  <2>1. /\ Greeted(link) /\ link.held = <<>>
        /\ (~link.opened => link.remain = 0)
        /\ Of(Sized, Body(link)) /\ Framed(Body(link), link.remain)
    BY <1>4, <1>10 DEF CountShape
  <2>2. PICK g \in Seq(Atoms) :
            f = head \o g /\ Framed(g, 0) /\ Of(Sized, g)
    BY <1>5, <1>6, <1>10 DEF Counts
  <2>3. Body(link') = Body(link) \o g /\ Body(link) \in Seq(Atoms)
        /\ Greeted(link)'
    BY <2>1, <2>2, <1>7
  <2>4. Of(Sized, Body(link')) /\ Framed(Body(link'), link'.remain)
    <3>1. link.remain \in Nat /\ link'.remain = link.remain
      BY <1>1, <1>2 DEF Links
    <3>2. Of(Sized, Body(link) \o g) /\ Framed(Body(link) \o g, link.remain)
      BY <3>1, <2>1, <2>2, <2>3, OfParts, FramedJoins
    <3> QED
      BY <3>1, <3>2, <2>3
  <2>5. CountShape(link)'
    BY <2>1, <2>3, <2>4, <1>2 DEF CountShape
  <2>6. layer' \notin Raw \cup Buffers \cup Webs \cup Ssr
                     \cup {"snell", "trojan", "mux"}
    BY <1>10 DEF Raw, Buffers, Counts, Webs, Ssr, Numbered
  <2> QED
    BY <2>5, <2>6, <1>2, <1>4 DEF Shape, Ssr
<1>11. CASE layer \in Webs
  <2>1. /\ link.held = <<>> /\ Of(Sized, link.wire)
        /\ Framed(link.wire, link.remain)
        /\ f = rec /\ link.remain \in Nat
    BY <1>1, <1>4, <1>5, <1>11 DEF WebShape, Links
  <2>2. Of(Sized, link.wire \o f) /\ Framed(link.wire \o f, link.remain)
    BY <2>1, <1>1, <1>6, OfParts, FramedJoins
  <2>3. WebShape(link)'
    BY <2>1, <2>2, <1>2 DEF WebShape
  <2>4. layer' \notin Raw \cup Buffers \cup Counts \cup Ssr
                     \cup {"snell", "trojan", "mux"}
    BY <1>11 DEF Raw, Buffers, Counts, Webs, Ssr, Numbered
  <2> QED
    BY <2>3, <2>4, <1>2, <1>4 DEF Shape, Ssr
<1>12. CASE layer = "snell"
  <2>1. SnellShape(link) /\ Greeted(link) /\ Framed(Body(link), 0)
    BY <1>4, <1>12 DEF SnellShape
  <2>2. SnellShape(link)'
    <3>1. CASE answered
      <4>1. /\ Body(link') = Body(link) \o Records(bs)
            /\ Body(link) \in Seq(Atoms) /\ Greeted(link)'
        BY <3>1, <2>1, <1>5, <1>6, <1>7, <1>12
      <4>2. Framed(Body(link'), 0)
        BY <4>1, <2>1, <1>6, FramedJoins
      <4>3. ASSUME link.replied PROVE link.opened /\ Of(Sized, link'.wire)
        <5>1. link.opened /\ Of(Sized, link.wire)
          BY <4>3, <2>1 DEF SnellShape
        <5>2. Body(link') = link'.wire /\ Body(link) = link.wire
          BY <5>1, <1>2 DEF Body
        <5>3. Of(Sized, Body(link) \o Records(bs))
          BY <5>1, <5>2, <4>1, <1>6, OfParts
        <5> QED
          BY <5>1, <5>2, <5>3, <4>1
      <4>4. ASSUME ~link.replied PROVE Replies(Body(link'))
        <5>1. Replies(Body(link))
          BY <4>4, <3>1, <2>1 DEF SnellShape
        <5> QED
          BY <5>1, <4>1, <1>6, RepliesJoins
      <4> QED
        BY <4>1, <4>2, <4>3, <4>4, <2>1, <1>2 DEF SnellShape
    <3>2. CASE ~answered
      <4> DEFINE g == Records(<<Mark>> \o bs)
      <4>1. g \in Seq(Atoms) /\ Framed(g, 0) /\ Replies(g)
        BY AtomTypes, RepliesSent
      <4>2. f = head \o g
        BY <3>2, <1>5, <1>12
      <4> HIDE DEF g
      <4>3. /\ Body(link') = Body(link) \o g
            /\ Body(link) \in Seq(Atoms) /\ Greeted(link)'
        BY <4>1, <4>2, <2>1, <1>7
      <4>4. /\ ~link.replied /\ ~link.opened /\ link.wire = <<>>
            /\ link.held = <<>>
        BY <3>2, <2>1 DEF SnellShape, Greeted
      <4>5. Body(link) = <<>>
        <5>1. Len(link.wire) = 0
          BY <4>4, <1>1, Wires
        <5>2. /\ After(link.wire, 2) \in Seq(Atoms)
              /\ Len(After(link.wire, 2)) = 0
          BY <5>1, <1>1, Afters
        <5> QED
          BY <5>2, <4>4, Wires DEF Body
      <4>6. Body(link') = g
        BY <4>1, <4>3, <4>5, JoinAssociates
      <4> QED
        BY <4>1, <4>3, <4>4, <4>6, <1>2 DEF SnellShape
    <3> QED
      BY <3>1, <3>2
  <2>3. layer' \notin Raw \cup Buffers \cup Counts \cup Webs \cup Ssr
                     \cup {"trojan", "mux"}
    BY <1>12 DEF Raw, Buffers, Counts, Webs, Ssr, Numbered
  <2> QED
    BY <2>2, <2>3, <1>2, <1>4 DEF Shape, Ssr
<1>13. CASE layer = "trojan"
  <2>1. Of({"data"}, link.wire \o bs)
    BY <1>1, <1>4, <1>13, OfParts
  <2>2. (link.held = <<>> /\ Of({"data"}, link.wire))'
    BY <2>1, <1>2, <1>4, <1>5, <1>13
  <2>3. layer' \notin Raw \cup Buffers \cup Counts \cup Webs \cup Ssr
                     \cup {"snell", "mux"}
    BY <1>13 DEF Raw, Buffers, Counts, Webs, Ssr, Numbered
  <2> QED
    BY <2>2, <2>3, <1>2, <1>4 DEF Shape, Ssr
<1>14. CASE layer = "mux"
  <2>1. /\ link.held = <<>> /\ Muxed(link.wire)
        /\ Framed(link.wire, link.remain)
        /\ Of({"status", "option"} \cup Sized, link.wire)
        /\ link.remain \in Nat
    BY <1>1, <1>4, <1>14 DEF MuxShape, Links
  <2>2. /\ Muxed(f) /\ Framed(f, 0) /\ Of({"status", "option"} \cup Sized, f)
    <3>1. CASE bs = <<>>
      BY <3>1, <1>5, <1>14, MuxFrames
    <3>2. CASE bs # <<>>
      BY <3>2, <1>5, <1>14, MuxFrames
    <3> QED
      BY <3>1, <3>2
  <2>3. /\ Muxed(link.wire \o f) /\ Framed(link.wire \o f, link.remain)
        /\ Of({"status", "option"} \cup Sized, link.wire \o f)
    BY <2>1, <2>2, <1>1, MuxedJoins, FramedJoins, OfParts
  <2>4. MuxShape(link)'
    BY <2>1, <2>3, <1>2 DEF MuxShape
  <2>5. layer' \notin Raw \cup Buffers \cup Counts \cup Webs \cup Ssr
                     \cup {"snell", "trojan"}
    BY <1>14 DEF Raw, Buffers, Counts, Webs, Ssr, Numbered
  <2> QED
    BY <2>4, <2>5, <1>2, <1>4 DEF Shape, Ssr
<1>15. link'.under \o link'.wire = s \o f
  <2> DEFINE u == link.under
             v == link.wire
  <2>1. u \in Seq(Atoms) /\ v \in Seq(Atoms)
    BY <1>1
  <2> HIDE DEF u, v
  <2>2. (u \o v) \o f = u \o (v \o f)
    BY <2>1, JoinAssociates
  <2> QED
    BY <2>2, <1>2 DEF u, v
<1>16. CASE layer = "authSha1"
  <2>1. Of(Sized, s) /\ Framed(s, 0) /\ f = Records(bs)
    BY <1>4, <1>5, <1>16 DEF Sha1Shape
  <2>2. Of(Sized, s \o f) /\ Framed(s \o f, 0)
    BY <2>1, <1>1, <1>6, OfParts, FramedJoins
  <2>3. Sha1Shape(link)'
    BY <2>2, <1>15 DEF Sha1Shape
  <2>4. layer' \notin Raw \cup Buffers \cup Counts \cup Webs \cup Numbered
                     \cup {"snell", "trojan", "mux"}
    BY <1>16 DEF Raw, Buffers, Counts, Webs, Numbered
  <2>5. layer' \in Ssr
    BY <1>16 DEF Ssr
  <2> QED
    BY <2>3, <2>4, <2>5, <1>2, <1>4, <1>16 DEF Shape
<1>17. CASE layer \in Numbered
  <2>1. /\ Of({"id", "mark"} \cup Sized, s) /\ Framed(s, 0) /\ Ided(s)
        /\ 0 < link.recv
        /\ layer = "authChain" => LedOff(link)
        /\ layer = "authAes128" \/ 1 < link.recv => Of({"id"} \cup Sized, s)
    BY <1>4, <1>17 DEF NumberedShape
  <2>2. packs + 1 \in Nat \ {0} /\ packs' = packs + Pieces(bs)
        /\ Pieces(bs) \in Nat
    <3>1. Pieces(bs) \in Nat
      BY PiecesCover
    <3>2. packs + 1 \in Nat \ {0}
      BY <1>1
    <3> QED
      BY <3>1, <3>2, <1>17
  <2>3. /\ Framed(f, 0) /\ Ided(f) /\ Of({"id", "mark"} \cup Sized, f)
        /\ ~Led(packs + 1) => Of({"id"} \cup Sized, f)
        /\ Led(packs + 1) /\ Pieces(bs) # 0 => MarkThird(f)
        /\ Pieces(bs) = 0 => f = <<>>
    BY <2>2, <1>5, <1>17, NumberedRecordsParts
  <2>4. /\ Of({"id", "mark"} \cup Sized, s \o f) /\ Framed(s \o f, 0)
        /\ Ided(s \o f)
    BY <2>1, <2>3, <1>1, OfParts, FramedJoins, IdedJoins
  <2>5. ASSUME layer = "authAes128" \/ 1 < link.recv
        PROVE  Of({"id"} \cup Sized, s \o f)
    <3>1. ~Led(packs + 1)
      <4>1. CASE layer = "authAes128"
        BY <4>1 DEF Led
      <4>2. CASE layer = "authChain" /\ 1 < link.recv
        <5>1. packs = 0 => link.recv = 1
          BY <4>2, <2>1 DEF LedOff
        <5>2. packs # 0
          BY <5>1, <4>2, <1>1
        <5>3. packs + 1 # 1
          BY <5>2, <1>1
        <5> QED
          BY <5>3 DEF Led
      <4> QED
        BY <4>1, <4>2, <2>5, <1>17 DEF Numbered
    <3> QED
      BY <3>1, <2>1, <2>3, <2>5, <1>1, OfParts
  <2>6. ASSUME layer = "authChain" PROVE LedOff(link)'
    <3>1. /\ packs = 0 => s = <<>> /\ link.recv = 1
          /\ 0 < packs /\ link.recv = 1 => MarkThird(s)
      BY <2>1, <2>6 DEF LedOff
    <3>2. CASE packs = 0 /\ Pieces(bs) = 0
      <4>1. s \o f = <<>>
        BY <3>1, <3>2, <2>3, JoinAssociates
      <4> QED
        BY <4>1, <3>1, <3>2, <2>2, <1>2, <1>15 DEF LedOff
    <3>3. CASE packs = 0 /\ Pieces(bs) # 0
      <4>1. s \o f = f
        BY <3>1, <3>3, JoinAssociates
      <4>2. MarkThird(f)
        BY <3>3, <2>3, <2>6 DEF Led
      <4>3. packs' # 0
        BY <3>3, <2>2
      <4> QED
        BY <4>1, <4>2, <4>3, <1>15 DEF LedOff
    <3>4. CASE 0 < packs
      <4>1. ~Led(packs + 1) /\ packs' # 0
        <5>1. packs + 1 # 1 /\ packs' # 0
          BY <3>4, <2>2, <1>1
        <5> QED
          BY <5>1 DEF Led
      <4>2. \A i \in 1..Len(f) : f[i].k # "mark"
        BY <4>1, <2>3 DEF Of, Sized
      <4>3. link.recv = 1 => MarkThird(s \o f)
        BY <4>2, <3>1, <3>4, <1>1, MarkJoins
      <4> QED
        BY <4>1, <4>3, <1>2, <1>15 DEF LedOff
    <3> QED
      BY <3>2, <3>3, <3>4, <1>1
  <2>7. NumberedShape(link)'
    BY <2>1, <2>4, <2>5, <2>6, <1>2, <1>15 DEF NumberedShape
  <2>8. layer' \notin Raw \cup Buffers \cup Counts \cup Webs
                     \cup {"snell", "trojan", "mux", "authSha1"}
    BY <1>17 DEF Raw, Buffers, Counts, Webs, Numbered
  <2>9. layer' \in Ssr
    BY <1>17 DEF Ssr
  <2> QED
    BY <2>7, <2>8, <2>9, <1>2, <1>4 DEF Shape
<1> QED
  BY <1>8, <1>9, <1>10, <1>11, <1>12, <1>13, <1>14, <1>16, <1>17, LayerClasses
  DEF Counts

(* A refusal is in the shape of its transport, and carries nothing.        *)
LEMMA RefusalsAre ==
    ASSUME NEW r \in Refusals
    PROVE  /\ r \in Seq(Atoms) /\ DataOf(r) = <<>>
           /\ \/ layer = "snell" /\ r = Header \o Records(<<Refusal>>)
              \/ layer \in Vmess /\ r = <<Refusal>>
<1> DEFINE one == <<Refusal>>
<1>1. one \in Seq(Atoms) /\ Len(one) = 1 /\ one[1].k = "mark"
  BY AtomTypes
<1>2. \/ layer = "snell" /\ r = Header \o Records(one)
      \/ layer \in Vmess /\ r = one
  <2>1. "snell" \notin Vmess
    BY DEF Vmess
  <2> QED
    BY <2>1 DEF Refusals
<1> HIDE DEF one
<1>3. DataOf(one) = <<>> /\ Of(Payload, one)
  BY <1>1, DataOfNone DEF Of, Payload
<1>4. /\ Header \o Records(one) \in Seq(Atoms)
      /\ DataOf(Header \o Records(one)) = <<>>
  <2>1. Header \in Seq(Atoms) /\ DataOf(Header) = <<>>
    BY CarriesNothing DEF Carries
  <2>2. Records(one) \in Seq(Atoms) /\ DataOf(Records(one)) = <<>>
    BY <1>1, <1>3, RecordsParts
  <2>3. DataOf(Header \o Records(one)) = <<>> \o <<>>
    BY <2>1, <2>2, DataOfJoined
  <2> QED
    BY <2>1, <2>2, <2>3, Joined
<1> QED
  BY <1>1, <1>2, <1>3, <1>4 DEF one

(* A server that refuses leaves the wire in a form its reader knows.       *)
LEMMA RefusalShape ==
    ASSUME FrameType, layer \in Layers, Shape(link), ~answered,
           NEW r \in Refusals,
           link' = [link EXCEPT !.wire = link.wire \o r],
           packs' = packs, answered' = TRUE, layer' = layer
    PROVE  Shape(link)'
<1>1. /\ link \in Links /\ link.wire \in Seq(Atoms)
  BY DEF FrameType, Links
<1>2. /\ link'.wire = link.wire \o r /\ link'.held = link.held
      /\ link'.under = link.under /\ link'.opened = link.opened
      /\ link'.replied = link.replied /\ r \in Seq(Atoms)
  BY <1>1, RefusalsAre DEF Links
<1>3. ~Refused(link)
  BY DEF Refused
<1>4. Of({"data"}, link.held) /\ (layer \notin Ssr => link.under = <<>>)
  BY DEF Shape
<1>5. CASE layer \in Vmess /\ r = <<Refusal>>
  <2>1. Greeted(link)
    BY <1>3, <1>5 DEF Shape, Vmess, Raw, Buffers, RawShape, BufferShape
  <2>2. link.wire = <<>> /\ ~link.opened
    BY <2>1 DEF Greeted
  <2>3. Refused(link)'
    <3>1. link'.wire = <<Refusal>>
      BY <2>2, <1>2, <1>5, JoinAssociates
    <3> QED
      BY <3>1, <2>2, <1>2 DEF Refused
  <2>4. layer' \in Vmess /\ layer' \notin Counts \cup Webs \cup Ssr
                     \cup {"snell", "trojan", "mux"}
    BY <1>5 DEF Vmess, Counts, Webs, Ssr, Numbered
  <2>5. layer' \notin Ssr /\ layer \notin Ssr
    BY <2>4
  <2> QED
    BY <2>3, <2>4, <2>5, <1>2, <1>4 DEF Shape, Ssr
<1>6. CASE layer = "snell" /\ r = Header \o Records(<<Refusal>>)
  <2> DEFINE e == <<>>
             g == Records(<<Refusal>> \o e)
             head == IF ~answered THEN Header ELSE <<>>
             m == [link EXCEPT !.wire = link.wire \o (head \o g)]
  <2>1. e \in Seq(Atoms) /\ Of({"data"}, e)
    BY EmptySeq DEF Of
  <2>2. Refusal \in Atoms /\ Refusal.k = "mark"
    BY AtomTypes
  <2>3. g \in Seq(Atoms) /\ Framed(g, 0) /\ Replies(g)
    <3> HIDE DEF e
    <3> QED
      BY <2>1, <2>2, RepliesSent
  <2>4. r = head \o g
    <3>1. <<Refusal>> \o e = <<Refusal>>
      BY <2>2
    <3>2. g = Records(<<Refusal>>)
      BY <3>1
    <3> HIDE DEF g
    <3> QED
      BY <3>2, <1>6
  <2> HIDE DEF g
  <2>5. SnellShape(link) /\ Greeted(link)
    BY <1>6 DEF Shape, SnellShape
  <2>6. /\ Body(m) = Body(link) \o g /\ Body(link) \in Seq(Atoms)
        /\ m.opened => answered
        /\ ~m.opened => Headed(m.wire)
    BY <2>3, <2>5, <1>1, GreetedGrows
  <2>7. link' = m
    BY <2>4
  <2>8. /\ ~link.replied /\ ~link.opened
        /\ link.wire = <<>> /\ link.held = <<>>
    BY <2>5 DEF SnellShape, Greeted
  <2> HIDE DEF m
  <2>9. Body(link) = <<>>
    <3>1. Len(link.wire) = 0
      BY <2>8, <1>1, Wires
    <3>2. After(link.wire, 2) \in Seq(Atoms) /\ Len(After(link.wire, 2)) = 0
      BY <3>1, <1>1, Afters
    <3> QED
      BY <3>2, <2>8, Wires DEF Body
  <2>10. Body(m) = g
    BY <2>3, <2>6, <2>9, JoinAssociates
  <2>11. SnellShape(link)'
    BY <2>3, <2>6, <2>7, <2>8, <2>10, <1>2 DEF SnellShape, Greeted
  <2>12. layer' \notin Raw \cup Buffers \cup Counts \cup Webs \cup Ssr
                     \cup {"trojan", "mux"}
    BY <1>6 DEF Raw, Buffers, Counts, Webs, Ssr, Numbered
  <2> QED
    BY <2>11, <2>12, <1>2, <1>4 DEF Shape, Ssr
<1> QED
  BY <1>5, <1>6, RefusalsAre

(* Bytes that arrive behind the others.                                    *)
LEMMA StockGrows ==
    ASSUME NEW l \in Links, NEW f \in Seq(Atoms)
    PROVE  LET m == [l EXCEPT !.wire = l.wire \o f]
           IN  /\ m \in Links
               /\ DataOf(Stock(m)) = DataOf(Stock(l)) \o DataOf(f)
               /\ Stock(l) \in Seq(Atoms)
<1> DEFINE u == l.held \o l.under
           v == l.wire
<1>1. l.held \in Seq(Atoms) /\ l.under \in Seq(Atoms) /\ v \in Seq(Atoms)
  BY DEF Links
<1>2. u \in Seq(Atoms)
  BY <1>1, Joined
<1>3. v \o f \in Seq(Atoms)
  BY <1>1, Joined
<1>4. [l EXCEPT !.wire = v \o f] \in Links
  BY <1>3 DEF Links
<1>5. /\ [l EXCEPT !.wire = v \o f].held = l.held
      /\ [l EXCEPT !.wire = v \o f].under = l.under
      /\ [l EXCEPT !.wire = v \o f].wire = v \o f
  BY DEF Links
<1>6. /\ Stock([l EXCEPT !.wire = v \o f]) = u \o (v \o f)
      /\ Stock(l) = u \o v
  BY <1>5 DEF Stock
<1> HIDE DEF u, v
<1>7. u \o (v \o f) = (u \o v) \o f /\ u \o v \in Seq(Atoms)
  <2>1. u \in Seq(Atoms) /\ v \in Seq(Atoms)
    BY <1>1, <1>2
  <2>2. u \o v \in Seq(Atoms)
    BY <2>1, Joined
  <2>3. (u \o v) \o f = u \o (v \o f)
    BY <2>1, JoinAssociates
  <2> QED
    BY <2>2, <2>3
<1>8. DataOf((u \o v) \o f) = DataOf(u \o v) \o DataOf(f)
  BY <1>7, DataOfJoined
<1> QED
  BY <1>4, <1>6, <1>7, <1>8 DEF v

(* A step of the server keeps the invariant: what it sends fits the form   *)
(* of the wire, in any state of its reader.                                *)
LEMMA ServerKeeps ==
    ASSUME FrameInv, NEW n \in Nat, ServerWrites(n)
    PROVE  FrameInv'
<1> DEFINE bs == Bytes(heard + 1, heard + n)
           f == ServerFrames(bs, ~answered)
<1>1. /\ layer # "" /\ layer' = layer /\ up' = up /\ wrote' = wrote
      /\ started' = started /\ got' = got /\ answered' = TRUE
      /\ astray' = astray
      /\ ~(answered /\ link.wire # <<>> /\ link.wire[1] = Refusal)
  BY DEF ServerWrites
<1>2. FrameType /\ layer \in Layers /\ link \in Links /\ heard \in Nat
      /\ packs \in Nat /\ got \in Seq(Atoms) /\ answered \in BOOLEAN
  BY <1>1 DEF FrameInv, FrameType
<1>3. /\ bs \in Seq(Atoms) /\ Of({"data"}, bs)
      /\ Bytes(1, heard) \o bs = Bytes(1, heard + n)
  BY <1>2, BytesFrom, BytesGrow
<1> HIDE DEF bs
<1>4. CASE /\ link' = [link EXCEPT !.wire = link.wire \o f]
           /\ packs' = packs + (IF layer \in Numbered THEN Pieces(bs) ELSE 0)
           /\ heard' = heard + n
  <2>1. f \in Seq(Atoms) /\ DataOf(f) = bs
    BY <1>2, <1>3, ServerCarries
  <2> HIDE DEF f
  <2>2. /\ link' \in Links /\ Stock(link) \in Seq(Atoms)
        /\ DataOf(Stock(link')) = DataOf(Stock(link)) \o bs
    BY <2>1, <1>2, <1>4, StockGrows
  <2>3. FrameType'
    <3>1. Pieces(bs) \in Nat
      BY <1>3, PiecesCover
    <3>2. packs' \in Nat /\ heard' \in Nat
      BY <3>1, <1>2, <1>4
    <3> QED
      BY <3>2, <2>2, <1>1, <1>2 DEF FrameType
  <2>4. link'.failed = link.failed
    BY <1>2, <1>4 DEF Links
  <2>5. ~link'.failed /\ ~astray => Shape(link)'
    <3> SUFFICES ASSUME ~link.failed, ~astray PROVE Shape(link)'
      BY <2>4
    <3>1. Shape(link)
      BY <1>1 DEF FrameInv
    <3>2. f = ServerFrames(bs, ~answered)
      BY DEF f
    <3> QED
      BY <3>1, <3>2, <2>1, <1>1, <1>2, <1>3, <1>4, ServerShape
  <2>6. ~link'.failed /\ ~astray =>
           got \o DataOf(Stock(link')) = Bytes(1, heard')
    <3> SUFFICES ASSUME ~link.failed, ~astray
                 PROVE  got \o DataOf(Stock(link')) = Bytes(1, heard + n)
      BY <2>4, <1>4
    <3> DEFINE d == DataOf(Stock(link))
    <3>1. got \o d = Bytes(1, heard) /\ d \in Seq(Atoms)
      BY <2>2, DataOfType DEF FrameInv
    <3> HIDE DEF d
    <3>2. (got \o d) \o bs = got \o (d \o bs)
      BY <3>1, <1>2, <1>3, JoinAssociates
    <3> QED
      BY <3>1, <3>2, <2>2, <1>3 DEF d
  <2> QED
    BY <2>3, <2>5, <2>6, <1>1 DEF FrameInv
<1>5. CASE /\ ~answered
           /\ \E r \in Refusals : link' = [link EXCEPT !.wire = link.wire \o r]
           /\ packs' = packs /\ heard' = heard
  <2>1. PICK r \in Refusals : link' = [link EXCEPT !.wire = link.wire \o r]
    BY <1>5
  <2>2. r \in Seq(Atoms) /\ DataOf(r) = <<>>
    BY RefusalsAre
  <2>3. /\ link' \in Links /\ Stock(link) \in Seq(Atoms)
        /\ DataOf(Stock(link')) = DataOf(Stock(link)) \o <<>>
    BY <2>1, <2>2, <1>2, StockGrows
  <2>4. DataOf(Stock(link')) = DataOf(Stock(link))
    BY <2>3, DataOfType, JoinAssociates
  <2>5. FrameType'
    BY <2>3, <1>1, <1>2, <1>5 DEF FrameType
  <2>6. link'.failed = link.failed
    BY <2>1, <1>2 DEF Links
  <2>7. ~link'.failed /\ ~astray => Shape(link)'
    <3> SUFFICES ASSUME ~link.failed, ~astray PROVE Shape(link)'
      BY <2>6
    <3>1. Shape(link)
      BY <1>1 DEF FrameInv
    <3> QED
      BY <3>1, <2>1, <1>1, <1>2, <1>5, RefusalShape
  <2>8. ~link'.failed /\ ~astray =>
           got \o DataOf(Stock(link')) = Bytes(1, heard')
    BY <2>4, <2>6, <1>5 DEF FrameInv
  <2> QED
    BY <2>5, <2>7, <2>8, <1>1 DEF FrameInv
<1>6. \/ /\ link' = [link EXCEPT !.wire = link.wire \o f]
         /\ packs' = packs + (IF layer \in Numbered THEN Pieces(bs) ELSE 0)
         /\ heard' = heard + n
      \/ /\ ~answered
         /\ \E r \in Refusals : link' = [link EXCEPT !.wire = link.wire \o r]
         /\ packs' = packs /\ heard' = heard
  BY DEF ServerWrites, bs
<1> QED
  BY <1>4, <1>5, <1>6

-----------------------------------------------------------------------------
(* What Read makes of a link.                                              *)

(* The outcome hands out the first of the bytes of the link.               *)
Hands(l, o) ==
    /\ o.link \in Links /\ o.out \in Seq(Atoms)
    /\ DataOf(Stock(l)) = o.out \o DataOf(Stock(o.link))
(* What is left when no wire is read but for bytes.                        *)
Idle(l) == l.held = <<>> /\ l.under = <<>>

(* The data a link still has, part by part.                                *)
LEMMA StockParts ==
    ASSUME NEW l \in Links
    PROVE  /\ l.held \in Seq(Atoms) /\ l.under \in Seq(Atoms)
           /\ l.wire \in Seq(Atoms)
           /\ DataOf(l.held) \in Seq(Atoms) /\ DataOf(l.under) \in Seq(Atoms)
           /\ DataOf(l.wire) \in Seq(Atoms)
           /\ DataOf(Stock(l)) =
                 DataOf(l.held) \o (DataOf(l.under) \o DataOf(l.wire))
           /\ Idle(l) => DataOf(Stock(l)) = DataOf(l.wire)
<1> DEFINE u == l.held
           v == l.under
           w == l.wire
<1>1. u \in Seq(Atoms) /\ v \in Seq(Atoms) /\ w \in Seq(Atoms)
  BY DEF Links
<1>2. Stock(l) = (u \o v) \o w
  BY DEF Stock
<1>3. Idle(l) => u = <<>> /\ v = <<>>
  BY DEF Idle
<1> HIDE DEF u, v, w
<1>4. DataOf(u) \in Seq(Atoms) /\ DataOf(v) \in Seq(Atoms)
      /\ DataOf(w) \in Seq(Atoms)
  BY <1>1, DataOfType
<1>5. (u \o v) \o w = u \o (v \o w) /\ v \o w \in Seq(Atoms)
  BY <1>1, JoinAssociates, Joined
<1>6. DataOf(u \o (v \o w)) = DataOf(u) \o (DataOf(v) \o DataOf(w))
  BY <1>1, <1>5, DataOfJoined
<1>7. ASSUME u = <<>>, v = <<>>
      PROVE  DataOf(u) \o (DataOf(v) \o DataOf(w)) = DataOf(w)
  <2>1. DataOf(u) = <<>> /\ DataOf(v) = <<>>
    BY <1>7, DataOfNil
  <2> QED
    BY <2>1, <1>4, JoinAssociates
<1> QED
  BY <1>1, <1>2, <1>3, <1>4, <1>5, <1>6, <1>7 DEF u, v, w

(* A Read of the connection below.                                         *)
LEMMA SomeIs ==
    ASSUME NEW l \in Links, NEW n \in Nat, NEW o \in Some(l, n)
    PROVE  \E k \in 1..Len(l.wire) :
              /\ k <= n /\ o.out = Upto(l.wire, k) /\ Len(o.out) = k
              /\ o.link = [l EXCEPT !.wire = After(l.wire, k)]
              /\ o.link \in Links /\ o.link.wire = After(l.wire, k)
              /\ o.out \in Seq(Atoms) /\ After(l.wire, k) \in Seq(Atoms)
              /\ o = Outcome(Upto(l.wire, k),
                             [l EXCEPT !.wire = After(l.wire, k)])
<1>1. l.wire \in Seq(Atoms) /\ Len(l.wire) \in Nat
  BY Wires DEF Links
<1>2. PICK k \in 1..Least(n, Len(l.wire)) :
           o = Outcome(Upto(l.wire, k), [l EXCEPT !.wire = After(l.wire, k)])
  BY DEF Some
<1>3. k \in 1..Len(l.wire) /\ k <= n /\ k \in Nat /\ Least(k, Len(l.wire)) = k
  BY <1>1 DEF Least
<1>4. /\ Upto(l.wire, k) \in Seq(Atoms) /\ Len(Upto(l.wire, k)) = k
      /\ After(l.wire, k) \in Seq(Atoms)
  BY <1>1, <1>3, Uptos, Afters
<1>5. o.out = Upto(l.wire, k) /\ o.link = [l EXCEPT !.wire = After(l.wire, k)]
  BY <1>2 DEF Outcome
<1>6. o.link \in Links /\ o.link.wire = After(l.wire, k)
  BY <1>4, <1>5 DEF Links
<1> QED
  BY <1>2, <1>3, <1>4, <1>5, <1>6

(* A full read takes exactly n atoms off the wire.                         *)
LEMMA FullIs ==
    ASSUME NEW l \in Links, NEW n \in Nat, NEW o \in Full(l, n)
    PROVE  /\ o \in Some(l, n)
           /\ n <= Len(l.wire) /\ o.out = Upto(l.wire, n) /\ Len(o.out) = n
           /\ o.link = [l EXCEPT !.wire = After(l.wire, n)]
           /\ o.link \in Links /\ After(l.wire, n) \in Seq(Atoms)
<1>1. o \in Some(l, n) /\ Len(o.out) = n
  BY DEF Full
<1>2. PICK k \in 1..Len(l.wire) :
           /\ o.out = Upto(l.wire, k) /\ Len(o.out) = k
           /\ o.link = [l EXCEPT !.wire = After(l.wire, k)]
           /\ o.link \in Links /\ After(l.wire, k) \in Seq(Atoms)
  BY <1>1, SomeIs
<1>3. k = n /\ k <= Len(l.wire)
  BY <1>1, <1>2, Wires DEF Links
<1> QED
  BY <1>1, <1>2, <1>3

(* What is read of bytes that nothing is held before.                      *)
LEMMA SomeHands ==
    ASSUME NEW l \in Links, Idle(l), NEW k \in 1..Len(l.wire),
           Of({"data"}, Upto(l.wire, k)), NEW m \in Links, Idle(m),
           m.wire = After(l.wire, k)
    PROVE  DataOf(Stock(l)) = Upto(l.wire, k) \o DataOf(Stock(m))
<1>1. l.wire \in Seq(Atoms) /\ k \in Nat
  BY StockParts, Wires
<1>2. DataOf(l.wire) = Upto(l.wire, k) \o DataOf(After(l.wire, k))
  BY <1>1, DataOfParts
<1> QED
  BY <1>2, StockParts

(* copy(b, held).                                                          *)
LEMMA CopyIs ==
    ASSUME NEW l \in Links, Of({"data"}, l.held), NEW room \in Nat
    PROVE  LET o == Copy(l, room)
           IN  /\ Hands(l, o)
               /\ o.link = [l EXCEPT !.held = After(l.held, room)]
               /\ Of({"data"}, After(l.held, room))
               /\ After(l.held, room) \in Seq(Atoms)
               /\ o.out = Upto(l.held, room)
<1> DEFINE h == l.held
           a == Upto(h, room)
           b == After(h, room)
           o == Copy(l, room)
           x == DataOf(l.under) \o DataOf(l.wire)
<1>1. h \in Seq(Atoms) /\ x \in Seq(Atoms)
      /\ DataOf(Stock(l)) = DataOf(h) \o x
  BY StockParts, Joined
<1>2. o.out = a /\ o.link = [l EXCEPT !.held = b]
  BY DEF Copy, Outcome
<1> HIDE DEF h, o
<1>3. /\ a \in Seq(Atoms) /\ b \in Seq(Atoms)
      /\ Of({"data"}, a) /\ Of({"data"}, b)
  <2>1. Of({"data"}, h)
    BY DEF h
  <2> QED
    BY <2>1, <1>1, Uptos, Afters, OfCut
<1>4. DataOf(h) = a \o DataOf(b) /\ DataOf(b) \in Seq(Atoms)
  BY <1>1, <1>3, DataOfParts, DataOfType
<1> HIDE DEF a, b
<1>5. o.link \in Links /\ o.link.held = b /\ o.link.under = l.under
      /\ o.link.wire = l.wire
  BY <1>2, <1>3 DEF Links
<1>6. DataOf(Stock(o.link)) = DataOf(b) \o x
  BY <1>5, StockParts
<1> HIDE DEF x
<1>7. (a \o DataOf(b)) \o x = a \o (DataOf(b) \o x)
  BY <1>1, <1>3, <1>4, JoinAssociates
<1>8. Hands(l, o)
  BY <1>1, <1>2, <1>3, <1>4, <1>5, <1>6, <1>7 DEF Hands
<1> QED
  BY <1>2, <1>3, <1>8 DEF o, a, b, h

(* Behind the handshake.                                                   *)
LEMMA OpenedIs ==
    ASSUME NEW l \in Links, Greeted(l), NEW m \in Opened(l)
    PROVE  /\ m = [l EXCEPT !.wire = Body(l), !.opened = TRUE]
           /\ m \in Links /\ m.wire = Body(l) /\ m.opened /\ answered
           /\ m.held = l.held /\ m.under = l.under /\ m.remain = l.remain
           /\ m.replied = l.replied /\ m.failed = l.failed /\ m.recv = l.recv
           /\ DataOf(Stock(m)) = DataOf(Stock(l))
<1>1. l.wire \in Seq(Atoms) /\ Len(l.wire) \in Nat /\ l.opened \in BOOLEAN
  BY Wires DEF Links
<1>2. CASE l.opened
  <2>1. m = l /\ Body(l) = l.wire /\ answered
    BY <1>2 DEF Opened, Body, Greeted
  <2>2. l = [l EXCEPT !.wire = l.wire, !.opened = TRUE]
    BY <1>1, <1>2 DEF Links
  <2> QED
    BY <2>1, <2>2, <1>2
<1>3. CASE ~l.opened
  <2>1. PICK o \in Full(l, 2) : m = [o.link EXCEPT !.opened = TRUE]
    BY <1>3 DEF Opened
  <2>2. /\ 2 <= Len(l.wire) /\ After(l.wire, 2) \in Seq(Atoms)
        /\ o.link = [l EXCEPT !.wire = After(l.wire, 2)] /\ o.link \in Links
    <3>1. 2 \in Nat
      OBVIOUS
    <3> QED
      BY <3>1, FullIs
  <2>3. answered /\ Headed(l.wire)
    <3>1. l.wire # <<>>
      BY <2>2, <1>1, Wires
    <3> QED
      BY <3>1, <1>3 DEF Greeted
  <2> DEFINE a == After(l.wire, 2)
  <2>4. Body(l) = a
    BY <1>3 DEF Body
  <2>5. \A i \in 1..Len(l.wire) : i <= 2 => l.wire[i].k # "data"
    <3>1. \A i \in 1..Len(l.wire) : i <= 2 => i = 1 \/ i = 2
      BY <1>1
    <3> QED
      BY <3>1, <2>3, AtomTypes DEF Headed
  <2>6. DataOf(l.wire) = DataOf(a)
    <3>1. 2 \in Nat
      OBVIOUS
    <3> QED
      BY <3>1, <2>5, <1>1, DataOfParts
  <2>7. a \in Seq(Atoms)
    BY <2>2
  <2> HIDE DEF a
  <2>8. m = [l EXCEPT !.wire = a, !.opened = TRUE]
    BY <2>1, <2>2 DEF Links, a
  <2>9. /\ m \in Links /\ m.wire = a /\ m.opened
        /\ m.held = l.held /\ m.under = l.under /\ m.remain = l.remain
        /\ m.replied = l.replied /\ m.failed = l.failed /\ m.recv = l.recv
    BY <2>7, <2>8 DEF Links
  <2>10. DataOf(Stock(m)) = DataOf(Stock(l))
    BY <2>6, <2>9, StockParts
  <2> QED
    BY <2>3, <2>4, <2>8, <2>9, <2>10
<1> QED
  BY <1>2, <1>3

(* What is read of a record in whole.                                      *)
LEMMA RecordHeld ==
    ASSUME NEW w \in Seq(Atoms), Framed(w, 0), w # <<>>, w[1].k = "size",
           NEW n, n = w[1].n
    PROVE  LET h == After(Upto(w, 1 + n), 1)
           IN  /\ n \in Nat /\ 1 + n <= Len(w)
               /\ h \in Seq(Atoms) /\ Len(h) = n /\ Of(Payload, h)
               /\ \A i \in 1..n : h[i] = w[1 + i]
               /\ After(w, 1 + n) \in Seq(Atoms) /\ Framed(After(w, 1 + n), 0)
               /\ DataOf(w) = DataOf(h) \o DataOf(After(w, 1 + n))
<1> DEFINE u == Upto(w, 1 + n)
           h == After(u, 1)
           b == After(w, 1 + n)
<1>1. 1 \in 1..Len(w) /\ w[1].n \in Nat /\ Len(w) \in Nat
  <2>1. 1 \in 1..Len(w)
    BY FramedBegins
  <2> QED
    BY <2>1, Wires
<1>2. n \in Nat /\ 1 + n <= Len(w) /\ 1 + n \in Nat /\ 1 <= 1 + n
  BY <1>1, FramedSkips
<1>3. Ahead(w, 1)
  BY <1>1 DEF Framed
<1>4. Framed(b, 0)
  BY <1>1, FramedPasses
<1>5. /\ u \in Seq(Atoms) /\ Len(u) = 1 + n /\ b \in Seq(Atoms)
      /\ \A i \in 1..Len(u) : u[i] = w[i]
      /\ u \o b = w
  <2>1. Least(1 + n, Len(w)) = 1 + n
    BY <1>1, <1>2 DEF Least
  <2> QED
    BY <2>1, <1>2, Uptos, Afters, Parted
<1> HIDE DEF u, b
<1>6. /\ h \in Seq(Atoms) /\ Len(h) = n
      /\ \A i \in 1..Len(h) : h[i] = u[1 + i]
  <2>1. 1 <= Len(u) /\ Len(u) - 1 = n
    BY <1>2, <1>5
  <2> QED
    BY <2>1, <1>5, Afters
<1> HIDE DEF h
<1>7. \A i \in 1..n : /\ 1 + i \in 1..Len(u) /\ 1 + i \in 1..Len(w)
                      /\ 1 < 1 + i /\ 1 + i <= 1 + n
  BY <1>1, <1>2, <1>5
<1>8. \A i \in 1..n : h[i] = w[1 + i]
  BY <1>5, <1>6, <1>7
<1>9. \A i \in 1..n : w[1 + i].k \in Payload
  BY <1>3, <1>7 DEF Ahead
<1>10. Of(Payload, h)
  BY <1>6, <1>8, <1>9 DEF Of
<1>11. DataOf(w) = DataOf(u) \o DataOf(b)
  BY <1>5, DataOfJoined
<1>12. DataOf(u) = DataOf(h)
  <2>1. \A i \in 1..Len(u) : i <= 1 => u[i].k # "data"
    <3>1. \A i \in 1..Len(u) : i <= 1 => i = 1 /\ 1 \in 1..Len(u)
      BY <1>2, <1>5
    <3> QED
      BY <3>1, <1>5
  <2> QED
    BY <2>1, <1>5, DataOfParts DEF h
<1> QED
  BY <1>2, <1>4, <1>5, <1>6, <1>8, <1>10, <1>11, <1>12 DEF h, u, b

(* A record is taken whole, and nothing behind it.                         *)
LEMMA FetchedIs ==
    ASSUME NEW l \in Links, Idle(l), Framed(l.wire, 0),
           l.wire # <<>> => l.wire[1].k = "size", NEW m \in Fetched(l)
    PROVE  /\ m.under = <<>> /\ m \in Links
           /\ m.opened = l.opened /\ m.replied = l.replied
           /\ m.failed = l.failed /\ m.remain = l.remain /\ m.recv = l.recv
           /\ l.wire # <<>>
           /\ m.wire = After(l.wire, 1 + l.wire[1].n) /\ Framed(m.wire, 0)
           /\ l.wire[1].n \in Nat /\ 1 + l.wire[1].n <= Len(l.wire)
           /\ Len(m.held) = l.wire[1].n /\ Of(Payload, m.held)
           /\ \A i \in 1..l.wire[1].n : m.held[i] = l.wire[1 + i]
           /\ DataOf(Stock(m)) = DataOf(Stock(l))
<1> DEFINE w == l.wire
           n == w[1].n
           h == After(Upto(w, 1 + n), 1)
<1>1. w # <<>>
  BY DEF Fetched
<1>2. PICK o \in Full(l, 1 + n) : m = [o.link EXCEPT !.held = After(o.out, 1)]
  BY <1>1 DEF Fetched, Length
<1>3. w \in Seq(Atoms)
  BY DEF Links
<1>4. /\ n \in Nat /\ 1 + n <= Len(w)
      /\ h \in Seq(Atoms) /\ Len(h) = n /\ Of(Payload, h)
      /\ \A i \in 1..n : h[i] = w[1 + i]
      /\ After(w, 1 + n) \in Seq(Atoms) /\ Framed(After(w, 1 + n), 0)
      /\ DataOf(w) = DataOf(h) \o DataOf(After(w, 1 + n))
  <2> DEFINE k == n
  <2>1. w[1].k = "size" /\ k = w[1].n
    BY <1>1
  <2> HIDE DEF w, k
  <2>2. /\ k \in Nat /\ 1 + k <= Len(w)
        /\ After(Upto(w, 1 + k), 1) \in Seq(Atoms)
        /\ Len(After(Upto(w, 1 + k), 1)) = k
        /\ Of(Payload, After(Upto(w, 1 + k), 1))
        /\ \A i \in 1..k : After(Upto(w, 1 + k), 1)[i] = w[1 + i]
        /\ After(w, 1 + k) \in Seq(Atoms) /\ Framed(After(w, 1 + k), 0)
        /\ DataOf(w) = DataOf(After(Upto(w, 1 + k), 1))
                           \o DataOf(After(w, 1 + k))
    <3>1. Framed(w, 0)
      BY DEF w
    <3> QED
      BY <2>1, <3>1, <1>1, <1>3, RecordHeld
  <2> QED
    BY <2>2 DEF k
<1>5. /\ o.out = Upto(w, 1 + n)
      /\ o.link = [l EXCEPT !.wire = After(w, 1 + n)] /\ o.link \in Links
  <2>1. 1 + n \in Nat
    BY <1>4
  <2> QED
    BY <2>1, FullIs
<1>6. o.link.wire = After(w, 1 + n) /\ o.link.held = l.held
      /\ o.link.under = l.under /\ o.link.opened = l.opened
      /\ o.link.replied = l.replied /\ o.link.failed = l.failed
      /\ o.link.remain = l.remain /\ o.link.recv = l.recv
  BY <1>5 DEF Links
<1>7. m = [o.link EXCEPT !.held = h]
  BY <1>2, <1>5
<1> HIDE DEF h, w
<1>8. /\ m \in Links /\ m.held = h /\ m.under = l.under
      /\ m.wire = After(w, 1 + n) /\ m.opened = l.opened
      /\ m.replied = l.replied /\ m.failed = l.failed
      /\ m.remain = l.remain /\ m.recv = l.recv
  BY <1>4, <1>5, <1>6, <1>7 DEF Links
<1>9. DataOf(Stock(m)) = DataOf(Stock(l))
  <2>1. l.under = <<>> /\ DataOf(Stock(l)) = DataOf(w)
    BY StockParts DEF Idle, w
  <2>2. DataOf(Stock(m)) =
           DataOf(h) \o (DataOf(<<>>) \o DataOf(After(w, 1 + n)))
    BY <2>1, <1>8, StockParts
  <2>3. DataOf(After(w, 1 + n)) \in Seq(Atoms)
    BY <1>4, DataOfType
  <2>4. DataOf(<<>>) \o DataOf(After(w, 1 + n)) = DataOf(After(w, 1 + n))
    BY <2>3, DataOfNil, JoinAssociates
  <2> QED
    BY <2>1, <2>2, <2>4, <1>4
<1> QED
  BY <1>1, <1>4, <1>8, <1>9 DEF w, Idle

(* A record is held to hand out its bytes.                                 *)
LEMMA HoldRecordIs ==
    ASSUME NEW l \in Links, l.under = <<>>, Of({"data"}, l.held),
           Of(Sized, l.wire), Framed(l.wire, 0), NEW room \in Nat,
           NEW o \in HoldRecord(l, room)
    PROVE  /\ Hands(l, o)
           /\ o.link.under = <<>> /\ o.link.opened = l.opened
           /\ o.link.replied = l.replied /\ o.link.failed = l.failed
           /\ o.link.remain = l.remain
           /\ Of({"data"}, o.link.held)
           /\ Of(Sized, o.link.wire) /\ Framed(o.link.wire, 0)
<1>1. l.wire \in Seq(Atoms) /\ l.held \in Seq(Atoms)
  BY StockParts
<1>2. ASSUME NEW m \in Links, Of({"data"}, m.held)
      PROVE  /\ Hands(m, Copy(m, room))
             /\ Copy(m, room).link.under = m.under
             /\ Copy(m, room).link.opened = m.opened
             /\ Copy(m, room).link.replied = m.replied
             /\ Copy(m, room).link.failed = m.failed
             /\ Copy(m, room).link.remain = m.remain
             /\ Copy(m, room).link.wire = m.wire
             /\ Of({"data"}, Copy(m, room).link.held)
  <2> DEFINE c == Copy(m, room)
             h == After(m.held, room)
  <2>1. /\ Hands(m, c) /\ c.link = [m EXCEPT !.held = h]
        /\ Of({"data"}, h) /\ h \in Seq(Atoms)
    BY <1>2, CopyIs
  <2> HIDE DEF c, h
  <2>2. /\ c.link.under = m.under /\ c.link.opened = m.opened
        /\ c.link.replied = m.replied /\ c.link.failed = m.failed
        /\ c.link.remain = m.remain /\ c.link.wire = m.wire /\ c.link.held = h
    BY <2>1 DEF Links
  <2> QED
    BY <2>1, <2>2 DEF c
<1>3. CASE l.held # <<>>
  <2>1. o = Copy(l, room)
    BY <1>3 DEF HoldRecord
  <2> QED
    BY <2>1, <1>2
<1>4. CASE l.held = <<>>
  <2>1. PICK m \in Fetched(l) : o = Copy(m, room)
    BY <1>4 DEF HoldRecord
  <2>2. Idle(l)
    BY <1>4 DEF Idle
  <2>3. l.wire # <<>> => l.wire[1].k = "size"
    <3> SUFFICES ASSUME l.wire # <<>> PROVE l.wire[1].k = "size"
      OBVIOUS
    <3>1. 1 \in 1..Len(l.wire) /\ l.wire[1].k \notin Payload
      BY <1>1, FramedBegins
    <3>2. l.wire[1].k \in Sized
      BY <3>1 DEF Of
    <3> QED
      BY <3>1, <3>2 DEF Sized, Payload
  <2> DEFINE n == l.wire[1].n
  <2>4. /\ m.under = <<>> /\ m \in Links
        /\ m.opened = l.opened /\ m.replied = l.replied
        /\ m.failed = l.failed /\ m.remain = l.remain
        /\ m.wire = After(l.wire, 1 + n) /\ Framed(m.wire, 0)
        /\ n \in Nat /\ 1 + n <= Len(l.wire)
        /\ Len(m.held) = n /\ Of(Payload, m.held)
        /\ \A i \in 1..n : m.held[i] = l.wire[1 + i]
        /\ DataOf(Stock(m)) = DataOf(Stock(l))
    BY <2>2, <2>3, FetchedIs
  <2> HIDE DEF n
  <2>5. Of(Sized, m.wire)
    <3>1. 1 + n \in Nat
      BY <2>4
    <3> QED
      BY <3>1, <2>4, <1>1, OfCut
  <2>6. Of({"data"}, m.held)
    <3> SUFFICES ASSUME NEW i \in 1..n PROVE m.held[i].k = "data"
      BY <2>4 DEF Of
    <3>1. m.held[i] = l.wire[1 + i] /\ m.held[i].k \in Payload
      BY <2>4 DEF Of
    <3>2. 1 + i \in 1..Len(l.wire)
      BY <2>4, <1>1, Wires
    <3>3. l.wire[1 + i].k \in Sized
      BY <3>2 DEF Of
    <3> QED
      BY <3>1, <3>3 DEF Payload, Sized
  <2>7. Hands(m, o)
    BY <2>1, <2>4, <2>6, <1>2
  <2>8. Hands(l, o)
    BY <2>4, <2>7 DEF Hands
  <2> QED
    BY <2>1, <2>4, <2>5, <2>6, <2>8, <1>2
<1> QED
  BY <1>3, <1>4

(* What a read through a cipher hands out, and what it leaves.             *)
LEMMA AeadReadIs ==
    ASSUME NEW l \in Links, l.under = <<>>, Of({"data"}, l.held),
           Greeted(l), Of(Sized, Body(l)), Framed(Body(l), 0),
           NEW room \in Nat, NEW o \in AeadRead(l, room)
    PROVE  /\ Hands(l, o)
           /\ o.link.under = <<>> /\ o.link.opened /\ answered
           /\ o.link.replied = l.replied /\ o.link.failed = l.failed
           /\ Of({"data"}, o.link.held)
           /\ Of(Sized, o.link.wire) /\ Framed(o.link.wire, 0)
<1>1. PICK m \in Opened(l) : o \in HoldRecord(m, room)
  BY DEF AeadRead
<1>2. /\ m \in Links /\ m.wire = Body(l) /\ m.opened /\ answered
      /\ m.held = l.held /\ m.under = l.under
      /\ m.replied = l.replied /\ m.failed = l.failed
      /\ DataOf(Stock(m)) = DataOf(Stock(l))
  BY OpenedIs
<1>3. /\ Hands(m, o)
      /\ o.link.under = <<>> /\ o.link.opened = m.opened
      /\ o.link.replied = m.replied /\ o.link.failed = m.failed
      /\ Of({"data"}, o.link.held)
      /\ Of(Sized, o.link.wire) /\ Framed(o.link.wire, 0)
  BY <1>1, <1>2, HoldRecordIs
<1> QED
  BY <1>2, <1>3 DEF Hands

(* Bytes that are read as they come.                                       *)
LEMMA SomeBytes ==
    ASSUME NEW l \in Links, Idle(l), Of({"data"}, l.wire), NEW room \in Nat,
           NEW o \in Some(l, room)
    PROVE  /\ Hands(l, o) /\ Idle(o.link) /\ Of({"data"}, o.link.wire)
           /\ o.link.opened = l.opened /\ o.link.failed = l.failed
<1>1. PICK k \in 1..Len(l.wire) :
           /\ o.out = Upto(l.wire, k)
           /\ o.link = [l EXCEPT !.wire = After(l.wire, k)]
           /\ o.link \in Links /\ o.link.wire = After(l.wire, k)
           /\ o.out \in Seq(Atoms) /\ After(l.wire, k) \in Seq(Atoms)
  BY SomeIs
<1>2. l.wire \in Seq(Atoms) /\ k \in Nat
  BY StockParts, Wires
<1>3. Of({"data"}, Upto(l.wire, k)) /\ Of({"data"}, After(l.wire, k))
  BY <1>2, OfCut
<1>4. /\ o.link.held = l.held /\ o.link.under = l.under
      /\ o.link.opened = l.opened /\ o.link.failed = l.failed
  BY <1>1 DEF Links
<1>5. Idle(o.link)
  BY <1>4 DEF Idle
<1>6. DataOf(Stock(l)) = Upto(l.wire, k) \o DataOf(Stock(o.link))
  BY <1>1, <1>3, <1>5, SomeHands
<1> QED
  BY <1>1, <1>3, <1>4, <1>5, <1>6 DEF Hands

(* The shape of each kind of transport is the shape of a link.             *)
LEMMA ShapeOf ==
    ASSUME layer \in Layers, NEW l, Of({"data"}, l.held)
    PROVE  /\ layer \in Raw /\ l.under = <<>> =>
                 (Shape(l) <=> RawShape(l) \/ (layer \in Vmess /\ Refused(l)))
           /\ layer \in Buffers /\ l.under = <<>> =>
                 (Shape(l) <=> \/ BufferShape(l)
                               \/ (layer \in Vmess /\ Refused(l)))
           /\ layer \in Counts /\ l.under = <<>> =>
                 (Shape(l) <=> CountShape(l))
           /\ layer \in Webs /\ l.under = <<>> => (Shape(l) <=> WebShape(l))
           /\ layer = "snell" /\ l.under = <<>> => (Shape(l) <=> SnellShape(l))
           /\ layer = "trojan" /\ l.under = <<>> =>
                 (Shape(l) <=> l.held = <<>> /\ Of({"data"}, l.wire))
           /\ layer = "mux" /\ l.under = <<>> => (Shape(l) <=> MuxShape(l))
           /\ layer = "authSha1" => (Shape(l) <=> Sha1Shape(l))
           /\ layer \in Numbered => (Shape(l) <=> NumberedShape(l))
<1>1. CASE layer \in Raw
  BY <1>1 DEF Shape, Raw, Buffers, Counts, Webs, Ssr, Numbered
<1>2. CASE layer \in Buffers
  BY <1>2 DEF Shape, Raw, Buffers, Counts, Webs, Ssr, Numbered
<1>3. CASE layer \in Counts
  BY <1>3 DEF Shape, Raw, Buffers, Counts, Webs, Ssr, Numbered
<1>4. CASE layer \in Webs
  BY <1>4 DEF Shape, Raw, Buffers, Counts, Webs, Ssr, Numbered
<1>5. CASE layer = "snell" \/ layer = "trojan" \/ layer = "mux"
  BY <1>5 DEF Shape, Raw, Buffers, Counts, Webs, Ssr, Numbered
<1>6. CASE layer = "authSha1"
  BY <1>6 DEF Shape, Raw, Buffers, Counts, Webs, Ssr, Numbered
<1>7. CASE layer \in Numbered
  BY <1>7 DEF Shape, Raw, Buffers, Counts, Webs, Ssr, Numbered
<1> QED
  BY <1>1, <1>2, <1>3, <1>4, <1>5, <1>6, <1>7, LayerClasses DEF Counts

(* A Read either fails, and hands out nothing, or it hands out the next    *)
(* bytes and leaves the link in the shape of its transport.                *)
Serves(l, o) ==
    /\ o.link \in Links /\ o.out \in Seq(Atoms)
    /\ o.link.failed => o.out = <<>>
    /\ ~o.link.failed => Shape(o.link) /\ Hands(l, o)

(* A read that fails hands out nothing.                                    *)
LEMMA BrokenServes ==
    ASSUME NEW l, NEW m \in Links
    PROVE  Serves(l, Broken(m))
<1>1. [m EXCEPT !.failed = TRUE] \in Links /\ [m EXCEPT !.failed = TRUE].failed
  BY DEF Links
<1>2. <<>> \in Seq(Atoms)
  BY EmptySeq
<1> QED
  BY <1>1, <1>2 DEF Serves, Broken, Outcome

(* Records that are held.                                                  *)
LEMMA BufferServes ==
    ASSUME layer \in Buffers, layer \in Layers, NEW l \in Links, ~l.failed,
           l.under = <<>>, Of({"data"}, l.held), l.opened, answered,
           Of(Sized, l.wire), Framed(l.wire, 0), NEW room \in Nat,
           NEW o \in HoldRecord(l, room)
    PROVE  Serves(l, o)
<1>1. /\ Hands(l, o)
      /\ o.link.under = <<>> /\ o.link.opened = l.opened
      /\ o.link.failed = l.failed
      /\ Of({"data"}, o.link.held)
      /\ Of(Sized, o.link.wire) /\ Framed(o.link.wire, 0)
  BY HoldRecordIs
<1>2. BufferShape(o.link)
  BY <1>1 DEF BufferShape, Greeted, Body
<1>3. Shape(o.link)
  BY <1>1, <1>2, ShapeOf
<1> QED
  BY <1>1, <1>3 DEF Serves, Hands

(* Bytes behind a handshake.                                               *)
LEMMA RawServes ==
    ASSUME layer \in Raw, layer \in Layers, NEW l \in Links, ~l.failed,
           Idle(l), l.opened, answered, Of({"data"}, l.wire),
           NEW room \in Nat, NEW o \in Some(l, room)
    PROVE  Serves(l, o)
<1>1. /\ Hands(l, o) /\ Idle(o.link) /\ Of({"data"}, o.link.wire)
      /\ o.link.opened = l.opened /\ o.link.failed = l.failed
  BY SomeBytes
<1>2. RawShape(o.link) /\ Of({"data"}, o.link.held)
  BY <1>1, OfParts, FramedNone DEF RawShape, Greeted, Body, Idle
<1>3. Shape(o.link)
  BY <1>1, <1>2, ShapeOf DEF Idle
<1> QED
  BY <1>1, <1>3 DEF Serves, Hands

(* An outcome of a link behind its handshake is one of the link.           *)
LEMMA ServesBefore ==
    ASSUME NEW l, NEW m, DataOf(Stock(m)) = DataOf(Stock(l)), NEW o,
           Serves(m, o)
    PROVE  Serves(l, o)
BY DEF Serves, Hands

(* A read through a cipher serves: what it has handed out and what is left *)
(* are what there was.                                                     *)
LEMMA AeadServes ==
    ASSUME layer \in Buffers, layer \in Layers, NEW l \in Links, ~l.failed,
           l.under = <<>>, Of({"data"}, l.held), BufferShape(l),
           NEW room \in Nat, NEW o \in AeadRead(l, room)
    PROVE  Serves(l, o)
<1>1. Greeted(l) /\ Of(Sized, Body(l)) /\ Framed(Body(l), 0)
  BY DEF BufferShape
<1>2. PICK m \in Opened(l) : o \in HoldRecord(m, room)
  BY DEF AeadRead
<1>3. /\ m \in Links /\ m.wire = Body(l) /\ m.opened /\ answered
      /\ m.held = l.held /\ m.under = l.under /\ m.failed = l.failed
      /\ DataOf(Stock(m)) = DataOf(Stock(l))
  BY <1>1, OpenedIs
<1>4. Serves(m, o)
  BY <1>1, <1>2, <1>3, BufferServes
<1> QED
  BY <1>3, <1>4, ServesBefore

(* So does a read behind the handshake of the server, of a transport that  *)
(* frames nothing.                                                         *)
LEMMA OpenedServes ==
    ASSUME layer \in Raw, layer \in Layers, NEW l \in Links, ~l.failed,
           Idle(l), RawShape(l), NEW room \in Nat,
           NEW m \in Opened(l), NEW o \in Some(m, room)
    PROVE  Serves(l, o)
<1>1. Greeted(l) /\ Of({"data"}, Body(l))
  BY DEF RawShape
<1>2. /\ m \in Links /\ m.wire = Body(l) /\ m.opened /\ answered
      /\ m.held = l.held /\ m.under = l.under /\ m.failed = l.failed
      /\ DataOf(Stock(m)) = DataOf(Stock(l))
  BY <1>1, OpenedIs
<1>3. Idle(m)
  BY <1>2 DEF Idle
<1>4. Serves(m, o)
  BY <1>1, <1>2, <1>3, RawServes
<1> QED
  BY <1>2, <1>4, ServesBefore

(* The answer of a VMess server.                                           *)
LEMMA VmessServes ==
    ASSUME layer \in Vmess, layer \in Layers, NEW l \in Links, ~l.failed,
           Shape(l), NEW room \in Nat, NEW o \in VmessRead(l, room)
    PROVE  Serves(l, o)
<1>1. /\ Of({"data"}, l.held) /\ l.under = <<>>
      /\ layer \in Raw \cup Buffers
      /\ layer \in {"vmessRaw", "vless"} <=> layer \in Raw
      /\ layer \in {"vmessChunk", "vmessAead"} <=> layer \in Buffers
      /\ layer \notin {"obfsHttp", "ssrHttp"}
  BY DEF Shape, Vmess, Raw, Buffers, Ssr, Numbered
<1>2. /\ layer \in Raw => RawShape(l) \/ Refused(l)
      /\ layer \in Buffers => BufferShape(l) \/ Refused(l)
  BY DEF Shape
<1>3. l.wire \in Seq(Atoms)
  BY StockParts
<1>4. PICK m \in RecvResponse(l) :
           o \in IF m.failed THEN {Broken(m)}
                 ELSE CASE layer = "vmessChunk" -> ChunkRead(m, room)
                        [] layer = "vmessAead"  -> VmessAeadRead(m, room)
                        [] OTHER                -> Some(m, room)
  BY DEF VmessRead
<1>5. CASE ~l.opened /\ l.wire # <<>> /\ l.wire[1] = Refusal
  <2>1. m = [l EXCEPT !.failed = TRUE]
    BY <1>4, <1>5 DEF RecvResponse
  <2>2. m \in Links /\ m.failed
    BY <2>1 DEF Links
  <2>3. o = Broken(m)
    BY <2>2, <1>4
  <2> QED
    BY <2>2, <2>3, BrokenServes
<1>6. CASE ~(~l.opened /\ l.wire # <<>> /\ l.wire[1] = Refusal)
  <2>1. m \in Opened(l)
    BY <1>4, <1>6 DEF RecvResponse
  <2>2. ~Refused(l)
    <3> SUFFICES ASSUME Refused(l) PROVE FALSE
      OBVIOUS
    <3>1. l.wire = <<Refusal>> /\ ~l.opened
      BY DEF Refused
    <3>2. Len(l.wire) = 1 /\ l.wire[1] = Refusal
      BY <3>1
    <3>3. l.wire # <<>>
      BY <3>2, <1>3, Wires
    <3> QED
      BY <3>1, <3>2, <3>3, <1>6
  <2>3. Greeted(l)
    BY <2>2, <1>1, <1>2 DEF RawShape, BufferShape
  <2>4. /\ m \in Links /\ m.wire = Body(l) /\ m.opened /\ answered
        /\ m.held = l.held /\ m.under = l.under /\ m.failed = l.failed
        /\ DataOf(Stock(m)) = DataOf(Stock(l))
    BY <2>1, <2>3, OpenedIs
  <2>5. CASE layer \in Buffers
    <3>1. o \in HoldRecord(m, room)
      BY <2>4, <2>5, <1>1, <1>4 DEF ChunkRead, VmessAeadRead
    <3>2. Of(Sized, Body(l)) /\ Framed(Body(l), 0)
      BY <2>2, <2>5, <1>2 DEF BufferShape
    <3>3. Serves(m, o)
      BY <3>1, <3>2, <2>4, <2>5, <1>1, BufferServes
    <3> QED
      BY <3>3, <2>4, ServesBefore
  <2>6. CASE layer \in Raw
    <3>1. o \in Some(m, room)
      <4>1. layer # "vmessChunk" /\ layer # "vmessAead"
        BY <2>6 DEF Raw
      <4> QED
        BY <4>1, <2>4, <1>4
    <3>2. RawShape(l) /\ l.held = <<>>
      BY <2>2, <2>6, <1>1, <1>2 DEF RawShape
    <3>3. Idle(l)
      BY <3>2, <1>1 DEF Idle
    <3> QED
      BY <3>1, <3>2, <3>3, <2>1, <2>6, OpenedServes
  <2> QED
    BY <2>5, <2>6, <1>1
<1> QED
  BY <1>5, <1>6

(* The whole of the server's side of the handshake is in the first bytes.  *)
LEMMA ObfsServes ==
    ASSUME layer \in {"obfsHttp", "ssrHttp"}, layer \in Layers,
           NEW l \in Links, ~l.failed, Shape(l), NEW room \in Nat,
           NEW o \in ObfsHttpRead(l, room)
    PROVE  Serves(l, o)
<1>1. /\ Of({"data"}, l.held) /\ l.under = <<>> /\ layer \in Raw
      /\ layer \notin Vmess
  BY DEF Shape, Raw, Ssr, Numbered, Vmess
<1>2. RawShape(l) /\ Greeted(l) /\ Of({"data"}, Body(l))
  BY <1>1 DEF Shape, RawShape
<1>3. l.wire \in Seq(Atoms) /\ Len(l.wire) \in Nat
  BY StockParts, Wires
<1>4. CASE l.held # <<>>
  <2>1. o = Copy(l, room)
    BY <1>4 DEF ObfsHttpRead
  <2> DEFINE h == After(l.held, room)
  <2>2. /\ Hands(l, o) /\ o.link = [l EXCEPT !.held = h]
        /\ Of({"data"}, h) /\ h \in Seq(Atoms)
    BY <2>1, <1>1, CopyIs
  <2> HIDE DEF h
  <2>3. /\ o.link.held = h /\ o.link.under = l.under
        /\ o.link.wire = l.wire /\ o.link.opened = l.opened
        /\ o.link.failed = l.failed
    BY <2>2 DEF Links
  <2>4. RawShape(o.link)
    BY <2>3, <1>2 DEF RawShape, Greeted, Body
  <2>5. Shape(o.link)
    BY <2>2, <2>3, <2>4, <1>1, ShapeOf
  <2> QED
    BY <2>2, <2>3, <2>5 DEF Serves, Hands
<1>5. CASE l.held = <<>> /\ l.opened
  <2>1. o \in Some(l, room)
    BY <1>5 DEF ObfsHttpRead
  <2>2. /\ Idle(l) /\ answered /\ Of({"data"}, l.wire)
    BY <1>1, <1>2, <1>5 DEF Idle, Greeted, Body
  <2> QED
    BY <2>1, <2>2, <1>1, <1>5, RawServes
<1>6. CASE l.held = <<>> /\ ~l.opened
  <2>1. PICK q \in Some(l, Len(l.wire)) :
           o = IF Len(q.out) < 2 THEN Broken(q.link)
               ELSE Copy([q.link EXCEPT !.opened = TRUE,
                                        !.held = After(q.out, 2)], room)
    BY <1>6 DEF ObfsHttpRead
  <2>2. PICK k \in 1..Len(l.wire) :
           /\ q.out = Upto(l.wire, k) /\ Len(q.out) = k
           /\ q.link = [l EXCEPT !.wire = After(l.wire, k)]
           /\ q.link \in Links /\ q.out \in Seq(Atoms)
           /\ After(l.wire, k) \in Seq(Atoms)
    BY <1>3, SomeIs
  <2>3. CASE k < 2
    BY <2>1, <2>2, <2>3, BrokenServes
  <2>4. CASE ~(k < 2)
    <3> DEFINE w == l.wire
               u == Upto(w, k)
               v == After(w, k)
               h == After(u, 2)
               m == [l EXCEPT !.wire = v, !.opened = TRUE, !.held = h]
    <3>1. /\ w \in Seq(Atoms) /\ u \in Seq(Atoms) /\ v \in Seq(Atoms)
          /\ Len(u) = k /\ k \in Nat /\ 2 \in 0..k /\ 2 \in Nat
      BY <2>2, <2>4, <1>3
    <3>2. u \o v = w /\ \A i \in 1..Len(u) : u[i] = w[i]
      BY <3>1, Uptos, Parted
    <3>3. Headed(w) /\ answered
      <4>1. w # <<>>
        BY <2>2, <1>3, Wires
      <4> QED
        BY <4>1, <1>2, <1>6 DEF Greeted
    <3>4. o = Copy(m, room)
      <4>1. q.link = [l EXCEPT !.wire = v] /\ q.out = u
        BY <2>2
      <4> HIDE DEF u, v, w
      <4>2. [q.link EXCEPT !.opened = TRUE, !.held = After(q.out, 2)] = m
        BY <4>1 DEF Links
      <4>3. ~(Len(q.out) < 2)
        BY <2>2, <2>4
      <4> QED
        BY <4>2, <4>3, <2>1
    <3> HIDE DEF u, v, w
    <3>5. After(w, 2) = h \o v /\ h \in Seq(Atoms)
      BY <3>1, <3>2, AfterJoined, Afters
    <3>6. Of({"data"}, h) /\ Of({"data"}, v)
      <4>1. After(w, 2) = Body(l)
        BY <1>6 DEF Body, w
      <4>2. Of({"data"}, h \o v)
        BY <4>1, <3>5, <1>2
      <4> HIDE DEF h
      <4> QED
        BY <4>2, <3>1, <3>5, OfParts
    <3>7. DataOf(w) = DataOf(h) \o DataOf(v)
      <4>1. \A i \in 1..Len(u) : i <= 2 => u[i].k # "data"
        <5>1. \A i \in 1..Len(u) : i <= 2 => i = 1 \/ i = 2
          BY <3>1
        <5> QED
          BY <5>1, <3>2, <3>3, AtomTypes DEF Headed
      <4>2. DataOf(u) = DataOf(h)
        BY <4>1, <3>1, DataOfParts
      <4>3. DataOf(u \o v) = DataOf(u) \o DataOf(v)
        BY <3>1, DataOfJoined
      <4> QED
        BY <4>2, <4>3, <3>2
    <3> HIDE DEF h
    <3>8. /\ m \in Links /\ m.held = h /\ m.under = l.under /\ m.wire = v
          /\ m.opened /\ m.failed = l.failed
      BY <3>1, <3>5 DEF Links
    <3> HIDE DEF m
    <3>9. DataOf(Stock(m)) = DataOf(Stock(l))
      <4>1. DataOf(Stock(l)) = DataOf(w)
        <5>1. Idle(l)
          BY <1>1, <1>6 DEF Idle
        <5> QED
          BY <5>1, StockParts DEF w
      <4>2. DataOf(Stock(m)) = DataOf(h) \o (DataOf(<<>>) \o DataOf(v))
        BY <3>8, <1>1, StockParts
      <4>3. DataOf(<<>>) \o DataOf(v) = DataOf(v)
        BY <3>1, DataOfType, DataOfNil, JoinAssociates
      <4> QED
        BY <4>1, <4>2, <4>3, <3>7
    <3> DEFINE g == After(m.held, room)
    <3>10. /\ Hands(m, o) /\ o.link = [m EXCEPT !.held = g]
           /\ Of({"data"}, g) /\ g \in Seq(Atoms)
      BY <3>4, <3>6, <3>8, CopyIs
    <3> HIDE DEF g
    <3>11. /\ o.link.held = g /\ o.link.under = l.under
           /\ o.link.wire = v /\ o.link.opened
           /\ o.link.failed = l.failed
      BY <3>8, <3>10 DEF Links
    <3>12. RawShape(o.link)
      BY <3>3, <3>6, <3>11, <1>1 DEF RawShape, Greeted, Body
    <3>13. Shape(o.link)
      BY <3>10, <3>11, <3>12, <1>1, ShapeOf
    <3>14. Serves(m, o)
      BY <3>10, <3>11, <3>13 DEF Serves, Hands
    <3> QED
      BY <3>9, <3>14, ServesBefore
  <2> QED
    BY <2>3, <2>4
<1> QED
  BY <1>4, <1>5, <1>6

-----------------------------------------------------------------------------
(* Transports that count what is left of a record.                         *)

(* A read inside a record counts what is left of the record.               *)
LEMMA RestIs ==
    ASSUME NEW l \in Links, Idle(l), NEW K, K \cap Payload = {"data"},
           Of(K, l.wire), Framed(l.wire, l.remain),
           NEW n \in Nat, n <= l.remain, NEW o \in Rest(l, Some(l, n))
    PROVE  /\ Hands(l, o) /\ Idle(o.link) /\ Of(K, o.link.wire)
           /\ Framed(o.link.wire, o.link.remain)
           /\ o.link.opened = l.opened /\ o.link.failed = l.failed
           /\ \E k \in 1..Len(l.wire) :
                 k <= l.remain /\ o.link.wire = After(l.wire, k)
<1>1. PICK p \in Some(l, n) :
           o = [p EXCEPT !.link.remain = l.remain - Len(p.out)]
  BY DEF Rest
<1>2. PICK k \in 1..Len(l.wire) :
           /\ k <= n /\ p.out = Upto(l.wire, k) /\ Len(p.out) = k
           /\ p.link = [l EXCEPT !.wire = After(l.wire, k)]
           /\ p.link \in Links
           /\ p.out \in Seq(Atoms) /\ After(l.wire, k) \in Seq(Atoms)
           /\ p = Outcome(Upto(l.wire, k),
                          [l EXCEPT !.wire = After(l.wire, k)])
  BY <1>1, SomeIs
<1> DEFINE a == After(l.wire, k)
           u == Upto(l.wire, k)
           r == l.remain - k
<1>3. l.wire \in Seq(Atoms) /\ l.remain \in Nat /\ k \in Nat
      /\ Len(l.wire) \in Nat
  BY StockParts, Wires DEF Links
<1>4. r \in Nat /\ k \in 0..l.remain
  BY <1>2, <1>3
<1>5. Framed(a, r) /\ Of(Payload, u) /\ Of(K, a) /\ Of(K, u)
  BY <1>3, <1>4, FramedTakes, OfCut
<1>6. Of({"data"}, u)
  <2> HIDE DEF u
  <2> QED
    BY <1>5 DEF Of
<1>7. o = Outcome(u, [l EXCEPT !.wire = a, !.remain = r])
  <2> HIDE DEF a, u
  <2>1. p = Outcome(u, [l EXCEPT !.wire = a])
    BY <1>2 DEF a, u
  <2>2. /\ p.link = [l EXCEPT !.wire = a] /\ p.out = u
        /\ p = [out |-> u, link |-> p.link]
    BY <2>1 DEF Outcome
  <2>3. l.remain - Len(p.out) = r
    BY <1>2
  <2> HIDE DEF r
  <2>4. o = [out |-> u, link |-> [p.link EXCEPT !.remain = r]]
    BY <2>2, <2>3, <1>1
  <2>5. [p.link EXCEPT !.remain = r] = [l EXCEPT !.wire = a, !.remain = r]
    BY <2>2 DEF Links
  <2> QED
    BY <2>4, <2>5 DEF Outcome
<1>8. u \in Seq(Atoms) /\ a \in Seq(Atoms)
  BY <1>2
<1> HIDE DEF a, u, r
<1>9. /\ o.out = u /\ o.link = [l EXCEPT !.wire = a, !.remain = r]
      /\ o.link \in Links /\ o.link.wire = a /\ o.link.remain = r
      /\ o.link.held = l.held /\ o.link.under = l.under
      /\ o.link.opened = l.opened /\ o.link.failed = l.failed
  BY <1>4, <1>7, <1>8 DEF Outcome, Links
<1>10. Idle(o.link)
  BY <1>9 DEF Idle
<1>11. DataOf(Stock(l)) = u \o DataOf(Stock(o.link))
  <2>1. Of({"data"}, Upto(l.wire, k)) /\ o.link.wire = After(l.wire, k)
    BY <1>6, <1>9 DEF u, a
  <2> DEFINE m == o.link
  <2>2. m \in Links /\ Idle(m) /\ m.wire = After(l.wire, k)
    BY <2>1, <1>9, <1>10
  <2> HIDE DEF m
  <2>3. DataOf(Stock(l)) = Upto(l.wire, k) \o DataOf(Stock(m))
    BY <2>1, <2>2, SomeHands
  <2> QED
    BY <2>3 DEF u, m
<1>12. \E i \in 1..Len(l.wire) :
          i <= l.remain /\ o.link.wire = After(l.wire, i)
  BY <1>4, <1>9 DEF a
<1> QED
  BY <1>5, <1>8, <1>9, <1>10, <1>11, <1>12 DEF Hands

(* So does one that takes all it asks for.                                 *)
LEMMA RestFull ==
    ASSUME NEW l, NEW n
    PROVE  Rest(l, Full(l, n)) \subseteq Rest(l, Some(l, n))
BY DEF Rest, Full

(* The wire behind the size of a record.                                   *)
LEMMA TailIs ==
    ASSUME NEW w \in Seq(Atoms), w # <<>>
    PROVE  Tail(w) = After(w, 1)
<1>1. Len(w) \in Nat /\ 1 <= Len(w)
  BY Wires
<1>2. /\ Tail(w) \in Seq(Atoms) /\ Len(Tail(w)) = Len(w) - 1
      /\ \A i \in 1..Len(Tail(w)) : Tail(w)[i] = w[i + 1]
  BY HeadTailProperties
<1>3. /\ After(w, 1) \in Seq(Atoms) /\ Len(After(w, 1)) = Len(w) - 1
      /\ \A i \in 1..Len(After(w, 1)) : After(w, 1)[i] = w[1 + i]
  BY <1>1, Afters
<1>4. \A i \in 1..(Len(w) - 1) : i + 1 = 1 + i
  BY <1>1
<1> DEFINE t == Tail(w)
           a == After(w, 1)
<1>5. /\ t \in Seq(Atoms) /\ a \in Seq(Atoms) /\ Len(t) = Len(a)
      /\ \A i \in 1..Len(t) : t[i] = a[i]
  BY <1>2, <1>3, <1>4
<1> HIDE DEF t, a
<1>6. t = a
  BY <1>5, SameWires
<1> QED
  BY <1>6 DEF t, a

(* The wire begins with the size of a record.                              *)
LEMMA BegunIs ==
    ASSUME NEW l \in Links, Idle(l), Of(Sized, l.wire), Framed(l.wire, 0),
           NEW m \in Begun(l)
    PROVE  /\ m \in Links /\ Idle(m) /\ Of(Sized, m.wire)
           /\ Framed(m.wire, m.remain) /\ m.remain \in Nat
           /\ m.opened = l.opened /\ m.failed = l.failed
           /\ DataOf(Stock(m)) = DataOf(Stock(l))
<1> DEFINE w == l.wire
           a == After(w, 1)
           n == w[1].n
<1>1. w \in Seq(Atoms) /\ w # <<>>
  BY StockParts DEF Begun
<1>2. 1 \in 1..Len(w) /\ w[1].k = "size"
  <2>1. 1 \in 1..Len(w) /\ w[1].k \notin Payload
    BY <1>1, FramedBegins
  <2>2. w[1].k \in Sized
    BY <2>1 DEF Of
  <2> QED
    BY <2>1, <2>2 DEF Sized, Payload
<1>3. n \in Nat /\ Framed(a, n)
  BY <1>1, <1>2, FramedSkips
<1>4. a \in Seq(Atoms) /\ Of(Sized, a) /\ Tail(w) = a
  BY <1>1, Afters, OfCut, TailIs
<1>5. DataOf(w) = DataOf(a)
  <2>1. \A i \in 1..Len(w) : i <= 1 => w[i].k # "data"
    <3>1. \A i \in 1..Len(w) : i <= 1 => i = 1
      BY <1>1, Wires
    <3> QED
      BY <3>1, <1>2
  <2> QED
    BY <2>1, <1>1, DataOfParts
<1>6. m = [l EXCEPT !.wire = a, !.remain = n]
  <2>1. m = [l EXCEPT !.wire = Tail(w), !.remain = n]
    BY <1>1 DEF Begun, Length
  <2> QED
    BY <2>1, <1>4
<1> HIDE DEF a, n
<1>7. /\ m \in Links /\ m.wire = a /\ m.remain = n /\ m.held = l.held
      /\ m.under = l.under /\ m.opened = l.opened /\ m.failed = l.failed
  BY <1>3, <1>4, <1>6 DEF Links
<1>8. Idle(m)
  BY <1>7 DEF Idle
<1>9. DataOf(Stock(m)) = DataOf(Stock(l))
  BY <1>5, <1>7, <1>8, StockParts
<1> QED
  BY <1>3, <1>4, <1>7, <1>8, <1>9

(* A read inside a record serves.                                          *)
LEMMA CountServes ==
    ASSUME layer \in Counts, layer \in Layers, NEW l \in Links, ~l.failed,
           Idle(l), l.opened, answered, Of(Sized, l.wire),
           Framed(l.wire, l.remain), NEW n \in Nat, n <= l.remain,
           NEW o \in Rest(l, Some(l, n))
    PROVE  Serves(l, o)
<1>1. Sized \cap Payload = {"data"}
  BY DEF Sized, Payload
<1>2. /\ Hands(l, o) /\ Idle(o.link) /\ Of(Sized, o.link.wire)
      /\ Framed(o.link.wire, o.link.remain)
      /\ o.link.opened = l.opened /\ o.link.failed = l.failed
  BY <1>1, RestIs
<1>3. CountShape(o.link) /\ Of({"data"}, o.link.held) /\ o.link.under = <<>>
  BY <1>2, OfParts, FramedNone DEF CountShape, Greeted, Body, Idle
<1>4. Shape(o.link)
  BY <1>3, ShapeOf
<1> QED
  BY <1>2, <1>4 DEF Serves, Hands

(* A read of the TLS obfuscation serves.                                   *)
LEMMA TlsServes ==
    ASSUME layer = "obfsTls", layer \in Layers, NEW l \in Links, ~l.failed,
           Shape(l), NEW room \in Nat, NEW o \in TlsRead(l, room)
    PROVE  Serves(l, o)
<1>1. CountShape(l) /\ Idle(l) /\ layer \in Counts /\ l.remain \in Nat
      /\ Greeted(l)
  BY DEF Shape, CountShape, Idle, Counts, Ssr, Numbered, Links
<1>2. CASE l.remain > 0
  <2>1. l.opened /\ answered /\ Of(Sized, l.wire) /\ Framed(l.wire, l.remain)
    BY <1>1, <1>2 DEF CountShape, Greeted, Body
  <2>2. o \in Rest(l, Some(l, Least(l.remain, room)))
    BY <1>2, RestFull DEF TlsRead
  <2>3. Least(l.remain, room) \in Nat /\ Least(l.remain, room) <= l.remain
    BY <1>1 DEF Least
  <2> QED
    BY <2>1, <2>2, <2>3, <1>1, CountServes
<1>3. CASE ~(l.remain > 0)
  <2>1. PICK m \in Opened(l) : o \in TlsBody(m, room)
    BY <1>3 DEF TlsRead
  <2>2. /\ m \in Links /\ m.wire = Body(l) /\ m.opened /\ answered
        /\ m.held = l.held /\ m.under = l.under /\ m.failed = l.failed
        /\ DataOf(Stock(m)) = DataOf(Stock(l))
    BY <1>1, OpenedIs
  <2>3. Idle(m) /\ Of(Sized, m.wire) /\ Framed(m.wire, 0)
    BY <2>2, <1>1, <1>3 DEF Idle, CountShape
  <2>4. PICK b \in Begun(m) :
             o \in Rest(b, IF b.remain > room THEN Some(b, room)
                           ELSE Full(b, b.remain))
    BY <2>1 DEF TlsBody
  <2>5. /\ b \in Links /\ Idle(b) /\ Of(Sized, b.wire)
        /\ Framed(b.wire, b.remain) /\ b.remain \in Nat
        /\ b.opened = m.opened /\ b.failed = m.failed
        /\ DataOf(Stock(b)) = DataOf(Stock(m))
    BY <2>2, <2>3, <2>4, BegunIs
  <2>6. Serves(b, o)
    <3>1. CASE b.remain > room
      <4>1. o \in Rest(b, Some(b, room)) /\ room <= b.remain
        BY <3>1, <2>4, <2>5
      <4> QED
        BY <4>1, <2>2, <2>5, <1>1, CountServes
    <3>2. CASE ~(b.remain > room)
      <4>1. o \in Rest(b, Some(b, b.remain)) /\ b.remain <= b.remain
        BY <3>2, <2>4, <2>5, RestFull
      <4> QED
        BY <4>1, <2>2, <2>5, <1>1, CountServes
    <3> QED
      BY <3>1, <3>2
  <2> QED
    BY <2>2, <2>5, <2>6, ServesBefore
<1> QED
  BY <1>2, <1>3

(* A read of the gRPC transport serves.                                    *)
LEMMA GunServes ==
    ASSUME layer = "gun", layer \in Layers, NEW l \in Links, ~l.failed,
           Shape(l), NEW room \in Nat, NEW o \in GunRead(l, room)
    PROVE  Serves(l, o)
<1>1. CountShape(l) /\ Idle(l) /\ layer \in Counts /\ l.remain \in Nat
      /\ Greeted(l)
  BY DEF Shape, CountShape, Idle, Counts, Ssr, Numbered, Links
<1>2. ASSUME NEW m \in Links, ~m.failed, Idle(m), m.opened, answered,
             Of(Sized, m.wire), Framed(m.wire, m.remain), m.remain \in Nat,
             o \in Rest(m, Full(m, Least(m.remain, room)))
      PROVE  Serves(m, o)
  <2>1. Least(m.remain, room) \in Nat /\ Least(m.remain, room) <= m.remain
    BY <1>2 DEF Least
  <2>2. o \in Rest(m, Some(m, Least(m.remain, room)))
    BY <1>2, RestFull
  <2> QED
    BY <2>1, <2>2, <1>1, <1>2, CountServes
<1>3. PICK b \in (IF l.remain > 0 THEN {l}
                   ELSE UNION {Begun(k) : k \in Opened(l)}) :
           o \in Rest(b, Full(b, Least(b.remain, room)))
  BY DEF GunRead
<1>4. CASE l.remain > 0
  <2>1. l.opened /\ answered /\ Of(Sized, l.wire) /\ Framed(l.wire, l.remain)
    BY <1>1, <1>4 DEF CountShape, Greeted, Body
  <2>2. b = l
    BY <1>3, <1>4
  <2> QED
    BY <2>1, <2>2, <1>1, <1>2, <1>3
<1>5. CASE ~(l.remain > 0)
  <2>1. PICK m \in Opened(l) : b \in Begun(m)
    BY <1>3, <1>5
  <2>2. /\ m \in Links /\ m.wire = Body(l) /\ m.opened /\ answered
        /\ m.held = l.held /\ m.under = l.under /\ m.failed = l.failed
        /\ DataOf(Stock(m)) = DataOf(Stock(l))
    BY <2>1, <1>1, OpenedIs
  <2>3. Idle(m) /\ Of(Sized, m.wire) /\ Framed(m.wire, 0)
    BY <2>2, <1>1, <1>5 DEF Idle, CountShape
  <2>4. /\ b \in Links /\ Idle(b) /\ Of(Sized, b.wire)
        /\ Framed(b.wire, b.remain) /\ b.remain \in Nat
        /\ b.opened = m.opened /\ b.failed = m.failed
        /\ DataOf(Stock(b)) = DataOf(Stock(m))
    BY <2>1, <2>2, <2>3, BegunIs
  <2>5. Serves(b, o)
    BY <2>2, <2>4, <1>2, <1>3
  <2> QED
    BY <2>2, <2>4, <2>5, ServesBefore
<1> QED
  BY <1>4, <1>5

(* A read of a websocket serves, across the ends of its messages.          *)
LEMMA WebServes ==
    ASSUME layer \in Webs, layer \in Layers, NEW l \in Links, ~l.failed,
           Shape(l), NEW room \in Nat, NEW o \in WebsocketRead(l, room)
    PROVE  Serves(l, o)
<1>1. WebShape(l) /\ Idle(l) /\ l.remain \in Nat
  BY DEF Shape, WebShape, Idle, Webs, Ssr, Numbered, Links
<1>2. PICK b \in (IF l.remain = 0 THEN Begun(l) ELSE {l}) :
           o \in Rest(b, Some(b, Least(b.remain, room)))
  BY DEF WebsocketRead
<1>3. /\ b \in Links /\ Idle(b) /\ Of(Sized, b.wire)
      /\ Framed(b.wire, b.remain) /\ b.remain \in Nat
      /\ b.failed = l.failed
      /\ DataOf(Stock(b)) = DataOf(Stock(l))
  <2>1. CASE l.remain = 0
    BY <2>1, <1>1, <1>2, BegunIs DEF WebShape
  <2>2. CASE l.remain # 0
    BY <2>2, <1>1, <1>2 DEF WebShape
  <2> QED
    BY <2>1, <2>2
<1>4. Least(b.remain, room) \in Nat /\ Least(b.remain, room) <= b.remain
  BY <1>3 DEF Least
<1>5. Sized \cap Payload = {"data"}
  BY DEF Sized, Payload
<1>6. /\ Hands(b, o) /\ Idle(o.link) /\ Of(Sized, o.link.wire)
      /\ Framed(o.link.wire, o.link.remain) /\ o.link.failed = b.failed
  BY <1>2, <1>3, <1>4, <1>5, RestIs
<1>7. WebShape(o.link) /\ Of({"data"}, o.link.held) /\ o.link.under = <<>>
  BY <1>6, OfParts, FramedNone DEF WebShape, Idle
<1>8. Shape(o.link)
  BY <1>7, ShapeOf
<1>9. Serves(b, o)
  BY <1>3, <1>6, <1>8 DEF Serves, Hands
<1> QED
  BY <1>3, <1>9, ServesBefore

(* A read of a Trojan stream serves.                                       *)
LEMMA TrojanServes ==
    ASSUME layer = "trojan", layer \in Layers, NEW l \in Links, ~l.failed,
           Shape(l), NEW room \in Nat, NEW o \in Some(l, room)
    PROVE  Serves(l, o)
<1>1. Idle(l) /\ Of({"data"}, l.wire)
  BY DEF Shape, Idle, Ssr, Numbered
<1>2. /\ Hands(l, o) /\ Idle(o.link) /\ Of({"data"}, o.link.wire)
      /\ o.link.failed = l.failed
  BY <1>1, SomeBytes
<1>3. Of({"data"}, o.link.held) /\ o.link.held = <<>> /\ o.link.under = <<>>
  BY <1>2, OfParts, FramedNone DEF Idle
<1>4. Shape(o.link)
  BY <1>2, <1>3, ShapeOf
<1> QED
  BY <1>2, <1>4 DEF Serves, Hands

-----------------------------------------------------------------------------
(* Snell: the reply is read before the bytes.                              *)

(* The link behind the reply.                                              *)
LEMMA ReplyRead ==
    ASSUME NEW l \in Links, l.under = <<>>, l.held = <<>>, Greeted(l),
           ~l.opened, answered => Replies(Body(l)), Framed(Body(l), 0),
           NEW q \in AeadRead(l, 1)
    PROVE  /\ q.link \in Links /\ q.link.under = <<>> /\ q.link.opened
           /\ answered /\ q.link.failed = l.failed
           /\ Of({"data"}, q.link.held)
           /\ Of(Sized, q.link.wire) /\ Framed(q.link.wire, 0)
           /\ DataOf(Stock(q.link)) = DataOf(Stock(l))
<1>1. PICK m \in Opened(l) : q \in HoldRecord(m, 1)
  BY DEF AeadRead
<1>2. /\ m \in Links /\ m.wire = Body(l) /\ m.opened /\ answered
      /\ m.held = l.held /\ m.under = l.under /\ m.failed = l.failed
      /\ DataOf(Stock(m)) = DataOf(Stock(l))
  BY OpenedIs
<1> DEFINE w == m.wire
           n == w[1].n
<1>3. /\ w \in Seq(Atoms) /\ Framed(w, 0) /\ 2 <= Len(w) /\ Len(w) \in Nat
      /\ w[1].k = "size" /\ 1 <= n /\ w[2].k = "mark" /\ Of(Sized, After(w, 2))
  BY <1>2, StockParts, Wires DEF Replies
<1>4. PICK b \in Fetched(m) : q = Copy(b, 1)
  BY <1>1, <1>2 DEF HoldRecord
<1>5. /\ b.under = <<>> /\ b \in Links
      /\ b.opened = m.opened /\ b.failed = m.failed
      /\ b.wire = After(w, 1 + n) /\ Framed(b.wire, 0)
      /\ n \in Nat /\ 1 + n <= Len(w)
      /\ Len(b.held) = n /\ Of(Payload, b.held)
      /\ \A i \in 1..n : b.held[i] = w[1 + i]
      /\ DataOf(Stock(b)) = DataOf(Stock(m))
  <2>1. Idle(m)
    BY <1>2 DEF Idle
  <2> QED
    BY <2>1, <1>2, <1>3, FetchedIs
<1> DEFINE h == b.held
           g == After(h, 1)
           c == q.link
<1>6. h \in Seq(Atoms) /\ Len(h) = n
  BY <1>5, StockParts
<1>7. c = [b EXCEPT !.held = g]
  BY <1>4 DEF Copy, Outcome
<1> HIDE DEF w, n, h, c
<1>8. /\ g \in Seq(Atoms) /\ Len(g) = n - 1
      /\ \A i \in 1..Len(g) : g[i] = h[1 + i]
  BY <1>3, <1>5, <1>6, Afters
<1> HIDE DEF g
<1>9. /\ c \in Links /\ c.held = g /\ c.under = b.under /\ c.wire = b.wire
      /\ c.opened = b.opened /\ c.failed = b.failed
  BY <1>5, <1>7, <1>8 DEF Links
<1>10. /\ After(w, 2) \in Seq(Atoms) /\ Len(After(w, 2)) = Len(w) - 2
       /\ \A i \in 1..Len(After(w, 2)) : After(w, 2)[i] = w[2 + i]
  <2>1. 2 \in Nat
    OBVIOUS
  <2> QED
    BY <2>1, <1>3, Afters
<1>11. Of({"data"}, g)
  <2> SUFFICES ASSUME NEW i \in 1..(n - 1) PROVE g[i].k = "data"
    BY <1>8 DEF Of
  <2>1. /\ 1 + i \in 1..n /\ i \in 1..Len(After(w, 2)) /\ 1 + (1 + i) = 2 + i
    BY <1>3, <1>5, <1>10
  <2>2. g[i] = h[1 + i] /\ h[1 + i] = w[1 + (1 + i)]
    BY <2>1, <1>5, <1>8 DEF h
  <2>3. g[i] = After(w, 2)[i]
    BY <2>1, <2>2, <1>10
  <2>4. h[1 + i].k \in Payload /\ After(w, 2)[i].k \in Sized
    BY <2>1, <1>3, <1>5, <1>6 DEF Of, h
  <2> QED
    BY <2>2, <2>3, <2>4 DEF Payload, Sized
<1>12. Of(Sized, After(w, 1 + n))
  <2>1. n - 1 \in Nat /\ 2 + (n - 1) = 1 + n /\ 2 \in Nat
    BY <1>3, <1>5
  <2>2. After(After(w, 2), n - 1) = After(w, 1 + n)
    BY <2>1, <1>3, AfterAfter
  <2>3. Of(Sized, After(After(w, 2), n - 1))
    BY <2>1, <1>3, <1>10, OfCut
  <2> QED
    BY <2>2, <2>3
<1>13. DataOf(h) = DataOf(g)
  <2>1. \A i \in 1..Len(h) : i <= 1 => h[i].k # "data"
    <3>1. 1 \in 1..n /\ 1 + 1 = 2
      BY <1>3, <1>5
    <3>2. h[1] = w[2]
      BY <3>1, <1>5 DEF h
    <3>3. \A i \in 1..Len(h) : i <= 1 => i = 1
      BY <1>5, <1>6
    <3> QED
      BY <3>2, <3>3, <1>3
  <2> QED
    BY <2>1, <1>6, DataOfParts DEF g
<1>14. DataOf(Stock(c)) = DataOf(Stock(b))
  <2>1. DataOf(Stock(c)) = DataOf(g) \o (DataOf(c.under) \o DataOf(c.wire))
    BY <1>9, StockParts
  <2>2. DataOf(Stock(b)) = DataOf(h) \o (DataOf(b.under) \o DataOf(b.wire))
    BY <1>5, StockParts DEF h
  <2> QED
    BY <2>1, <2>2, <1>9, <1>13
<1> QED
  BY <1>2, <1>5, <1>9, <1>11, <1>12, <1>14 DEF c, w, n

(* A read of a Snell stream serves; the reply in front is not handed out.  *)
LEMMA SnellServes ==
    ASSUME layer = "snell", layer \in Layers, NEW l \in Links, ~l.failed,
           Shape(l), NEW room \in Nat, NEW o \in SnellRead(l, room)
    PROVE  Serves(l, o)
<1>1. /\ SnellShape(l) /\ Greeted(l) /\ Framed(Body(l), 0)
      /\ Of({"data"}, l.held) /\ l.under = <<>>
  BY DEF Shape, SnellShape, Ssr, Numbered
<1>2. ASSUME NEW c \in Links, ~c.failed, c.replied, c.opened, answered,
             c.under = <<>>, Of({"data"}, c.held), Of(Sized, c.wire),
             Framed(c.wire, 0), o \in AeadRead(c, room)
      PROVE  Serves(c, o)
  <2>1. Greeted(c) /\ Body(c) = c.wire
    BY <1>2 DEF Greeted, Body
  <2>2. /\ Hands(c, o)
        /\ o.link.under = <<>> /\ o.link.opened
        /\ o.link.replied = c.replied /\ o.link.failed = c.failed
        /\ Of({"data"}, o.link.held)
        /\ Of(Sized, o.link.wire) /\ Framed(o.link.wire, 0)
    BY <2>1, <1>2, AeadReadIs
  <2>3. SnellShape(o.link)
    BY <2>2, <1>2 DEF SnellShape, Greeted, Body
  <2>4. Shape(o.link)
    BY <2>2, <2>3, ShapeOf
  <2> QED
    BY <2>2, <2>4, <1>2 DEF Serves, Hands
<1>3. CASE l.replied
  <2>1. /\ l.opened /\ Of(Sized, l.wire) /\ answered /\ Framed(l.wire, 0)
    BY <1>1, <1>3 DEF SnellShape, Greeted, Body
  <2>2. o \in AeadRead(l, room)
    BY <1>3 DEF SnellRead
  <2> QED
    BY <2>1, <2>2, <1>1, <1>2, <1>3
<1>4. CASE ~l.replied
  <2>1. PICK q \in AeadRead(l, 1) :
           o \in IF q.out = <<Mark>>
                 THEN AeadRead([q.link EXCEPT !.replied = TRUE], room)
                 ELSE {Broken(q.link)}
    BY <1>4 DEF SnellRead
  <2>2. /\ q.link \in Links /\ q.link.under = <<>> /\ q.link.opened
        /\ answered /\ q.link.failed = l.failed
        /\ Of({"data"}, q.link.held)
        /\ Of(Sized, q.link.wire) /\ Framed(q.link.wire, 0)
        /\ DataOf(Stock(q.link)) = DataOf(Stock(l))
    <3>1. ~l.opened /\ l.held = <<>> /\ (answered => Replies(Body(l)))
      BY <1>1, <1>4 DEF SnellShape
    <3> QED
      BY <3>1, <1>1, ReplyRead
  <2>3. CASE q.out = <<Mark>>
    <3> DEFINE d == q.link
               c == [d EXCEPT !.replied = TRUE]
    <3>1. o \in AeadRead(c, room)
      BY <2>1, <2>3
    <3>2. d \in Links
      BY <2>2
    <3> HIDE DEF d
    <3>3. /\ c \in Links /\ c.replied /\ c.held = d.held /\ c.under = d.under
          /\ c.wire = d.wire /\ c.opened = d.opened /\ c.failed = d.failed
      BY <3>2 DEF Links
    <3> HIDE DEF c
    <3>4. DataOf(Stock(c)) = DataOf(Stock(d))
      BY <3>3 DEF Stock
    <3>5. Serves(c, o)
      BY <3>1, <3>3, <2>2, <1>2 DEF d
    <3> QED
      BY <3>4, <3>5, <2>2, ServesBefore DEF d
  <2>4. CASE q.out # <<Mark>>
    <3>1. o = Broken(q.link)
      BY <2>1, <2>4
    <3> QED
      BY <3>1, <2>2, BrokenServes
  <2> QED
    BY <2>3, <2>4
<1> QED
  BY <1>3, <1>4

-----------------------------------------------------------------------------
(* Frames of a multiplexed connection.                                     *)
LEMMA MuxedCut ==
    ASSUME NEW w \in Seq(Atoms), Muxed(w), NEW p \in 1..Len(w),
           w[p].k \in {"size", "data", "mark"}
    PROVE  Muxed(After(w, p))
<1> DEFINE a == After(w, p)
<1>1. Len(w) \in Nat /\ p \in Nat /\ p <= Len(w) /\ 1 <= p
  BY Wires
<1>2. /\ Len(a) = Len(w) - p /\ \A i \in 1..Len(a) : a[i] = w[p + i]
  BY <1>1, Afters
<1> HIDE DEF a
<1>3. ASSUME NEW i \in 1..Len(a)
      PROVE  /\ a[i].k = "status" => i < Len(a) /\ a[i + 1].k = "option"
             /\ a[i].k = "option" /\ a[i].n = 1 =>
                   i < Len(a) /\ a[i + 1].k = "size"
             /\ a[i].k = "size" => /\ 2 < i /\ a[i - 1] = Atom("option", 1)
                                   /\ a[i - 2].k = "status"
  <2> DEFINE j == p + i
  <2>1. j \in 1..Len(w) /\ (j < Len(w) <=> i < Len(a)) /\ j \in Nat
    BY <1>1, <1>2
  <2>2. /\ i < Len(a) => i + 1 \in 1..Len(a) /\ p + (i + 1) = j + 1
        /\ 2 < i => /\ i - 1 \in 1..Len(a) /\ p + (i - 1) = j - 1
                    /\ i - 2 \in 1..Len(a) /\ p + (i - 2) = j - 2
        /\ ~(2 < i) => j - 1 = p \/ j - 2 = p
    <3>1. Len(a) \in Nat /\ p \in Nat
      BY <1>1, <1>2
    <3>2. i < Len(a) => i + 1 \in 1..Len(a) /\ p + (i + 1) = j + 1
      BY <3>1
    <3>3. 2 < i => /\ i - 1 \in 1..Len(a) /\ p + (i - 1) = j - 1
                   /\ i - 2 \in 1..Len(a) /\ p + (i - 2) = j - 2
      BY <3>1
    <3>4. ~(2 < i) => i = 1 \/ i = 2
      BY <3>1
    <3> QED
      BY <3>1, <3>2, <3>3, <3>4
  <2>3. a[i] = w[j]
    BY <1>2
  <2> HIDE DEF j
  <2>4. i < Len(a) => a[i + 1] = w[j + 1]
    BY <2>2, <1>2
  <2>5. 2 < i => a[i - 1] = w[j - 1] /\ a[i - 2] = w[j - 2]
    BY <2>2, <1>2
  <2>6. /\ w[j].k = "status" => j < Len(w) /\ w[j + 1].k = "option"
        /\ w[j].k = "option" /\ w[j].n = 1 => j < Len(w) /\ w[j + 1].k = "size"
        /\ w[j].k = "size" => /\ 2 < j /\ w[j - 1] = Atom("option", 1)
                              /\ w[j - 2].k = "status"
    BY <2>1 DEF Muxed
  <2>7. w[j].k = "size" => 2 < i
    <3>1. Atom("option", 1).k = "option"
      BY DEF Atom
    <3> QED
      BY <3>1, <2>2, <2>6
  <2> QED
    BY <2>1, <2>3, <2>4, <2>5, <2>6, <2>7
<1>4. Muxed(a)
  BY <1>3 DEF Muxed
<1> QED
  BY <1>4 DEF a

(* The bytes of the frame that the link is in.                             *)
LEMMA FrameServes ==
    ASSUME layer = "mux", layer \in Layers, NEW l \in Links, ~l.failed,
           Idle(l), Muxed(l.wire), Of({"status", "option"} \cup Sized, l.wire),
           Framed(l.wire, l.remain), NEW room \in Nat,
           NEW o \in Rest(l, Some(l, Least(l.remain, room)))
    PROVE  Serves(l, o)
<1> DEFINE K == {"status", "option"} \cup Sized
<1>1. K \cap Payload = {"data"}
  BY DEF Sized, Payload
<1>2. l.remain \in Nat /\ l.wire \in Seq(Atoms) /\ Len(l.wire) \in Nat
  BY StockParts, Wires DEF Links
<1>3. Least(l.remain, room) \in Nat /\ Least(l.remain, room) <= l.remain
  BY <1>2 DEF Least
<1>4. Of(K, l.wire)
  OBVIOUS
<1> HIDE DEF K
<1>5. /\ Hands(l, o) /\ Idle(o.link) /\ Of(K, o.link.wire)
      /\ Framed(o.link.wire, o.link.remain) /\ o.link.failed = l.failed
      /\ \E k \in 1..Len(l.wire) :
            k <= l.remain /\ o.link.wire = After(l.wire, k)
  BY <1>1, <1>3, <1>4, RestIs
<1>6. PICK k \in 1..Len(l.wire) :
           k <= l.remain /\ o.link.wire = After(l.wire, k)
  BY <1>5
<1>7. l.wire[k].k \in Payload
  BY <1>6 DEF Framed
<1>8. Muxed(o.link.wire)
  BY <1>2, <1>6, <1>7, MuxedCut DEF Payload
<1>9. MuxShape(o.link) /\ Of({"data"}, o.link.held) /\ o.link.under = <<>>
  BY <1>5, <1>8, OfParts, FramedNone DEF MuxShape, Idle, K
<1>10. Shape(o.link)
  BY <1>9, ShapeOf
<1> QED
  BY <1>5, <1>10 DEF Serves, Hands

(* A read of the multiplexer serves when that of the status returns both   *)
(* of its bytes: it skips the frames without data.                         *)
LEMMA MuxServes ==
    ASSUME layer = "mux", layer \in Layers, NEW l \in Links, ~l.failed,
           Shape(l), NEW room \in Nat, NEW o \in MuxRead(l, room)
    PROVE  Serves(l, o)
<1>1. MuxShape(l) /\ Idle(l) /\ l.remain \in Nat
  BY DEF Shape, MuxShape, Idle, Ssr, Numbered, Links
<1>2. CASE l.remain # 0
  <2>1. o \in Rest(l, Some(l, Least(l.remain, room)))
    BY <1>2 DEF MuxRead
  <2> QED
    BY <2>1, <1>1, FrameServes DEF MuxShape
<1>3. CASE l.remain = 0
  <2> DEFINE w == l.wire
             begins == {i \in 1..(Len(w) - 2) : w[i].k = "status"
                                                /\ w[i + 1].n = 1}
             first == CHOOSE i \in begins : \A j \in begins : i <= j
             m == [l EXCEPT !.wire = After(w, first + 2),
                            !.remain = w[first + 2].n]
  <2>1. begins # {} /\ o \in Rest(m, Some(m, Least(m.remain, room)))
    BY <1>3 DEF MuxRead
  <2>2. /\ w \in Seq(Atoms) /\ Len(w) \in Nat /\ Muxed(w) /\ Framed(w, 0)
        /\ Of({"status", "option"} \cup Sized, w)
    BY <1>1, <1>3, StockParts, Wires DEF MuxShape
  <2>3. first \in begins /\ \A j \in begins : first <= j
    <3>1. begins \subseteq Nat
      OBVIOUS
    <3> HIDE DEF begins
    <3> QED
      BY <2>1, <3>1, LeastOf
  <2> DEFINE p == first + 2
             n == w[p].n
  <2>4. /\ first \in 1..(Len(w) - 2)
        /\ w[first].k = "status" /\ w[first + 1].n = 1
    BY <2>3
  <2> HIDE DEF first
  <2>5. /\ first \in 1..Len(w) /\ first + 1 \in 1..Len(w) /\ p \in 1..Len(w)
        /\ (first + 1) + 1 = p /\ p \in Nat
    BY <2>2, <2>4
  <2>6. w[p].k = "size"
    <3>1. w[first + 1].k = "option"
      BY <2>2, <2>4, <2>5 DEF Muxed
    <3> QED
      BY <3>1, <2>2, <2>4, <2>5 DEF Muxed
  <2>7. ASSUME NEW i \in 1..Len(w), i <= p PROVE w[i].k # "data"
    <3> SUFFICES ASSUME w[i].k = "data" PROVE FALSE
      OBVIOUS
    <3>1. Enclosed(w, i, 1)
      <4>1. 0 < i /\ w[i].k \in Payload /\ 0 + 1 = 1
        BY DEF Payload
      <4> QED
        BY <4>1, <2>2 DEF Framed
    <3>2. PICK j \in 1..Len(w) : j < i /\ w[j].k = "size"
      BY <3>1 DEF Enclosed
    <3>3. 2 < j /\ w[j - 1] = Atom("option", 1) /\ w[j - 2].k = "status"
      BY <3>2, <2>2 DEF Muxed
    <3>4. j - 2 \in 1..(Len(w) - 2) /\ (j - 2) + 1 = j - 1
      BY <3>2, <3>3, <2>2
    <3>5. w[(j - 2) + 1].n = 1
      BY <3>3, <3>4 DEF Atom
    <3>6. j - 2 \in begins
      BY <3>3, <3>4, <3>5
    <3>7. first <= j - 2
      BY <3>6, <2>3
    <3> QED
      BY <3>2, <3>4, <3>7, <2>4, <2>7, <2>2
  <2>8. n \in Nat /\ Framed(After(w, p), n) /\ Muxed(After(w, p))
        /\ After(w, p) \in Seq(Atoms)
        /\ Of({"status", "option"} \cup Sized, After(w, p))
    <3>1. n \in Nat /\ Framed(After(w, p), n)
      BY <2>2, <2>5, <2>6, FramedSkips
    <3>2. Muxed(After(w, p))
      BY <2>2, <2>5, <2>6, MuxedCut
    <3> QED
      BY <3>1, <3>2, <2>2, <2>5, Afters, OfCut
  <2>9. DataOf(w) = DataOf(After(w, p))
    BY <2>2, <2>5, <2>7, DataOfParts
  <2> HIDE DEF begins, w, p, n
  <2>10. m = [l EXCEPT !.wire = After(w, p), !.remain = n]
    BY DEF p, n
  <2>11. /\ m \in Links /\ m.wire = After(w, p) /\ m.remain = n
         /\ m.held = l.held /\ m.under = l.under /\ m.failed = l.failed
    BY <2>8, <2>10 DEF Links
  <2> HIDE DEF m
  <2>12. Idle(m)
    BY <2>11, <1>1 DEF Idle
  <2>13. DataOf(Stock(m)) = DataOf(Stock(l))
    BY <2>9, <2>11, <2>12, <1>1, StockParts DEF w
  <2>14. Serves(m, o)
    BY <2>1, <2>8, <2>11, <2>12, FrameServes
  <2> QED
    BY <2>13, <2>14, ServesBefore
<1> QED
  BY <1>2, <1>3

-----------------------------------------------------------------------------
(* ShadowsocksR: records are decoded from a buffer.                        *)

(* What is decoded, with what is still on the wire: the shapes above.      *)
Decodable(s, recv) ==
    /\ Framed(s, 0)
    /\ layer = "authSha1" => Of(Sized, s)
    /\ layer \in Numbered =>
          /\ Of({"id", "mark"} \cup Sized, s) /\ Ided(s) /\ 0 < recv
          /\ layer = "authAes128" \/ 1 < recv => Of({"id"} \cup Sized, s)
    /\ layer = "authChain" => /\ packs = 0 => s = <<>> /\ recv = 1
                              /\ 0 < packs /\ recv = 1 => MarkThird(s)

(* The form of a ShadowsocksR link is that of what it has to decode.       *)
LEMMA DecodableIs ==
    ASSUME layer \in Ssr, layer \in Layers, NEW l, Of({"data"}, l.held)
    PROVE  Shape(l) <=> Decodable(l.under \o l.wire, l.recv)
<1>1. CASE layer = "authSha1"
  <2>1. layer \notin Numbered /\ layer # "authChain"
    BY <1>1 DEF Numbered
  <2>2. Sha1Shape(l) <=> Decodable(l.under \o l.wire, l.recv)
    BY <2>1, <1>1 DEF Sha1Shape, Decodable
  <2> QED
    BY <2>2, <1>1, ShapeOf
<1>2. CASE layer \in Numbered
  <2>1. layer # "authSha1"
    BY <1>2 DEF Numbered
  <2>2. NumberedShape(l) <=> Decodable(l.under \o l.wire, l.recv)
    BY <2>1, <1>2 DEF NumberedShape, Decodable, LedOff
  <2> QED
    BY <2>2, <1>2, ShapeOf
<1> QED
  BY <1>1, <1>2 DEF Ssr

(* Behind a whole record, numbered records stay numbered.                  *)
LEMMA IdedCut ==
    ASSUME NEW w \in Seq(Atoms), Ided(w), NEW p \in 1..Len(w), w[p].k # "id"
    PROVE  Ided(After(w, p))
<1> DEFINE a == After(w, p)
<1>1. Len(w) \in Nat /\ p \in Nat /\ p <= Len(w) /\ 1 <= p
  BY Wires
<1>2. /\ Len(a) = Len(w) - p /\ \A i \in 1..Len(a) : a[i] = w[p + i]
  BY <1>1, Afters
<1> HIDE DEF a
<1>3. ASSUME NEW i \in 1..Len(a)
      PROVE  /\ a[i].k = "id" => i < Len(a) /\ a[i + 1].k = "size"
             /\ a[i].k = "size" => 1 < i /\ a[i - 1].k = "id"
  <2> DEFINE j == p + i
  <2>1. Len(a) \in Nat /\ j \in 1..Len(w) /\ (j < Len(w) <=> i < Len(a))
    BY <1>1, <1>2
  <2>2. i < Len(a) => i + 1 \in 1..Len(a) /\ p + (i + 1) = j + 1
    BY <1>1, <2>1
  <2>3. 1 < i => i - 1 \in 1..Len(a) /\ p + (i - 1) = j - 1
    BY <1>1, <2>1
  <2>4. ~(1 < i) => j - 1 = p
    BY <1>1, <2>1
  <2>5. a[i] = w[j]
    BY <1>2
  <2> HIDE DEF j
  <2>6. i < Len(a) => a[i + 1] = w[j + 1]
    BY <2>2, <1>2
  <2>7. 1 < i => a[i - 1] = w[j - 1]
    BY <2>3, <1>2
  <2>8. /\ w[j].k = "id" => j < Len(w) /\ w[j + 1].k = "size"
        /\ w[j].k = "size" => 1 < j /\ w[j - 1].k = "id"
    BY <2>1 DEF Ided
  <2> QED
    BY <2>1, <2>4, <2>5, <2>6, <2>7, <2>8
<1>4. Ided(a)
  BY <1>3 DEF Ided
<1> QED
  BY <1>4 DEF a

(* In u, with t behind it, is one record, behind h atoms of which the last  *)
(* is its size n; skip of the atoms of the record are no bytes.            *)
RecordAt(u, t, h, n, skip) ==
    /\ Framed(u \o t, 0)
    /\ h \in Nat /\ 1 <= h /\ h < Len(u) /\ h + n <= Len(u)
    /\ u[h].k = "size" /\ n = u[h].n
    /\ skip \in 0..1 /\ skip <= n
    /\ \A i \in 1..h : u[i].k # "data"
    /\ 0 < skip => u[h + 1].k = "mark"
    /\ \A i \in 1..n : skip < i => u[h + i].k # "mark"

(* v is what the atoms of u up to end carry, and they are whole records.   *)
Taken(u, t, end, v) ==
    /\ end \in 1..Len(u) /\ v \in Seq(Atoms) /\ Of({"data"}, v)
    /\ DataOf(u) = v \o DataOf(After(u, end))
    /\ After(u, end) \in Seq(Atoms)
    /\ After(u \o t, end) = After(u, end) \o t
    /\ Framed(After(u \o t, end), 0)
    /\ (u \o t)[end].k # "id"

(* What is left when the first record is taken, and the data it held.      *)
LEMMA RecordTaken ==
    ASSUME NEW u \in Seq(Atoms), NEW t \in Seq(Atoms), NEW h, NEW n,
           NEW skip, RecordAt(u, t, h, n, skip)
    PROVE  Taken(u, t, h + n, SubSeq(u, h + 1 + skip, h + n))
<1> DEFINE s == u \o t
           end == h + n
           v == SubSeq(u, h + 1 + skip, end)
           c == h + skip
           x == Upto(u, end)
           y == After(u, end)
<1>1. /\ Len(u) \in Nat /\ Len(t) \in Nat /\ h \in Nat /\ 1 <= h
      /\ h < Len(u) /\ h \in 1..Len(u) /\ n \in Nat /\ h + n <= Len(u)
      /\ skip \in 0..1 /\ skip \in Nat /\ skip <= n
  <2>1. /\ h \in Nat /\ 1 <= h /\ h < Len(u) /\ h + n <= Len(u)
        /\ skip \in 0..1 /\ skip <= n /\ n = u[h].n
    BY DEF RecordAt
  <2>2. Len(u) \in Nat /\ Len(t) \in Nat
    BY Wires
  <2>3. h \in 1..Len(u)
    BY <2>1, <2>2
  <2>4. u[h].n \in Nat
    BY <2>3, Wires
  <2> QED
    BY <2>1, <2>2, <2>3, <2>4
<1>0. /\ u[h].k = "size" /\ u[h].n = n /\ Framed(s, 0)
      /\ \A i \in 1..h : u[i].k # "data"
      /\ 0 < skip => u[h + 1].k = "mark"
      /\ \A i \in 1..n : skip < i => u[h + i].k # "mark"
  BY DEF RecordAt
<1>2. end \in 1..Len(u) /\ end \in Nat /\ c \in Nat /\ c <= end
      /\ end - c = n - skip /\ n - skip \in Nat
  BY <1>1
<1>3. /\ s \in Seq(Atoms) /\ Len(s) = Len(u) + Len(t)
      /\ \A i \in 1..Len(u) : s[i] = u[i]
  BY Joined
<1>4. h \in 1..Len(s) /\ s[h].k = "size" /\ s[h].n = n
  BY <1>1, <1>3, <1>0
<1>5. Framed(After(s, end), 0)
  BY <1>3, <1>4, <1>0, FramedPasses
<1>6. After(s, end) = y \o t /\ y \in Seq(Atoms)
  <2>1. end \in 0..Len(u)
    BY <1>2
  <2> QED
    BY <2>1, <1>2, AfterJoined, Afters
<1>7. Ahead(s, h)
  BY <1>4, <1>0 DEF Framed
<1>8. ASSUME NEW i \in 1..n PROVE u[h + i].k \in Payload /\ h + i \in 1..Len(u)
  <2>1. h + i \in 1..Len(u) /\ h + i \in 1..Len(s) /\ h < h + i
        /\ h + i <= h + n
    BY <1>1, <1>3
  <2>2. s[h + i].k \in Payload
    BY <2>1, <1>4, <1>7 DEF Ahead
  <2> QED
    BY <2>1, <2>2, <1>3
<1>9. s[end].k # "id"
  <2>1. CASE n = 0
    <3>1. end = h
      BY <2>1, <1>1
    <3> QED
      BY <3>1, <1>4
  <2>2. CASE n # 0
    <3>1. n \in 1..n
      BY <2>2, <1>1
    <3>2. u[end].k \in Payload
      BY <3>1, <1>8
    <3> QED
      BY <3>2, <1>2, <1>3 DEF Payload
  <2> QED
    BY <2>1, <2>2
<1>10. /\ x \in Seq(Atoms) /\ Len(x) = end
       /\ \A i \in 1..Len(x) : x[i] = u[i]
  <2>1. Least(end, Len(u)) = end
    BY <1>2 DEF Least
  <2> QED
    BY <2>1, <1>2, Uptos
<1>11. DataOf(u) = DataOf(x) \o DataOf(y)
  BY <1>2, DataOfParts
<1> HIDE DEF x, y
<1> DEFINE z == After(x, c)
<1>12. /\ z \in Seq(Atoms) /\ Len(z) = n - skip
       /\ \A i \in 1..Len(z) : z[i] = x[c + i]
  BY <1>2, <1>10, Afters
<1>13. DataOf(x) = DataOf(z)
  <2>1. ASSUME NEW i \in 1..Len(x), i <= c PROVE x[i].k # "data"
    <3>1. i \in 1..h \/ (0 < skip /\ i = h + 1)
      BY <2>1, <1>1, <1>2
    <3>2. x[i] = u[i]
      BY <1>10
    <3> QED
      BY <3>1, <3>2, <1>0
  <2> QED
    BY <2>1, <1>2, <1>10, DataOfParts
<1> HIDE DEF z
<1>14. ASSUME NEW i \in 1..Len(z)
       PROVE  /\ skip + i \in 1..n /\ skip < skip + i
              /\ c + i = h + (skip + i) /\ c + i \in 1..Len(x)
  <2>1. i \in Nat /\ 1 <= i /\ i <= n - skip /\ skip \in Nat
    BY <1>1, <1>12
  <2>2. skip + i \in 1..n /\ skip < skip + i
    BY <2>1, <1>1
  <2>3. c + i = h + (skip + i)
    BY <2>1, <1>1
  <2>4. c + i \in 1..end
    BY <2>1, <2>2, <1>1, <1>2
  <2> QED
    BY <2>2, <2>3, <2>4, <1>10
<1>15. Of({"data"}, z)
  <2> SUFFICES ASSUME NEW i \in 1..Len(z) PROVE z[i].k = "data"
    BY DEF Of
  <2> DEFINE j == skip + i
             y0 == u[h + j]
  <2>1. j \in 1..n /\ skip < j
    BY <1>14
  <2>2. z[i] = y0
    BY <1>10, <1>12, <1>14
  <2> HIDE DEF j
  <2>3. y0.k \in Payload
    BY <1>8, <2>1
  <2>4. y0.k # "mark"
    BY <2>1, <1>0
  <2> HIDE DEF y0
  <2>5. y0.k = "data"
    BY <2>3, <2>4 DEF Payload
  <2> QED
    BY <2>2, <2>5
<1>16. v = z
  <2> DEFINE b == h + 1 + skip
  <2>1. /\ b \in Nat /\ 1 <= b /\ end - b + 1 = n - skip /\ b \in Int
        /\ end \in Int /\ (b <= end <=> n - skip # 0)
    BY <1>1
  <2>2. \A i \in 1..(n - skip) : b + i - 1 = c + i
    BY <1>1
  <2> HIDE DEF b
  <2>3. \A i \in b..end : u[i] \in Atoms
    <3>1. \A i \in b..end : i \in 1..Len(u)
      BY <2>1, <1>1, <1>2
    <3> QED
      BY <3>1, Wires
  <2> DEFINE q == SubSeq(u, b, end)
  <2>4. /\ q \in Seq(Atoms) /\ Len(q) = IF b <= end THEN end - b + 1 ELSE 0
        /\ \A i \in 1..(end - b + 1) : q[i] = u[b + i - 1]
    BY <2>1, <2>3, SubSeqProperties
  <2> HIDE DEF q
  <2>5. Len(q) = n - skip /\ \A i \in 1..(n - skip) : q[i] = u[c + i]
    BY <2>1, <2>2, <2>4
  <2>6. \A i \in 1..(n - skip) : z[i] = u[c + i]
    BY <1>10, <1>12, <1>14
  <2>7. q = z
    BY <2>4, <2>5, <2>6, <1>12, SameWires
  <2>8. v = q
    BY DEF q, b
  <2> QED
    BY <2>7, <2>8
<1>17. DataOf(u) = v \o DataOf(y)
  BY <1>11, <1>12, <1>13, <1>15, <1>16, DataOfBytes
<1>18. v \in Seq(Atoms) /\ Of({"data"}, v)
  BY <1>12, <1>15, <1>16
<1> HIDE DEF v, end
<1>19. Taken(u, t, end, v)
  BY <1>2, <1>5, <1>6, <1>9, <1>17, <1>18 DEF y, Taken
<1> QED
  BY <1>19 DEF v, end
-----------------------------------------------------------------------------
(* One round of Decode.                                                    *)

Decodes == [held : Seq(Atoms), under : Seq(Atoms), recv : Nat, ok : BOOLEAN]

(* A decoder before the atoms t.                                           *)
Decoding(d, t) ==
    /\ d \in Decodes /\ Of({"data"}, d.held)
    /\ Decodable(d.under \o t, d.recv)

(* The head of a record of ShadowsocksR and what leads its data.           *)
LEMMA FormatIs ==
    ASSUME NEW recv
    PROVE  /\ layer = "authSha1" =>
                 Format(recv) = [head |-> 1, skip |-> 0]
           /\ layer = "authAes128" =>
                 Format(recv) = [head |-> 2, skip |-> 0]
           /\ layer = "authChain" =>
                 Format(recv) = [head |-> 2,
                                 skip |-> IF recv = 1 THEN 1 ELSE 0]
           /\ layer \in Ssr => /\ Format(recv).head \in 1..2
                               /\ Format(recv).skip \in 0..1
<1>1. /\ layer = "authSha1" =>
            Format(recv) = [head |-> 1, skip |-> 0]
      /\ layer = "authAes128" =>
            Format(recv) = [head |-> 2, skip |-> 0]
      /\ layer = "authChain" =>
            Format(recv) = [head |-> 2, skip |-> IF recv = 1 THEN 1 ELSE 0]
  BY DEF Format
<1>2. layer \in Ssr => layer \in {"authSha1", "authAes128", "authChain"}
  BY DEF Ssr, Numbered
<1> QED
  BY <1>1, <1>2

(* The first record of what is to be decoded.                              *)
LEMMA RecordLed ==
    ASSUME layer \in Ssr, packs \in Nat, NEW recv \in Nat,
           NEW s \in Seq(Atoms), s # <<>>, Decodable(s, recv)
    PROVE  LET h    == Format(recv).head
               skip == Format(recv).skip
           IN  /\ h \in 1..2 /\ skip \in 0..1
               /\ h <= Len(s) => s[h].k = "size"
               /\ \A i \in 1..Len(s) : i <= h => s[i].k # "data"
               /\ h <= Len(s) => skip <= s[h].n
               /\ 0 < skip /\ h < Len(s) => s[h + 1].k = "mark"
               /\ \A i \in 1..Len(s) : h + skip < i => s[i].k # "mark"
               /\ layer \in Numbered => h = 2
               /\ layer = "authChain" /\ recv = 1 =>
                     0 < packs /\ MarkThird(s) /\ skip = 1
<1>1. Len(s) \in Nat /\ 1 \in 1..Len(s) /\ s[1].k \notin Payload
      /\ \A i \in 1..Len(s) : s[i].n \in Nat
  BY FramedBegins, Wires DEF Decodable
<1>2. CASE layer = "authSha1"
  <2>1. Format(recv) = [head |-> 1, skip |-> 0]
    BY <1>2, FormatIs
  <2>2. Of(Sized, s)
    BY <1>2 DEF Decodable
  <2>3. s[1].k = "size" /\ \A i \in 1..Len(s) : s[i].k # "mark"
    BY <1>1, <2>2 DEF Of, Sized, Payload
  <2>4. Format(recv).head = 1 /\ Format(recv).skip = 0
    BY <2>1
  <2>5. layer \notin Numbered /\ layer # "authChain"
    BY <1>2 DEF Numbered
  <2> QED
    BY <2>3, <2>4, <2>5, <1>1
<1>3. CASE layer \in Numbered
  <2>1. /\ Of({"id", "mark"} \cup Sized, s) /\ Ided(s) /\ Framed(s, 0)
        /\ layer = "authAes128" \/ 1 < recv => Of({"id"} \cup Sized, s)
        /\ 0 < recv
    BY <1>3 DEF Decodable
  <2>2. s[1].k = "id"
    <3>1. s[1].k \in {"id", "mark", "size", "data"}
      BY <1>1, <2>1 DEF Of, Sized
    <3>2. s[1].k # "size"
      BY <1>1, <2>1 DEF Ided
    <3> QED
      BY <3>1, <3>2, <1>1 DEF Payload
  <2>3. 2 <= Len(s) /\ s[2].k = "size"
    BY <1>1, <2>1, <2>2 DEF Ided
  <2>4. \A i \in 1..Len(s) : i <= 2 => s[i].k # "data"
    <3>1. \A i \in 1..Len(s) : i <= 2 => i = 1 \/ i = 2
      BY <1>1
    <3> QED
      BY <3>1, <2>2, <2>3
  <2>5. Format(recv).head = 2
    BY <1>3, FormatIs DEF Numbered
  <2>6. CASE layer = "authAes128" \/ recv # 1
    <3>1. Format(recv).skip = 0
      BY <1>3, <2>6, FormatIs DEF Numbered
    <3>2. Of({"id"} \cup Sized, s)
      BY <2>1, <2>6
    <3>3. \A i \in 1..Len(s) : s[i].k # "mark"
      BY <3>2 DEF Of, Sized
    <3>4. layer = "authChain" => recv # 1
      BY <2>6
    <3>5. 2 \in 1..Len(s)
      BY <2>3, <1>1
    <3>6. s[2].n \in Nat
      BY <3>5, <1>1
    <3> QED
      BY <2>3, <2>4, <2>5, <3>1, <3>3, <3>4, <3>6
  <2>7. CASE layer = "authChain" /\ recv = 1
    <3>1. Format(recv).skip = 1
      BY <2>7, FormatIs
    <3>2. 0 < packs /\ MarkThird(s)
      BY <2>7 DEF Decodable
    <3>3. 3 \in 1..Len(s) /\ s[3].k = "mark"
          /\ \A i \in 1..Len(s) : i # 3 => s[i].k # "mark"
      BY <3>2, <1>1 DEF MarkThird
    <3>4. 1 <= s[2].n
      <4>1. Enclosed(s, 3, 0 + 1)
        BY <2>1, <3>3, <1>1 DEF Framed, Payload
      <4>2. PICK j \in 1..Len(s) :
               j < 3 /\ s[j].k = "size" /\ 3 <= j + s[j].n
        BY <4>1 DEF Enclosed
      <4>3. j = 2
        BY <4>2, <2>2, <1>1
      <4> QED
        BY <4>2, <4>3, <1>1
    <3> QED
      BY <2>3, <2>4, <2>5, <3>1, <3>2, <3>3, <3>4
  <2> QED
    BY <1>3, <2>6, <2>7 DEF Numbered
<1> QED
  BY <1>2, <1>3 DEF Ssr

(* A round of Decode takes one record, or none, and loses no data.         *)
LEMMA DecodeOneKeeps ==
    ASSUME layer \in Ssr, packs \in Nat, NEW t \in Seq(Atoms),
           NEW d, Decoding(d, t)
    PROVE  LET e == DecodeOne(d)
           IN  /\ Decoding(e, t)
               /\ e.held \o DataOf(e.under) = d.held \o DataOf(d.under)
<1> DEFINE f   == Format(d.recv)
           u   == d.under
           h   == f.head
           n   == u[h].n
           end == h + n
           v   == SubSeq(u, h + 1 + f.skip, end)
           s   == u \o t
<1>1. CASE Len(u) <= h \/ Len(u) < end
  <2>1. DecodeOne(d) = d
    BY <1>1 DEF DecodeOne
  <2> QED
    BY <2>1
<1>2. CASE ~(Len(u) <= h \/ Len(u) < end)
  <2> DEFINE x == d.held
             r == d.recv
             skip == f.skip
             ok == d.ok /\ (layer \in Numbered => u[1].n = d.recv)
             e == [held |-> x \o v, under |-> After(u, end),
                   recv |-> r + 1, ok |-> ok]
  <2>1. DecodeOne(d) = e
    BY <1>2 DEF DecodeOne
  <2>2. /\ u \in Seq(Atoms) /\ x \in Seq(Atoms) /\ r \in Nat
        /\ ok \in BOOLEAN /\ Decodable(s, r) /\ Of({"data"}, x)
    BY DEF Decoding, Decodes
  <2>3. s \in Seq(Atoms) /\ Len(s) = Len(u) + Len(t) /\ Len(u) \in Nat
        /\ Len(t) \in Nat /\ \A i \in 1..Len(u) : s[i] = u[i]
    BY <2>2, Joined, Wires
  <2>4. n = u[h].n /\ end = h + n /\ v = SubSeq(u, h + 1 + skip, end)
        /\ s = u \o t /\ x = d.held /\ u = d.under
    OBVIOUS
  <2>5. e.held = x \o v /\ e.under = After(u, end) /\ e.recv = r + 1
        /\ e.ok = ok /\ e = [held |-> e.held, under |-> e.under,
                             recv |-> e.recv, ok |-> e.ok]
    OBVIOUS
  <2>6. ~(Len(u) <= h) /\ ~(Len(u) < end)
    BY <1>2
  <2>7. h = Format(r).head /\ skip = Format(r).skip
    OBVIOUS
  <2> HIDE DEF e, s, v, end, n, h, skip, u, f, x, r, ok
  <2>8. h \in 1..2 /\ skip \in 0..1 /\ h \in Nat
    BY <2>7, FormatIs
  <2>9. s # <<>> /\ h \in 1..Len(u) /\ h \in 1..Len(s) /\ h < Len(u)
        /\ h < Len(s)
    <3>1. s = <<>> => Len(s) = 0
      BY <2>3, Wires
    <3> QED
      BY <3>1, <2>3, <2>6, <2>8
  <2>10. /\ s[h].k = "size" /\ \A i \in 1..Len(s) : i <= h => s[i].k # "data"
         /\ skip <= s[h].n /\ (0 < skip => s[h + 1].k = "mark")
         /\ \A i \in 1..Len(s) : h + skip < i => s[i].k # "mark"
         /\ layer \in Numbered => h = 2
         /\ layer = "authChain" /\ r = 1 =>
               0 < packs /\ MarkThird(s) /\ skip = 1
    <3> DEFINE h0 == Format(r).head
               k0 == Format(r).skip
    <3>1. /\ h0 <= Len(s) => s[h0].k = "size"
          /\ \A i \in 1..Len(s) : i <= h0 => s[i].k # "data"
          /\ h0 <= Len(s) => k0 <= s[h0].n
          /\ 0 < k0 /\ h0 < Len(s) => s[h0 + 1].k = "mark"
          /\ \A i \in 1..Len(s) : h0 + k0 < i => s[i].k # "mark"
          /\ layer \in Numbered => h0 = 2
          /\ layer = "authChain" /\ r = 1 =>
                0 < packs /\ MarkThird(s) /\ k0 = 1
      BY <2>2, <2>3, <2>9, RecordLed
    <3>2. h = h0 /\ skip = k0
      BY <2>7
    <3> HIDE DEF h0, k0
    <3> QED
      BY <3>1, <3>2, <2>3, <2>9
  <2> DEFINE y == After(u, end)
             z == After(s, end)
  <2>11. /\ n \in Nat /\ end \in 1..Len(u)
         /\ v \in Seq(Atoms) /\ Of({"data"}, v)
         /\ DataOf(u) = v \o DataOf(y) /\ y \in Seq(Atoms)
         /\ z = y \o t /\ Framed(z, 0) /\ s[end].k # "id"
         /\ n = s[h].n
    <3>1. u[h] = s[h] /\ u[h].k = "size" /\ n \in Nat /\ n = s[h].n
          /\ u[h].n = n
      BY <2>2, <2>3, <2>4, <2>9, <2>10, Wires
    <3>2. h + n <= Len(u)
      BY <3>1, <2>3, <2>4, <2>6, <2>8
    <3>3. \A i \in 1..h : u[i].k # "data"
      <4>1. \A i \in 1..h : i \in 1..Len(u) /\ i \in 1..Len(s) /\ i <= h
        BY <2>3, <2>8, <2>9
      <4> QED
        BY <4>1, <2>3, <2>10
    <3>4. 0 < skip => u[h + 1].k = "mark"
      <4>1. h + 1 \in 1..Len(u)
        BY <2>3, <2>8, <2>9
      <4> QED
        BY <4>1, <2>3, <2>10
    <3>5. ASSUME NEW i \in 1..n, skip < i PROVE u[h + i].k # "mark"
      <4>1. h + i \in 1..Len(u) /\ h + i \in 1..Len(s) /\ h + skip < h + i
        BY <3>1, <3>2, <3>5, <2>3, <2>8
      <4> QED
        BY <4>1, <2>3, <2>10
    <3>6. Framed(s, 0) /\ skip <= n /\ 1 <= h
      <4>1. Framed(s, 0)
        BY <2>2 DEF Decodable
      <4>2. skip <= n /\ 1 <= h
        BY <3>1, <2>8, <2>10
      <4> QED
        BY <4>1, <4>2
    <3>7. RecordAt(u, t, h, n, skip)
      BY <3>1, <3>2, <3>3, <3>4, <3>5, <3>6, <2>4, <2>8, <2>9 DEF RecordAt
    <3>8. Taken(u, t, h + n, SubSeq(u, h + 1 + skip, h + n))
      BY <3>7, <2>2, RecordTaken
    <3>9. Taken(u, t, end, v)
      BY <3>8, <2>4
    <3> QED
      BY <3>1, <3>9, <2>4 DEF y, z, Taken
  <2> HIDE DEF y, z
  <2>12. end \in 1..Len(s) /\ end \in Nat /\ end <= Len(s)
    BY <2>3, <2>11
  <2>13. ASSUME layer \in Numbered
         PROVE  /\ Of({"id", "mark"} \cup Sized, z) /\ Ided(z)
                /\ Of({"id"} \cup Sized, z)
    <3>1. /\ Of({"id", "mark"} \cup Sized, s) /\ Ided(s)
          /\ layer = "authAes128" \/ 1 < r => Of({"id"} \cup Sized, s)
      BY <2>2, <2>13 DEF Decodable
    <3>2. /\ Of({"id", "mark"} \cup Sized, z) /\ Ided(z)
      BY <3>1, <2>3, <2>11, <2>12, OfCut, IdedCut DEF z
    <3>3. z \in Seq(Atoms) /\ Len(z) = Len(s) - end
          /\ \A i \in 1..Len(z) : z[i] = s[end + i]
      BY <2>3, <2>12, Afters DEF z
    <3>4. ASSUME NEW i \in 1..Len(z) PROVE z[i].k # "mark"
      <4>1. end + i \in 1..Len(s) /\ z[i] = s[end + i] /\ h + n = end
            /\ skip <= n
        <5>1. end + i \in 1..Len(s)
          BY <3>3, <2>3, <2>12
        <5>2. z[i] = s[end + i]
          BY <3>3
        <5>3. h + n = end
          BY <2>4
        <5>4. skip <= n
          BY <2>10, <2>11
        <5> QED
          BY <5>1, <5>2, <5>3, <5>4
      <4>2. h + skip < end + i
        <5>1. h \in Nat /\ skip \in Nat /\ n \in Nat /\ end \in Nat
          BY <2>8, <2>11, <2>12
        <5>2. i \in Nat /\ 0 < i
          BY <3>3
        <5> QED
          BY <5>1, <5>2, <4>1
      <4> QED
        BY <4>1, <4>2, <2>10
    <3>5. Of({"id"} \cup Sized, z)
      BY <3>2, <3>4 DEF Of, Sized
    <3> QED
      BY <3>2, <3>5
  <2>14. Decodable(z, r + 1)
    <3>1. layer = "authSha1" => Of(Sized, z)
      BY <2>2, <2>3, <2>12, OfCut DEF Decodable, z
    <3>2. layer = "authChain" => packs # 0
      BY <2>2, <2>9 DEF Decodable
    <3>3. 0 < r + 1
      BY <2>2
    <3>4. layer = "authChain" => r # 0
      BY <2>2 DEF Decodable, Numbered
    <3>5. layer = "authChain" => r + 1 # 1
      BY <3>4, <2>2
    <3> QED
      BY <3>1, <3>2, <3>3, <3>5, <2>11, <2>13 DEF Decodable
  <2>15. Decoding(e, t)
    <3>1. x \o v \in Seq(Atoms) /\ Of({"data"}, x \o v)
      BY <2>2, <2>11, Joined, OfParts
    <3>2. e.held \in Seq(Atoms) /\ e.under \in Seq(Atoms) /\ e.recv \in Nat
          /\ e.ok \in BOOLEAN
      BY <3>1, <2>2, <2>5, <2>11 DEF y
    <3>3. e \in Decodes
      BY <3>2, <2>5 DEF Decodes
    <3>4. e.under \o t = z
      BY <2>5, <2>11 DEF y
    <3> QED
      BY <3>1, <3>3, <3>4, <2>5, <2>14 DEF Decoding
  <2>16. e.held \o DataOf(e.under) = x \o DataOf(u)
    <3>1. DataOf(y) \in Seq(Atoms)
      BY <2>11, DataOfType
    <3>2. x \in Seq(Atoms) /\ v \in Seq(Atoms)
      BY <2>2, <2>11
    <3>3. (x \o v) \o DataOf(y) = x \o (v \o DataOf(y))
      BY <3>1, <3>2, JoinAssociates
    <3> QED
      BY <3>3, <2>5, <2>11 DEF y
  <2> QED
    BY <2>1, <2>4, <2>15, <2>16
<1> QED
  BY <1>1, <1>2
-----------------------------------------------------------------------------
(* Decode.                                                                 *)

(* It keeps the bytes, whatever arrives next.                              *)
LEMMA DecodedIs ==
    ASSUME layer \in Ssr, packs \in Nat, NEW t \in Seq(Atoms),
           NEW u \in Seq(Atoms), NEW recv \in Nat, Decodable(u \o t, recv)
    PROVE  LET e == Decoded(u, recv)
           IN  /\ Decoding(e, t)
               /\ e.held \o DataOf(e.under) = DataOf(u)
<1> DEFINE x == [held |-> <<>>, under |-> u, recv |-> recv, ok |-> TRUE]
           Good(d) == /\ Decoding(d, t)
                      /\ d.held \o DataOf(d.under) = DataOf(u)
           S == {d \in Decodes : Good(d)}
           Round == [p \in S \X Nat |-> DecodeOne(p[1])]
           Loop(F) == F = [i \in 0..Len(u) |->
                              IF i = 0
                              THEN [held |-> <<>>, under |-> u, recv |-> recv,
                                    ok |-> TRUE]
                              ELSE DecodeOne(F[i - 1])]
           d0 == CHOOSE F : Loop(F)
<1>1. Len(u) \in Nat /\ DataOf(u) \in Seq(Atoms) /\ <<>> \in Seq(Atoms)
      /\ <<>> \o DataOf(u) = DataOf(u) /\ Of({"data"}, <<>>)
  <2>1. DataOf(u) \in Seq(Atoms) /\ <<>> \in Seq(Atoms)
    BY DataOfType, FramedNone
  <2> QED
    BY <2>1, Wires, JoinAssociates, OfParts
<1>2. x \in S
  <2>1. x.held = <<>> /\ x.under = u /\ x.recv = recv /\ x.ok = TRUE
    OBVIOUS
  <2>2. x \in Decodes
    BY <1>1 DEF Decodes
  <2> HIDE DEF x
  <2>3. Good(x)
    BY <1>1, <2>1, <2>2 DEF Decoding
  <2> QED
    BY <2>2, <2>3
<1>3. ASSUME NEW d \in S PROVE DecodeOne(d) \in S
  <2>1. Decoding(d, t) /\ d.held \o DataOf(d.under) = DataOf(u)
    OBVIOUS
  <2> DEFINE e == DecodeOne(d)
  <2>2. /\ Decoding(e, t)
        /\ e.held \o DataOf(e.under) = d.held \o DataOf(d.under)
    BY <2>1, DecodeOneKeeps
  <2> HIDE DEF e
  <2>3. Good(e) /\ e \in Decodes
    BY <2>1, <2>2 DEF Decoding
  <2> QED
    BY <2>3 DEF e
<1> HIDE DEF S
<1>4. Round \in [S \X Nat -> S]
  BY <1>3
<1>5. PICK F \in [0..Len(u) -> S] : IsLoop(F, x, Round, Len(u))
  <2>1. Len(u) \in Nat
    BY <1>1
  <2> HIDE DEF Round, x, Loop, d0
  <2>2. \E F \in [0..Len(u) -> S] : IsLoop(F, x, Round, Len(u))
    BY <2>1, <1>2, <1>4, LoopRuns
  <2> QED
    BY <2>2
<1>6. Loop(F)
  <2>1. \A i \in 1..Len(u) : F[i - 1] \in S /\ <<F[i - 1], i>> \in S \X Nat
    <3> HIDE DEF Loop, x, Round, d0
    <3>1. \A i \in 1..Len(u) : i - 1 \in 0..Len(u) /\ i \in Nat
      BY <1>1
    <3>2. \A i \in 0..Len(u) : F[i] \in S
      OBVIOUS
    <3> QED
      BY <3>1, <3>2
  <2>2. \A i \in 1..Len(u) : Round[<<F[i - 1], i>>] = DecodeOne(F[i - 1])
    BY <2>1
  <2> HIDE DEF Round
  <2>3. ASSUME NEW i \in 0..Len(u)
        PROVE  F[i] = IF i = 0 THEN x ELSE DecodeOne(F[i - 1])
    <3>1. F[i] = IF i = 0 THEN x ELSE Round[<<F[i - 1], i>>]
      <4> HIDE DEF x
      <4> QED
        BY <1>5 DEF IsLoop
    <3> QED
      BY <3>1, <2>2, <1>1
  <2> QED
    BY <2>3
<1>7. Loop(d0)
  BY <1>6
<1>8. \A i \in 0..Len(u) : d0[i] = IF i = 0 THEN x ELSE DecodeOne(d0[i - 1])
  <2> HIDE DEF d0
  <2> QED
    BY <1>7
<1>9. Decoded(u, recv) = d0[Len(u)]
  BY DEF Decoded
<1> HIDE DEF d0, x, Loop
<1> DEFINE Done == {i \in Nat : i <= Len(u) => d0[i] \in S}
<1>10. 0 \in Done
  BY <1>1, <1>2, <1>8
<1>11. ASSUME NEW i \in Nat, i \in Done PROVE i + 1 \in Done
  <2> SUFFICES ASSUME i + 1 <= Len(u) PROVE d0[i + 1] \in S
    OBVIOUS
  <2>1. i + 1 \in 0..Len(u) /\ i + 1 # 0 /\ (i + 1) - 1 = i /\ d0[i] \in S
    BY <1>1, <1>11
  <2>2. d0[i + 1] = DecodeOne(d0[i])
    BY <2>1, <1>8
  <2> QED
    BY <2>1, <2>2, <1>3
<1> HIDE DEF Done
<1>12. Nat \subseteq Done
  BY <1>10, <1>11, AllNumbers
<1>13. d0[Len(u)] \in S
  BY <1>1, <1>12 DEF Done
<1> QED
  BY <1>9, <1>13 DEF S
-----------------------------------------------------------------------------
(* Read of a ShadowsocksR connection.                                      *)

(* Bytes that are decoded are handed out.                                  *)
LEMMA CopyServes ==
    ASSUME layer \in Ssr, layer \in Layers, NEW m \in Links, ~m.failed,
           Of({"data"}, m.held), Decodable(m.under \o m.wire, m.recv),
           NEW room \in Nat
    PROVE  Serves(m, Copy(m, room))
<1> DEFINE o == Copy(m, room)
           p == o.link
<1>1. /\ Hands(m, o) /\ p = [m EXCEPT !.held = After(m.held, room)]
      /\ Of({"data"}, After(m.held, room))
      /\ After(m.held, room) \in Seq(Atoms)
  BY CopyIs
<1>2. p \in Links /\ o.out \in Seq(Atoms)
  BY <1>1 DEF Hands
<1>3. /\ p.held = After(m.held, room) /\ p.under = m.under
      /\ p.wire = m.wire /\ p.recv = m.recv /\ p.failed = m.failed
  BY <1>1 DEF Links
<1> HIDE DEF o, p
<1>4. Shape(p)
  BY <1>1, <1>2, <1>3, DecodableIs
<1>5. Serves(m, o)
  BY <1>1, <1>2, <1>3, <1>4 DEF Serves, p
<1> QED
  BY <1>5 DEF o

(* A read of a protocol of ShadowsocksR serves, with parts of records left *)
(* undecoded.                                                              *)
LEMMA AuthServes ==
    ASSUME layer \in Ssr, layer \in Layers, packs \in Nat, NEW l \in Links,
           ~l.failed, Shape(l), NEW room \in Nat, NEW o \in AuthRead(l, room)
    PROVE  Serves(l, o)
<1>1. /\ Of({"data"}, l.held) /\ Decodable(l.under \o l.wire, l.recv)
      /\ l.recv \in Nat
  BY DecodableIs DEF Shape, Links
<1>2. CASE l.held # <<>>
  <2>1. o = Copy(l, room)
    BY <1>2 DEF AuthRead
  <2> QED
    BY <2>1, <1>1, CopyServes
<1>3. CASE l.held = <<>>
  <2>1. PICK q \in Some(l, Len(l.wire)) :
           o = LET d == Decoded(l.under \o q.out, l.recv)
               IN  IF ~d.ok THEN Broken(q.link)
                   ELSE Copy([q.link EXCEPT !.held = d.held,
                                            !.under = d.under,
                                            !.recv = d.recv], room)
    BY <1>3 DEF AuthRead
  <2> DEFINE w == l.wire
             b == l.under
             u == b \o q.out
             d == Decoded(u, l.recv)
             m == [q.link EXCEPT !.held = d.held, !.under = d.under,
                                 !.recv = d.recv]
  <2>2. w \in Seq(Atoms) /\ b \in Seq(Atoms) /\ Len(w) \in Nat
    BY StockParts, Wires
  <2>3. PICK k \in 1..Len(w) :
           /\ q.out = Upto(w, k) /\ q.out \in Seq(Atoms)
           /\ q.link = [l EXCEPT !.wire = After(w, k)]
           /\ q.link \in Links /\ After(w, k) \in Seq(Atoms)
    BY <2>2, SomeIs
  <2> DEFINE v == q.out
             t == After(w, k)
  <2>4. /\ v = Upto(w, k) /\ v \in Seq(Atoms) /\ t \in Seq(Atoms)
        /\ u = b \o v /\ q.link = [l EXCEPT !.wire = t]
    BY <2>3
  <2>5. v \o t = w
    <3>1. k \in Nat
      BY <2>2
    <3> HIDE DEF v, b, w
    <3>2. Upto(w, k) \o After(w, k) = w
      BY <2>2, <3>1, Parted
    <3> QED
      BY <3>2, <2>4
  <2> HIDE DEF v, t, b, w
  <2>6. /\ u \in Seq(Atoms) /\ u \o t = b \o w
    <3>1. (b \o v) \o t = b \o (v \o t)
      BY <2>2, <2>4, JoinAssociates
    <3>2. b \o v \in Seq(Atoms)
      BY <2>2, <2>4, Joined
    <3> QED
      BY <3>1, <3>2, <2>4, <2>5
  <2>7. Decodable(u \o t, l.recv)
    <3>1. Decodable(b \o w, l.recv)
      BY <1>1 DEF b, w
    <3> QED
      BY <3>1, <2>6
  <2>8. o = IF ~d.ok THEN Broken(q.link) ELSE Copy(m, room)
    BY <2>1 DEF b
  <2> HIDE DEF u
  <2>9. Decoding(d, t) /\ d.held \o DataOf(d.under) = DataOf(u)
    BY <1>1, <2>4, <2>6, <2>7, DecodedIs
  <2> HIDE DEF d
  <2>10. CASE ~d.ok
    BY <2>3, <2>8, <2>10, BrokenServes
  <2>11. CASE d.ok
    <3>1. o = Copy(m, room)
      BY <2>8, <2>11
    <3>2. /\ d.held \in Seq(Atoms) /\ d.under \in Seq(Atoms) /\ d.recv \in Nat
          /\ Of({"data"}, d.held) /\ Decodable(d.under \o t, d.recv)
      BY <2>9 DEF Decoding, Decodes
    <3>3. /\ m \in Links /\ m.held = d.held /\ m.under = d.under
          /\ m.recv = d.recv /\ m.wire = t /\ m.failed = l.failed
      BY <2>3, <2>4, <3>2 DEF Links
    <3> HIDE DEF m
    <3>4. Serves(m, o)
      BY <3>1, <3>2, <3>3, CopyServes
    <3>5. DataOf(Stock(l)) = DataOf(u) \o DataOf(t)
      <4>1. DataOf(b) \in Seq(Atoms) /\ DataOf(w) \in Seq(Atoms)
        BY <2>2, DataOfType
      <4>2. DataOf(Stock(l)) = DataOf(<<>>) \o (DataOf(b) \o DataOf(w))
        BY StockParts, <1>3 DEF b, w
      <4>3. DataOf(b) \o DataOf(w) \in Seq(Atoms)
        BY <4>1, Joined
      <4>4. DataOf(Stock(l)) = DataOf(b) \o DataOf(w)
        BY <4>2, <4>3, DataOfNil, JoinAssociates
      <4>5. DataOf(b) \o DataOf(w) = DataOf(b \o w)
        BY <2>2, DataOfJoined
      <4>6. DataOf(u \o t) = DataOf(u) \o DataOf(t)
        BY <2>4, <2>6, DataOfJoined
      <4> QED
        BY <4>4, <4>5, <4>6, <2>6
    <3>6. DataOf(Stock(m)) = DataOf(u) \o DataOf(t)
      <4>1. DataOf(d.under) \in Seq(Atoms) /\ DataOf(t) \in Seq(Atoms)
        BY <3>2, <2>4, DataOfType
      <4>2. DataOf(d.held) = d.held
        BY <3>2, DataOfBytes
      <4>3. DataOf(Stock(m)) =
               d.held \o (DataOf(d.under) \o DataOf(t))
        BY <3>3, <4>2, StockParts
      <4>4. (d.held \o DataOf(d.under)) \o DataOf(t) =
               d.held \o (DataOf(d.under) \o DataOf(t))
        BY <3>2, <4>1, JoinAssociates
      <4> QED
        BY <4>3, <4>4, <2>9
    <3> QED
      BY <3>4, <3>5, <3>6, ServesBefore
  <2> QED
    BY <2>10, <2>11
<1> QED
  BY <1>2, <1>3
-----------------------------------------------------------------------------
(* Read.                                                                   *)

(* The step of Read takes one of the outcomes.                             *)
LEMMA ReadIs ==
    ASSUME layer \in Layers, NEW room
    PROVE  LET R == ReadOutcomes(room)
           IN  \/ layer = "ssAead" /\ R = AeadRead(link, room)
               \/ layer = "ssStream" /\ R = StreamRead(link, room)
               \/ layer \in Vmess /\ R = VmessRead(link, room)
               \/ layer = "obfsTls" /\ R = TlsRead(link, room)
               \/ layer = "obfsHttp" /\ R = ObfsHttpRead(link, room)
               \/ layer = "ssrHttp" /\ R = SsrHttpRead(link, room)
               \/ layer = "vmessHttp" /\ R = VmessHttpRead(link, room)
               \/ layer = "websocket" /\ R = WebsocketRead(link, room)
               \/ layer = "earlyData" /\ R = EarlyRead(link, room)
               \/ layer = "h2" /\ R = H2Read(link, room)
               \/ layer = "gun" /\ R = GunRead(link, room)
               \/ layer = "snell" /\ R = SnellRead(link, room)
               \/ layer = "trojan" /\ R = Some(link, room)
               \/ layer = "mux" /\ R = MuxRead(link, room)
               \/ layer \in Ssr /\ R = AuthRead(link, room)
BY DEF ReadOutcomes, Layers, Ssr, Numbered, Vmess

(* Whatever the transport, its Read serves.                                *)
LEMMA ReadServes ==
    ASSUME FrameInv, layer # "", ~link.failed, ~astray, NEW room \in Rooms,
           NEW o \in ReadOutcomes(room)
    PROVE  Serves(link, o)
<1>1. /\ layer \in Layers /\ link \in Links /\ Shape(link) /\ room \in Nat
      /\ packs \in Nat
  BY FramingAssumption DEF FrameInv, FrameType
<1>2. /\ Of({"data"}, link.held)
      /\ layer \notin Ssr => link.under = <<>>
  BY <1>1 DEF Shape
<1>3. ASSUME layer = "ssAead", o \in AeadRead(link, room)
      PROVE  Serves(link, o)
  <2>1. layer \in Buffers /\ layer \notin Ssr /\ layer \notin Vmess
    BY <1>3 DEF Buffers, Ssr, Numbered, Vmess
  <2>2. BufferShape(link)
    BY <2>1, <1>1, <1>2, ShapeOf
  <2> QED
    BY <2>1, <2>2, <1>1, <1>2, <1>3, AeadServes
<1>4. ASSUME layer \in {"ssStream", "vmessHttp", "h2"},
             NEW m \in Opened(link), o \in Some(m, room)
      PROVE  Serves(link, o)
  <2>1. /\ layer \in Raw /\ layer \notin Ssr /\ layer \notin Vmess
        /\ layer \notin {"obfsHttp", "ssrHttp"}
    BY <1>4 DEF Raw, Ssr, Numbered, Vmess
  <2>2. RawShape(link)
    BY <2>1, <1>1, <1>2, ShapeOf
  <2>3. Idle(link)
    BY <2>1, <2>2, <1>2 DEF Idle, RawShape
  <2> QED
    BY <2>1, <2>2, <2>3, <1>1, <1>4, OpenedServes
<1>5. CASE layer = "ssAead" /\ ReadOutcomes(room) = AeadRead(link, room)
  BY <1>3, <1>5
<1>6. CASE layer = "ssStream" /\ ReadOutcomes(room) = StreamRead(link, room)
  <2>1. PICK m \in Opened(link) : o \in Some(m, room)
    BY <1>6 DEF StreamRead
  <2> QED
    BY <2>1, <1>4, <1>6
<1>7. CASE layer \in Vmess /\ ReadOutcomes(room) = VmessRead(link, room)
  BY <1>1, <1>7, VmessServes
<1>8. CASE layer = "obfsTls" /\ ReadOutcomes(room) = TlsRead(link, room)
  BY <1>1, <1>8, TlsServes
<1>9. CASE layer = "obfsHttp" /\ ReadOutcomes(room) = ObfsHttpRead(link, room)
  BY <1>1, <1>9, ObfsServes
<1>10. CASE layer = "ssrHttp" /\ ReadOutcomes(room) = SsrHttpRead(link, room)
  BY <1>1, <1>10, ObfsServes DEF SsrHttpRead
<1>11. CASE /\ layer = "vmessHttp"
            /\ ReadOutcomes(room) = VmessHttpRead(link, room)
  <2>1. PICK m \in Opened(link) : o \in Some(m, room)
    BY <1>11 DEF VmessHttpRead
  <2> QED
    BY <2>1, <1>4, <1>11
<1>12. CASE /\ layer = "websocket"
            /\ ReadOutcomes(room) = WebsocketRead(link, room)
  BY <1>1, <1>12, WebServes DEF Webs
<1>13. CASE layer = "earlyData" /\ ReadOutcomes(room) = EarlyRead(link, room)
  <2>1. o \in WebsocketRead(link, room)
    BY <1>13 DEF EarlyRead
  <2> QED
    BY <2>1, <1>1, <1>13, WebServes DEF Webs
<1>14. CASE layer = "h2" /\ ReadOutcomes(room) = H2Read(link, room)
  <2>1. PICK m \in Opened(link) : o \in Some(m, room)
    BY <1>14 DEF H2Read
  <2> QED
    BY <2>1, <1>4, <1>14
<1>15. CASE layer = "gun" /\ ReadOutcomes(room) = GunRead(link, room)
  BY <1>1, <1>15, GunServes
<1>16. CASE layer = "snell" /\ ReadOutcomes(room) = SnellRead(link, room)
  BY <1>1, <1>16, SnellServes
<1>17. CASE layer = "trojan" /\ ReadOutcomes(room) = Some(link, room)
  BY <1>1, <1>17, TrojanServes
<1>18. CASE layer = "mux" /\ ReadOutcomes(room) = MuxRead(link, room)
  BY <1>1, <1>18, MuxServes
<1>19. CASE layer \in Ssr /\ ReadOutcomes(room) = AuthRead(link, room)
  BY <1>1, <1>19, AuthServes
<1> DEFINE R == ReadOutcomes(room)
<1>20. \/ layer = "ssAead" /\ R = AeadRead(link, room)
       \/ layer = "ssStream" /\ R = StreamRead(link, room)
       \/ layer \in Vmess /\ R = VmessRead(link, room)
       \/ layer = "obfsTls" /\ R = TlsRead(link, room)
       \/ layer = "obfsHttp" /\ R = ObfsHttpRead(link, room)
       \/ layer = "ssrHttp" /\ R = SsrHttpRead(link, room)
       \/ layer = "vmessHttp" /\ R = VmessHttpRead(link, room)
       \/ layer = "websocket" /\ R = WebsocketRead(link, room)
       \/ layer = "earlyData" /\ R = EarlyRead(link, room)
       \/ layer = "h2" /\ R = H2Read(link, room)
       \/ layer = "gun" /\ R = GunRead(link, room)
       \/ layer = "snell" /\ R = SnellRead(link, room)
       \/ layer = "trojan" /\ R = Some(link, room)
       \/ layer = "mux" /\ R = MuxRead(link, room)
       \/ layer \in Ssr /\ R = AuthRead(link, room)
  BY <1>1, ReadIs
<1> QED
  BY <1>20, <1>5, <1>6, <1>7, <1>8, <1>9, <1>10, <1>11, <1>12, <1>13, <1>14,
     <1>15, <1>16, <1>17, <1>18, <1>19

(* The shape of a link is a matter of the transport and of the server.     *)
LEMMA ShapeKept ==
    ASSUME NEW m, link' = m, UNCHANGED <<layer, answered, packs>>
    PROVE  Shape(m) <=> Shape(link)'
<1>1. layer' = layer /\ answered' = answered /\ packs' = packs
  OBVIOUS
<1>2. /\ Body(m) = Body(link)' /\ (Greeted(m) <=> Greeted(link)')
      /\ (Refused(m) <=> Refused(link)')
  BY <1>1 DEF Body, Greeted, Refused
<1>3. RawShape(m) <=> RawShape(link)'
  BY <1>1, <1>2 DEF RawShape
<1>4. BufferShape(m) <=> BufferShape(link)'
  BY <1>1, <1>2 DEF BufferShape
<1>5. CountShape(m) <=> CountShape(link)'
  BY <1>1, <1>2 DEF CountShape
<1>6. SnellShape(m) <=> SnellShape(link)'
  BY <1>1, <1>2 DEF SnellShape
<1>7. /\ WebShape(m) <=> WebShape(link)'
      /\ MuxShape(m) <=> MuxShape(link)'
      /\ Sha1Shape(m) <=> Sha1Shape(link)'
  BY <1>1 DEF WebShape, MuxShape, Sha1Shape
<1>8. LedOff(m) <=> LedOff(link)'
  BY <1>1 DEF LedOff
<1>9. NumberedShape(m) <=> NumberedShape(link)'
  BY <1>1, <1>8 DEF NumberedShape
<1> QED
  BY <1>1, <1>2, <1>3, <1>4, <1>5, <1>6, <1>7, <1>9 DEF Shape

(* A Read keeps the invariant.                                             *)
LEMMA ReadKeeps ==
    ASSUME FrameInv, NEW room \in Rooms, Read(room)
    PROVE  FrameInv'
<1>1. /\ layer # "" /\ ~link.failed /\ ~astray
      /\ UNCHANGED <<layer, up, wrote, started, answered, heard, packs, astray>>
  BY DEF Read
<1>2. PICK o \in ReadOutcomes(room) : link' = o.link /\ got' = got \o o.out
  BY DEF Read
<1>3. Serves(link, o)
  BY <1>1, ReadServes
<1> DEFINE m == o.link
           v == o.out
<1>4. m \in Links /\ v \in Seq(Atoms) /\ (m.failed => v = <<>>)
  BY <1>3 DEF Serves
<1>5. ~m.failed => /\ Shape(m)
                   /\ DataOf(Stock(link)) = v \o DataOf(Stock(m))
  BY <1>3 DEF Serves, Hands
<1>6. link' = m /\ got' = got \o v
  BY <1>2
<1> HIDE DEF m, v
<1>7. /\ FrameType /\ got = Bytes(1, Len(got))
      /\ got \o DataOf(Stock(link)) = Bytes(1, heard)
      /\ DataOf(up) = Bytes(1, wrote) /\ WellFramed(up)
      /\ got \in Seq(Atoms) /\ heard \in Nat
  BY <1>1 DEF FrameInv, FrameType
<1>8. got' \in Seq(Atoms)
  BY <1>4, <1>6, <1>7, Joined
<1>9. FrameType'
  BY <1>1, <1>4, <1>6, <1>7, <1>8 DEF FrameType
<1>10. Shape(m) <=> Shape(link)'
  BY <1>1, <1>6, ShapeKept
<1>11. DataOf(up)' = Bytes(1, wrote)' /\ WellFramed(up)'
  BY <1>1, <1>7
<1>12. CASE m.failed
  <2>1. got' = got
    BY <1>4, <1>6, <1>7, <1>12, JoinAssociates
  <2> QED
    BY <2>1, <1>1, <1>6, <1>7, <1>9, <1>11, <1>12 DEF FrameInv
<1>13. CASE ~m.failed
  <2> DEFINE s == DataOf(Stock(m))
  <2>1. s \in Seq(Atoms)
    <3>1. Stock(m) \in Seq(Atoms)
      <4>1. m.held \in Seq(Atoms) /\ m.under \in Seq(Atoms)
            /\ m.wire \in Seq(Atoms)
        BY <1>4, StockParts
      <4>2. m.held \o m.under \in Seq(Atoms)
        BY <4>1, Joined
      <4> QED
        BY <4>1, <4>2, Joined DEF Stock
    <3> QED
      BY <3>1, DataOfType
  <2>2. (got \o v) \o s = Bytes(1, heard)
    <3>1. got \o (v \o s) = Bytes(1, heard)
      BY <1>5, <1>7, <1>13
    <3> HIDE DEF s
    <3>2. (got \o v) \o s = got \o (v \o s)
      BY <2>1, <1>4, <1>7, JoinAssociates
    <3> QED
      BY <3>1, <3>2
  <2>3. got' \o s = Bytes(1, heard)
    BY <2>2, <1>6
  <2> HIDE DEF s
  <2>4. got' = Bytes(1, Len(got'))
    BY <2>1, <2>3, <1>7, <1>8, BytesBegin
  <2>5. (got \o DataOf(Stock(link)) = Bytes(1, heard))'
    BY <2>3, <1>1, <1>6 DEF s
  <2>6. (got = Bytes(1, Len(got)))'
    BY <2>4
  <2>7. Shape(link)'
    BY <1>5, <1>10, <1>13
  <2> QED
    BY <2>5, <2>6, <2>7, <1>1, <1>9, <1>11 DEF FrameInv
<1> QED
  BY <1>12, <1>13

(* A Read that goes astray is one of the multiplexer; what it hands out    *)
(* are atoms, and no more is said of them.                                 *)
LEMMA MisreadKeeps ==
    ASSUME FrameInv, NEW room \in Rooms, Misread(room)
    PROVE  FrameInv'
<1>1. /\ layer = "mux" /\ astray' = TRUE
      /\ UNCHANGED <<layer, up, wrote, started, answered, heard, packs>>
  BY DEF Misread
<1>2. PICK o \in Astray(link, room) : link' = o.link /\ got' = got \o o.out
  BY DEF Misread
<1>3. /\ FrameType /\ link \in Links /\ got \in Seq(Atoms) /\ room \in Nat
      /\ DataOf(up) = Bytes(1, wrote) /\ WellFramed(up)
  BY FramingAssumption DEF FrameInv, FrameType
<1>4. o.link \in Links /\ o.out \in Seq(Atoms)
  <2>1. CASE o = Broken(link)
    BY <2>1, <1>3, BrokenServes DEF Serves
  <2>2. ASSUME NEW i \in 0..Len(link.wire),
               o \in Some([link EXCEPT !.wire = After(link.wire, i)], room)
        PROVE  o.link \in Links /\ o.out \in Seq(Atoms)
    <3> DEFINE a == After(link.wire, i)
               m == [link EXCEPT !.wire = a]
    <3>1. link.wire \in Seq(Atoms) /\ Len(link.wire) \in Nat
      BY <1>3, Wires DEF Links
    <3>2. i \in Nat /\ i <= Len(link.wire)
      BY <3>1
    <3>3. a \in Seq(Atoms)
      BY <3>1, <3>2, Afters
    <3> HIDE DEF a
    <3>4. m \in Links
      BY <3>3, <1>3 DEF Links
    <3>5. o \in Some(m, room)
      BY <2>2 DEF a
    <3> HIDE DEF m
    <3> QED
      BY <3>4, <3>5, <1>3, SomeIs
  <2> QED
    BY <2>1, <2>2, <1>2 DEF Astray
<1>5. got' \in Seq(Atoms)
  BY <1>2, <1>3, <1>4, Joined
<1>6. FrameType'
  BY <1>1, <1>2, <1>3, <1>4, <1>5 DEF FrameType
<1>7. (DataOf(up) = Bytes(1, wrote) /\ WellFramed(up))'
  BY <1>1, <1>3
<1>8. layer' = "mux" /\ astray' /\ layer' # ""
  BY <1>1
<1> QED
  BY <1>6, <1>7, <1>8 DEF FrameInv

-----------------------------------------------------------------------------
(* The invariant.                                                          *)

(* A Write keeps the invariant.                                            *)
LEMMA WriteKeeps ==
    ASSUME FrameInv, NEW n \in Nat, Write(n)
    PROVE  FrameInv'
<1>1. /\ layer # "" /\ wrote' = wrote + n /\ started' = TRUE
      /\ UNCHANGED <<layer, link, answered, heard, packs, got, astray>>
  BY DEF Write
<1> DEFINE b == Bytes(wrote + 1, wrote + n)
           a == Bytes(1, wrote)
<1>2. PICK w \in Written(b, ~started) : up' = up \o w
  BY DEF Write
<1>3. /\ FrameType /\ Carries(up, a) /\ wrote \in Nat /\ started \in BOOLEAN
  BY DEF FrameInv, FrameType, Carries
<1>4. b \in Seq(Atoms) /\ Of({"data"}, b)
  BY <1>3, BytesFrom
<1>5. a \o b = Bytes(1, wrote + n)
  BY <1>3, BytesGrow
<1> HIDE DEF a, b
<1>6. Carries(w, b)
  BY <1>2, <1>3, <1>4, WrittenCarries
<1>7. Carries(up \o w, a \o b)
  BY <1>3, <1>6, CarriesJoins
<1>8. Carries(up', Bytes(1, wrote'))
  <2>1. Bytes(1, wrote') = a \o b
    BY <1>1, <1>5
  <2>2. up' = up \o w
    BY <1>2
  <2> QED
    BY <2>1, <2>2, <1>7 DEF Carries
<1>9. wrote' \in Nat
  <2>1. wrote' = wrote + n
    BY <1>1
  <2>2. wrote \in Nat
    BY <1>3
  <2> QED
    BY <2>1, <2>2
<1>10. FrameType'
  BY <1>1, <1>3, <1>8, <1>9 DEF FrameType, Carries
<1>11. (DataOf(up) = Bytes(1, wrote) /\ WellFramed(up))'
  BY <1>8 DEF Carries
<1>12. ~link.failed /\ ~astray => Shape(link)'
  <2>1. Shape(link) <=> Shape(link)'
    BY <1>1, ShapeKept
  <2> QED
    BY <2>1, <1>1 DEF FrameInv
<1>13. /\ (astray => layer = "mux")'
       /\ (~astray => got = Bytes(1, Len(got)))'
       /\ (~link.failed /\ ~astray =>
              got \o DataOf(Stock(link)) = Bytes(1, heard))'
  BY <1>1 DEF FrameInv
<1> QED
  BY <1>1, <1>10, <1>11, <1>12, <1>13 DEF FrameInv

(* A link that nothing came over has the shape of every transport.         *)
LEMMA UntouchedShape ==
    ASSUME Untouched(link), ~answered, packs = 0,
           UNCHANGED <<link, answered, packs>>
    PROVE  Shape(link)'
<1> DEFINE l == link'
<1>0. l = link' /\ ~answered' /\ packs' = 0
  OBVIOUS
<1> HIDE DEF l
<1>1. /\ l.wire = <<>> /\ l.held = <<>> /\ l.under = <<>> /\ l.remain = 0
      /\ l.recv = 1 /\ ~l.opened /\ ~l.replied
  BY <1>0 DEF Untouched
<1> DEFINE e == <<>>
<1>2. /\ e \in Seq(Atoms) /\ Framed(e, 0) /\ Len(e) = 0
      /\ \A K : Of(K, e)
  <2>1. e \in Seq(Atoms) /\ Framed(e, 0) /\ Len(e) = 0
    BY FramedNone
  <2>2. \A K : Of(K, e)
    BY <2>1 DEF Of
  <2> QED
    BY <2>1, <2>2
<1>3. e \o e = e /\ After(e, 2) = e
  <2> HIDE DEF e
  <2>1. e \o e = e
    BY <1>2, JoinAssociates
  <2>2. After(e, 2) \in Seq(Atoms) /\ Len(After(e, 2)) = 0
    <3>1. e \in Seq(Atoms) /\ 2 \in Nat /\ Len(e) = 0 /\ ~(2 <= 0)
      BY <1>2
    <3> QED
      BY <3>1, Afters
  <2>3. After(e, 2) = e
    BY <2>2, Wires DEF e
  <2> QED
    BY <2>1, <2>3
<1>4. Muxed(e) /\ Ided(e)
  BY <1>2 DEF Muxed, Ided
<1>5. l.wire = e /\ l.held = e /\ l.under = e /\ l.under \o l.wire = e
  BY <1>1, <1>3
<1> HIDE DEF e
<1>6. Greeted(link)' /\ Body(link)' = e
  <2>1. e = <<>>
    BY DEF e
  <2> QED
    BY <2>1, <1>0, <1>1, <1>3, <1>5 DEF Greeted, Body
<1>7. RawShape(link)' /\ BufferShape(link)' /\ CountShape(link)'
  BY <1>0, <1>1, <1>2, <1>5, <1>6 DEF RawShape, BufferShape, CountShape, e
<1>8. WebShape(link)' /\ MuxShape(link)' /\ Sha1Shape(link)'
  BY <1>0, <1>1, <1>2, <1>4, <1>5 DEF WebShape, MuxShape, Sha1Shape, e
<1>9. SnellShape(link)'
  BY <1>0, <1>1, <1>2, <1>5, <1>6 DEF SnellShape, e
<1>10. NumberedShape(link)'
  <2>1. LedOff(link)'
    BY <1>0, <1>1, <1>5 DEF LedOff, e
  <2> QED
    BY <2>1, <1>0, <1>1, <1>2, <1>4, <1>5 DEF NumberedShape
<1>11. Of({"data"}, link.held)' /\ (link.under = <<>>)'
  BY <1>0, <1>1, <1>2, <1>5
<1> QED
  BY <1>0, <1>1, <1>2, <1>5, <1>7, <1>8, <1>9, <1>10, <1>11 DEF Shape, e

(* A new transport has written a well framed header, or nothing.           *)
LEMMA ConnectKeeps ==
    ASSUME FrameInv, Connect
    PROVE  FrameInv'
<1>1. /\ layer = "" /\ layer' \in Layers /\ up' = NewConn(layer')
      /\ UNCHANGED <<wrote, started, link, answered, heard, packs, got, astray>>
  BY DEF Connect
<1>2. /\ FrameType /\ link \in Links /\ Untouched(link) /\ ~answered
      /\ packs = 0 /\ wrote = 0 /\ ~astray
  BY <1>1 DEF FrameInv, FrameType
<1>3. Carries(up', <<>>)
  BY <1>1, NewConnCarries
<1>4. Bytes(1, 0) = <<>>
  BY BytesGrow
<1>5. (DataOf(up) = Bytes(1, wrote) /\ WellFramed(up))'
  BY <1>1, <1>2, <1>3, <1>4 DEF Carries
<1>6. FrameType'
  BY <1>1, <1>2, <1>3 DEF FrameType, Carries
<1>7. layer' # ""
  BY <1>1 DEF Layers, Ssr, Numbered, Vmess
<1>8. Shape(link)'
  BY <1>1, <1>2, UntouchedShape
<1>9. /\ (got = Bytes(1, Len(got)))' /\ ~astray'
      /\ (~link.failed => got \o DataOf(Stock(link)) = Bytes(1, heard))'
  BY <1>1, <1>2 DEF FrameInv
<1> QED
  BY <1>5, <1>6, <1>7, <1>8, <1>9 DEF FrameInv

(* The invariant holds before there is a transport.                        *)
LEMMA BeginsRight ==
    ASSUME FrameInit
    PROVE  FrameInv
<1> DEFINE e == <<>>
<1>1. /\ layer = "" /\ up = e /\ wrote = 0 /\ started = FALSE
      /\ answered = FALSE /\ heard = 0 /\ packs = 0 /\ got = e
      /\ link = [wire |-> <<>>, held |-> <<>>, under |-> <<>>, remain |-> 0,
                 recv |-> 1, opened |-> FALSE, replied |-> FALSE,
                 failed |-> FALSE]
      /\ astray = FALSE
  BY DEF FrameInit
<1>2. e \in Seq(Atoms) /\ Len(e) = 0 /\ e \o e = e /\ DataOf(e) = e
  BY FramedNone, JoinAssociates, DataOfNil
<1>3. Bytes(1, 0) = e
  BY BytesGrow
<1>4. link \in Links /\ Untouched(link)
  BY <1>1, <1>2 DEF Links, Untouched
<1>5. Stock(link) = e
  BY <1>1, <1>2 DEF Stock
<1>6. WellFramed(up) /\ DataOf(up) = e
  BY <1>1, CarriesNothing DEF Carries
<1> HIDE DEF e
<1>7. FrameType
  BY <1>1, <1>2, <1>4 DEF FrameType
<1>8. got = Bytes(1, Len(got)) /\ got \o DataOf(Stock(link)) = Bytes(1, heard)
  BY <1>1, <1>2, <1>3, <1>5
<1>9. DataOf(up) = Bytes(1, wrote)
  BY <1>1, <1>3, <1>6
<1> QED
  BY <1>1, <1>4, <1>6, <1>7, <1>8, <1>9 DEF FrameInv

(* Every step keeps the invariant.                                         *)
LEMMA StepsKeep ==
    ASSUME FrameInv, [FrameNext]_frameVars
    PROVE  FrameInv'
<1>1. CASE FrameNext
  <2>1. CASE Connect
    BY <2>1, ConnectKeeps
  <2>2. CASE \E n \in 1..MaxUp : Write(n)
    <3>1. PICK n \in 1..MaxUp : Write(n)
      BY <2>2
    <3> QED
      BY <3>1, WriteKeeps
  <2>3. CASE \E n \in 0..MaxDown : ServerWrites(n)
    <3>1. PICK n \in 0..MaxDown : ServerWrites(n)
      BY <2>3
    <3> QED
      BY <3>1, ServerKeeps
  <2>4. CASE \E room \in Rooms : Read(room) \/ Misread(room)
    <3>1. PICK room \in Rooms : Read(room) \/ Misread(room)
      BY <2>4
    <3> QED
      BY <3>1, ReadKeeps, MisreadKeeps
  <2> QED
    BY <1>1, <2>1, <2>2, <2>3, <2>4 DEF FrameNext
<1>2. CASE UNCHANGED frameVars
  <2>1. UNCHANGED <<layer, up, wrote, started, link, answered, heard, packs,
                    got, astray>>
    BY <1>2 DEF frameVars
  <2>2. Shape(link) <=> Shape(link)'
    BY <2>1, ShapeKept
  <2>3. FrameType' /\ (Untouched(link) <=> Untouched(link)')
    BY <2>1 DEF FrameInv, FrameType, Untouched
  <2> QED
    BY <2>1, <2>2, <2>3 DEF FrameInv
<1> QED
  BY <1>1, <1>2

(* What a transport has on the wire, has decrypted and has not decoded     *)
(* keeps the form that its reader relies on, and with the bytes read       *)
(* makes up the bytes sent, until the link fails, or the multiplexer has   *)
(* read one byte of a status.                                              *)
THEOREM WiresFit == FrameSpec => []FrameInv
<1>1. FrameInit => FrameInv
  BY BeginsRight
<1>2. FrameInv /\ [FrameNext]_frameVars => FrameInv'
  BY StepsKeep
<1> QED
  BY <1>1, <1>2, PTL DEF FrameSpec

(* In either direction, whatever the sizes of writes, pieces and buffers,  *)
(* a transport neither loses nor repeats nor reorders a byte, nor takes a  *)
(* part of a header for one, but for a multiplexer whose Read of a status  *)
(* was short.                                                              *)
THEOREM NothingIsLost == FrameSpec => []NothingLost
<1>1. FrameInv => NothingLost
  BY DEF FrameInv, NothingLost, Stock
<1> QED
  BY <1>1, WiresFit, PTL

-----------------------------------------------------------------------------
(* The dial of an outbound.                                                *)

Sockets   == Versions \cup {"gun", "pooled", "udp"}
Acquiring == {"dial", "gun", "pool", "listen"}
Wrapping  == {"tls", "websocket", "header", "iv", "request", "h2", "handshake",
              "associate", "resolve"}
Steps     == Acquiring \cup Wrapping \cup {"unsupported"}
Stages    == {"idle", "resolving", "connecting", "connected", "failed", "done"}

(* A plan opens one connection, unless it is refused at once.              *)
OpensOne(q) ==
    /\ q \in Seq(Steps) /\ Len(q) # 0
    /\ \A i, j \in 1..Len(q) :
          q[i] \in Acquiring /\ q[j] \in Acquiring => i = j
    /\ \E i \in 1..Len(q) : q[i] \in Acquiring \cup {"unsupported"}

(* The step of the plan that opens the connection is behind.               *)
Acquired == \E i \in 1..Len(Plan(proxy, call)) :
                i < at /\ Plan(proxy, call)[i] \in Acquiring

(* The sockets that an attempt of the race still has, and all others.      *)
Racing == {v \in Versions : racers[v] = "connected"}
Mine   == open \ Racing

DialType ==
    /\ proxy \in ParseProxy \cup {NoProxy}
    /\ call \in {"stream", "packet"}
    /\ at \in Nat
    /\ racers \in [Versions -> Stages]
    /\ open \subseteq Sockets
    /\ result \in {"dialing", "conn", "error", "closed"}
    /\ copier \in {"none", "copying", "ended"}

(* Where the call is in its plan; no step that is refused is behind it.    *)
OnPlan ==
    /\ proxy = NoProxy =>
          /\ at = 1 /\ result = "dialing" /\ open = {} /\ copier = "none"
          /\ \A v \in Versions : racers[v] = "idle"
    /\ proxy # NoProxy =>
          /\ result = "dialing" => at \in 1..Len(Plan(proxy, call))
          /\ result = "conn" => at = Len(Plan(proxy, call)) + 1
          /\ \A i \in 1..Len(Plan(proxy, call)) :
                i < at => Plan(proxy, call)[i] # "unsupported"

(* Both attempts start together, and what they have opened is known.       *)
RaceFits ==
    /\ racers["tcp4"] = "idle" => racers["tcp6"] = "idle"
    /\ \A v \in Versions : v \in open => racers[v] \in {"connected", "done"}
    /\ \A v \in Versions : racers[v] = "connected" => v \in open

(* A call that has failed or was closed holds at most what the goroutine   *)
(* of an association will close, unless it is one of the exceptions.       *)
LetGo ==
    \/ result = "error" /\ ClosesOnError(proxy, call)
    \/ result = "closed" /\ ClosesAlways(proxy, call)
    => Mine \subseteq (IF copier = "copying" THEN {"udp"} ELSE {})

(* Any other holds the one connection of its plan.                         *)
HoldsIts ==
    result \in {"dialing", "conn"} /\ copier = "none" =>
        IF proxy # NoProxy /\ Acquired THEN \E s \in Sockets : Mine = {s}
        ELSE Mine = {}

DialInv == DialType /\ OnPlan /\ RaceFits /\ LetGo /\ HoldsIts

(* A plan that opens a connection and wraps it opens one.                  *)
LEMMA Leads ==
    ASSUME NEW a \in Acquiring \cup {"unsupported"}, NEW t \in Seq(Wrapping)
    PROVE  OpensOne(<<a>> \o t)
<1> DEFINE q == <<a>> \o t
<1>1. /\ q \in Seq(Steps) /\ Len(q) = 1 + Len(t) /\ q[1] = a
      /\ \A i \in 2..Len(q) : q[i] \in Wrapping
  <2>1. <<a>> \in Seq(Steps) /\ t \in Seq(Steps)
    BY SeqMonotonic, Wrapping \subseteq Steps DEF Steps
  <2>2. <<a>> \o t \in Seq(Steps)
    BY <2>1, ConcatProperties
  <2>3. ASSUME NEW i \in 2..Len(q) PROVE q[i] \in Wrapping
    OBVIOUS
  <2> QED
    BY <2>1, <2>2, <2>3
<1>2. Acquiring \cap Wrapping = {} /\ Len(t) \in Nat
  BY DEF Acquiring, Wrapping
<1>3. ASSUME NEW i \in 1..Len(q), q[i] \in Acquiring PROVE i = 1
  BY <1>1, <1>2, <1>3
<1>4. 1 \in 1..Len(q) /\ Len(q) # 0
  BY <1>1, <1>2
<1> QED
  BY <1>1, <1>3, <1>4 DEF OpensOne

(* Resolving the server first opens nothing.                               *)
LEMMA LedByResolve ==
    ASSUME NEW q, OpensOne(q)
    PROVE  OpensOne(<<"resolve">> \o q)
<1> DEFINE r == <<"resolve">> \o q
<1>1. q \in Seq(Steps) /\ Len(q) \in Nat /\ Len(q) # 0
  BY DEF OpensOne
<1>2. r \in Seq(Steps)
  <2>1. <<"resolve">> \in Seq(Steps)
    BY DEF Steps, Wrapping
  <2> QED
    BY <1>1, <2>1, ConcatProperties
<1>3. /\ Len(r) = 1 + Len(q) /\ r[1] = "resolve"
      /\ \A i \in 1..Len(q) : i + 1 \in 1..Len(r) /\ r[i + 1] = q[i]
  BY <1>1
<1>4. ASSUME NEW i \in 1..Len(r), r[i] \in Acquiring
      PROVE  i - 1 \in 1..Len(q) /\ q[i - 1] = r[i]
  <2>1. i # 1
    BY <1>3, <1>4 DEF Acquiring
  <2>2. i - 1 \in 1..Len(q) /\ (i - 1) + 1 = i
    BY <2>1, <1>1, <1>3
  <2> QED
    BY <2>2, <1>3
<1>5. ASSUME NEW i \in 1..Len(r), NEW j \in 1..Len(r),
             r[i] \in Acquiring, r[j] \in Acquiring
      PROVE  i = j
  <2>1. i - 1 = j - 1
    BY <1>4, <1>5 DEF OpensOne
  <2> QED
    BY <2>1
<1>6. \E i \in 1..Len(r) : r[i] \in Acquiring \cup {"unsupported"}
  BY <1>3 DEF OpensOne
<1> HIDE DEF r
<1>7. Len(r) # 0
  BY <1>1, <1>3
<1> QED
  BY <1>2, <1>5, <1>6, <1>7 DEF OpensOne, r

(* The layers that a plan puts on its connection.                          *)
LEMMA LayersWrap ==
    ASSUME NEW p
    PROVE  /\ Tls(p) \in Seq(Wrapping) /\ SsStream(p) \in Seq(Wrapping)
           /\ SsrStream \in Seq(Wrapping) /\ PlainStream(p) \in Seq(Wrapping)
           /\ TrojanStream(p) \in Seq(Wrapping)
           /\ VmessStream(p) \in Seq(Wrapping) /\ SnellStream \in Seq(Wrapping)
           /\ SocksStream(p) \in Seq(Wrapping)
           /\ HttpStream(p) \in Seq(Wrapping)
<1>1. /\ {"tls", "websocket", "header", "iv", "request", "h2", "handshake"}
             \subseteq Wrapping
      /\ \A a \in Wrapping : <<a>> \in Seq(Wrapping)
      /\ <<>> \in Seq(Wrapping)
  <2>1. {"tls", "websocket", "header", "iv", "request", "h2", "handshake"}
           \subseteq Wrapping
    BY DEF Wrapping
  <2>2. \A a \in Wrapping : <<a>> \in Seq(Wrapping)
    OBVIOUS
  <2>3. <<>> \in Seq(Wrapping)
    BY EmptySeq
  <2> QED
    BY <2>1, <2>2, <2>3
<1>2. \A a, b \in Wrapping : <<a, b>> \in Seq(Wrapping)
  OBVIOUS
<1>3. \A a, b, c \in Wrapping : <<a, b, c>> \in Seq(Wrapping)
  OBVIOUS
<1>4. Tls(p) \in Seq(Wrapping)
  BY <1>1 DEF Tls
<1>5. PlainStream(p) \in Seq(Wrapping)
  BY <1>1 DEF PlainStream
<1>6. SsStream(p) \in Seq(Wrapping)
  <2>1. (IF p.network = "websocket" THEN <<"websocket">> ELSE <<>>)
           \in Seq(Wrapping)
    BY <1>1
  <2> QED
    BY <1>1, <2>1, ConcatProperties DEF SsStream
<1>7. TrojanStream(p) \in Seq(Wrapping)
  BY <1>1, <1>5, ConcatProperties DEF TrojanStream
<1>8. SocksStream(p) \in Seq(Wrapping) /\ HttpStream(p) \in Seq(Wrapping)
  BY <1>1, <1>4, ConcatProperties DEF SocksStream, HttpStream
<1>9. Tls(p) \o <<"request">> \in Seq(Wrapping)
  BY <1>1, <1>4, ConcatProperties
<1>10. VmessStream(p) \in Seq(Wrapping)
  <2>1. /\ <<"websocket", "request">> \in Seq(Wrapping)
        /\ <<"tls", "h2", "request">> \in Seq(Wrapping)
    BY <1>1, <1>2, <1>3
  <2> QED
    BY <1>9, <2>1 DEF VmessStream
<1> QED
  BY <1>1, <1>2, <1>4, <1>5, <1>6, <1>7, <1>8, <1>10
  DEF SsrStream, SnellStream

(* The plans of one and of two steps.                                      *)
LEMMA PairOpens ==
    ASSUME NEW a \in Acquiring, NEW b \in Wrapping
    PROVE  OpensOne(<<a, b>>) /\ OpensOne(<<a>>)
<1>1. <<b>> \in Seq(Wrapping) /\ <<>> \in Seq(Wrapping)
  BY EmptySeq
<1>2. <<a, b>> = <<a>> \o <<b>>
  <2>1. <<a>> \in Seq(Steps) /\ <<b>> \in Seq(Steps) /\ <<a, b>> \in Seq(Steps)
    BY DEF Steps
  <2>2. Len(<<a>> \o <<b>>) = 2 /\ <<a>> \o <<b>> \in Seq(Steps)
    BY <2>1, ConcatProperties
  <2>3. \A i \in 1..2 : <<a, b>>[i] = (<<a>> \o <<b>>)[i]
    BY <2>1, ConcatProperties
  <2>4. Len(<<a, b>>) = 2
    OBVIOUS
  <2> QED
    BY <2>1, <2>2, <2>3, <2>4, SeqEqual
<1>3. <<a>> \in Seq(Acquiring)
  OBVIOUS
<1>4. <<a>> \o <<>> = <<a>>
  BY <1>3, ConcatEmptySeq
<1> QED
  BY <1>1, <1>2, <1>4, Leads

Outbounds == {"ss", "ssr", "trojan", "vmess", "snell", "socks5", "http",
              "direct"}

(* The constructors accept eight types.                                    *)
LEMMA TypeKnown ==
    ASSUME NEW p \in ParseProxy
    PROVE  p.type \in Outbounds
  BY DEF ParseProxy, NewShadowSocks, NewShadowSocksR, NewTrojan, newVmess,
         NewSnell, NewSocks5, NewHttp, NewDirect, Kind, Outbounds

(* Every plan of every outbound opens one connection, or is refused.       *)
THEOREM PlansOpenOne ==
    ASSUME NEW p \in ParseProxy, NEW c \in {"stream", "packet"}
    PROVE  OpensOne(Plan(p, c))
<1>1. /\ {"dial", "gun", "pool", "listen"} \subseteq Acquiring
      /\ {"header", "request", "resolve"} \subseteq Wrapping
  BY DEF Acquiring, Wrapping
<1>2. ASSUME NEW t \in Seq(Wrapping) PROVE OpensOne(<<"dial">> \o t)
  BY <1>1, Leads
<1>3. /\ OpensOne(<<"gun", "header">>) /\ OpensOne(<<"gun", "request">>)
      /\ OpensOne(<<"pool", "header">>) /\ OpensOne(<<"dial", "header">>)
      /\ OpensOne(<<"listen", "resolve">>) /\ OpensOne(<<"dial">>)
      /\ OpensOne(<<"listen">>)
  BY <1>1, PairOpens
<1>4. /\ Tls(p) \in Seq(Wrapping) /\ SsStream(p) \in Seq(Wrapping)
      /\ SsrStream \in Seq(Wrapping) /\ PlainStream(p) \in Seq(Wrapping)
      /\ TrojanStream(p) \in Seq(Wrapping)
      /\ VmessStream(p) \in Seq(Wrapping) /\ SnellStream \in Seq(Wrapping)
      /\ SocksStream(p) \in Seq(Wrapping) /\ HttpStream(p) \in Seq(Wrapping)
  BY LayersWrap
<1>5. OpensOne(SsDial(p)) /\ OpensOne(SsrDial) /\ OpensOne(DirectDial)
  BY <1>2, <1>3, <1>4 DEF SsDial, SsrDial, DirectDial
<1>6. /\ OpensOne(TrojanDial(p)) /\ OpensOne(VmessDial(p))
      /\ OpensOne(SnellDial(p))
  BY <1>2, <1>3, <1>4 DEF TrojanDial, VmessDial, SnellDial
<1>7. OpensOne(SocksDial(p)) /\ OpensOne(HttpDial(p))
  BY <1>2, <1>4 DEF SocksDial, HttpDial
<1>8. /\ OpensOne(SsListen) /\ OpensOne(SsrListen) /\ OpensOne(SnellListen)
      /\ OpensOne(DirectListen)
  BY <1>3 DEF SsListen, SsrListen, SnellListen, DirectListen
<1>9. OpensOne(TrojanListen(p))
  <2>1. <<"header">> \in Seq(Wrapping) /\ <<"dial">> \in Seq(Steps)
    BY DEF Wrapping, Steps, Acquiring
  <2>2. PlainStream(p) \o <<"header">> \in Seq(Wrapping)
    BY <1>4, <2>1, ConcatProperties
  <2>3. <<"dial">> \o PlainStream(p) \o <<"header">>
           = <<"dial">> \o (PlainStream(p) \o <<"header">>)
    BY <1>4, <2>1, ConcatAssociative, SeqMonotonic, Wrapping \subseteq Steps
    DEF Steps
  <2> QED
    BY <1>2, <1>3, <2>2, <2>3 DEF TrojanListen
<1>10. OpensOne(VmessListen(p))
  BY <1>6, LedByResolve DEF VmessListen
<1>11. OpensOne(SocksListen(p))
  <2> DEFINE t == <<"handshake", "associate", "resolve">>
  <2>1. t \in Seq(Wrapping) /\ <<"dial">> \in Seq(Steps)
    BY DEF Wrapping, Steps, Acquiring
  <2> HIDE DEF t
  <2>2. Tls(p) \o t \in Seq(Wrapping)
    BY <1>4, <2>1, ConcatProperties
  <2>3. Tls(p) \in Seq(Steps) /\ t \in Seq(Steps)
    BY <1>4, <2>1, SeqMonotonic, Wrapping \subseteq Steps DEF Steps
  <2>4. <<"dial">> \o Tls(p) \o t = <<"dial">> \o (Tls(p) \o t)
    BY <2>1, <2>3, ConcatAssociative
  <2>5. OpensOne(<<"dial">> \o Tls(p) \o t)
    BY <1>2, <2>2, <2>4
  <2> QED
    BY <2>5 DEF SocksListen, t
<1>12. OpensOne(BaseListen)
  <2>1. "unsupported" \in Acquiring \cup {"unsupported"}
    OBVIOUS
  <2>2. <<>> \in Seq(Wrapping) /\ <<"unsupported">> \in Seq(Steps)
    BY EmptySeq DEF Steps
  <2>3. OpensOne(<<"unsupported">> \o <<>>)
    BY <2>1, <2>2, Leads
  <2>4. <<"unsupported">> \o <<>> = <<"unsupported">>
    BY <2>2, ConcatEmptySeq
  <2> QED
    BY <2>3, <2>4 DEF BaseListen
<1>13. p.type \in Outbounds
  BY TypeKnown
<1> QED
  BY <1>5, <1>6, <1>7, <1>8, <1>9, <1>10, <1>11, <1>12, <1>13
  DEF Plan, Outbounds

(* Facts of the plan that a call follows.                                  *)
LEMMA OnItsPlan ==
    ASSUME DialInv, proxy # NoProxy
    PROVE  /\ OpensOne(Plan(proxy, call)) /\ Len(Plan(proxy, call)) \in Nat
           /\ at \in Nat
           /\ result = "dialing" => at \in 1..Len(Plan(proxy, call))
<1>1. proxy \in ParseProxy /\ call \in {"stream", "packet"} /\ at \in Nat
  BY DEF DialInv, DialType
<1>2. OpensOne(Plan(proxy, call))
  BY <1>1, PlansOpenOne
<1>3. Len(Plan(proxy, call)) \in Nat
  BY <1>2 DEF OpensOne
<1> QED
  BY <1>1, <1>2, <1>3 DEF DialInv, OnPlan

(* What the call has once the step it was at is done.                      *)
LEMMA StepDone ==
    ASSUME DialInv, proxy # NoProxy, result = "dialing",
           Coming # "unsupported", at' = at + 1, UNCHANGED <<proxy, call>>,
           result' = IF at = Len(Plan(proxy, call)) THEN "conn" ELSE "dialing"
    PROVE  /\ OnPlan' /\ at' \in Nat /\ result' \in {"conn", "dialing"}
           /\ Coming \in Acquiring => ~Acquired /\ Acquired'
           /\ Coming \notin Acquiring => (Acquired <=> Acquired')
<1> DEFINE q == Plan(proxy, call)
<1>1. /\ OpensOne(q) /\ Len(q) \in Nat /\ at \in 1..Len(q)
      /\ q = Plan(proxy, call)' /\ Coming = q[at] /\ at \in Nat
  BY OnItsPlan DEF Coming
<1>2. \A i \in 1..Len(q) : i < at => q[i] # "unsupported"
  BY DEF DialInv, OnPlan
<1>3. /\ at' = at + 1
      /\ result' = IF at = Len(q) THEN "conn" ELSE "dialing"
  OBVIOUS
<1> DEFINE m == Len(q)
<1>4. /\ result' = "dialing" => at' \in 1..m
      /\ result' = "conn" => at' = m + 1
      /\ result' \in {"conn", "dialing"} /\ at' \in Nat
      /\ \A i \in 1..m : (i < at' <=> i < at \/ i = at)
  <2>1. m \in Nat /\ at \in 1..m /\ at' = at + 1
    BY <1>1, <1>3
  <2>2. result' = IF at = m THEN "conn" ELSE "dialing"
    BY <1>3
  <2> HIDE DEF m
  <2>3. at' \in Nat /\ (at # m => at' \in 1..m)
    BY <2>1
  <2>4. \A i \in 1..m : (i < at' <=> i < at \/ i = at)
    BY <2>1
  <2> QED
    BY <2>1, <2>2, <2>3, <2>4
<1> HIDE DEF q
<1>5. \A i \in 1..Len(q) : i < at' => q[i] # "unsupported"
  BY <1>1, <1>2, <1>4
<1>6. OnPlan'
  BY <1>1, <1>4, <1>5 DEF OnPlan, q
<1>7. /\ Acquired <=> \E i \in 1..Len(q) : i < at /\ q[i] \in Acquiring
      /\ Acquired' <=> \E i \in 1..Len(q) : i < at' /\ q[i] \in Acquiring
  BY <1>1 DEF Acquired, q
<1>8. Coming \in Acquiring => ~Acquired /\ Acquired'
  <2>1. SUFFICES ASSUME q[at] \in Acquiring PROVE ~Acquired /\ Acquired'
    BY <1>1
  <2>2. ASSUME NEW i \in 1..Len(q), i < at, q[i] \in Acquiring PROVE FALSE
    <3>1. i = at
      BY <1>1, <2>1, <2>2 DEF OpensOne
    <3> QED
      BY <3>1, <2>2, <1>1
  <2> QED
    BY <1>1, <1>4, <1>7, <2>1, <2>2
<1>9. Coming \notin Acquiring => (Acquired <=> Acquired')
  BY <1>1, <1>4, <1>7
<1> QED
  BY <1>4, <1>6, <1>8, <1>9

(* A call that fails keeps only what a goroutine will close.               *)
LEMMA FailKeeps ==
    ASSUME DialInv, proxy # NoProxy, result = "dialing", Fail(open),
           UNCHANGED <<proxy, call, copier>>, RaceFits',
           racers' \in [Versions -> Stages],
           \A v \in Versions : racers[v] = "connected" => v \in Racing'
    PROVE  DialInv'
<1>1. /\ result' = "error" /\ at' = at
      /\ open' = (open \cap LeftToOthers)
                    \cup safeConnClose(open \ LeftToOthers)
  BY DEF Fail
<1>2. safeConnClose(open \ LeftToOthers) \subseteq open
  BY DEF safeConnClose
<1>3. DialType'
  BY <1>1, <1>2 DEF DialInv, DialType
<1>4. OnPlan'
  BY <1>1 DEF DialInv, OnPlan
<1>5. HoldsIts'
  BY <1>1 DEF HoldsIts
<1>6. LetGo'
  <2>1. SUFFICES ASSUME ClosesOnError(proxy, call)
                 PROVE  Mine' \subseteq (IF copier = "copying" THEN {"udp"}
                                         ELSE {})
    BY <1>1 DEF LetGo
  <2>2. open' = open \cap LeftToOthers
    BY <1>1, <2>1 DEF safeConnClose
  <2>3. ASSUME NEW v \in Versions, v \in open \cap LeftToOthers
        PROVE  v \in Racing'
    <3>1. racers[v] # "done"
      BY <2>3 DEF LeftToOthers, Versions
    <3> QED
      BY <3>1, <2>3 DEF DialInv, RaceFits
  <2> QED
    BY <2>2, <2>3 DEF Mine, LeftToOthers
<1> QED
  BY <1>3, <1>4, <1>5, <1>6 DEF DialInv

(* A step that opens the connection of the plan.                           *)
LEMMA AcquireKeeps ==
    ASSUME DialInv, proxy # NoProxy, result = "dialing", Coming \in Acquiring,
           NEW s \in {"gun", "pooled", "udp"}, Succeed(open \cup {s}),
           UNCHANGED <<proxy, call, racers, copier>>
    PROVE  DialInv'
<1>1. /\ open' = open \cup {s} /\ at' = at + 1
      /\ result' = IF at = Len(Plan(proxy, call)) THEN "conn" ELSE "dialing"
  BY DEF Succeed
<1>2. Coming # "unsupported"
  BY DEF Acquiring
<1>3. /\ OnPlan' /\ at' \in Nat /\ result' \in {"conn", "dialing"}
      /\ ~Acquired /\ Acquired'
  BY <1>1, <1>2, StepDone
<1>4. s \notin Versions /\ s \in Sockets
  BY DEF Versions, Sockets
<1>5. DialType' /\ RaceFits'
  BY <1>1, <1>3, <1>4 DEF DialInv, DialType, RaceFits
<1>6. LetGo'
  BY <1>3 DEF LetGo
<1>7. HoldsIts'
  <2>1. SUFFICES ASSUME copier = "none" PROVE Mine' = {s}
    BY <1>3, <1>4 DEF HoldsIts
  <2>2. Mine = {}
    BY <1>3, <2>1 DEF DialInv, HoldsIts
  <2>3. Racing' = Racing /\ s \notin Racing
    BY <1>4 DEF Racing
  <2> QED
    BY <1>1, <2>2, <2>3 DEF Mine
<1> QED
  BY <1>3, <1>5, <1>6, <1>7 DEF DialInv

(* An attempt of the race, or its result, alters nothing else.             *)
LEMMA RaceKeeps ==
    ASSUME DialInv, DialType', RaceFits', proxy # NoProxy, Mine' = Mine,
           UNCHANGED <<proxy, call, at, result, copier>>
    PROVE  DialInv'
<1>1. OnPlan'
  BY DEF DialInv, OnPlan
<1>2. LetGo'
  BY DEF DialInv, LetGo
<1>3. HoldsIts'
  <2>1. Acquired' <=> Acquired
    BY DEF Acquired
  <2> QED
    BY <2>1 DEF DialInv, HoldsIts
<1> QED
  BY <1>1, <1>2, <1>3 DEF DialInv

(* Where a racer is in its attempt, a call has been made.                  *)
LEMMA RacersAreIdle ==
    ASSUME DialInv, NEW v \in Versions, racers[v] # "idle"
    PROVE  proxy # NoProxy
  BY DEF DialInv, OnPlan

(* A new call is at the first step of its plan and has opened nothing.     *)
LEMMA DialOutKeeps ==
    ASSUME DialInv, NEW p \in ParseProxy, NEW c \in {"stream", "packet"},
           DialOut(p, c)
    PROVE  DialInv'
<1>1. /\ proxy = NoProxy /\ proxy' = p /\ call' = c /\ at = 1 /\ open = {}
      /\ result = "dialing" /\ copier = "none"
      /\ \A v \in Versions : racers[v] = "idle"
      /\ UNCHANGED <<at, racers, open, result, copier>>
  BY DEF DialOut, DialInv, OnPlan
<1>2. OpensOne(Plan(p, c))
  BY PlansOpenOne
<1>3. p # NoProxy
  <2>1. NoProxy.type = "none"
    BY DEF NoProxy
  <2>2. p.type # "none"
    BY TypeKnown DEF Outbounds
  <2> QED
    BY <2>1, <2>2
<1>4. /\ Len(Plan(p, c)) \in Nat \ {0}
      /\ 1 \in 1..Len(Plan(p, c))
      /\ \A i \in 1..Len(Plan(p, c)) : ~(i < 1)
  <2>1. Len(Plan(p, c)) \in Nat /\ Len(Plan(p, c)) # 0
    BY <1>2 DEF OpensOne
  <2> QED
    BY <2>1
<1>5. DialType' /\ RaceFits'
  BY <1>1 DEF DialInv, DialType, RaceFits
<1>6. OnPlan'
  <2>1. Plan(proxy, call)' = Plan(p, c)
    BY <1>1
  <2> QED
    BY <1>1, <1>3, <1>4, <2>1 DEF OnPlan
<1>7. LetGo'
  BY <1>1 DEF LetGo
<1>8. HoldsIts'
  <2>1. ~Acquired' /\ Mine' = {}
    BY <1>1, <1>4 DEF Acquired, Mine
  <2> QED
    BY <2>1 DEF HoldsIts
<1> QED
  BY <1>5, <1>6, <1>7, <1>8 DEF DialInv

(* The race starts with no socket open.                                    *)
LEMMA StartRaceKeeps ==
    ASSUME DialInv, StartRace
    PROVE  DialInv'
<1>1. /\ proxy # NoProxy /\ racers["tcp4"] = "idle"
      /\ racers' = [v \in Versions |-> "resolving"]
      /\ UNCHANGED <<proxy, call, at, open, result, copier>>
  BY DEF StartRace, AtStep
<1>2. \A v \in Versions : racers[v] = "idle"
  BY <1>1 DEF DialInv, RaceFits, Versions
<1>3. \A v \in Versions : v \notin open /\ racers'[v] = "resolving"
  BY <1>1, <1>2 DEF DialInv, RaceFits
<1>4. DialType' /\ RaceFits'
  BY <1>1, <1>3 DEF DialInv, DialType, RaceFits, Stages, Versions
<1>5. Racing = {} /\ Racing' = {}
  BY <1>2, <1>3 DEF Racing
<1>6. Mine' = Mine
  BY <1>1, <1>5 DEF Mine
<1> QED
  BY <1>1, <1>4, <1>6, RaceKeeps

(* One attempt has come to another stage.                                  *)
LEMMA RacerMoves ==
    ASSUME DialInv, NEW v \in Versions, NEW s \in Stages \ {"idle"},
           racers[v] # "idle", racers' = [racers EXCEPT ![v] = s]
    PROVE  /\ racers' \in [Versions -> Stages] /\ racers'[v] = s
           /\ \A u \in Versions : u # v => racers'[u] = racers[u]
           /\ racers'["tcp4"] = "idle" => racers'["tcp6"] = "idle"
           /\ proxy # NoProxy
<1>1. racers \in [Versions -> Stages]
  BY DEF DialInv, DialType
<1>2. /\ racers' \in [Versions -> Stages] /\ racers'[v] = s
      /\ \A u \in Versions : u # v => racers'[u] = racers[u]
  BY <1>1
<1>3. racers'["tcp4"] = "idle" => racers'["tcp6"] = "idle"
  BY <1>2 DEF DialInv, RaceFits, Versions
<1> QED
  BY <1>2, <1>3, RacersAreIdle

(* An attempt that resolves has no socket yet.                             *)
LEMMA RacerResolvesKeeps ==
    ASSUME DialInv, NEW v \in Versions, RacerResolves(v)
    PROVE  DialInv'
<1>1. /\ racers[v] = "resolving"
      /\ UNCHANGED <<proxy, call, at, open, result, copier>>
  BY DEF RacerResolves
<1>2. PICK s \in {"connecting", "failed"} : racers' = [racers EXCEPT ![v] = s]
  BY DEF RacerResolves
<1>3. /\ racers' \in [Versions -> Stages] /\ racers'[v] = s
      /\ \A u \in Versions : u # v => racers'[u] = racers[u]
      /\ racers'["tcp4"] = "idle" => racers'["tcp6"] = "idle"
      /\ proxy # NoProxy
  <2>1. s \in Stages \ {"idle"}
    BY DEF Stages
  <2> QED
    BY <1>1, <1>2, <2>1, RacerMoves
<1>4. v \notin open
  BY <1>1 DEF DialInv, RaceFits
<1>5. DialType' /\ RaceFits'
  BY <1>1, <1>3, <1>4 DEF DialInv, DialType, RaceFits
<1>6. Racing' = Racing
  BY <1>1, <1>2, <1>3 DEF Racing
<1>7. Mine' = Mine
  BY <1>1, <1>6 DEF Mine
<1> QED
  BY <1>1, <1>3, <1>5, <1>7, RaceKeeps

(* The socket of an attempt is the attempt's own.                          *)
LEMMA RacerConnectsKeeps ==
    ASSUME DialInv, NEW v \in Versions, RacerConnects(v)
    PROVE  DialInv'
<1>1. /\ racers[v] = "connecting"
      /\ UNCHANGED <<proxy, call, at, result, copier>>
  BY DEF RacerConnects
<1>2. v \notin open
  BY <1>1 DEF DialInv, RaceFits
<1>3. PICK s \in {"connected", "failed"} :
        /\ racers' = [racers EXCEPT ![v] = s]
        /\ open' = IF s = "connected" THEN open \cup {v} ELSE open
  BY DEF RacerConnects
<1>4. /\ racers' \in [Versions -> Stages] /\ racers'[v] = s
      /\ \A u \in Versions : u # v => racers'[u] = racers[u]
      /\ racers'["tcp4"] = "idle" => racers'["tcp6"] = "idle"
      /\ proxy # NoProxy
  <2>1. s \in Stages \ {"idle"}
    BY DEF Stages
  <2> QED
    BY <1>1, <1>3, <2>1, RacerMoves
<1>5. DialType' /\ RaceFits'
  BY <1>1, <1>2, <1>3, <1>4 DEF DialInv, DialType, RaceFits, Sockets
<1>6. Racing' = IF s = "connected" THEN Racing \cup {v} ELSE Racing
  BY <1>1, <1>3, <1>4 DEF Racing
<1>7. Mine' = Mine
  BY <1>2, <1>3, <1>6 DEF Mine
<1> QED
  BY <1>1, <1>4, <1>5, <1>7, RaceKeeps

(* The loser of the race closes its socket.                                *)
LEMMA GiveUpKeeps ==
    ASSUME DialInv, NEW v \in Versions, GiveUp(v)
    PROVE  DialInv'
<1>1. /\ racers[v] \in {"connected", "failed"}
      /\ racers' = [racers EXCEPT ![v] = "done"] /\ open' = open \ {v}
      /\ UNCHANGED <<proxy, call, at, result, copier>>
  BY DEF GiveUp
<1>2. /\ racers' \in [Versions -> Stages] /\ racers'[v] = "done"
      /\ \A u \in Versions : u # v => racers'[u] = racers[u]
      /\ racers'["tcp4"] = "idle" => racers'["tcp6"] = "idle"
      /\ proxy # NoProxy
  <2>1. "done" \in Stages \ {"idle"}
    BY DEF Stages
  <2> QED
    BY <1>1, <2>1, RacerMoves
<1>3. DialType' /\ RaceFits'
  BY <1>1, <1>2 DEF DialInv, DialType, RaceFits
<1>4. Racing' = Racing \ {v}
  BY <1>1, <1>2 DEF Racing
<1>5. v \in open => v \in Racing
  BY <1>1 DEF DialInv, RaceFits, Racing
<1>6. Mine' = Mine
  BY <1>1, <1>4, <1>5 DEF Mine
<1> QED
  BY <1>1, <1>2, <1>3, <1>6, RaceKeeps

(* The first attempt that succeeds hands its socket to the dial; the dial  *)
(* fails with the second failure.                                          *)
LEMMA DeliverKeeps ==
    ASSUME DialInv, NEW v \in Versions, Deliver(v)
    PROVE  DialInv'
<1>1. /\ proxy # NoProxy /\ result = "dialing" /\ Coming = "dial"
      /\ racers[v] \in {"connected", "failed"}
      /\ racers' = [racers EXCEPT ![v] = "done"]
      /\ UNCHANGED <<proxy, call, copier>>
      /\ \/ racers[v] = "connected" /\ Succeed(open)
         \/ racers[v] = "failed" /\ Fail(open)
         \/ racers[v] = "failed" /\ UNCHANGED <<at, open, result>>
  BY DEF Deliver, AtStep
<1>2. /\ racers' \in [Versions -> Stages] /\ racers'[v] = "done"
      /\ \A u \in Versions : u # v => racers'[u] = racers[u]
      /\ racers'["tcp4"] = "idle" => racers'["tcp6"] = "idle"
  <2>1. "done" \in Stages \ {"idle"}
    BY DEF Stages
  <2> QED
    BY <1>1, <2>1, RacerMoves
<1>3. open \cap (LeftToOthers \cap Versions) \subseteq open'
         /\ open' \subseteq open => RaceFits'
  BY <1>1, <1>2 DEF DialInv, RaceFits, LeftToOthers
<1>4. Racing' = Racing \ {v}
  BY <1>2 DEF Racing
<1>5. CASE racers[v] = "connected" /\ Succeed(open)
  <2>1. /\ open' = open /\ at' = at + 1
        /\ result' = IF at = Len(Plan(proxy, call)) THEN "conn" ELSE "dialing"
    BY <1>5 DEF Succeed
  <2>2. Coming \in Acquiring /\ Coming # "unsupported"
    BY <1>1 DEF Acquiring
  <2>3. /\ OnPlan' /\ at' \in Nat /\ result' \in {"conn", "dialing"}
        /\ ~Acquired /\ Acquired'
    BY <1>1, <2>1, <2>2, StepDone
  <2>4. DialType' /\ RaceFits'
    BY <1>1, <1>2, <1>3, <2>1, <2>3 DEF DialInv, DialType
  <2>5. LetGo'
    BY <2>3 DEF LetGo
  <2>6. HoldsIts'
    <3>1. SUFFICES ASSUME copier = "none" PROVE v \in Sockets /\ Mine' = {v}
      BY <1>1, <2>3 DEF HoldsIts
    <3>2. Mine = {}
      BY <1>1, <2>3, <3>1 DEF DialInv, HoldsIts
    <3>3. v \in Racing /\ v \in Sockets
      BY <1>5 DEF Racing, Sockets
    <3>4. v \in open
      BY <1>5 DEF DialInv, RaceFits
    <3> QED
      BY <1>4, <2>1, <3>2, <3>3, <3>4 DEF Mine
  <2> QED
    BY <2>3, <2>4, <2>5, <2>6 DEF DialInv
<1>6. CASE racers[v] = "failed" /\ Fail(open)
  <2>1. /\ open' \subseteq open
        /\ open \cap (LeftToOthers \cap Versions) \subseteq open'
    BY <1>6 DEF Fail, safeConnClose
  <2>2. \A u \in Versions : racers[u] = "connected" => u \in Racing'
    BY <1>2, <1>6 DEF Racing
  <2> QED
    BY <1>1, <1>2, <1>3, <1>6, <2>1, <2>2, FailKeeps
<1>7. CASE racers[v] = "failed" /\ UNCHANGED <<at, open, result>>
  <2>1. Mine' = Mine
    BY <1>4, <1>7 DEF Mine, Racing
  <2>2. DialType' /\ RaceFits'
    BY <1>1, <1>2, <1>3, <1>7 DEF DialInv, DialType
  <2> QED
    BY <1>1, <1>7, <2>1, <2>2, RaceKeeps
<1> QED
  BY <1>1, <1>5, <1>6, <1>7

(* At a step other than the dial, a failure leaves the race as it is.      *)
LEMMA FailsElsewhere ==
    ASSUME DialInv, proxy # NoProxy, result = "dialing", Fail(open),
           UNCHANGED <<proxy, call, racers, copier>>
    PROVE  DialInv'
<1>1. /\ open' \subseteq open
      /\ open \cap (LeftToOthers \cap Versions) \subseteq open'
  BY DEF Fail, safeConnClose
<1>2. \A v \in Versions : racers[v] = "connected" => v \in LeftToOthers
  BY DEF LeftToOthers
<1>3. RaceFits'
  BY <1>1, <1>2 DEF DialInv, RaceFits
<1>4. racers' \in [Versions -> Stages]
  BY DEF DialInv, DialType
<1>5. \A v \in Versions : racers[v] = "connected" => v \in Racing'
  BY DEF Racing
<1> QED
  BY <1>3, <1>4, <1>5, FailKeeps

(* The gRPC transport, the pool and a listening socket are opened, or the  *)
(* call fails.                                                             *)
LEMMA OpenKeeps ==
    ASSUME DialInv, OpenGun \/ TakeFromPool \/ ListenPacket
    PROVE  DialInv'
<1>1. /\ proxy # NoProxy /\ result = "dialing"
      /\ UNCHANGED <<proxy, call, racers, copier>>
      /\ Coming \in Acquiring
  BY DEF OpenGun, TakeFromPool, ListenPacket, AtStep, Acquiring
<1>2. \/ Succeed(open \cup {"gun"}) \/ Succeed(open \cup {"pooled"})
      \/ Succeed(open \cup {"udp"}) \/ Fail(open)
  BY DEF OpenGun, TakeFromPool, ListenPacket
<1>3. CASE Succeed(open \cup {"gun"})
  BY <1>1, <1>3, AcquireKeeps
<1>4. CASE Succeed(open \cup {"pooled"})
  BY <1>1, <1>4, AcquireKeeps
<1>5. CASE Succeed(open \cup {"udp"})
  BY <1>1, <1>5, AcquireKeeps
<1>6. CASE Fail(open)
  BY <1>1, <1>6, FailsElsewhere
<1> QED
  BY <1>2, <1>3, <1>4, <1>5, <1>6

(* An association adds a socket that its goroutine closes.                 *)
LEMMA AssociateKeeps ==
    ASSUME DialInv, Associate
    PROVE  DialInv'
<1>1. /\ proxy # NoProxy /\ result = "dialing" /\ Coming = "associate"
      /\ UNCHANGED <<proxy, call, racers>>
  BY DEF Associate, AtStep
<1>2. CASE Succeed(open \cup {"udp"}) /\ copier' = "copying"
  <2>1. /\ open' = open \cup {"udp"} /\ at' = at + 1
        /\ result' = IF at = Len(Plan(proxy, call)) THEN "conn" ELSE "dialing"
    BY <1>2 DEF Succeed
  <2>2. OnPlan' /\ at' \in Nat /\ result' \in {"conn", "dialing"}
    BY <1>1, <2>1, StepDone
  <2>3. DialType' /\ RaceFits'
    BY <1>1, <1>2, <2>1, <2>2
    DEF DialInv, DialType, RaceFits, Sockets, Versions
  <2>4. LetGo' /\ HoldsIts'
    BY <1>2, <2>2 DEF LetGo, HoldsIts
  <2> QED
    BY <2>2, <2>3, <2>4 DEF DialInv
<1>3. CASE Fail(open) /\ UNCHANGED copier
  BY <1>1, <1>3, FailsElsewhere
<1> QED
  BY <1>2, <1>3 DEF Associate

(* A layer adds no socket; when it fails, the call lets go.                *)
LEMMA WrapKeeps ==
    ASSUME DialInv, Wrap
    PROVE  DialInv'
<1>1. /\ proxy # NoProxy /\ result = "dialing" /\ Coming \notin Acquiring
      /\ UNCHANGED <<proxy, call, racers, copier>>
  BY DEF Wrap, Acquiring
<1>2. CASE Coming # "unsupported" /\ Succeed(open)
  <2>1. /\ open' = open /\ at' = at + 1
        /\ result' = IF at = Len(Plan(proxy, call)) THEN "conn" ELSE "dialing"
    BY <1>2 DEF Succeed
  <2>2. /\ OnPlan' /\ at' \in Nat /\ result' \in {"conn", "dialing"}
        /\ Acquired' <=> Acquired
    BY <1>1, <1>2, <2>1, StepDone
  <2>3. DialType' /\ RaceFits'
    BY <1>1, <2>1, <2>2 DEF DialInv, DialType, RaceFits
  <2>4. LetGo'
    BY <2>2 DEF LetGo
  <2>5. Mine' = Mine
    BY <1>1, <2>1 DEF Mine, Racing
  <2>6. HoldsIts'
    BY <1>1, <2>2, <2>5 DEF DialInv, HoldsIts
  <2> QED
    BY <2>2, <2>3, <2>4, <2>6 DEF DialInv
<1>3. CASE Fail(open)
  BY <1>1, <1>3, FailsElsewhere
<1> QED
  BY <1>2, <1>3 DEF Wrap

(* All is let go but what an attempt still has.                            *)
LEMMA LetsGo ==
    ASSUME DialInv, open' = open \cap (LeftToOthers \ {"udp"}),
           UNCHANGED <<proxy, call, at, racers>>
    PROVE  /\ Mine' = {} /\ RaceFits' /\ open' \subseteq open
<1>1. \A v \in Versions : racers[v] = "connected" =>
          v \in LeftToOthers \ {"udp"}
  BY DEF LeftToOthers, Versions
<1>2. RaceFits'
  BY <1>1 DEF DialInv, RaceFits
<1>3. ASSUME NEW s \in open' PROVE s \in Racing'
  <2>1. s \in Versions /\ racers[s] # "done" /\ s \in open
    BY <1>3 DEF LeftToOthers
  <2> QED
    BY <2>1 DEF DialInv, RaceFits, Racing
<1> QED
  BY <1>2, <1>3 DEF Mine

(* The end of an association closes both its sockets.                      *)
LEMMA AssociationEndsKeeps ==
    ASSUME DialInv, AssociationEnds
    PROVE  DialInv'
<1>1. /\ copier = "copying" /\ copier' = "ended"
      /\ open' = open \cap (LeftToOthers \ {"udp"})
      /\ UNCHANGED <<proxy, call, at, racers, result>>
  BY DEF AssociationEnds
<1>2. Mine' = {} /\ RaceFits' /\ open' \subseteq open
  BY <1>1, LetsGo
<1>3. proxy # NoProxy
  BY <1>1 DEF DialInv, OnPlan
<1>4. DialType' /\ OnPlan'
  BY <1>1, <1>2, <1>3 DEF DialInv, DialType, OnPlan
<1>5. LetGo' /\ HoldsIts'
  BY <1>1, <1>2 DEF LetGo, HoldsIts
<1> QED
  BY <1>2, <1>4, <1>5 DEF DialInv

(* The user closes what the call returned.                                 *)
LEMMA CloseOutKeeps ==
    ASSUME DialInv, CloseOut
    PROVE  DialInv'
<1>1. /\ result = "conn" /\ result' = "closed"
      /\ UNCHANGED <<proxy, call, at, racers, copier>>
  BY DEF CloseOut
<1>2. proxy # NoProxy
  BY <1>1 DEF DialInv, OnPlan
<1>3. OnPlan' /\ HoldsIts'
  BY <1>1, <1>2 DEF DialInv, OnPlan, HoldsIts
<1>4. CASE open' = open \cap (LeftToOthers \ {"udp"})
  <2>1. Mine' = {} /\ RaceFits' /\ open' \subseteq open
    BY <1>1, <1>4, LetsGo
  <2>2. DialType' /\ LetGo'
    BY <1>1, <2>1 DEF DialInv, DialType, LetGo
  <2> QED
    BY <1>3, <2>1, <2>2 DEF DialInv
<1>5. CASE ~ClosesAlways(proxy, call) /\ UNCHANGED open
  <2>1. DialType' /\ RaceFits'
    BY <1>1, <1>5 DEF DialInv, DialType, RaceFits
  <2>2. LetGo'
    BY <1>1, <1>5 DEF LetGo
  <2> QED
    BY <1>3, <2>1, <2>2 DEF DialInv
<1> QED
  BY <1>4, <1>5 DEF CloseOut

(* Before a call nothing is open.                                          *)
LEMMA DialBegins == OutInit => DialInv
<1> SUFFICES ASSUME OutInit PROVE DialInv
  OBVIOUS
<1>1. /\ proxy = NoProxy /\ call = "stream" /\ at = 1 /\ open = {}
      /\ racers = [v \in Versions |-> "idle"] /\ result = "dialing"
      /\ copier = "none"
  BY DEF OutInit
<1>2. DialType /\ OnPlan /\ RaceFits
  BY <1>1 DEF DialType, OnPlan, RaceFits, Stages, Versions
<1>3. LetGo /\ HoldsIts
  BY <1>1 DEF LetGo, HoldsIts, Mine
<1> QED
  BY <1>2, <1>3 DEF DialInv

(* Every step of a call keeps the invariant.                               *)
LEMMA DialStepsKeep == DialInv /\ [OutNext]_outVars => DialInv'
<1> SUFFICES ASSUME DialInv, [OutNext]_outVars PROVE DialInv'
  OBVIOUS
<1>1. CASE \E p \in ParseProxy, c \in {"stream", "packet"} : DialOut(p, c)
  BY <1>1, DialOutKeeps
<1>2. CASE StartRace
  BY <1>2, StartRaceKeeps
<1>3. CASE \E v \in Versions : RacerResolves(v) \/ RacerConnects(v)
  BY <1>3, RacerResolvesKeeps, RacerConnectsKeeps
<1>4. CASE \E v \in Versions : Deliver(v) \/ GiveUp(v)
  BY <1>4, DeliverKeeps, GiveUpKeeps
<1>5. CASE OpenGun \/ TakeFromPool \/ ListenPacket
  BY <1>5, OpenKeeps
<1>6. CASE Associate \/ Wrap
  BY <1>6, AssociateKeeps, WrapKeeps
<1>7. CASE AssociationEnds \/ CloseOut
  BY <1>7, AssociationEndsKeeps, CloseOutKeeps
<1>8. CASE UNCHANGED outVars
  BY <1>8 DEF outVars, DialInv, DialType, OnPlan, RaceFits, LetGo, HoldsIts,
              Mine, Racing, Acquired
<1> QED
  BY <1>1, <1>2, <1>3, <1>4, <1>5, <1>6, <1>7, <1>8 DEF OutNext

(* The invariant of a dial holds at all times.                             *)
LEMMA DialInvHolds == OutSpec => []DialInv
<1> QED
  BY DialBegins, DialStepsKeep, PTL DEF OutSpec

(* Once the goroutines of a call have ended, no attempt has a socket.      *)
LEMMA SettledLeaves == DialInv => DialLeavesNothing
<1> SUFFICES ASSUME DialInv, Settled
             PROVE  /\ result = "error" /\ ClosesOnError(proxy, call) =>
                          open = {}
                    /\ result = "closed" /\ ClosesAlways(proxy, call) =>
                          open = {}
                    /\ result = "conn" /\ copier = "none" =>
                          \E s \in Sockets : open = {s}
  BY DEF DialLeavesNothing, Sockets
<1>1. Mine = open /\ copier # "copying"
  BY DEF Settled, Mine, Racing
<1>2. /\ result = "error" /\ ClosesOnError(proxy, call) => open = {}
      /\ result = "closed" /\ ClosesAlways(proxy, call) => open = {}
  BY <1>1 DEF DialInv, LetGo
<1>3. ASSUME result = "conn", copier = "none"
      PROVE  \E s \in Sockets : open = {s}
  <2>1. proxy # NoProxy
    BY <1>3 DEF DialInv, OnPlan
  <2> DEFINE q == Plan(proxy, call)
  <2>2. OpensOne(q) /\ Len(q) \in Nat
    BY <2>1, OnItsPlan
  <2>3. /\ at = Len(q) + 1
        /\ \A i \in 1..Len(q) : i < at => q[i] # "unsupported"
    BY <1>3, <2>1 DEF DialInv, OnPlan
  <2>4. PICK i \in 1..Len(q) : q[i] \in Acquiring \cup {"unsupported"}
    BY <2>2 DEF OpensOne
  <2>5. i < at
    <3> DEFINE m == Len(q)
    <3>1. m \in Nat /\ i \in 1..m /\ at = m + 1
      BY <2>2, <2>3
    <3> HIDE DEF m
    <3> QED
      BY <3>1
  <2>6. Acquired
    BY <2>3, <2>4, <2>5 DEF Acquired
  <2> QED
    BY <1>1, <1>3, <2>1, <2>6 DEF DialInv, HoldsIts
<1> QED
  BY <1>2, <1>3

(* A dial that fails, at whatever step and whichever attempt of the race   *)
(* is first, leaves no socket open once its goroutines have ended, nor     *)
(* does one whose connection was closed; one that succeeds holds a single  *)
(* connection.  The packet connection of a Snell proxy, on an error, and   *)
(* Close of a multiplexer or of an HTTP/2 connection, which may fail, are  *)
(* the exceptions.                                                         *)
THEOREM DialsLeaveNothing == OutSpec => []DialLeavesNothing
<1> QED
  BY DialInvHolds, SettledLeaves, PTL
==============================================================================
