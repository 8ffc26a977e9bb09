------------------------- MODULE Segmentation_proofs -------------------------
(* No byte of a packet that left is lost, what the server reads is what the  *)
(* client wrote, and no two segments share an IP id: Segmentation's theorems. *)
EXTENDS Segmentation, FiniteSetTheorems, SequenceTheorems, WellFoundedInduction, TLAPS

------------------------------------------------------------------------------
(* The invariant.  A piece is what a genuine part puts on the wire: where it *)
(* begins and ends in the request and the junk before it; a part still to be *)
(* sent is a piece like one that left, and a write moves it from one to the  *)
(* other.                                                                    *)

Packets == 1..Len(req.lens)
Base(p) == IF p = 0 THEN 0 ELSE Offset(p)

Shape(p) == [from |-> p.from, to |-> p.to, ovl |-> p.ovl, frag |-> p.frag]
Genuine(parts) == {Shape(parts[k]) : k \in {j \in DOMAIN parts : parts[j].real}}

PieceAt(p, s) ==
  [packet |-> p, from |-> Base(p) + s.from, to |-> Base(p) + s.to, ovl |-> s.ovl, frag |-> s.frag]
Piece(s) ==
  [packet |-> s.packet, from |-> s.from, to |-> s.from + (s.len - s.ovl), ovl |-> s.ovl,
   frag |-> s.frag]

LeftOf(segments) == {Piece(segments[k]) : k \in {j \in DOMAIN segments : segments[j].real}}

Left == LeftOf(wire)
Due == {PieceAt(i, s) : s \in Genuine(todo)}
Pieces == Left \cup Due

(* Byte x of packet p is in a piece, or in both fragments. *)
Carried(S, p, x) ==
  \E s \in S :
    /\ s.packet = p /\ s.from <= x /\ x < s.to
    /\ s.frag = 0 \/ \E t \in S : t.packet = p /\ t.frag = 3 - s.frag
CompleteIn(off, S, p) ==
  IF p = 0 THEN \E s \in S : s.packet = 0
  ELSE \A x \in off[p]..off[p + 1] - 1 : Carried(S, p, x)
Complete(S, p) == CompleteIn(Offsets(req.lens), S, p)

DataOK ==
  /\ dp \in Profile /\ req \in Request
  /\ i \in 0..Len(req.lens) + 1 /\ ctid \in 0..IdMod - 1 /\ ip_id \in 0..IdMod - 1
  /\ stage \in {"new", "fakes", "desync", "orig", "main", "exit"}
  /\ stage # "new" => i <= Len(req.lens)
  /\ stage = "fakes" => i # 0
  /\ stage \in {"new", "exit"} => todo = <<>>
  /\ fails \in 0..MaxFail /\ lost \subseteq 0..Len(req.lens) /\ open \in BOOLEAN

(* The cuts ascend within the packet, and the name is inside it. *)
Within(ends, len) ==
  /\ ends \in Seq(1..len - 1)
  /\ ends = <<>> \/ (Len(ends) \in 2..3 /\ ends[1] < ends[2])
  /\ Len(ends) = 3 => ends[1] < ends[3] /\ ends[3] < ends[2]
(* What the positions of a packet with data are. *)
PosFits ==
  /\ pos.cuts \in Seq(1..PLen - 1)
  /\ \A j, k \in DOMAIN pos.cuts : j < k => pos.cuts[j] < pos.cuts[k]
  /\ pos.split \in 0..PLen - 1
  /\ Within(pos.host, PLen)
  /\ pos.ovl \in Nat
(* ... while they are in use. *)
PosOK == stage \in {"fakes", "desync"} => IF i = 0 THEN pos = NoPos ELSE PosFits

(* The fields of a part. *)
PartType ==
  [real : BOOLEAN, from : Nat, to : Nat, ovl : Nat, n : Nat, g : Nat, frag : 0..2, id : 0..IdMod - 1]
(* A part lies within the packet; a fake is whole and has no overlap. *)
Proper ==
  {p \in PartType :
     /\ p.from <= p.to
     /\ p.real => p.to <= PLen
     /\ ~ p.real => p.frag = 0 /\ p.ovl = 0}
(* The parts to send are such parts. *)
TodoOK == todo \in Seq(Proper)

(* The fields of a segment. *)
SegmentType ==
  [syn : BOOLEAN, real : BOOLEAN, from : Nat, end : Nat, len : Nat, ovl : Nat, frag : 0..2,
   part : BOOLEAN, id : 0..IdMod - 1, packet : 0..Len(req.lens), seq : 0..W - 1]
(* A segment of request r carries its position as its sequence number. *)
SoundOf(r, s) ==
  /\ s.syn = (s.packet = 0)
  /\ s.ovl <= s.len
  /\ s.ovl # 0 => s.len <= BufMax
  /\ ~ s.real => s.frag = 0
  /\ s.seq = (r.seq + s.from - s.ovl) % W
  /\ s.packet # 0 => s.end = Offsets(r.lens)[s.packet + 1]
(* The segments on the wire are such segments. *)
WireOK ==
  /\ wire \in Seq(SegmentType)
  /\ \A k \in DOMAIN wire : SoundOf(req, wire[k])

(* Each piece is inside its packet; none is of a packet still to come.  Junk *)
(* goes before the request, or lies inside the packet where no piece ends.   *)
Inside(off, S) ==
  \A s \in S :
    /\ s.packet = 0 => s.frag = 0
    /\ s.packet # 0 => off[s.packet] <= s.from /\ s.from <= s.to /\ s.to <= off[s.packet + 1]
(* No junk reaches a place where a piece ends. *)
Harmless(off, S) ==
  \A s \in S : s.ovl # 0 /\ s.packet # 0 =>
    \/ s.from = 0
    \/ /\ off[s.packet] < s.from - s.ovl
       /\ \A r \in S : r.packet = s.packet => s.from <= r.to
(* The pieces of the packets up to the one at hand. *)
PiecesOK ==
  /\ \A s \in Pieces : s.packet <= i /\ (stage \in {"new", "fakes"} => s.packet < i)
  /\ Inside(Offsets(req.lens), Pieces)
  /\ Harmless(Offsets(req.lens), Pieces)

(* The second stage has parts for this packet. *)
Applies ==
  \/ FinalHeader
  \/ StageMode = "hostfakesplit" /\ pos.host # <<>>
  \/ StageMode \in {"multisplit", "multidisorder"} /\ pos.cuts # <<>>
  \/ StageMode \in {"fakedsplit", "fakeddisorder"}
  \/ StageMode = "ipfrag2" /\ ReasmOffset = 0

(* A packet that the engine is done with left, or is given up for lost; one   *)
(* that is on its way left or will leave.                                     *)
LeftOK ==
  /\ \A p \in 0..i - 1 : p \notin lost => Complete(Left, p)
  /\ stage \in {"orig", "main"}
     \/ (stage = "desync" /\ (IF i = 0 THEN dp.mode0 = "syndata" ELSE Applies))
     => Complete(Pieces, i)

(* The server keeps segments that left, at their place, and has read up to    *)
(* the end of one.                                                            *)
HeldOf(s) ==
  [start |-> s.from - s.ovl, len |-> s.len, ovl |-> s.ovl, from |-> s.from, end |-> s.end,
   real |-> s.real]
(* As far as the fakes are ignored. *)
ServerOK ==
  FakesIgnored =>
    /\ \A q \in held : \E k \in DOMAIN wire :
         wire[k].real /\ wire[k].packet # 0 /\ q = HeldOf(wire[k])
    /\ Len(stream) \in 0..Total
    /\ stream = [k \in 1..Len(stream) |-> k - 1]
    /\ \/ Len(stream) = 0
       \/ \E s \in Left : s.packet # 0 /\ Len(stream) = s.to

(* The inductive invariant. *)
IInv == DataOK /\ PosOK /\ TodoOK /\ WireOK /\ PiecesOK /\ LeftOK /\ ServerOK

------------------------------------------------------------------------------
(* Numbers, sequences and the wrap. *)

(* A nonempty set of numbers has a least one. *)
LEMMA Least ==
  ASSUME NEW T \in SUBSET Nat, T # {}
  PROVE  \E x \in T : \A y \in T : x <= y
<1>1. IsWellFoundedOn(OpToRel(<, Nat), Nat)
  BY NatLessThanWellFounded
<1>2. \E x \in T : \A y \in T : ~ (<<y, x>> \in OpToRel(<, Nat))
  BY <1>1, WFMin
<1>3. \A x, y \in Nat : <<y, x>> \in OpToRel(<, Nat) <=> y < x
  BY DEF OpToRel
<1>4. PICK x \in T : \A y \in T : ~ (<<y, x>> \in OpToRel(<, Nat))
  BY <1>2
<1>5. ASSUME NEW y \in T PROVE x <= y
  <2>1. x \in Nat /\ y \in Nat
    OBVIOUS
  <2>2. ~(y < x)
    BY <1>3, <1>4, <2>1
  <2> QED BY <2>1, <2>2
<1> QED BY <1>5

(* Induction over the numbers, as a set. *)
LEMMA Induction ==
  ASSUME NEW S \in SUBSET Nat, 0 \in S, \A n \in S : n + 1 \in S
  PROVE  S = Nat
<1> SUFFICES ASSUME S # Nat PROVE FALSE
  OBVIOUS
<1> DEFINE T == Nat \ S
<1>1. T \in SUBSET Nat /\ T # {}
  OBVIOUS
<1>2. PICK x \in T : \A y \in T : x <= y
  BY <1>1, Least
<1>3. x # 0 /\ x - 1 \in Nat /\ x - 1 \notin T
  BY <1>2
<1> QED BY <1>3

(* A function on 0..n that starts at a and steps by F. *)
Iterated(S, F, a, n) ==
  \E f \in [0..n -> S] : f[0] = a /\ \A k \in 1..n : f[k] = F[f[k - 1]]

(* Such a function exists. *)
LEMMA Iterates ==
  \A S : \A F \in [S -> S] : \A a \in S : \A n \in Nat : Iterated(S, F, a, n)
<1> TAKE S
<1> TAKE F \in [S -> S]
<1> TAKE a \in S
<1> TAKE n \in Nat
<1> DEFINE Ok(m, f) == f[0] = a /\ \A k \in 1..m : f[k] = F[f[k - 1]]
<1> DEFINE N == {m \in Nat : \E f \in [0..m -> S] : Ok(m, f)}
<1>1. 0 \in N
  <2> DEFINE f == [k \in 0..0 |-> a]
  <2>1. f \in [0..0 -> S] /\ Ok(0, f)
    OBVIOUS
  <2> QED BY <2>1
<1>2. ASSUME NEW m \in N PROVE m + 1 \in N
  <2>1. PICK f \in [0..m -> S] : Ok(m, f)
    OBVIOUS
  <2> DEFINE h == [k \in 0..m + 1 |-> IF k = m + 1 THEN F[f[m]] ELSE f[k]]
  <2>2. m \in Nat /\ m \in 0..m
    OBVIOUS
  <2>3. F[f[m]] \in S
    BY <2>2
  <2>4. h \in [0..m + 1 -> S]
    BY <2>2, <2>3
  <2>5. h[0] = a
    BY <2>1, <2>2
  <2>6. ASSUME NEW k \in 1..m + 1 PROVE h[k] = F[h[k - 1]]
    <3>1. k - 1 \in 0..m /\ h[k - 1] = f[k - 1]
      BY <2>2
    <3>2. CASE k = m + 1
      BY <3>1, <3>2, <2>2
    <3>3. CASE k # m + 1
      <4>1. k \in 1..m /\ h[k] = f[k]
        BY <3>3, <2>2
      <4> QED BY <4>1, <3>1, <2>1
    <3> QED BY <3>2, <3>3
  <2> HIDE DEF h
  <2>7. Ok(m + 1, h)
    BY <2>5, <2>6
  <2> QED BY <2>2, <2>4, <2>7
<1>3. N = Nat
  <2> HIDE DEF N
  <2>1. N \in SUBSET Nat
    BY DEF N
  <2> QED BY <1>1, <1>2, <2>1, Induction
<1> QED BY <1>3, Zenon DEF Iterated

(* Where the pieces begin, one behind the other. *)
LEMMA OffsetsType ==
  ASSUME NEW lens \in Seq(Nat)
  PROVE  /\ Offsets(lens) \in [1..Len(lens) + 1 -> Nat]
         /\ Offsets(lens)[1] = 0
         /\ \A k \in 1..Len(lens) : Offsets(lens)[k + 1] = Offsets(lens)[k] + lens[k]
<1> DEFINE L == Len(lens)
           Ok(m, f) == \A k \in 1..m + 1 : f[k] = IF k = 1 THEN 0 ELSE f[k - 1] + lens[k - 1]
           Ex(m) == \E f \in [1..m + 1 -> Nat] : Ok(m, f)
           N == {m \in Nat : m <= L => Ex(m)}
           at == CHOOSE f : f = [k \in 1..L + 1 |-> IF k = 1 THEN 0 ELSE f[k - 1] + lens[k - 1]]
<1>1. 0 \in N
  <2> DEFINE f == [k \in 1..1 |-> 0]
  <2>1. f \in [1..0 + 1 -> Nat] /\ Ok(0, f)
    OBVIOUS
  <2> QED BY <2>1
<1>2. ASSUME NEW m \in N PROVE m + 1 \in N
  <2> HIDE DEF Ex
  <2> SUFFICES ASSUME m + 1 <= L PROVE Ex(m + 1)
    OBVIOUS
  <2>0. m \in Nat /\ (m <= L => Ex(m))
    OBVIOUS
  <2> USE DEF Ex
  <2>1. m \in Nat /\ m <= L /\ m + 1 \in 1..L /\ m + 1 \in 1..m + 1 /\ m + 2 # 1 /\ (m + 2) - 1 = m + 1
    <3> HIDE DEF N
    <3> QED BY <2>0
  <2>2. PICK f \in [1..m + 1 -> Nat] : Ok(m, f)
    BY <2>0, <2>1
  <2> DEFINE h == [k \in 1..m + 2 |-> IF k = m + 2 THEN f[m + 1] + lens[m + 1] ELSE f[k]]
  <2>3. f[m + 1] + lens[m + 1] \in Nat
    BY <2>1
  <2>4. h \in [1..(m + 1) + 1 -> Nat]
    BY <2>1, <2>3
  <2>5. ASSUME NEW k \in 1..(m + 1) + 1
        PROVE  h[k] = IF k = 1 THEN 0 ELSE h[k - 1] + lens[k - 1]
    <3>1. CASE k = m + 2
      <4>1. h[m + 1] = f[m + 1]
        BY <2>1
      <4> QED BY <4>1, <3>1, <2>1
    <3>2. CASE k # m + 2
      <4>1. k \in 1..m + 1 /\ h[k] = f[k] /\ (k # 1 => k - 1 \in 1..m + 1 /\ h[k - 1] = f[k - 1])
        BY <3>2, <2>1
      <4> HIDE DEF h
      <4> QED BY <4>1, <2>2
    <3> QED BY <3>1, <3>2
  <2> HIDE DEF h
  <2> QED BY <2>4, <2>5
<1>3. N = Nat
  <2> HIDE DEF N
  <2>1. N \in SUBSET Nat
    BY DEF N
  <2> QED BY <1>1, <1>2, <2>1, Induction
<1>4. L \in N
  <2> HIDE DEF N
  <2> QED BY <1>3
<1>5. PICK f \in [1..L + 1 -> Nat] : Ok(L, f)
  <2>1. L <= L
    OBVIOUS
  <2> QED BY <1>4, <2>1
<1>6. f = [k \in 1..L + 1 |-> IF k = 1 THEN 0 ELSE f[k - 1] + lens[k - 1]]
  BY <1>5
<1>7. at = [k \in 1..L + 1 |-> IF k = 1 THEN 0 ELSE at[k - 1] + lens[k - 1]]
  BY <1>6, Zenon
<1>8. Offsets(lens) = at
  BY DEF Offsets
<1> HIDE DEF at
<1>9. L \in Nat
  OBVIOUS
<1>10. at[1] = 0
  BY <1>7, <1>9
<1>11. \A k \in 1..L : at[k + 1] = at[k] + lens[k]
  BY <1>7, <1>9
<1> DEFINE M == {m \in Nat : m <= L => at[m + 1] \in Nat}
<1>12. 0 \in M
  BY <1>10
<1>13. ASSUME NEW m \in M PROVE m + 1 \in M
  <2> SUFFICES ASSUME m + 1 <= L PROVE at[(m + 1) + 1] \in Nat
    OBVIOUS
  <2>1. m + 1 \in 1..L /\ at[m + 1] \in Nat
    OBVIOUS
  <2> QED BY <2>1, <1>11
<1>14. M = Nat
  <2> HIDE DEF M
  <2>1. M \in SUBSET Nat
    BY DEF M
  <2> QED BY <1>12, <1>13, <2>1, Induction
<1>15. ASSUME NEW k \in 1..L + 1 PROVE at[k] \in Nat
  <2>1. k - 1 \in Nat /\ k - 1 <= L /\ (k - 1) + 1 = k
    OBVIOUS
  <2>2. k - 1 \in M
    BY <1>14, <2>1, Zenon
  <2> QED BY <2>1, <2>2
<1>16. at \in [1..L + 1 -> Nat]
  BY <1>7, <1>15
<1> QED BY <1>8, <1>10, <1>11, <1>16

(* ... and what comes later begins later. *)
LEMMA OffsetsAscend ==
  ASSUME NEW lens \in Seq(Nat), NEW j \in 1..Len(lens) + 1, NEW k \in 1..Len(lens) + 1, j <= k
  PROVE  Offsets(lens)[j] <= Offsets(lens)[k]
<1> DEFINE L == Len(lens)
           at == Offsets(lens)
           N == {m \in Nat : j + m <= L + 1 => at[j] <= at[j + m]}
<1>1. at \in [1..L + 1 -> Nat] /\ \A m \in 1..L : at[m + 1] = at[m] + lens[m]
  BY OffsetsType
<1> HIDE DEF at
<1>2. 0 \in N
  BY <1>1
<1>3. ASSUME NEW m \in N PROVE m + 1 \in N
  <2> SUFFICES ASSUME j + (m + 1) <= L + 1 PROVE at[j] <= at[j + (m + 1)]
    OBVIOUS
  <2>1. j + m \in 1..L /\ at[j] <= at[j + m] /\ (j + m) + 1 = j + (m + 1) /\ j + m \in 1..L + 1
    OBVIOUS
  <2>2. at[j + (m + 1)] = at[j + m] + lens[j + m]
    BY <2>1, <1>1
  <2>3. lens[j + m] \in Nat /\ at[j + m] \in Nat /\ at[j] \in Nat
    BY <2>1, <1>1
  <2> QED BY <2>1, <2>2, <2>3
<1>4. N = Nat
  <2> HIDE DEF N
  <2>1. N \in SUBSET Nat
    BY DEF N
  <2> QED BY <1>2, <1>3, <2>1, Induction
<1>5. k - j \in Nat /\ j + (k - j) = k
  OBVIOUS
<1>6. k - j \in N
  BY <1>4, <1>5, Zenon
<1> QED BY <1>5, <1>6 DEF at

(* A set of numbers up to n can be put in order. *)
Sorted(S, n) ==
  \E m \in 0..n : \E s \in [1..m -> S] :
    /\ \A x \in S : \E k \in 1..m : s[k] = x
    /\ \A j, k \in 1..m : j < k => s[j] < s[k]

(* Every set of numbers up to n can be put in order. *)
LEMMA SortedExists == \A n \in Nat : \A S \in SUBSET (1..n) : Sorted(S, n)
<1> DEFINE Ok(n) == \A S \in SUBSET (1..n) : Sorted(S, n)
           N == {n \in Nat : Ok(n)}
<1>1. Ok(0)
  <2> SUFFICES ASSUME NEW S \in SUBSET (1..0) PROVE Sorted(S, 0)
    OBVIOUS
  <2>1. S = {} /\ 0 \in 0..0
    OBVIOUS
  <2> DEFINE s == [k \in 1..0 |-> 0]
  <2>2. s \in [1..0 -> S]
    OBVIOUS
  <2>3. (\A x \in S : \E k \in 1..0 : s[k] = x) /\ (\A j, k \in 1..0 : j < k => s[j] < s[k])
    BY <2>1
  <2> HIDE DEF s
  <2> QED BY <2>1, <2>2, <2>3 DEF Sorted
<1>2. ASSUME NEW n \in Nat, Ok(n) PROVE Ok(n + 1)
  <2> SUFFICES ASSUME NEW S \in SUBSET (1..n + 1) PROVE Sorted(S, n + 1)
    OBVIOUS
  <2> DEFINE T == S \ {n + 1}
  <2>1. T \in SUBSET (1..n)
    OBVIOUS
  <2>2. Sorted(T, n)
    BY <2>1, <1>2
  <2>3. PICK m \in 0..n : \E s \in [1..m -> T] :
          /\ \A x \in T : \E k \in 1..m : s[k] = x
          /\ \A j, k \in 1..m : j < k => s[j] < s[k]
    BY <2>2 DEF Sorted
  <2>4. PICK s \in [1..m -> T] :
          /\ \A x \in T : \E k \in 1..m : s[k] = x
          /\ \A j, k \in 1..m : j < k => s[j] < s[k]
    BY <2>3
  <2>5. CASE n + 1 \notin S
    <3>1. T = S /\ m \in 0..n + 1
      BY <2>5
    <3> HIDE DEF T
    <3>2. s \in [1..m -> S]
      BY <3>1
    <3> QED BY <3>1, <3>2, <2>4 DEF Sorted
  <2>6. CASE n + 1 \in S
    <3> DEFINE h == [k \in 1..m + 1 |-> IF k = m + 1 THEN n + 1 ELSE s[k]]
    <3>1. m + 1 \in 0..n + 1 /\ m + 1 \in 1..m + 1 /\ m \in Nat
      OBVIOUS
    <3>2. h \in [1..m + 1 -> S]
      BY <2>6
    <3>3. h[m + 1] = n + 1
      BY <3>1
    <3>4. \A k \in 1..m : k \in 1..m + 1 /\ h[k] = s[k] /\ s[k] \in T
      BY <3>1
    <3> HIDE DEF h
    <3>5. ASSUME NEW x \in S PROVE \E k \in 1..m + 1 : h[k] = x
      <4>1. CASE x = n + 1
        BY <4>1, <3>1, <3>3
      <4>2. CASE x # n + 1
        <5>1. PICK k \in 1..m : s[k] = x
          BY <4>2, <2>4
        <5> QED BY <5>1, <3>4
      <4> QED BY <4>1, <4>2
    <3>6. ASSUME NEW j \in 1..m + 1, NEW k \in 1..m + 1, j < k PROVE h[j] < h[k]
      <4>1. j \in 1..m /\ h[j] = s[j] /\ s[j] \in 1..n
        <5>1. j \in 1..m
          BY <3>6, <3>1
        <5> HIDE DEF T
        <5> QED BY <5>1, <3>4, <2>1
      <4>2. CASE k = m + 1
        BY <4>1, <4>2, <3>3
      <4>3. CASE k # m + 1
        <5>1. k \in 1..m /\ h[k] = s[k]
          BY <4>3, <3>4, <3>1
        <5> QED BY <5>1, <4>1, <3>6, <2>4
      <4> QED BY <4>2, <4>3
    <3> QED BY <3>1, <3>2, <3>5, <3>6 DEF Sorted
  <2> QED BY <2>5, <2>6
<1>3. N = Nat
  <2> HIDE DEF Ok
  <2>1. 0 \in N /\ \A n \in N : n + 1 \in N
    BY <1>1, <1>2
  <2>2. N \in SUBSET Nat
    OBVIOUS
  <2> HIDE DEF N
  <2> QED BY <2>1, <2>2, Induction
<1> QED BY <1>3

(* The cuts are in order and are those asked for. *)
LEMMA InOrderType ==
  ASSUME NEW n \in Nat, NEW S \in SUBSET (1..n)
  PROVE  /\ InOrder(S, n) \in Seq(S)
         /\ \A j, k \in DOMAIN InOrder(S, n) : j < k => InOrder(S, n)[j] < InOrder(S, n)[k]
<1> DEFINE U == UNION {[1..m -> S] : m \in 0..n}
           Good(s) == ToSet(s) = S /\ \A j, k \in DOMAIN s : j < k => s[j] < s[k]
<1>1. \E s \in U : Good(s)
  <2>1. Sorted(S, n)
    BY SortedExists
  <2>2. PICK m \in 0..n : \E s \in [1..m -> S] :
          /\ \A x \in S : \E k \in 1..m : s[k] = x
          /\ \A j, k \in 1..m : j < k => s[j] < s[k]
    BY <2>1 DEF Sorted
  <2>3. PICK s \in [1..m -> S] :
          /\ \A x \in S : \E k \in 1..m : s[k] = x
          /\ \A j, k \in 1..m : j < k => s[j] < s[k]
    BY <2>2
  <2>4. s \in U
    OBVIOUS
  <2>5. DOMAIN s = 1..m
    OBVIOUS
  <2>6. ToSet(s) = S
    BY <2>3, <2>5 DEF ToSet
  <2> QED BY <2>3, <2>4, <2>5, <2>6
<1>2. InOrder(S, n) = CHOOSE s \in U : Good(s)
  BY DEF InOrder
<1>3. InOrder(S, n) \in U /\ Good(InOrder(S, n))
  <2> HIDE DEF U, Good
  <2> QED BY <1>1, <1>2, Zenon
<1>4. PICK m \in 0..n : InOrder(S, n) \in [1..m -> S]
  BY <1>3
<1>5. InOrder(S, n) \in Seq(S)
  BY <1>4
<1> QED BY <1>3, <1>5

(* The highest of finitely many numbers. *)
LEMMA MaxIs ==
  ASSUME NEW s, NEW n \in Nat, s \in [1..n -> Nat]
  PROVE  LET R == {0} \cup {s[k] : k \in 1..n}
         IN  R \in SUBSET Nat /\ Max(R) \in R /\ \A x \in R : x <= Max(R)
<1> DEFINE R == {0} \cup {s[k] : k \in 1..n}
           Bound(m, b) == \A k \in 1..m : s[k] <= b
           Bounded(m) == \E b \in Nat : Bound(m, b)
           N == {m \in Nat : m <= n => Bounded(m)}
<1>1. 0 \in N
  OBVIOUS
<1>2. ASSUME NEW m \in N PROVE m + 1 \in N
  <2> HIDE DEF Bounded
  <2> SUFFICES ASSUME m + 1 <= n PROVE Bounded(m + 1)
    OBVIOUS
  <2>1. m \in Nat /\ m <= n /\ m + 1 \in 1..n /\ Bounded(m)
    OBVIOUS
  <2> USE DEF Bounded
  <2>2. PICK b \in Nat : Bound(m, b)
    BY <2>1
  <2>3. s[m + 1] \in Nat
    BY <2>1
  <2>4. b + s[m + 1] \in Nat
    BY <2>3
  <2>5. ASSUME NEW k \in 1..m + 1 PROVE s[k] <= b + s[m + 1]
    <3>1. CASE k = m + 1
      BY <3>1, <2>3
    <3>2. CASE k # m + 1
      <4>1. k \in 1..m /\ k \in 1..n
        BY <3>2, <2>1
      <4>2. s[k] <= b /\ s[k] \in Nat
        BY <4>1, <2>2
      <4> QED BY <4>2, <2>3
    <3> QED BY <3>1, <3>2
  <2> QED BY <2>4, <2>5
<1>3. N = Nat
  <2> HIDE DEF N
  <2>1. N \in SUBSET Nat
    BY DEF N
  <2> QED BY <1>1, <1>2, <2>1, Induction
<1>4. Bounded(n)
  <2> HIDE DEF Bounded
  <2>1. n \in N
    <3> HIDE DEF N
    <3> QED BY <1>3
  <2> QED BY <2>1
<1> DEFINE B == {b \in Nat : \A x \in R : x <= b}
<1>5. R \in SUBSET Nat
  OBVIOUS
<1>6. B \in SUBSET Nat /\ B # {}
  <2>1. PICK b \in Nat : Bound(n, b)
    BY <1>4
  <2>2. b \in B
    BY <2>1
  <2> QED BY <2>2
<1>7. PICK top \in B : \A y \in B : top <= y
  <2> HIDE DEF B
  <2> QED BY <1>6, Least
<1>8. top \in R
  <2> SUFFICES ASSUME top \notin R PROVE FALSE
    OBVIOUS
  <2> HIDE DEF R
  <2>1. 0 \in R
    BY DEF R
  <2>2. top \in Nat /\ top # 0 /\ \A x \in R : x <= top /\ x # top
    BY <2>1
  <2>3. top - 1 \in B
    BY <2>2, <1>5
  <2> QED BY <2>2, <2>3, <1>7
<1> HIDE DEF R
<1>9. \E x \in R : \A y \in R : x >= y
  BY <1>8, <1>7, <1>5
<1>10. Max(R) \in R /\ \A y \in R : Max(R) >= y
  BY <1>9, Zenon DEF Max
<1> DEFINE top0 == Max(R)
<1>11. top0 \in R /\ \A y \in R : top0 >= y
  BY <1>10
<1> HIDE DEF top0
<1>12. \A x \in R : x <= top0
  BY <1>11, <1>5
<1> QED BY <1>5, <1>11, <1>12, Zenon DEF R, top0

(* ... is a number. *)
LEMMA MaxType ==
  ASSUME NEW s, NEW n \in Nat, s \in [1..n -> Nat]
  PROVE  Max({0} \cup {s[k] : k \in 1..n}) \in Nat
<1> DEFINE R == {0} \cup {s[k] : k \in 1..n}
<1>1. R \in SUBSET Nat /\ Max(R) \in R
  BY MaxIs, Zenon
<1> QED BY <1>1

(* Only one multiple lies within the range. *)
LEMMA NoMultiple ==
  ASSUME NEW w \in Nat \ {0}, NEW k \in Int, w * k < w, - w < w * k
  PROVE  k = 0
<1>1. ASSUME k >= 1 PROVE FALSE
  <2>1. w * (k - 1) >= 0
    BY <1>1
  <2>2. w * (k - 1) = w * k - w
    OBVIOUS
  <2> QED BY <2>1, <2>2
<1>2. ASSUME k <= -1 PROVE FALSE
  <2>1. w * (-1 - k) >= 0
    BY <1>2
  <2>2. w * (-1 - k) = - w - w * k
    OBVIOUS
  <2> QED BY <2>1, <2>2
<1> QED BY <1>1, <1>2

(* The remainder is the number that fits. *)
LEMMA ModUnique ==
  ASSUME NEW w \in Nat \ {0}, NEW a \in Int, NEW b \in 0..w - 1, NEW q \in Int, a = w * q + b
  PROVE  a % w = b
<1> DEFINE d == a \div w
           r == a % w
<1>1. d \in Int /\ r \in 0..w - 1 /\ a = w * d + r
  OBVIOUS
<1> HIDE DEF d, r
<1>2. w * (d - q) = b - r
  <2>1. w * (d - q) = w * d - w * q
    BY <1>1
  <2> DEFINE x == w * d
             y == w * q
  <2>2. x \in Int /\ y \in Int
    BY <1>1
  <2>3. x - y = b - r
    <3> HIDE DEF x, y
    <3>1. a = x + r /\ a = y + b
      BY <1>1 DEF x, y
    <3> QED BY <3>1, <2>2, <1>1
  <2> QED BY <2>1, <2>3
<1>3. d - q = 0
  <2>1. d - q \in Int /\ b - r < w /\ - w < b - r
    BY <1>1
  <2> HIDE DEF d
  <2> QED BY <2>1, <1>2, NoMultiple
<1>4. b = r
  BY <1>1, <1>3
<1> QED BY <1>4 DEF r

(* A difference of less than half the range survives the wrap. *)
LEMMA SignedDifference ==
  ASSUME W \in Nat, NEW a \in Int, NEW b \in Int, a - b < W \div 2, b - a < W \div 2
  PROVE  Signed(((a % W) - b) % W) = a - b
<1> DEFINE h == W \div 2
<1>1. h \in Nat /\ 2 * h <= W /\ W \in Nat \ {0}
  <2>1. 0 < W \div 2
    OBVIOUS
  <2> QED BY <2>1
<1> DEFINE q == a \div W
           r == a % W
           x == W * q
<1>2. q \in Int /\ r \in 0..W - 1 /\ a = x + r /\ x \in Int
  BY <1>1
<1>3. a - b < h /\ b - a < h
  OBVIOUS
<1>4. ASSUME a >= b PROVE Signed((r - b) % W) = a - b
  <2>1. a - b \in 0..W - 1 /\ ~(a - b >= h)
    <3> HIDE DEF h
    <3> QED BY <1>1, <1>3, <1>4
  <2>2. r - b = W * (-q) + (a - b)
    <3>1. W * (-q) = - x
      BY <1>1
    <3> HIDE DEF x, r
    <3> QED BY <3>1, <1>2
  <2>3. (r - b) % W = a - b
    <3> HIDE DEF r, q
    <3> DEFINE u == r - b
               v == -q
               e == a - b
    <3>1. u \in Int /\ v \in Int
      BY <1>2
    <3>2. e \in 0..W - 1 /\ u = W * v + e
      BY <2>1, <2>2
    <3> HIDE DEF u, v, e
    <3>3. u % W = e
      BY <3>1, <3>2, <1>1, ModUnique
    <3> QED BY <3>3 DEF u, e
  <2> QED BY <2>1, <2>3 DEF Signed
<1>5. ASSUME a < b PROVE Signed((r - b) % W) = a - b
  <2>1. W + (a - b) \in 0..W - 1 /\ W + (a - b) >= h
    <3> HIDE DEF h
    <3> QED BY <1>1, <1>3, <1>5
  <2>2. r - b = W * (-q - 1) + (W + (a - b))
    <3>1. W * (-q - 1) = - x - W
      BY <1>1
    <3> HIDE DEF x, r
    <3> QED BY <3>1, <1>2, <1>1
  <2>3. (r - b) % W = W + (a - b)
    <3> HIDE DEF r, q
    <3> DEFINE u == r - b
               v == -q - 1
               e == W + (a - b)
    <3>1. u \in Int /\ v \in Int
      BY <1>2
    <3>2. e \in 0..W - 1 /\ u = W * v + e
      BY <2>1, <2>2
    <3> HIDE DEF u, v, e
    <3>3. u % W = e
      BY <3>1, <3>2, <1>1, ModUnique
    <3> QED BY <3>3 DEF u, e
  <2>4. Signed(W + (a - b)) = (W + (a - b)) - W
    BY <2>1 DEF Signed
  <2> QED BY <2>3, <2>4, <1>1
<1> QED BY <1>4, <1>5
------------------------------------------------------------------------------
(* IP ids. *)

(* The ids counted from one stay in range. *)
LEMMA IdAdd ==
  ASSUME NEW id \in 0..IdMod - 1, NEW inc \in Int
  PROVE  IP4_IP_ID_ADD(id, inc) \in 0..IdMod - 1
<1>1. IdMod \in Nat /\ IdMod > 1
  BY ConstAssumption
<1> DEFINE sum == (id + inc) % IdMod
<1>2. sum \in 0..IdMod - 1
  BY <1>1
<1> HIDE DEF sum
<1> QED BY <1>1, <1>2 DEF IP4_IP_ID_ADD, sum

(* ... however often they are counted. *)
LEMMA IdStepsType ==
  ASSUME NEW id \in 0..IdMod - 1, NEW inc \in Int, NEW n \in Nat
  PROVE  IdSteps(id, inc, n) \in 0..IdMod - 1
<1> DEFINE S == 0..IdMod - 1
           F == [x \in S |-> IP4_IP_ID_ADD(x, inc)]
           step == CHOOSE st : st = [k \in 0..n |-> IF k = 0 THEN id ELSE IP4_IP_ID_ADD(st[k - 1], inc)]
<1>1. F \in [S -> S]
  BY IdAdd
<1>2. PICK f \in [0..n -> S] : f[0] = id /\ \A k \in 1..n : f[k] = F[f[k - 1]]
  <2> HIDE DEF F, S
  <2>1. id \in S
    BY DEF S
  <2>2. Iterated(S, F, id, n)
    BY <1>1, <2>1, Iterates
  <2> QED BY <2>2, Zenon DEF Iterated
<1>3. f = [k \in 0..n |-> IF k = 0 THEN id ELSE IP4_IP_ID_ADD(f[k - 1], inc)]
  <2>1. ASSUME NEW k \in 1..n PROVE f[k] = IP4_IP_ID_ADD(f[k - 1], inc)
    <3>1. k - 1 \in 0..n
      OBVIOUS
    <3>2. f[k - 1] \in S
      BY <3>1
    <3> QED BY <3>2, <1>2
  <2>2. \A k \in 0..n : k # 0 => k \in 1..n
    OBVIOUS
  <2> QED BY <2>1, <2>2, <1>2
<1>4. step = [k \in 0..n |-> IF k = 0 THEN id ELSE IP4_IP_ID_ADD(step[k - 1], inc)]
  BY <1>3, Zenon
<1>5. IdSteps(id, inc, n) = step[n]
  BY DEF IdSteps
<1> HIDE DEF step
<1> DEFINE N == {m \in Nat : m <= n => step[m] \in S}
<1>6. 0 \in N
  <2>1. 0 \in 0..n
    OBVIOUS
  <2>2. step[0] = id
    BY <1>4, <2>1
  <2> QED BY <2>2
<1>7. ASSUME NEW m \in N PROVE m + 1 \in N
  <2> SUFFICES ASSUME m + 1 <= n PROVE step[m + 1] \in S
    OBVIOUS
  <2>1. m \in Nat /\ m + 1 \in 0..n /\ m + 1 # 0 /\ (m + 1) - 1 = m
    OBVIOUS
  <2>2. step[m + 1] = IP4_IP_ID_ADD(step[m], inc)
    BY <1>4, <2>1
  <2>3. step[m] \in S
    BY <2>1
  <2> QED BY <2>2, <2>3, IdAdd
<1>8. N = Nat
  <2> HIDE DEF N
  <2>1. N \in SUBSET Nat
    BY DEF N
  <2> QED BY <1>6, <1>7, <2>1, Induction
<1> QED BY <1>5, <1>8

------------------------------------------------------------------------------
(* The request and the positions in its packets. *)

(* The fields of a request, one by one. *)
LEMMA RequestFacts ==
  ASSUME req \in Request
  PROVE  /\ req.lens \in Seq(Nat \ {0}) /\ req.lens \in Seq(Nat) /\ Len(req.lens) \in Nat \ {0}
         /\ Len(req.ids) = Len(req.lens) /\ req.ids \in Seq(0..IdMod - 1)
         /\ Len(req.random) = Len(req.lens) /\ req.random \in Seq(0..IdMod - 1)
         /\ req.seq \in Nat /\ req.ctid \in 0..IdMod - 1 /\ req.at \in [Marker -> Int]
<1>1. req \in RequestType /\ req.lens # <<>> /\ Len(req.ids) = Len(req.lens)
      /\ Len(req.random) = Len(req.lens)
  BY RequestAssumption
<1>2. /\ req.lens \in Seq(Nat \ {0}) /\ req.ids \in Seq(0..IdMod - 1)
      /\ req.random \in Seq(0..IdMod - 1)
      /\ req.seq \in Nat /\ req.ctid \in 0..IdMod - 1 /\ req.at \in [Marker -> Int]
  BY <1>1 DEF RequestType
<1> DEFINE s == req.lens
<1>3. s \in Seq(Nat \ {0}) /\ s # <<>>
  BY <1>1, <1>2
<1> HIDE DEF s
<1>4. s \in Seq(Nat) /\ Len(s) \in Nat \ {0}
  BY <1>3
<1> QED BY <1>1, <1>2, <1>4 DEF s

(* The ids of a packet and of its parts. *)
LEMMA OwnIdType ==
  ASSUME req \in Request, NEW k \in Packets
  PROVE  req.ids[k] \in 0..IdMod - 1 /\ OwnId(req, k) \in 0..IdMod - 1
<1> DEFINE ids == req.ids
           rand == req.random
           Id == 0..IdMod - 1
<1>1. ids \in Seq(Id) /\ k \in 1..Len(ids) /\ rand \in Seq(Id) /\ k \in 1..Len(rand)
  BY RequestFacts DEF Packets
<1> HIDE DEF ids, rand, Id
<1>2. ids[k] \in Id /\ rand[k] \in Id
  BY <1>1, ElementOfSeq
<1> QED BY <1>2 DEF ids, rand, Id, OwnId

(* The packets of the request lie one behind the other. *)
LEMMA OffsetFacts ==
  ASSUME req \in Request
  PROVE  /\ Offset(1) = 0 /\ Total \in Nat
         /\ \A p \in 1..Len(req.lens) + 1 : Offset(p) \in Nat /\ Offset(p) <= Total
         /\ \A p \in Packets : req.lens[p] \in Nat \ {0} /\ Offset(p + 1) = Offset(p) + req.lens[p]
         /\ \A p, q \in 1..Len(req.lens) + 1 : p <= q => Offset(p) <= Offset(q)
<1> DEFINE s == req.lens
           at == Offsets(s)
           n == Len(s)
<1>1. s \in Seq(Nat) /\ s \in Seq(Nat \ {0}) /\ n \in Nat
  BY RequestFacts
<1>2. at \in [1..n + 1 -> Nat] /\ at[1] = 0 /\ \A k \in 1..n : at[k + 1] = at[k] + s[k]
  <2> HIDE DEF s
  <2> QED BY <1>1, OffsetsType
<1>3. \A p, q \in 1..n + 1 : p <= q => at[p] <= at[q]
  <2> HIDE DEF s
  <2> QED BY <1>1, OffsetsAscend
<1>4. \A k \in 1..n : s[k] \in Nat \ {0}
  <2> HIDE DEF s
  <2> QED BY <1>1
<1>5. \A k : Offset(k) = at[k]
  BY DEF Offset
<1>6. Total = at[n + 1]
  BY DEF Total, Offset
<1>7. Packets = 1..n
  BY DEF Packets
<1>8. n + 1 \in 1..n + 1 /\ 1 \in 1..n + 1
  BY <1>1
<1> HIDE DEF at, n
<1>9. /\ \A p \in Packets : s[p] \in Nat \ {0} /\ Offset(p + 1) = Offset(p) + s[p]
  BY <1>2, <1>4, <1>5, <1>7
<1>10. \A p \in 1..n + 1 : Offset(p) \in Nat /\ Offset(p) <= Total
  <2>1. \A p \in 1..n + 1 : p <= n + 1
    BY <1>1
  <2> QED BY <1>2, <1>3, <1>5, <1>6, <1>8, <2>1
<1>11. \A p, q \in 1..n + 1 : p <= q => Offset(p) <= Offset(q)
  BY <1>3, <1>5
<1>12. Offset(1) = 0 /\ Total \in Nat
  BY <1>2, <1>5, <1>6, <1>8
<1> QED BY <1>9, <1>10, <1>11, <1>12 DEF s, n

(* The request and an overlap fit into less than half the sequence numbers. *)
LEMMA WidthFacts ==
  ASSUME req \in Request
  PROVE  /\ BufMax \in Nat /\ W \in Nat \ {0} /\ Total + BufMax < W \div 2
<1>1. Total + BufMax < W \div 2
  BY WidthAssumption DEF Total, Offset
<1>2. Total \in Nat /\ BufMax \in Nat /\ W \in Nat
  BY OffsetFacts, ConstAssumption
<1>3. W # 0
  <2> SUFFICES ASSUME W = 0 PROVE FALSE
    OBVIOUS
  <2> QED BY <1>1, <1>2 DEF Total
<1> QED BY <1>1, <1>2, <1>3

(* The packet at hand. *)
LEMMA PacketFacts ==
  ASSUME req \in Request, i \in Packets
  PROVE  /\ PLen \in Nat \ {0} /\ PLen = req.lens[i] /\ i # 0 /\ i \in Nat
         /\ Base(i) = Offset(i) /\ Offset(i) \in Nat /\ Offset(i + 1) = Offset(i) + PLen
         /\ ReasmOffset = Offset(i)
<1>1. i \in 1..Len(req.lens) /\ Len(req.lens) \in Nat
  BY RequestFacts DEF Packets
<1>2. PLen = req.lens[i] /\ i # 0 /\ i \in 1..Len(req.lens) + 1
  BY <1>1 DEF PLen
<1>3. ReasmOffset = Offset(i)
  <2>1. CASE Len(req.lens) > 1
    BY <2>1 DEF ReasmOffset, Replay
  <2>2. CASE ~(Len(req.lens) > 1)
    <3>1. i = 1
      BY <2>2, <1>1
    <3> QED BY <3>1, <2>2, OffsetFacts DEF ReasmOffset, Replay
  <2> QED BY <2>1, <2>2
<1> QED BY <1>1, <1>2, <1>3, OffsetFacts DEF Base

(* pos_normalize: a position that is kept lies inside the packet. *)
LEMMA Normalized ==
  ASSUME req \in Request, i \in Packets, NEW at \in Int
  PROVE  pos_normalize(at) \in 0..PLen - 1
BY PacketFacts DEF pos_normalize

(* A marker resolves to a number. *)
LEMMA Resolved ==
  ASSUME req \in Request, NEW p \in Pos
  PROVE  ResolvePos(p) \in Int
<1>1. p.marker \in Marker /\ p.pos \in Int
  BY DEF Pos
<1>2. Total \in Nat /\ req.at \in [Marker -> Int]
  BY OffsetFacts, RequestFacts
<1>3. req.at[p.marker] \in Int
  BY <1>1, <1>2
<1>4. AnyProtoPos(p) \in Int
  <2> HIDE DEF Total
  <2> QED BY <1>1, <1>2 DEF AnyProtoPos, CheckPos
<1>5. MarkerPos(p) \in Int
  BY <1>1, <1>2, <1>3 DEF MarkerPos, CheckPos
<1>6. HttpPos(p) \in Int /\ TLSPos(p) \in Int
  BY <1>4, <1>5 DEF HttpPos, TLSPos
<1>7. ResolvePos(p) \in {HttpPos(p), TLSPos(p), AnyProtoPos(p)}
  BY Zenon DEF ResolvePos
<1> QED BY <1>4, <1>6, <1>7

(* The fields of a profile that positions and parts are made of. *)
LEMMA ProfileFacts ==
  ASSUME dp \in Profile
  PROVE  /\ dp.splits \in Seq(Pos) /\ dp.seqovl \in Pos /\ dp.midhost \in Pos
         /\ dp.fakes \in Seq(Nat) /\ dp.dups \in Nat
BY ProfileAssumption DEF ProfileType

(* The cuts of multisplit lie inside the packet, in ascending order. *)
LEMMA CutsType ==
  ASSUME dp \in Profile, req \in Request, i \in Packets
  PROVE  /\ MultisplitPos \in Seq(1..PLen - 1)
         /\ \A j, k \in DOMAIN MultisplitPos : j < k => MultisplitPos[j] < MultisplitPos[k]
<1> DEFINE S == {pos_normalize(ResolvePos(dp.splits[k])) : k \in DOMAIN dp.splits} \ {0}
           n == PLen
<1>1. n \in Nat
  BY PacketFacts
<1>2. ASSUME NEW k \in DOMAIN dp.splits PROVE pos_normalize(ResolvePos(dp.splits[k])) \in 0..n - 1
  <2>1. dp.splits[k] \in Pos
    BY ProfileFacts
  <2>2. ResolvePos(dp.splits[k]) \in Int
    BY <2>1, Resolved
  <2> QED BY <2>2, Normalized
<1> HIDE DEF n
<1>3. \A x \in S : x \in 1..n - 1
  BY <1>1, <1>2
<1>4. MultisplitPos = InOrder(S, n)
  BY DEF MultisplitPos, n
<1> HIDE DEF S
<1>5. S \in SUBSET (1..n)
  BY <1>1, <1>3
<1> DEFINE c == InOrder(S, n)
<1>6. c \in Seq(S) /\ \A j, k \in DOMAIN c : j < k => c[j] < c[k]
  BY <1>1, <1>5, InOrderType
<1>7. c \in Seq(1..n - 1)
  <2> HIDE DEF c
  <2>1. Len(c) \in Nat /\ c \in [1..Len(c) -> S]
    BY <1>6
  <2>2. c \in [1..Len(c) -> 1..n - 1]
    BY <2>1, <1>3
  <2> DEFINE m == Len(c)
             B == 1..n - 1
  <2>3. m \in Nat /\ c \in [1..m -> B]
    BY <2>1, <2>2
  <2> HIDE DEF m, B
  <2>4. c \in Seq(B)
    BY <2>3
  <2> QED BY <2>4 DEF B
<1> QED BY <1>4, <1>6, <1>7 DEF n

(* The cut of a faked split lies inside the packet, or there is none. *)
LEMMA SplitType ==
  ASSUME dp \in Profile, req \in Request, i \in Packets
  PROVE  SplitPos \in 0..PLen - 1
<1>1. ASSUME NEW abs \in BOOLEAN PROVE FirstResolved(abs) \in Int
  <2> DEFINE found == {k \in DOMAIN dp.splits :
                        (dp.splits[k].marker = "abs") = abs /\ ResolvePos(dp.splits[k]) # 0}
  <2>1. CASE found = {}
    BY <2>1 DEF FirstResolved
  <2>2. CASE found # {}
    <3>1. found \in SUBSET Nat /\ found \in SUBSET DOMAIN dp.splits
      BY ProfileFacts
    <3>2. FirstResolved(abs) = ResolvePos(dp.splits[Min(found)])
      BY <2>2 DEF FirstResolved
    <3> HIDE DEF found
    <3>3. \E x \in found : \A y \in found : x <= y
      BY <3>1, <2>2, Least
    <3>4. Min(found) \in found
      BY <3>3, Zenon DEF Min
    <3>5. dp.splits[Min(found)] \in Pos
      <4> DEFINE m == Min(found)
                 s == dp.splits
      <4>1. m \in DOMAIN s /\ s \in Seq(Pos)
        BY <3>4, <3>1, ProfileFacts
      <4> HIDE DEF m, s
      <4>2. s[m] \in Pos
        BY <4>1
      <4> QED BY <4>2 DEF m, s
    <3> QED BY <3>2, <3>5, Resolved
  <2> QED BY <2>1, <2>2
<1>2. \E at \in Int : SplitPos = pos_normalize(at)
  <2> DEFINE a == FirstResolved(FALSE)
             b == FirstResolved(TRUE)
             p == IF a # 0 THEN a ELSE b
             at == IF p = 0 THEN 1 ELSE p
  <2>1. a \in Int /\ b \in Int
    BY <1>1
  <2>2. SplitPos = pos_normalize(at)
    BY Zenon DEF SplitPos
  <2>3. at \in Int
    <3> HIDE DEF a, b
    <3> QED BY <2>1
  <2> HIDE DEF at
  <2> QED BY <2>2, <2>3
<1> QED BY <1>2, Normalized

(* The host name lies inside the packet, and its cut inside the name. *)
LEMMA HostType ==
  ASSUME dp \in Profile, req \in Request, i \in Packets
  PROVE  Within(HostPos, PLen)
<1> DEFINE h == pos_normalize(ResolvePos([marker |-> "host", pos |-> 0]))
           e == pos_normalize(ResolvePos([marker |-> "endhost", pos |-> 0]))
           mid == pos_normalize(ResolvePos(dp.midhost))
           n == PLen
<1>1. h \in 0..n - 1 /\ e \in 0..n - 1 /\ mid \in 0..n - 1
  <2>1. [marker |-> "host", pos |-> 0] \in Pos /\ [marker |-> "endhost", pos |-> 0] \in Pos
    BY DEF Pos, Marker, HostMarker
  <2>2. dp.midhost \in Pos
    BY ProfileFacts
  <2> QED BY <2>1, <2>2, Resolved, Normalized
<1>2. HostPos = IF 0 \in ToSet(<<h, e>>) \/ <<h, e>>[1] >= <<h, e>>[2] THEN <<>>
                ELSE IF mid > <<h, e>>[1] /\ mid < <<h, e>>[2] THEN Append(<<h, e>>, mid) ELSE <<h, e>>
  BY Zenon DEF HostPos
<1>3. n \in Nat
  BY PacketFacts
<1> HIDE DEF h, e, mid
<1>4. (0 \in ToSet(<<h, e>>)) = (h = 0 \/ e = 0)
  BY DEF ToSet
<1> HIDE DEF n
<1>5. h \in Int /\ e \in Int /\ mid \in Int
  BY <1>1, <1>3
<1>6. <<h, e>>[1] = h /\ <<h, e>>[2] = e /\ Len(<<h, e>>) = 2
  OBVIOUS
<1>7. CASE h = 0 \/ e = 0 \/ h >= e
  <2>1. HostPos = <<>>
    BY <1>2, <1>4, <1>6, <1>7
  <2> QED BY <2>1 DEF Within, n
<1>8. CASE ~(h = 0 \/ e = 0 \/ h >= e)
  <2>1. h \in 1..n - 1 /\ e \in 1..n - 1 /\ h < e
    BY <1>8, <1>1, <1>3
  <2>2. <<h, e>> \in Seq(1..n - 1)
    BY <2>1
  <2>3. CASE mid > h /\ mid < e
    <3> DEFINE t == Append(<<h, e>>, mid)
               B == 1..n - 1
               p == <<h, e>>
    <3>1. HostPos = t
      BY <1>2, <1>4, <1>6, <1>8, <2>3
    <3>2. mid \in B /\ p \in Seq(B)
      <4>1. mid \in B
        BY <2>1, <2>3, <1>1, <1>3
      <4>2. p \in Seq(B)
        BY <2>2
      <4> QED BY <4>1, <4>2
    <3>3. Len(p) = 2 /\ p[1] = h /\ p[2] = e
      OBVIOUS
    <3> HIDE DEF B, p
    <3>4. t \in Seq(B) /\ Len(t) = 2 + 1 /\ t[2 + 1] = mid /\ \A k \in 1..2 : t[k] = p[k]
      BY <3>2, <3>3, AppendProperties DEF p
    <3>5. t \in Seq(B) /\ Len(t) = 3 /\ t[1] = h /\ t[2] = e /\ t[3] = mid
      BY <3>3, <3>4
    <3> HIDE DEF t
    <3> QED BY <3>1, <3>5, <2>1, <2>3 DEF Within, n, B
  <2>4. CASE ~(mid > h /\ mid < e)
    <3>1. HostPos = <<h, e>>
      BY <1>2, <1>4, <1>6, <1>8, <2>4
    <3> QED BY <3>1, <2>1, <2>2 DEF Within, n
  <2> QED BY <2>3, <2>4
<1> QED BY <1>7, <1>8

(* The overlap is a length. *)
LEMMA SeqovlType ==
  ASSUME dp \in Profile, req \in Request, i \in Packets
  PROVE  SeqovlPos \in Nat
<1>1. dp.seqovl \in Pos
  BY ProfileFacts
<1>2. dp.seqovl.pos \in Int
  BY <1>1 DEF Pos
<1>3. pos_normalize(ResolvePos(dp.seqovl)) \in 0..PLen - 1
  BY <1>1, Resolved, Normalized
<1>4. \A x \in 0..PLen - 1 : x \in Nat
  BY PacketFacts
<1>5. pos_normalize(ResolvePos(dp.seqovl)) \in Nat
  BY <1>3, <1>4
<1> QED BY <1>2, <1>5 DEF SeqovlPos

------------------------------------------------------------------------------
(* Parts and their shapes. *)

(* The fields of a part, one by one. *)
LEMMA ProperFields ==
  ASSUME NEW p \in Proper
  PROVE  /\ p.real \in BOOLEAN /\ p.from \in Nat /\ p.to \in Nat /\ p.ovl \in Nat
         /\ p.n \in Nat /\ p.g \in Nat /\ p.frag \in 0..2 /\ p.id \in 0..IdMod - 1
         /\ p.from <= p.to /\ (p.real => p.to <= PLen)
         /\ (~ p.real => p.frag = 0 /\ p.ovl = 0)
BY DEF Proper, PartType

(* A part is proper if, unless it is a fake, it is inside the packet. *)
IsPart(p, real, from, to, ovl) ==
  p \in Proper /\ p.real = real /\ Shape(p) = [from |-> from, to |-> to, ovl |-> ovl, frag |-> 0]

(* Part makes a part that lies within the packet. *)
LEMMA PartProper ==
  ASSUME NEW real \in BOOLEAN, NEW from \in Nat, NEW to \in Nat, NEW ovl \in Nat,
         NEW n \in Nat, NEW g \in Nat,
         from <= to, real => to <= PLen, ~ real => ovl = 0
  PROVE  IsPart(Part(real, from, to, ovl, n, g), real, from, to, ovl)
<1>1. 0 \in 0..2 /\ 0 \in 0..IdMod - 1
  BY ConstAssumption
<1> DEFINE p == Part(real, from, to, ovl, n, g)
<1>2. p = [real |-> real, from |-> from, to |-> to, ovl |-> ovl, n |-> n, g |-> g, frag |-> 0, id |-> 0]
  BY DEF Part
<1>3. p \in Proper
  BY <1>1, <1>2 DEF Proper, PartType
<1>4. p.real = real /\ Shape(p) = [from |-> from, to |-> to, ovl |-> ovl, frag |-> 0]
  BY <1>2 DEF Shape
<1> QED BY <1>3, <1>4 DEF IsPart

(* ... a genuine one, *)
LEMMA GenuinePart ==
  ASSUME NEW from \in Nat, NEW to \in Nat, NEW ovl \in Nat, NEW n \in Nat, NEW g \in Nat,
         from <= to, to <= PLen
  PROVE  IsPart(Part(TRUE, from, to, ovl, n, g), TRUE, from, to, ovl)
<1>1. ASSUME NEW real \in BOOLEAN, real PROVE IsPart(Part(real, from, to, ovl, n, g), real, from, to, ovl)
  BY <1>1, PartProper
<1> QED BY <1>1, Zenon

(* ... and a fake. *)
LEMMA FakePart ==
  ASSUME NEW from \in Nat, NEW to \in Nat, NEW n \in Nat, NEW g \in Nat, from <= to
  PROVE  IsPart(Part(FALSE, from, to, 0, n, g), FALSE, from, to, 0)
<1>1. ASSUME NEW real \in BOOLEAN, ~ real PROVE IsPart(Part(real, from, to, 0, n, g), real, from, to, 0)
  BY <1>1, PartProper
<1> QED BY <1>1, Zenon

(* Renumbering a part changes neither its place nor its bytes. *)
LEMMA Renumbered ==
  ASSUME NEW p \in Proper, NEW x \in Nat, NEW id \in 0..IdMod - 1
  PROVE  /\ [p EXCEPT !.n = x] \in Proper /\ [p EXCEPT !.id = id] \in Proper
         /\ [p EXCEPT !.n = x].real = p.real /\ [p EXCEPT !.id = id].real = p.real
         /\ Shape([p EXCEPT !.n = x]) = Shape(p) /\ Shape([p EXCEPT !.id = id]) = Shape(p)
<1>1. p \in PartType
  BY DEF Proper
<1>2. p = [real |-> p.real, from |-> p.from, to |-> p.to, ovl |-> p.ovl, n |-> p.n, g |-> p.g,
           frag |-> p.frag, id |-> p.id]
  BY <1>1 DEF PartType
<1>3. [p EXCEPT !.n = x] = [real |-> p.real, from |-> p.from, to |-> p.to, ovl |-> p.ovl, n |-> x,
                            g |-> p.g, frag |-> p.frag, id |-> p.id]
  BY <1>1 DEF PartType
<1>4. [p EXCEPT !.id = id] = [real |-> p.real, from |-> p.from, to |-> p.to, ovl |-> p.ovl,
                              n |-> p.n, g |-> p.g, frag |-> p.frag, id |-> id]
  BY <1>1 DEF PartType
<1>5. [p EXCEPT !.n = x] \in Proper
  BY <1>3, ProperFields DEF Proper, PartType
<1>6. [p EXCEPT !.id = id] \in Proper
  BY <1>4, ProperFields DEF Proper, PartType
<1>7. [p EXCEPT !.n = x].real = p.real /\ Shape([p EXCEPT !.n = x]) = Shape(p)
  BY <1>3 DEF Shape
<1>8. [p EXCEPT !.id = id].real = p.real /\ Shape([p EXCEPT !.id = id]) = Shape(p)
  BY <1>4 DEF Shape
<1> QED BY <1>5, <1>6, <1>7, <1>8

(* The genuine parts of a sequence, as a set. *)
LEMMA GenuineIff ==
  ASSUME NEW parts, NEW s
  PROVE  s \in Genuine(parts) <=> \E k \in DOMAIN parts : parts[k].real /\ s = Shape(parts[k])
BY DEF Genuine

(* Parts of the same shapes are the same genuine parts. *)
LEMMA GenuineSame ==
  ASSUME NEW a, NEW b, DOMAIN a = DOMAIN b,
         \A k \in DOMAIN a : a[k].real = b[k].real /\ Shape(a[k]) = Shape(b[k])
  PROVE  Genuine(a) = Genuine(b)
<1>1. ASSUME NEW s \in Genuine(a) PROVE s \in Genuine(b)
  BY <1>1, GenuineIff
<1>2. ASSUME NEW s \in Genuine(b) PROVE s \in Genuine(a)
  BY <1>2, GenuineIff
<1> QED BY <1>1, <1>2

(* The genuine part of a single part, *)
LEMMA GenuineOne ==
  ASSUME NEW p \in Proper
  PROVE  /\ <<p>> \in Seq(Proper) /\ <<p>> # <<>>
         /\ p.real => Genuine(<<p>>) = {Shape(p)}
         /\ ~ p.real => Genuine(<<p>>) = {}
<1>1. DOMAIN <<p>> = {1} /\ <<p>>[1] = p
  OBVIOUS
<1>2. <<p>> \in Seq(Proper) /\ <<p>> # <<>>
  OBVIOUS
<1>3. \A s : s \in Genuine(<<p>>) <=> p.real /\ s = Shape(p)
  BY <1>1, GenuineIff
<1> QED BY <1>2, <1>3

(* ... of none, *)
LEMMA GenuineNone == <<>> \in Seq(Proper) /\ Genuine(<<>>) = {}
<1>1. \A s : s \notin Genuine(<<>>)
  BY GenuineIff
<1> QED BY <1>1

(* ... of two lists, *)
LEMMA GenuineConcat ==
  ASSUME NEW a \in Seq(Proper), NEW b \in Seq(Proper)
  PROVE  a \o b \in Seq(Proper) /\ Genuine(a \o b) = Genuine(a) \cup Genuine(b)
<1> DEFINE c == a \o b
           m == Len(a)
           n == Len(b)
<1>1. /\ c \in Seq(Proper) /\ Len(c) = m + n
      /\ \A k \in 1..m + n : c[k] = IF k <= m THEN a[k] ELSE b[k - m]
  BY ConcatProperties
<1>2. m \in Nat /\ n \in Nat /\ DOMAIN a = 1..m /\ DOMAIN b = 1..n /\ DOMAIN c = 1..m + n
  <2>1. m \in Nat /\ n \in Nat /\ DOMAIN a = 1..m /\ DOMAIN b = 1..n
    OBVIOUS
  <2> HIDE DEF c, m, n
  <2> QED BY <1>1, <2>1
<1> HIDE DEF c, m, n
<1>3. ASSUME NEW s \in Genuine(c) PROVE s \in Genuine(a) \cup Genuine(b)
  <2>1. PICK k \in 1..m + n : c[k].real /\ s = Shape(c[k])
    BY <1>2, <1>3, GenuineIff
  <2>2. CASE k <= m
    <3>1. k \in DOMAIN a /\ c[k] = a[k]
      BY <1>1, <1>2, <2>2
    <3> QED BY <3>1, <2>1, GenuineIff
  <2>3. CASE ~(k <= m)
    <3>1. k - m \in DOMAIN b /\ c[k] = b[k - m]
      BY <1>1, <1>2, <2>3
    <3> QED BY <3>1, <2>1, GenuineIff
  <2> QED BY <2>2, <2>3
<1>4. ASSUME NEW s \in Genuine(a) PROVE s \in Genuine(c)
  <2>1. PICK k \in 1..m : a[k].real /\ s = Shape(a[k])
    BY <1>2, <1>4, GenuineIff
  <2>2. k \in DOMAIN c /\ c[k] = a[k]
    BY <1>1, <1>2
  <2> QED BY <2>1, <2>2, GenuineIff
<1>5. ASSUME NEW s \in Genuine(b) PROVE s \in Genuine(c)
  <2>1. PICK k \in 1..n : b[k].real /\ s = Shape(b[k])
    BY <1>2, <1>5, GenuineIff
  <2>2. k + m \in 1..m + n /\ ~(k + m <= m) /\ (k + m) - m = k
    BY <1>2
  <2>3. k + m \in DOMAIN c /\ c[k + m] = b[k]
    BY <1>1, <1>2, <2>2
  <2> QED BY <2>1, <2>3, GenuineIff
<1> QED BY <1>1, <1>3, <1>4, <1>5 DEF c

(* ... of a list sent in reverse, *)
LEMMA GenuineReverse ==
  ASSUME NEW a \in Seq(Proper)
  PROVE  Reverse(a) \in Seq(Proper) /\ Genuine(Reverse(a)) = Genuine(a) /\ DOMAIN Reverse(a) = DOMAIN a
<1> DEFINE m == Len(a)
           b == Reverse(a)
<1>1. m \in Nat /\ DOMAIN a = 1..m
  OBVIOUS
<1>2. b = [k \in 1..m |-> a[(m - k) + 1]]
  BY DEF Reverse
<1>3. \A k \in 1..m : (m - k) + 1 \in 1..m /\ (m - ((m - k) + 1)) + 1 = k
  BY <1>1
<1>4. \A k \in 1..m : a[k] \in Proper
  OBVIOUS
<1> HIDE DEF m, b
<1>5. b \in [1..m -> Proper]
  BY <1>1, <1>2, <1>3, <1>4
<1>6. b \in Seq(Proper) /\ DOMAIN b = 1..m
  BY <1>1, <1>5
<1>7. ASSUME NEW s \in Genuine(b) PROVE s \in Genuine(a)
  <2>1. PICK k \in 1..m : b[k].real /\ s = Shape(b[k])
    BY <1>6, <1>7, GenuineIff
  <2>2. b[k] = a[(m - k) + 1] /\ (m - k) + 1 \in DOMAIN a
    BY <1>1, <1>2, <1>3
  <2> QED BY <2>1, <2>2, GenuineIff
<1>8. ASSUME NEW s \in Genuine(a) PROVE s \in Genuine(b)
  <2>1. PICK k \in 1..m : a[k].real /\ s = Shape(a[k])
    BY <1>1, <1>8, GenuineIff
  <2>2. (m - k) + 1 \in DOMAIN b /\ b[(m - k) + 1] = a[k]
    BY <1>1, <1>2, <1>3, <1>6
  <2> QED BY <2>1, <2>2, GenuineIff
<1> QED BY <1>1, <1>6, <1>7, <1>8 DEF b

(* ... and of a list whose first part is taken off. *)
LEMMA GenuineHead ==
  ASSUME NEW a \in Seq(Proper), a # <<>>
  PROVE  /\ Tail(a) \in Seq(Proper) /\ Head(a) \in Proper
         /\ Genuine(a) = Genuine(Tail(a)) \cup (IF Head(a).real THEN {Shape(Head(a))} ELSE {})
<1> DEFINE t == Tail(a)
           h == Head(a)
           m == Len(a)
<1>1. /\ h \in Proper /\ t \in Seq(Proper) /\ Len(t) = m - 1
      /\ \A k \in 1..m - 1 : t[k] = a[k + 1]
  BY HeadTailProperties
<1>2. h = a[1] /\ m \in Nat \ {0} /\ DOMAIN a = 1..m
  OBVIOUS
<1> HIDE DEF t, h, m
<1>3. DOMAIN t = 1..m - 1
  BY <1>1, <1>2
<1>4. ASSUME NEW s \in Genuine(a) PROVE s \in Genuine(t) \/ (h.real /\ s = Shape(h))
  <2>1. PICK k \in 1..m : a[k].real /\ s = Shape(a[k])
    BY <1>2, <1>4, GenuineIff
  <2>2. CASE k = 1
    BY <2>1, <2>2, <1>2
  <2>3. CASE k # 1
    <3>1. k - 1 \in 1..m - 1 /\ (k - 1) + 1 = k
      BY <2>3, <1>2
    <3>2. t[k - 1] = a[k]
      BY <3>1, <1>1
    <3> QED BY <3>1, <3>2, <2>1, <1>3, GenuineIff
  <2> QED BY <2>2, <2>3
<1>5. ASSUME NEW s \in Genuine(t) PROVE s \in Genuine(a)
  <2>1. PICK k \in 1..m - 1 : t[k].real /\ s = Shape(t[k])
    BY <1>3, <1>5, GenuineIff
  <2>2. k + 1 \in DOMAIN a /\ a[k + 1] = t[k]
    BY <1>1, <1>2
  <2> QED BY <2>1, <2>2, GenuineIff
<1>6. h.real => Shape(h) \in Genuine(a)
  <2>1. 1 \in DOMAIN a
    BY <1>2
  <2> QED BY <2>1, <1>2, GenuineIff
<1> QED BY <1>1, <1>4, <1>5, <1>6 DEF t, h

------------------------------------------------------------------------------
(* What the parts of a mode make up: the whole packet, and junk only before  *)
(* the request or where no part ends.                                        *)

(* The shapes T make the packet: all of it is in them, no junk does harm. *)
Makes(T) ==
  /\ \A s \in T : s.ovl # 0 =>
       \/ ReasmOffset = 0 /\ s.from = 0
       \/ s.ovl < s.from /\ \A r \in T : s.from <= r.to
  /\ \A x \in 0..PLen - 1 : \E s \in T :
       s.from <= x /\ x < s.to /\ (s.frag = 0 \/ \E t \in T : t.frag = 3 - s.frag)

(* Between ascending cuts from 0 to n, every number has its place. *)
LEMMA Chain ==
  ASSUME NEW m \in Nat \ {0}, NEW n \in Nat, NEW c, c \in [1..m + 1 -> Nat],
         c[1] = 0, c[m + 1] = n, NEW x \in 0..n - 1
  PROVE  \E k \in 1..m : c[k] <= x /\ x < c[k + 1]
<1> DEFINE T == {k \in 1..m + 1 : x < c[k]}
<1>1. m + 1 \in T /\ T \in SUBSET Nat
  OBVIOUS
<1>2. PICK k \in T : \A y \in T : k <= y
  <2> HIDE DEF T
  <2> QED BY <1>1, Least
<1>3. k \in 1..m + 1 /\ x < c[k] /\ x \in Nat
  OBVIOUS
<1>4. k # 1
  BY <1>3
<1>5. k - 1 \in 1..m /\ k - 1 \in 1..m + 1 /\ (k - 1) + 1 = k
  BY <1>3, <1>4
<1>6. k - 1 \notin T
  <2> HIDE DEF T
  <2> QED BY <1>2, <1>3
<1>7. c[k - 1] \in Nat /\ ~(x < c[k - 1])
  BY <1>5, <1>6
<1>8. c[k - 1] <= x
  BY <1>3, <1>7
<1> QED BY <1>3, <1>5, <1>8

(* The cuts with the ends of the packet ascend. *)
LEMMA CutList ==
  ASSUME req \in Request, i \in Packets, PosFits
  PROVE  LET cut == <<0>> \o pos.cuts \o <<PLen>>
             m == Len(cut) - 1
         IN  /\ m \in Nat \ {0} /\ Len(cut) = m + 1 /\ cut \in [1..m + 1 -> Nat]
             /\ cut[1] = 0 /\ cut[m + 1] = PLen
             /\ \A j, k \in 1..m + 1 : j < k => cut[j] < cut[k]
<1> DEFINE c == pos.cuts
           l == Len(c)
           n == PLen
           B == 0..n
           a == <<0>> \o c
           cut == a \o <<n>>
<1>1. n \in Nat \ {0}
  BY PacketFacts
<1>2. c \in Seq(1..n - 1) /\ \A j, k \in DOMAIN c : j < k => c[j] < c[k]
  BY DEF PosFits
<1> HIDE DEF c, n
<1>3. l \in Nat /\ DOMAIN c = 1..l /\ \A k \in 1..l : c[k] \in 1..n - 1
  <2> DEFINE D == 1..n - 1
  <2>1. c \in Seq(D)
    BY <1>2
  <2> HIDE DEF D
  <2>2. l \in Nat /\ DOMAIN c = 1..l /\ \A k \in 1..l : c[k] \in D
    BY <2>1
  <2> QED BY <2>2 DEF D
<1>4. c \in Seq(B)
  <2>1. 1..n - 1 \subseteq B
    BY <1>1
  <2> QED BY <2>1, <1>2, SeqMonotonic, Zenon
<1>5. <<0>> \in Seq(B) /\ <<n>> \in Seq(B)
  BY <1>1
<1>6. Len(<<0>>) = 1 /\ Len(<<n>>) = 1 /\ <<0>>[1] = 0 /\ <<n>>[1] = n
  OBVIOUS
<1> HIDE DEF B
<1>7. /\ a \in Seq(B) /\ Len(a) = 1 + l
      /\ \A k \in 1..1 + l : a[k] = IF k <= 1 THEN <<0>>[k] ELSE c[k - 1]
  BY <1>4, <1>5, <1>6, ConcatProperties
<1> HIDE DEF a
<1>8. /\ cut \in Seq(B) /\ Len(cut) = (1 + l) + 1
      /\ \A k \in 1..(1 + l) + 1 : cut[k] = IF k <= 1 + l THEN a[k] ELSE <<n>>[k - (1 + l)]
  BY <1>5, <1>6, <1>7, ConcatProperties
<1> HIDE DEF cut
<1>9. cut[1] = 0 /\ cut[l + 2] = n /\ \A k \in 2..l + 1 : cut[k] = c[k - 1]
  <2> HIDE DEF l
  <2>1. 1 \in 1..1 + l /\ 1 \in 1..(1 + l) + 1 /\ l + 2 \in 1..(1 + l) + 1 /\ ~(l + 2 <= 1 + l)
        /\ (l + 2) - (1 + l) = 1 /\ \A k \in 2..l + 1 : k \in 1..1 + l /\ k \in 1..(1 + l) + 1 /\ ~(k <= 1) /\ k <= 1 + l
    BY <1>3
  <2>2. cut[1] = a[1] /\ a[1] = 0
    BY <2>1, <1>3, <1>6, <1>7, <1>8
  <2>3. cut[l + 2] = n
    BY <2>1, <1>6, <1>8
  <2> QED BY <2>1, <2>2, <2>3, <1>7, <1>8
<1>10. ASSUME NEW j \in 1..l + 2, NEW k \in 1..l + 2, j < k PROVE cut[j] < cut[k]
  <2> HIDE DEF l
  <2>1. CASE j = 1 /\ k = l + 2
    BY <2>1, <1>9, <1>1
  <2>2. CASE j = 1 /\ k # l + 2
    <3>1. k \in 2..l + 1 /\ k - 1 \in 1..l
      BY <2>2, <1>10, <1>3
    <3>2. cut[k] \in 1..n - 1
      BY <3>1, <1>9, <1>3
    <3> QED BY <3>2, <2>2, <1>9, <1>1
  <2>3. CASE j # 1 /\ k = l + 2
    <3>1. j \in 2..l + 1 /\ j - 1 \in 1..l
      BY <2>3, <1>10, <1>3
    <3>2. cut[j] \in 1..n - 1
      BY <3>1, <1>9, <1>3
    <3> QED BY <3>2, <2>3, <1>9, <1>1
  <2>4. CASE j # 1 /\ k # l + 2
    <3>1. j \in 2..l + 1 /\ j - 1 \in 1..l /\ k \in 2..l + 1 /\ k - 1 \in 1..l /\ j - 1 < k - 1
      BY <2>4, <1>10, <1>3
    <3>2. c[j - 1] < c[k - 1]
      BY <3>1, <1>2, <1>3
    <3> QED BY <3>1, <3>2, <1>9
  <2> QED BY <2>1, <2>2, <2>3, <2>4
<1> DEFINE m == Len(cut) - 1
<1>11. m = l + 1 /\ Len(cut) = m + 1 /\ m + 1 = l + 2 /\ m \in Nat \ {0}
  <2> HIDE DEF l
  <2> QED BY <1>3, <1>8
<1>12. cut \in [1..m + 1 -> Nat]
  <2>1. B \subseteq Nat
    BY <1>1 DEF B
  <2>2. cut \in Seq(Nat)
    BY <2>1, <1>8, SeqMonotonic, Zenon
  <2>3. cut \in [1..Len(cut) -> Nat]
    BY <2>2, LenProperties
  <2> QED BY <2>3, <1>11
<1> HIDE DEF m
<1>13. /\ m \in Nat \ {0} /\ Len(cut) = m + 1 /\ cut \in [1..m + 1 -> Nat]
       /\ cut[1] = 0 /\ cut[m + 1] = n
       /\ \A j, k \in 1..m + 1 : j < k => cut[j] < cut[k]
  BY <1>9, <1>10, <1>11, <1>12
<1> QED BY <1>13, Zenon DEF m, cut, a, c, n

(* A list of adjacent parts, o[k] bytes of junk before part k. *)
LEMMA CutParts ==
  ASSUME req \in Request, i \in Packets,
         NEW m \in Nat \ {0}, NEW c, c \in [1..m + 1 -> Nat], c[1] = 0, c[m + 1] = PLen,
         \A j, k \in 1..m + 1 : j < k => c[j] < c[k],
         NEW o, o \in [1..m -> Nat],
         NEW parts, parts = [k \in 1..m |-> Part(TRUE, c[k], c[k + 1], o[k], k - 1, k - 1)],
         \A k \in 1..m : o[k] # 0 => (k = 1 /\ ReasmOffset = 0) \/ (k = 2 /\ o[k] < c[k])
  PROVE  parts \in Seq(Proper) /\ Makes(Genuine(parts)) /\ parts # <<>>
<1> DEFINE n == PLen
           S(k) == [from |-> c[k], to |-> c[k + 1], ovl |-> o[k], frag |-> 0]
<1>1. n \in Nat \ {0}
  BY PacketFacts
<1>2. \A k \in 1..m : /\ k \in 1..m + 1 /\ k + 1 \in 1..m + 1 /\ k < k + 1 /\ k - 1 \in Nat
                      /\ (k + 1 = m + 1 \/ k + 1 < m + 1)
  OBVIOUS
<1>3. m + 1 \in 1..m + 1 /\ 1 \in 1..m + 1
  OBVIOUS
<1>4. ASSUME NEW k \in 1..m
      PROVE  /\ parts[k] \in Proper /\ parts[k].real /\ Shape(parts[k]) = S(k)
             /\ c[k] \in Nat /\ c[k + 1] \in Nat /\ c[k] < c[k + 1] /\ c[k + 1] <= n /\ o[k] \in Nat
  <2>1. c[k] \in Nat /\ c[k + 1] \in Nat /\ c[k] < c[k + 1] /\ o[k] \in Nat
    BY <1>2
  <2>2. c[k + 1] <= n
    <3>1. k + 1 \in 1..m + 1 /\ m + 1 \in 1..m + 1
      BY <1>2, <1>3
    <3>2. CASE k + 1 = m + 1
      BY <3>2, <2>1
    <3>3. CASE k + 1 < m + 1
      <4>1. c[k + 1] < c[m + 1]
        BY <3>1, <3>3
      <4> QED BY <4>1, <2>1, <1>1
    <3> QED BY <3>2, <3>3, <1>2
  <2>3. parts[k] = Part(TRUE, c[k], c[k + 1], o[k], k - 1, k - 1)
    OBVIOUS
  <2>4. c[k] <= c[k + 1] /\ k - 1 \in Nat
    BY <2>1, <1>2
  <2> DEFINE a == c[k]
             b == c[k + 1]
             j == o[k]
             q == k - 1
  <2>5. a \in Nat /\ b \in Nat /\ j \in Nat /\ q \in Nat /\ a <= b /\ b <= PLen
        /\ parts[k] = Part(TRUE, a, b, j, q, q)
    BY <2>1, <2>2, <2>3, <2>4
  <2> HIDE DEF a, b, j, q
  <2> DEFINE p == Part(TRUE, a, b, j, q, q)
  <2>6. IsPart(p, TRUE, a, b, j)
    BY <2>5, GenuinePart
  <2>7. parts[k] = p
    BY <2>5
  <2> HIDE DEF p
  <2>8. p \in Proper /\ p.real = TRUE /\ Shape(p) = [from |-> a, to |-> b, ovl |-> j, frag |-> 0]
    BY <2>6, Zenon DEF IsPart
  <2> QED BY <2>1, <2>2, <2>7, <2>8 DEF a, b, j
<1>5. DOMAIN parts = 1..m
  OBVIOUS
<1>6. parts \in Seq(Proper) /\ parts # <<>>
  <2>1. parts \in [1..m -> Proper]
    BY <1>4
  <2>2. parts \in Seq(Proper)
    BY <2>1, m \in Nat, SeqDef
  <2>3. 1 \in DOMAIN parts
    BY <1>5
  <2>4. parts # <<>>
    <3>1. 1 \notin DOMAIN <<>>
      OBVIOUS
    <3> QED BY ONLY <3>1, <2>3
  <2> QED BY <2>2, <2>4
<1> DEFINE T == Genuine(parts)
<1>7. \A s : s \in T <=> \E k \in 1..m : s = S(k)
  <2>1. \A k \in 1..m : parts[k].real /\ Shape(parts[k]) = S(k)
    BY <1>4
  <2> HIDE DEF S
  <2> SUFFICES ASSUME NEW s PROVE s \in T <=> \E k \in 1..m : s = S(k)
    OBVIOUS
  <2>2. s \in T <=> \E k \in DOMAIN parts : parts[k].real /\ s = Shape(parts[k])
    BY ONLY GenuineIff
  <2> HIDE DEF T
  <2> QED BY ONLY <2>1, <2>2, <1>5
<1> HIDE DEF T
<1>8. ASSUME NEW s \in T, s.ovl # 0
      PROVE  \/ ReasmOffset = 0 /\ s.from = 0
             \/ s.ovl < s.from /\ \A r \in T : s.from <= r.to
  <2>1. PICK k \in 1..m : s = S(k)
    BY <1>7
  <2>2. s.ovl = o[k] /\ s.from = c[k]
    BY <2>1
  <2>3. CASE k = 1 /\ ReasmOffset = 0
    BY <2>2, <2>3
  <2>4. CASE k = 2 /\ o[k] < c[k]
    <3>1. ASSUME NEW r \in T PROVE c[k] <= r.to
      <4>1. PICK j \in 1..m : r = S(j)
        BY <1>7
      <4>2. r.to = c[j + 1] /\ c[j + 1] \in Nat /\ c[k] \in Nat
        BY <4>1, <1>4
      <4>3. j + 1 = 2 \/ (2 < j + 1 /\ 2 \in 1..m + 1 /\ j + 1 \in 1..m + 1)
        BY <2>4
      <4>4. j + 1 = 2 \/ c[2] < c[j + 1]
        BY <4>3
      <4> QED BY <4>2, <4>4, <2>4
    <3> QED BY <3>1, <2>2, <2>4
  <2> QED BY <2>2, <2>3, <2>4, <1>8
<1>9. ASSUME NEW x \in 0..n - 1
      PROVE  \E s \in T : s.from <= x /\ x < s.to /\ (s.frag = 0 \/ \E t \in T : t.frag = 3 - s.frag)
  <2>1. PICK k \in 1..m : c[k] <= x /\ x < c[k + 1]
    BY <1>1, Chain
  <2>2. S(k) \in T
    BY <1>7
  <2>3. S(k).from = c[k] /\ S(k).to = c[k + 1] /\ S(k).frag = 0
    OBVIOUS
  <2> QED BY <2>1, <2>2, <2>3
<1> QED BY <1>6, <1>8, <1>9 DEF Makes, T

(* The parts of multisplit make the packet, *)
LEMMA MultisplitMakes ==
  ASSUME req \in Request, i \in Packets, PosFits
  PROVE  Multisplit \in Seq(Proper) /\ Makes(Genuine(Multisplit)) /\ Multisplit # <<>>
<1> DEFINE cut == <<0>> \o pos.cuts \o <<PLen>>
           m == Len(cut) - 1
           o == [k \in 1..m |-> IF k = 1 /\ ReasmOffset = 0 THEN pos.ovl ELSE 0]
           parts == [k \in 1..m |-> Part(TRUE, cut[k], cut[k + 1], o[k], k - 1, k - 1)]
<1>1. /\ m \in Nat \ {0} /\ Len(cut) = m + 1 /\ cut \in [1..m + 1 -> Nat]
      /\ cut[1] = 0 /\ cut[m + 1] = PLen
      /\ \A j, k \in 1..m + 1 : j < k => cut[j] < cut[k]
  BY CutList, Zenon
<1>2. Multisplit = [k \in 1..m |-> Part(TRUE, cut[k], cut[k + 1],
                                        IF k = 1 /\ ReasmOffset = 0 THEN pos.ovl ELSE 0, k - 1, k - 1)]
  BY Zenon DEF Multisplit
<1> HIDE DEF cut, m
<1>3. o \in [1..m -> Nat] /\ \A k \in 1..m : o[k] = IF k = 1 /\ ReasmOffset = 0 THEN pos.ovl ELSE 0
  BY DEF PosFits
<1> HIDE DEF o
<1>4. \A k \in 1..m : o[k] # 0 => (k = 1 /\ ReasmOffset = 0) \/ (k = 2 /\ o[k] < cut[k])
  BY <1>3
<1>5. Multisplit = parts
  BY <1>2, <1>3, Zenon
<1> HIDE DEF parts
<1>6. parts = [k \in 1..m |-> Part(TRUE, cut[k], cut[k + 1], o[k], k - 1, k - 1)]
  BY DEF parts
<1> QED BY <1>1, <1>3, <1>4, <1>5, <1>6, CutParts

(* ... and so do those of multidisorder, last part first. *)
LEMMA MultidisorderMakes ==
  ASSUME req \in Request, i \in Packets, PosFits
  PROVE  Multidisorder \in Seq(Proper) /\ Makes(Genuine(Multidisorder)) /\ Multidisorder # <<>>
<1> DEFINE cut == <<0>> \o pos.cuts \o <<PLen>>
           m == Len(cut) - 1
           o == [k \in 1..m |-> IF k = 2 /\ pos.ovl < cut[k] THEN pos.ovl ELSE 0]
           parts == [k \in 1..m |-> Part(TRUE, cut[k], cut[k + 1], o[k], k - 1, k - 1)]
<1>1. /\ m \in Nat \ {0} /\ Len(cut) = m + 1 /\ cut \in [1..m + 1 -> Nat]
      /\ cut[1] = 0 /\ cut[m + 1] = PLen
      /\ \A j, k \in 1..m + 1 : j < k => cut[j] < cut[k]
  BY CutList, Zenon
<1>2. Multidisorder = Reverse([k \in 1..m |-> Part(TRUE, cut[k], cut[k + 1],
                                   IF k = 2 /\ pos.ovl < cut[k] THEN pos.ovl ELSE 0, k - 1, k - 1)])
  BY Zenon DEF Multidisorder
<1> HIDE DEF cut, m
<1>3. o \in [1..m -> Nat] /\ \A k \in 1..m : o[k] = IF k = 2 /\ pos.ovl < cut[k] THEN pos.ovl ELSE 0
  BY DEF PosFits
<1> HIDE DEF o
<1>4. \A k \in 1..m : o[k] # 0 => (k = 1 /\ ReasmOffset = 0) \/ (k = 2 /\ o[k] < cut[k])
  BY <1>3
<1>5. Multidisorder = Reverse(parts)
  BY <1>2, <1>3, Zenon
<1> HIDE DEF parts
<1>6. parts = [k \in 1..m |-> Part(TRUE, cut[k], cut[k + 1], o[k], k - 1, k - 1)]
  BY DEF parts
<1>7. parts \in Seq(Proper) /\ Makes(Genuine(parts)) /\ parts # <<>>
  BY <1>1, <1>3, <1>4, <1>6, CutParts
<1>8. Reverse(parts) # <<>>
  <2>1. Len(parts) \in Nat \ {0} /\ DOMAIN parts = 1..Len(parts)
    BY <1>7
  <2>2. DOMAIN Reverse(parts) = 1..Len(parts)
    BY <2>1, <1>7, GenuineReverse
  <2>3. 1 \in DOMAIN Reverse(parts)
    BY <2>1, <2>2
  <2> QED BY <2>3
<1> QED BY <1>5, <1>7, <1>8, GenuineReverse

(* The packet as it came is a genuine part, all of it. *)
LEMMA WholeShape ==
  ASSUME req \in Request, i \in 0..Len(req.lens)
  PROVE  /\ PLen \in Nat /\ Whole \in Proper /\ Whole.real = TRUE
         /\ Shape(Whole) = [from |-> 0, to |-> PLen, ovl |-> 0, frag |-> 0]
<1> DEFINE n == PLen
           p == Part(TRUE, 0, n, 0, 0, 0)
           id == IF i = 0 THEN 0 ELSE req.ids[i]
<1>1. n \in Nat
  <2>1. CASE i = 0
    BY <2>1 DEF PLen
  <2>2. CASE i # 0
    <3>1. i \in Packets
      BY <2>2, RequestFacts DEF Packets
    <3> QED BY <3>1, PacketFacts
  <2> QED BY <2>1, <2>2
<1>2. id \in 0..IdMod - 1
  <2>1. 0 \in 0..IdMod - 1
    BY ConstAssumption
  <2>2. i # 0 => req.ids[i] \in 0..IdMod - 1
    <3> DEFINE ids == req.ids
               B == 0..IdMod - 1
    <3>1. ids \in Seq(B) /\ (i # 0 => i \in 1..Len(ids))
      BY RequestFacts
    <3> HIDE DEF ids, B
    <3>2. i # 0 => ids[i] \in B
      BY <3>1
    <3> QED BY <3>2 DEF ids, B
  <2> QED BY <2>1, <2>2
<1>3. IsPart(p, TRUE, 0, n, 0)
  <2> HIDE DEF n
  <2>1. n \in Nat /\ 0 \in Nat /\ 0 <= n /\ n <= n
    BY <1>1
  <2> QED BY <2>1, GenuinePart DEF n
<1>4. p \in Proper /\ p.real = TRUE /\ Shape(p) = [from |-> 0, to |-> n, ovl |-> 0, frag |-> 0]
  BY <1>3, Zenon DEF IsPart
<1>5. Whole = [p EXCEPT !.id = id]
  BY Zenon DEF Whole
<1> HIDE DEF p, id
<1>6. Whole \in Proper /\ Whole.real = p.real /\ Shape(Whole) = Shape(p)
  BY <1>2, <1>4, <1>5, Renumbered
<1> QED BY <1>1, <1>4, <1>6, Zenon

(* ... and makes the packet, *)
LEMMA WholeMakes ==
  ASSUME req \in Request, i \in Packets
  PROVE  <<Whole>> \in Seq(Proper) /\ Makes(Genuine(<<Whole>>))
<1> DEFINE s == [from |-> 0, to |-> PLen, ovl |-> 0, frag |-> 0]
<1>1. Whole \in Proper /\ Whole.real = TRUE /\ Shape(Whole) = s
  <2>1. i \in 0..Len(req.lens)
    BY RequestFacts DEF Packets
  <2> QED BY <2>1, WholeShape, Zenon
<1>2. <<Whole>> \in Seq(Proper) /\ Genuine(<<Whole>>) = {s}
  BY <1>1, GenuineOne
<1>3. s.ovl = 0 /\ s.from = 0 /\ s.to = PLen /\ s.frag = 0
  OBVIOUS
<1> HIDE DEF s
<1>4. Makes({s})
  BY <1>3, PacketFacts DEF Makes
<1> QED BY <1>2, <1>4

(* ... as its two fragments do. *)
LEMMA Ipfrag2Makes ==
  ASSUME req \in Request, i \in Packets
  PROVE  Ipfrag2 \in Seq(Proper) /\ Makes(Genuine(Ipfrag2))
<1> DEFINE S(k) == [from |-> 0, to |-> PLen, ovl |-> 0, frag |-> k]
           p == Whole
           n == PLen
<1>1. n \in Nat /\ p \in Proper /\ p.real = TRUE /\ Shape(p) = [from |-> 0, to |-> n, ovl |-> 0, frag |-> 0]
  <2>1. i \in 0..Len(req.lens)
    BY RequestFacts DEF Packets
  <2> QED BY <2>1, WholeShape, Zenon
<1>2. p \in PartType /\ p.from = 0 /\ p.to = n /\ p.ovl = 0
  BY <1>1 DEF Proper, Shape
<1>3. Ipfrag2 = [k \in 1..2 |-> [p EXCEPT !.frag = k]]
  BY Zenon DEF Ipfrag2
<1> HIDE DEF p
<1>4. ASSUME NEW k \in 1..2
      PROVE  /\ [p EXCEPT !.frag = k] \in Proper /\ [p EXCEPT !.frag = k].real
             /\ Shape([p EXCEPT !.frag = k]) = S(k)
  <2>1. [p EXCEPT !.frag = k] = [real |-> p.real, from |-> 0, to |-> n, ovl |-> 0, n |-> p.n,
                                 g |-> p.g, frag |-> k, id |-> p.id]
    BY <1>2 DEF PartType
  <2>2. [p EXCEPT !.frag = k] \in Proper
    <3>1. k \in 0..2
      OBVIOUS
    <3> HIDE DEF n
    <3>2. p.real \in BOOLEAN /\ p.n \in Nat /\ p.g \in Nat /\ p.id \in 0..IdMod - 1
      BY <1>2 DEF PartType
    <3> QED BY <2>1, <3>1, <3>2, <1>1 DEF Proper, PartType, n
  <2> QED BY <2>1, <2>2, <1>1 DEF Shape
<1>5. Ipfrag2 \in Seq(Proper) /\ DOMAIN Ipfrag2 = 1..2
  <2>1. Ipfrag2 \in [1..2 -> Proper]
    BY <1>3, <1>4
  <2> QED BY <2>1, 2 \in Nat, SeqDef
<1> DEFINE T == Genuine(Ipfrag2)
<1>6. \A s : s \in T <=> \E k \in 1..2 : s = S(k)
  <2> SUFFICES ASSUME NEW s PROVE s \in T <=> \E k \in 1..2 : s = S(k)
    OBVIOUS
  <2>1. s \in T <=> \E k \in DOMAIN Ipfrag2 : Ipfrag2[k].real /\ s = Shape(Ipfrag2[k])
    BY ONLY GenuineIff
  <2>2. \A k \in 1..2 : Ipfrag2[k].real /\ Shape(Ipfrag2[k]) = S(k)
    BY <1>3, <1>4
  <2> HIDE DEF S, T
  <2> QED BY ONLY <2>1, <2>2, <1>5
<1> HIDE DEF T
<1>7. ASSUME NEW s \in T PROVE s.ovl = 0
  BY <1>6
<1>8. S(1) \in T /\ S(2) \in T
  BY <1>6
<1>9. ASSUME NEW x \in 0..n - 1
      PROVE  \E s \in T : s.from <= x /\ x < s.to /\ (s.frag = 0 \/ \E t \in T : t.frag = 3 - s.frag)
  <2>1. S(1).from = 0 /\ S(1).to = n /\ S(1).frag = 1 /\ S(2).frag = 2
    OBVIOUS
  <2>2. 3 - S(1).frag = S(2).frag
    BY <2>1
  <2>3. S(1).from <= x /\ x < S(1).to
    BY <2>1, <1>1
  <2> HIDE DEF S
  <2> QED BY <1>8, <2>2, <2>3
<1> QED BY <1>5, <1>7, <1>9 DEF Makes, T

(* Faked makes one genuine part among its fakes. *)
LEMMA FakedShape ==
  ASSUME NEW from \in Nat, NEW to \in Nat, NEW ovl \in Nat, NEW g \in Nat, NEW before, NEW behind,
         from <= to, to <= PLen
  PROVE  /\ Faked(from, to, ovl, g, before, behind) \in Seq(Proper)
         /\ Genuine(Faked(from, to, ovl, g, before, behind)) =
              {[from |-> from, to |-> to, ovl |-> ovl, frag |-> 0]}
<1> DEFINE fake == Part(FALSE, from, to, 0, 0, g)
           real == Part(TRUE, from, to, ovl, 0, g)
           a == IF before THEN <<fake>> ELSE <<>>
           b == IF behind THEN <<fake>> ELSE <<>>
           s == [from |-> from, to |-> to, ovl |-> ovl, frag |-> 0]
<1>1. IsPart(fake, FALSE, from, to, 0) /\ IsPart(real, TRUE, from, to, ovl)
  BY FakePart, GenuinePart
<1>2. fake \in Proper /\ real \in Proper /\ ~ fake.real /\ real.real /\ Shape(real) = s
  <2>1. fake.real = FALSE /\ real.real = TRUE
    BY <1>1, Zenon DEF IsPart
  <2> QED BY <1>1, <2>1, Zenon DEF IsPart
<1>3. Faked(from, to, ovl, g, before, behind) = a \o <<real>> \o b
  BY Zenon DEF Faked
<1> HIDE DEF fake, real, s
<1>4. <<fake>> \in Seq(Proper) /\ Genuine(<<fake>>) = {} /\ <<real>> \in Seq(Proper) /\ Genuine(<<real>>) = {s}
  BY <1>2, GenuineOne
<1>5. a \in Seq(Proper) /\ Genuine(a) = {} /\ b \in Seq(Proper) /\ Genuine(b) = {}
  BY <1>4, GenuineNone, Zenon
<1> HIDE DEF a, b
<1> DEFINE r == <<real>>
           c == a \o r
<1>6. r \in Seq(Proper) /\ Genuine(r) = {s}
  BY <1>4
<1> HIDE DEF r
<1>7. c \in Seq(Proper) /\ Genuine(c) = {} \cup {s}
  BY <1>5, <1>6, GenuineConcat
<1> HIDE DEF c
<1>8. c \o b \in Seq(Proper) /\ Genuine(c \o b) = ({} \cup {s}) \cup {}
  BY <1>5, <1>7, GenuineConcat
<1>9. ({} \cup {s}) \cup {} = {s}
  OBVIOUS
<1> QED BY <1>3, <1>8, <1>9, Zenon DEF c, r, s

(* Numbers of parts do not change what is genuine. *)
LEMMA NumberedShape ==
  ASSUME NEW parts \in Seq(Proper)
  PROVE  Numbered(parts) \in Seq(Proper) /\ Genuine(Numbered(parts)) = Genuine(parts)
<1> DEFINE m == Len(parts)
           b == Numbered(parts)
<1>1. m \in Nat /\ DOMAIN parts = 1..m /\ \A k \in 1..m : parts[k] \in Proper
  OBVIOUS
<1>2. b = [k \in 1..m |-> [parts[k] EXCEPT !.n = k - 1]]
  BY <1>1, Zenon DEF Numbered
<1> HIDE DEF m, b
<1>3. ASSUME NEW k \in 1..m
      PROVE  b[k] \in Proper /\ b[k].real = parts[k].real /\ Shape(b[k]) = Shape(parts[k])
  <2> DEFINE p == parts[k]
             x == k - 1
  <2>1. p \in Proper /\ x \in Nat /\ b[k] = [p EXCEPT !.n = x]
    BY <1>1, <1>2
  <2>2. 0 \in 0..IdMod - 1
    BY ConstAssumption
  <2> HIDE DEF p, x
  <2>3. [p EXCEPT !.n = x] \in Proper /\ [p EXCEPT !.n = x].real = p.real /\ Shape([p EXCEPT !.n = x]) = Shape(p)
    BY <2>1, <2>2, Renumbered
  <2> QED BY <2>1, <2>3 DEF p
<1>4. DOMAIN b = 1..m
  BY <1>2
<1>5. b \in Seq(Proper)
  <2>1. b \in [1..m -> Proper]
    BY <1>2, <1>3, <1>4
  <2> QED BY <2>1, <1>1, SeqDef
<1>6. Genuine(b) = Genuine(parts)
  BY <1>1, <1>3, <1>4, GenuineSame
<1> QED BY <1>5, <1>6 DEF b

(* Two parts on either side of a cut. *)
LEMMA TwoMake ==
  ASSUME req \in Request, i \in Packets, NEW cut \in 0..PLen - 1, NEW a \in Nat, NEW b \in Nat,
         a # 0 => ReasmOffset = 0, b # 0 => b < cut
  PROVE  Makes({[from |-> 0, to |-> cut, ovl |-> a, frag |-> 0],
                [from |-> cut, to |-> PLen, ovl |-> b, frag |-> 0]})
<1> DEFINE s == [from |-> 0, to |-> cut, ovl |-> a, frag |-> 0]
           t == [from |-> cut, to |-> PLen, ovl |-> b, frag |-> 0]
           n == PLen
<1>1. /\ s.from = 0 /\ s.to = cut /\ s.ovl = a /\ s.frag = 0
      /\ t.from = cut /\ t.to = n /\ t.ovl = b /\ t.frag = 0
  OBVIOUS
<1>2. n \in Nat \ {0} /\ cut \in 0..n - 1
  BY PacketFacts
<1> HIDE DEF s, t, n
<1>3. ASSUME NEW r \in {s, t}, r.ovl # 0
      PROVE  \/ ReasmOffset = 0 /\ r.from = 0
             \/ r.ovl < r.from /\ \A u \in {s, t} : r.from <= u.to
  <2>1. CASE r = s
    BY <2>1, <1>1, <1>3
  <2>2. CASE r = t
    <3>1. r.ovl < r.from /\ r.from = cut
      BY <2>2, <1>1, <1>3
    <3>2. cut <= s.to /\ cut <= t.to
      BY <1>1, <1>2
    <3> QED BY <3>1, <3>2
  <2> QED BY <2>1, <2>2
<1>4. ASSUME NEW x \in 0..n - 1
      PROVE  \E r \in {s, t} : r.from <= x /\ x < r.to /\ (r.frag = 0 \/ \E u \in {s, t} : u.frag = 3 - r.frag)
  <2>1. CASE x < cut
    BY <2>1, <1>1, <1>2
  <2>2. CASE ~(x < cut)
    BY <2>2, <1>1, <1>2
  <2> QED BY <2>1, <2>2
<1> QED BY <1>3, <1>4 DEF Makes, n, s, t

(* One part of all of it makes the packet. *)
LEMMA OneMakes ==
  ASSUME req \in Request, i \in Packets
  PROVE  Makes({[from |-> 0, to |-> PLen, ovl |-> 0, frag |-> 0]})
<1> DEFINE s == [from |-> 0, to |-> PLen, ovl |-> 0, frag |-> 0]
<1>3. s.ovl = 0 /\ s.from = 0 /\ s.to = PLen /\ s.frag = 0
  OBVIOUS
<1> HIDE DEF s
<1>4. Makes({s})
  BY <1>3, PacketFacts DEF Makes
<1> QED BY <1>4 DEF s

(* The parts of fakedsplit make the packet, *)
LEMMA FakedsplitMakes ==
  ASSUME req \in Request, i \in Packets, PosFits
  PROVE  Fakedsplit \in Seq(Proper) /\ Makes(Genuine(Fakedsplit))
<1> DEFINE n == PLen
           cut == pos.split
           ovl == IF ReasmOffset = 0 THEN pos.ovl ELSE 0
           whole == Faked(0, n, 0, 0, dp.order0 = 0, dp.order0 <= 1)
           first == Faked(0, cut, ovl, 0, dp.order = 0, dp.order <= 1)
           second == Faked(cut, n, 0, 1, TRUE, dp.order <= 2)
<1>1. n \in Nat \ {0} /\ cut \in 0..n - 1 /\ cut \in Nat /\ ovl \in Nat /\ cut <= n
  BY PacketFacts DEF PosFits
<1>2. Fakedsplit = Numbered(IF cut = 0 THEN whole ELSE first \o second)
  BY Zenon DEF Fakedsplit
<1>3. whole \in Seq(Proper) /\ Genuine(whole) = {[from |-> 0, to |-> n, ovl |-> 0, frag |-> 0]}
  <2> HIDE DEF n
  <2>1. n <= n /\ 0 <= n /\ 0 \in Nat /\ n \in Nat
    BY <1>1
  <2> QED BY <2>1, FakedShape DEF n
<1>4. first \in Seq(Proper) /\ Genuine(first) = {[from |-> 0, to |-> cut, ovl |-> ovl, frag |-> 0]}
  <2> HIDE DEF ovl, cut
  <2>1. cut <= PLen /\ 0 <= cut /\ 0 \in Nat
    BY <1>1
  <2> QED BY <2>1, <1>1, FakedShape
<1>5. second \in Seq(Proper) /\ Genuine(second) = {[from |-> cut, to |-> n, ovl |-> 0, frag |-> 0]}
  <2> HIDE DEF n, cut
  <2>1. n <= n /\ 0 \in Nat /\ 1 \in Nat /\ n \in Nat
    BY <1>1
  <2>2. cut \in Nat /\ cut <= n /\ n <= PLen
    BY <2>1, <1>1 DEF n
  <2>3. ASSUME NEW before
        PROVE  /\ Faked(cut, n, 0, 1, before, dp.order <= 2) \in Seq(Proper)
               /\ Genuine(Faked(cut, n, 0, 1, before, dp.order <= 2)) =
                    {[from |-> cut, to |-> n, ovl |-> 0, frag |-> 0]}
    BY <2>1, <2>2, FakedShape
  <2> QED BY <2>3, Zenon
<1>6. ovl # 0 => ReasmOffset = 0
  OBVIOUS
<1> HIDE DEF n, cut, ovl, whole, first, second
<1>7. CASE cut = 0
  <2>1. Fakedsplit = Numbered(whole)
    BY <1>2, <1>7
  <2> QED BY <2>1, <1>3, NumberedShape, OneMakes DEF n
<1>8. CASE cut # 0
  <2> DEFINE both == first \o second
             s == [from |-> 0, to |-> cut, ovl |-> ovl, frag |-> 0]
             t == [from |-> cut, to |-> n, ovl |-> 0, frag |-> 0]
  <2>1. Fakedsplit = Numbered(both)
    BY <1>2, <1>8
  <2>2. both \in Seq(Proper) /\ Genuine(both) = {s} \cup {t}
    BY <1>4, <1>5, GenuineConcat
  <2>3. Makes({s, t})
    BY <1>1, <1>6, TwoMake DEF n
  <2> HIDE DEF both, s, t
  <2>4. {s} \cup {t} = {s, t}
    OBVIOUS
  <2> QED BY <2>1, <2>2, <2>3, <2>4, NumberedShape
<1> QED BY <1>7, <1>8

(* ... and so do those of fakeddisorder. *)
LEMMA FakeddisorderMakes ==
  ASSUME req \in Request, i \in Packets, PosFits
  PROVE  Fakeddisorder \in Seq(Proper) /\ Makes(Genuine(Fakeddisorder))
<1> DEFINE n == PLen
           cut == pos.split
           ovl == IF pos.ovl < pos.split THEN pos.ovl ELSE 0
           whole == Faked(0, n, 0, 0, dp.order0 = 0, dp.order0 <= 1)
           first == Faked(cut, n, ovl, 0, dp.order = 0, dp.order <= 1)
           second == Faked(0, cut, 0, 1, TRUE, dp.order <= 2)
<1>1. n \in Nat \ {0} /\ cut \in 0..n - 1 /\ cut \in Nat /\ ovl \in Nat /\ cut <= n
  BY PacketFacts DEF PosFits
<1>2. Fakeddisorder = Numbered(IF cut = 0 THEN whole ELSE first \o second)
  BY Zenon DEF Fakeddisorder
<1>3. whole \in Seq(Proper) /\ Genuine(whole) = {[from |-> 0, to |-> n, ovl |-> 0, frag |-> 0]}
  <2> HIDE DEF n
  <2>1. n <= n /\ 0 <= n /\ 0 \in Nat /\ n \in Nat
    BY <1>1
  <2> QED BY <2>1, FakedShape DEF n
<1>4. first \in Seq(Proper) /\ Genuine(first) = {[from |-> cut, to |-> n, ovl |-> ovl, frag |-> 0]}
  <2> HIDE DEF ovl, cut, n
  <2>1. n <= n /\ 0 \in Nat /\ n \in Nat
    BY <1>1
  <2> QED BY <2>1, <1>1, FakedShape DEF n
<1>5. second \in Seq(Proper) /\ Genuine(second) = {[from |-> 0, to |-> cut, ovl |-> 0, frag |-> 0]}
  <2> HIDE DEF cut
  <2>1. cut <= PLen /\ 0 <= cut /\ 0 \in Nat /\ 1 \in Nat
    BY <1>1
  <2>2. ASSUME NEW before
        PROVE  /\ Faked(0, cut, 0, 1, before, dp.order <= 2) \in Seq(Proper)
               /\ Genuine(Faked(0, cut, 0, 1, before, dp.order <= 2)) =
                    {[from |-> 0, to |-> cut, ovl |-> 0, frag |-> 0]}
    BY <2>1, <1>1, FakedShape
  <2> QED BY <2>2, Zenon
<1>6. ovl # 0 => ovl < cut
  OBVIOUS
<1> HIDE DEF n, cut, ovl, whole, first, second
<1>7. CASE cut = 0
  <2>1. Fakeddisorder = Numbered(whole)
    BY <1>2, <1>7
  <2> QED BY <2>1, <1>3, NumberedShape, OneMakes DEF n
<1>8. CASE cut # 0
  <2> DEFINE both == first \o second
             s == [from |-> 0, to |-> cut, ovl |-> 0, frag |-> 0]
             t == [from |-> cut, to |-> n, ovl |-> ovl, frag |-> 0]
  <2>1. Fakeddisorder = Numbered(both)
    BY <1>2, <1>8
  <2>2. both \in Seq(Proper) /\ Genuine(both) = {t} \cup {s}
    BY <1>4, <1>5, GenuineConcat
  <2>3. Makes({s, t})
    BY <1>1, <1>6, TwoMake DEF n
  <2> HIDE DEF both, s, t
  <2>4. {t} \cup {s} = {s, t}
    OBVIOUS
  <2> QED BY <2>1, <2>2, <2>3, <2>4, NumberedShape
<1> QED BY <1>7, <1>8

(* The genuine ones of two parts, *)
LEMMA GenuineTwo ==
  ASSUME NEW a \in Proper, NEW b \in Proper
  PROVE  /\ <<a, b>> \in Seq(Proper)
         /\ \A s : s \in Genuine(<<a, b>>) <=> (a.real /\ s = Shape(a)) \/ (b.real /\ s = Shape(b))
<1>1. DOMAIN <<a, b>> = 1..2 /\ <<a, b>>[1] = a /\ <<a, b>>[2] = b
  OBVIOUS
<1>2. <<a, b>> \in Seq(Proper)
  OBVIOUS
<1>3. \A k \in 1..2 : k = 1 \/ k = 2
  OBVIOUS
<1>4. 1 \in 1..2 /\ 2 \in 1..2
  OBVIOUS
<1> DEFINE t == <<a, b>>
<1>5. ASSUME NEW s
      PROVE  s \in Genuine(t) <=> (a.real /\ s = Shape(a)) \/ (b.real /\ s = Shape(b))
  <2>1. s \in Genuine(t) <=> \E k \in DOMAIN t : t[k].real /\ s = Shape(t[k])
    BY ONLY GenuineIff
  <2> HIDE DEF t
  <2> QED BY <1>1, <1>3, <1>4, <2>1 DEF t
<1> QED BY <1>2, <1>5

(* ... and of three. *)
LEMMA GenuineThree ==
  ASSUME NEW a \in Proper, NEW b \in Proper, NEW c \in Proper
  PROVE  /\ <<a, b, c>> \in Seq(Proper)
         /\ \A s : s \in Genuine(<<a, b, c>>) <=>
              (a.real /\ s = Shape(a)) \/ (b.real /\ s = Shape(b)) \/ (c.real /\ s = Shape(c))
<1>1. DOMAIN <<a, b, c>> = 1..3 /\ <<a, b, c>>[1] = a /\ <<a, b, c>>[2] = b /\ <<a, b, c>>[3] = c
  OBVIOUS
<1>2. <<a, b, c>> \in Seq(Proper)
  OBVIOUS
<1>3. \A k \in 1..3 : k = 1 \/ k = 2 \/ k = 3
  OBVIOUS
<1>4. 1 \in 1..3 /\ 2 \in 1..3 /\ 3 \in 1..3
  OBVIOUS
<1> DEFINE t == <<a, b, c>>
<1>5. ASSUME NEW s
      PROVE  s \in Genuine(t) <=>
               (a.real /\ s = Shape(a)) \/ (b.real /\ s = Shape(b)) \/ (c.real /\ s = Shape(c))
  <2>1. s \in Genuine(t) <=> \E k \in DOMAIN t : t[k].real /\ s = Shape(t[k])
    BY ONLY GenuineIff
  <2> HIDE DEF t
  <2> QED BY <1>1, <1>3, <1>4, <2>1 DEF t
<1> QED BY <1>2, <1>5

(* The name in one part or two. *)
LEMMA NameShape ==
  ASSUME NEW B, B = 0..PLen, PLen \in Nat, NEW c \in Seq(B), Len(c) \in 2..3,
         \A j, k \in 1..Len(c) : j < k => c[j] < c[k],
         NEW name, name = [k \in 1..Len(c) - 1 |-> Part(TRUE, c[k], c[k + 1], 0, k + 1, k)]
  PROVE  /\ name \in Seq(Proper)
         /\ \A s \in Genuine(name) : s.ovl = 0
         /\ \A x \in Int : c[1] <= x /\ x < c[Len(c)] =>
              \E s \in Genuine(name) : s.from <= x /\ x < s.to /\ s.frag = 0
<1> DEFINE m == Len(c) - 1
           S(k) == [from |-> c[k], to |-> c[k + 1], ovl |-> 0, frag |-> 0]
<1>1. m \in 1..2 /\ Len(c) = m + 1
  OBVIOUS
<1>2. \A k \in 1..m + 1 : c[k] \in 0..PLen
  OBVIOUS
<1> HIDE DEF m
<1>3. ASSUME NEW k \in 1..m
      PROVE  name[k] \in Proper /\ name[k].real = TRUE /\ Shape(name[k]) = S(k)
  <2> DEFINE a == c[k]
             b == c[k + 1]
             x == k + 1
             p == Part(TRUE, a, b, 0, x, k)
  <2>1. k \in 1..m + 1 /\ k + 1 \in 1..m + 1 /\ k \in 1..Len(c) /\ k + 1 \in 1..Len(c) /\ k < k + 1
        /\ x \in Nat /\ k \in Nat
    BY <1>1
  <2>2. a \in 0..PLen /\ b \in 0..PLen /\ a < b
    BY <2>1, <1>2
  <2>3. name[k] = p
    BY <1>1
  <2> HIDE DEF a, b, x
  <2>4. a \in Nat /\ b \in Nat /\ a <= b /\ b <= PLen /\ 0 \in Nat
    BY <2>2
  <2>5. IsPart(p, TRUE, a, b, 0)
    BY <2>1, <2>4, GenuinePart
  <2> HIDE DEF p
  <2> QED BY <2>3, <2>5, Zenon DEF IsPart, a, b
<1>4. name \in Seq(Proper) /\ DOMAIN name = 1..m
  <2>1. DOMAIN name = 1..m /\ name = [k \in 1..m |-> name[k]]
    BY DEF m
  <2>2. name \in [1..m -> Proper]
    BY ONLY <2>1, <1>3
  <2>3. m \in Nat
    BY <1>1
  <2> QED BY ONLY <2>1, <2>2, <2>3, SeqDef
<1> DEFINE T == Genuine(name)
<1>5. \A s : s \in T <=> \E k \in 1..m : s = S(k)
  <2> SUFFICES ASSUME NEW s PROVE s \in T <=> \E k \in 1..m : s = S(k)
    OBVIOUS
  <2>1. \A k \in 1..m : name[k].real /\ Shape(name[k]) = S(k)
    BY <1>3
  <2>2. s \in T <=> \E k \in DOMAIN name : name[k].real /\ s = Shape(name[k])
    BY ONLY GenuineIff
  <2> HIDE DEF T, S
  <2> QED BY ONLY <2>1, <2>2, <1>4
<1> HIDE DEF T
<1>6. ASSUME NEW s \in T PROVE s.ovl = 0
  BY <1>5
<1>7. ASSUME NEW x \in Int, c[1] <= x, x < c[m + 1]
      PROVE  \E s \in T : s.from <= x /\ x < s.to /\ s.frag = 0
  <2>1. \A k \in 1..m : S(k) \in T /\ S(k).from = c[k] /\ S(k).to = c[k + 1] /\ S(k).frag = 0
    BY <1>5
  <2> HIDE DEF S
  <2>2. CASE m = 1
    <3>1. 1 \in 1..m /\ 1 + 1 = m + 1
      BY <2>2
    <3> QED BY <3>1, <2>1, <1>7
  <2>3. CASE m = 2
    <3>1. 1 \in 1..m /\ 2 \in 1..m /\ 1 + 1 = 2 /\ 2 + 1 = m + 1 /\ c[2] \in Int
      BY <2>3, <1>2
    <3>2. CASE x < c[2]
      BY <3>1, <3>2, <2>1, <1>7
    <3>3. CASE ~(x < c[2])
      <4>1. c[2] <= x
        BY <3>1, <3>3
      <4> QED BY <3>1, <4>1, <2>1, <1>7
    <3> QED BY <3>2, <3>3
  <2> QED BY <1>1, <2>2, <2>3
<1> QED BY <1>1, <1>4, <1>6, <1>7 DEF T

(* The parts of hostfakesplit make the packet. *)
LEMMA HostfakesplitMakes ==
  ASSUME req \in Request, i \in Packets, PosFits, pos.host # <<>>
  PROVE  Hostfakesplit \in Seq(Proper) /\ Makes(Genuine(Hostfakesplit))
<1> DEFINE n == PLen
           h == pos.host[1]
           e == pos.host[2]
           cut == IF Len(pos.host) = 3 THEN <<h, pos.host[3], e>> ELSE <<h, e>>
           names == Len(cut) - 1
           before == Part(TRUE, 0, h, 0, 0, 0)
           fake(k) == Part(FALSE, h, e, 0, k, 1)
           name == [k \in 1..names |-> Part(TRUE, cut[k], cut[k + 1], 0, k + 1, k)]
           after(k) == Part(TRUE, e, n, 0, k, names + 1)
           b1 == <<before, fake(1)>>
           b2 == <<before, fake(1), after(names + 2)>>
           b3 == <<fake(names + 2), after(names + 3)>>
           S == [from |-> 0, to |-> h, ovl |-> 0, frag |-> 0]
           A == [from |-> e, to |-> n, ovl |-> 0, frag |-> 0]
           B == 0..n
<1>1. Hostfakesplit = IF dp.hostorder = 1 THEN b2 \o name ELSE (b1 \o name) \o b3
  BY Zenon DEF Hostfakesplit
<1>2. n \in Nat \ {0}
  BY PacketFacts
<1>3. /\ pos.host \in Seq(1..n - 1) /\ Len(pos.host) \in 2..3 /\ h < e
      /\ Len(pos.host) = 3 => h < pos.host[3] /\ pos.host[3] < e
  BY DEF PosFits, Within
<1>4. /\ h \in 1..n - 1 /\ e \in 1..n - 1
      /\ Len(pos.host) = 3 => pos.host[3] \in 1..n - 1
  <2> DEFINE t == pos.host
             D == 1..n - 1
  <2>1. t \in Seq(D) /\ Len(t) \in 2..3
    BY <1>3
  <2> HIDE DEF t, D
  <2>2. t[1] \in D /\ t[2] \in D /\ (Len(t) = 3 => t[3] \in D)
    BY <2>1
  <2> QED BY <2>2 DEF t, D
<1>5. /\ cut \in Seq(B) /\ Len(cut) \in 2..3 /\ cut[1] = h /\ cut[Len(cut)] = e
      /\ \A j, k \in 1..Len(cut) : j < k => cut[j] < cut[k]
  <2>1. CASE Len(pos.host) = 3
    <3> DEFINE md == pos.host[3]
    <3>1. cut = <<h, md, e>>
      BY <2>1
    <3>2. h \in B /\ md \in B /\ e \in B /\ h < md /\ md < e /\ h < e
      BY <1>3, <1>4, <2>1, <1>2
    <3> HIDE DEF h, e, md, B, cut
    <3>3. Len(cut) = 3 /\ cut[1] = h /\ cut[2] = md /\ cut[3] = e /\ cut \in Seq(B)
      BY <3>1, <3>2
    <3> QED BY <3>2, <3>3
  <2>2. CASE Len(pos.host) # 3
    <3>1. cut = <<h, e>>
      BY <2>2
    <3>2. h \in B /\ e \in B /\ h < e
      BY <1>3, <1>4, <1>2
    <3> HIDE DEF h, e, B, cut
    <3>3. Len(cut) = 2 /\ cut[1] = h /\ cut[2] = e /\ cut \in Seq(B)
      BY <3>1, <3>2
    <3> QED BY <3>2, <3>3
  <2> QED BY <2>1, <2>2
<1> HIDE DEF cut, h, e
<1>6. names \in Nat /\ names + 1 \in Nat /\ names + 2 \in Nat /\ names + 3 \in Nat
  BY <1>5
<1>7. /\ name \in Seq(Proper)
      /\ \A s \in Genuine(name) : s.ovl = 0
      /\ \A x \in Int : h <= x /\ x < e =>
           \E s \in Genuine(name) : s.from <= x /\ x < s.to /\ s.frag = 0
  <2>1. name = [k \in 1..Len(cut) - 1 |-> Part(TRUE, cut[k], cut[k + 1], 0, k + 1, k)]
    OBVIOUS
  <2>2. B = 0..PLen /\ PLen \in Nat
    BY <1>2
  <2> HIDE DEF name, B, names
  <2> QED BY <1>5, <2>1, <2>2, NameShape
<1>8. before \in Proper /\ before.real = TRUE /\ Shape(before) = S
  <2>1. h \in Nat /\ 0 \in Nat /\ 0 <= h /\ h <= PLen
    BY <1>2, <1>4
  <2>2. IsPart(before, TRUE, 0, h, 0)
    BY <2>1, GenuinePart
  <2> HIDE DEF before
  <2> QED BY <2>2, Zenon DEF IsPart
<1>9. ASSUME NEW k \in Nat PROVE fake(k) \in Proper /\ fake(k).real = FALSE
  <2>1. h \in Nat /\ e \in Nat /\ h <= e /\ 1 \in Nat
    BY <1>3, <1>4 DEF h, e
  <2> DEFINE p == Part(FALSE, h, e, 0, k, 1)
  <2>2. IsPart(p, FALSE, h, e, 0)
    BY <2>1, FakePart
  <2> HIDE DEF p
  <2>3. p \in Proper /\ p.real = FALSE
    BY <2>2, Zenon DEF IsPart
  <2> QED BY <2>3 DEF p
<1>10. ASSUME NEW k \in Nat PROVE after(k) \in Proper /\ after(k).real = TRUE /\ Shape(after(k)) = A
  <2> DEFINE g == names + 1
             p == Part(TRUE, e, n, 0, k, g)
  <2>1. e \in Nat /\ n \in Nat /\ 0 \in Nat /\ e <= n /\ n <= PLen /\ g \in Nat
    BY <1>2, <1>4, <1>6
  <2> HIDE DEF n, g
  <2>2. IsPart(p, TRUE, e, n, 0)
    BY <2>1, GenuinePart
  <2> HIDE DEF p
  <2>3. p \in Proper /\ p.real = TRUE /\ Shape(p) = A
    BY <2>2, Zenon DEF IsPart
  <2> QED BY <2>3 DEF p, g, n
<1> DEFINE f1 == fake(1)
           f2 == fake(names + 2)
           a2 == after(names + 2)
           a3 == after(names + 3)
<1>11. /\ f1 \in Proper /\ ~ f1.real /\ f2 \in Proper /\ ~ f2.real
       /\ a2 \in Proper /\ a2.real /\ Shape(a2) = A /\ a3 \in Proper /\ a3.real /\ Shape(a3) = A
  <2> HIDE DEF fake, after
  <2> QED BY <1>6, <1>9, <1>10
<1>12. /\ b1 = <<before, f1>> /\ b2 = <<before, f1, a2>> /\ b3 = <<f2, a3>>
  OBVIOUS
<1>13. S.ovl = 0 /\ S.from = 0 /\ S.to = h /\ S.frag = 0 /\ A.ovl = 0 /\ A.from = e /\ A.to = n /\ A.frag = 0
  OBVIOUS
<1> HIDE DEF before, f1, f2, a2, a3, name, names, b1, b2, b3, S, A, fake, after, B
<1>14. /\ b1 \in Seq(Proper) /\ Genuine(b1) = {S}
       /\ b2 \in Seq(Proper) /\ Genuine(b2) = {S, A}
       /\ b3 \in Seq(Proper) /\ Genuine(b3) = {A}
  <2>1. b1 \in Seq(Proper) /\ \A s : s \in Genuine(b1) <=> s = S
    BY <1>8, <1>11, <1>12, GenuineTwo
  <2>2. b3 \in Seq(Proper) /\ \A s : s \in Genuine(b3) <=> s = A
    BY <1>11, <1>12, GenuineTwo
  <2>3. b2 \in Seq(Proper) /\ \A s : s \in Genuine(b2) <=> s = S \/ s = A
    BY <1>8, <1>11, <1>12, GenuineThree
  <2> QED BY <2>1, <2>2, <2>3
<1> DEFINE G == Genuine(name)
           T == Genuine(Hostfakesplit)
<1>15. Hostfakesplit \in Seq(Proper) /\ \A s : s \in T <=> s = S \/ s = A \/ s \in G
  <2>1. CASE dp.hostorder = 1
    <3>1. Hostfakesplit = b2 \o name
      BY <1>1, <2>1
    <3>2. b2 \o name \in Seq(Proper) /\ Genuine(b2 \o name) = Genuine(b2) \cup Genuine(name)
      BY <1>7, <1>14, GenuineConcat
    <3> QED BY <3>1, <3>2, <1>14
  <2>2. CASE dp.hostorder # 1
    <3> DEFINE u == b1 \o name
    <3>1. Hostfakesplit = u \o b3
      BY <1>1, <2>2
    <3>2. u \in Seq(Proper) /\ Genuine(u) = Genuine(b1) \cup Genuine(name)
      BY <1>7, <1>14, GenuineConcat
    <3> HIDE DEF u
    <3>3. u \o b3 \in Seq(Proper) /\ Genuine(u \o b3) = Genuine(u) \cup Genuine(b3)
      BY <3>2, <1>14, GenuineConcat
    <3> QED BY <3>1, <3>2, <3>3, <1>14
  <2> QED BY <2>1, <2>2
<1> HIDE DEF T
<1>16. ASSUME NEW s \in T PROVE s.ovl = 0
  BY <1>7, <1>13, <1>15
<1>17. ASSUME NEW x \in 0..n - 1
       PROVE  \E s \in T : s.from <= x /\ x < s.to /\ s.frag = 0
  <2>1. CASE x < h
    <3>1. S \in T /\ S.from <= x /\ x < S.to
      BY <2>1, <1>13, <1>15
    <3> QED BY <3>1, <1>13
  <2>2. CASE e <= x
    <3>1. A \in T /\ A.from <= x /\ x < A.to
      BY <2>2, <1>2, <1>13, <1>15
    <3> QED BY <3>1, <1>13
  <2>3. CASE h <= x /\ x < e
    <3>1. PICK s \in G : s.from <= x /\ x < s.to /\ s.frag = 0
      BY <2>3, <1>7
    <3>2. s \in T
      BY <1>15
    <3> QED BY <3>1, <3>2
  <2> QED BY <2>1, <2>2, <2>3, <1>2, <1>4
<1> QED BY <1>15, <1>16, <1>17 DEF Makes, T

(* Whatever the mode, the parts of the second stage make the packet. *)
LEMMA SecondStageMakes ==
  ASSUME req \in Request, i \in Packets, PosFits
  PROVE  /\ SecondStage \in Seq(Proper)
         /\ SecondStage # <<>> => Makes(Genuine(SecondStage))
<1>1. \/ SecondStage = <<Whole>> \/ SecondStage = <<>> \/ SecondStage = Multisplit
      \/ SecondStage = Multidisorder \/ SecondStage = Fakedsplit \/ SecondStage = Fakeddisorder
      \/ SecondStage = Ipfrag2 \/ (pos.host # <<>> /\ SecondStage = Hostfakesplit)
  BY Zenon DEF SecondStage
<1>2. CASE SecondStage = <<>>
  BY <1>2, GenuineNone
<1>3. CASE SecondStage = <<Whole>>
  BY <1>3, WholeMakes
<1>4. CASE SecondStage = Multisplit
  BY <1>4, MultisplitMakes
<1>5. CASE SecondStage = Multidisorder
  BY <1>5, MultidisorderMakes
<1>6. CASE SecondStage = Fakedsplit
  BY <1>6, FakedsplitMakes
<1>7. CASE SecondStage = Fakeddisorder
  BY <1>7, FakeddisorderMakes
<1>8. CASE SecondStage = Ipfrag2
  BY <1>8, Ipfrag2Makes
<1>9. CASE pos.host # <<>> /\ SecondStage = Hostfakesplit
  BY <1>9, HostfakesplitMakes
<1> QED BY <1>1, <1>2, <1>3, <1>4, <1>5, <1>6, <1>7, <1>8, <1>9

(* The same parts, each with the id f gives it. *)
LEMMA WithIds ==
  ASSUME NEW parts \in Seq(Proper), NEW f, \A k \in DOMAIN parts : f[k] \in 0..IdMod - 1,
         NEW b, b = [k \in DOMAIN parts |-> [parts[k] EXCEPT !.id = f[k]]]
  PROVE  b \in Seq(Proper) /\ Genuine(b) = Genuine(parts) /\ DOMAIN b = DOMAIN parts
<1> DEFINE m == Len(parts)
<1>1. m \in Nat /\ DOMAIN parts = 1..m /\ \A k \in 1..m : parts[k] \in Proper
  OBVIOUS
<1> HIDE DEF m
<1>2. ASSUME NEW k \in 1..m
      PROVE  b[k] \in Proper /\ b[k].real = parts[k].real /\ Shape(b[k]) = Shape(parts[k])
  <2> DEFINE p == parts[k]
             id == f[k]
  <2>1. p \in Proper /\ id \in 0..IdMod - 1 /\ b[k] = [p EXCEPT !.id = id]
    BY <1>1
  <2>2. 0 \in Nat
    OBVIOUS
  <2> HIDE DEF p, id
  <2>3. [p EXCEPT !.id = id] \in Proper /\ [p EXCEPT !.id = id].real = p.real /\ Shape([p EXCEPT !.id = id]) = Shape(p)
    BY <2>1, <2>2, Renumbered
  <2> QED BY <2>1, <2>3 DEF p
<1>3. DOMAIN b = 1..m /\ b = [k \in 1..m |-> b[k]]
  BY <1>1
<1>4. b \in [1..m -> Proper]
  BY ONLY <1>2, <1>3
<1>5. b \in Seq(Proper)
  BY ONLY <1>1, <1>4, SeqDef
<1>6. Genuine(b) = Genuine(parts)
  BY <1>1, <1>2, <1>3, GenuineSame
<1> QED BY <1>1, <1>3, <1>5, <1>6

(* Ids that count up do not change what is genuine. *)
LEMMA AscendingShape ==
  ASSUME NEW parts \in Seq(Proper), NEW id \in 0..IdMod - 1
  PROVE  Ascending(parts, id) \in Seq(Proper) /\ Genuine(Ascending(parts, id)) = Genuine(parts)
         /\ DOMAIN Ascending(parts, id) = DOMAIN parts
<1> DEFINE f == [k \in DOMAIN parts |-> PartId(parts[k], id)]
           b == Ascending(parts, id)
<1>1. ASSUME NEW k \in DOMAIN parts PROVE f[k] \in 0..IdMod - 1
  <2>1. parts[k] \in Proper
    OBVIOUS
  <2>2. Number(parts[k]) \in Nat
    BY <2>1, ProperFields DEF Number
  <2>3. IdSteps(id, 1, Number(parts[k])) \in 0..IdMod - 1
    BY <2>2, 1 \in Int, IdStepsType
  <2> QED BY <2>3 DEF PartId
<1>2. b = [k \in DOMAIN parts |-> [parts[k] EXCEPT !.id = f[k]]]
  BY Zenon DEF Ascending
<1> HIDE DEF f, b
<1>3. b \in Seq(Proper) /\ Genuine(b) = Genuine(parts) /\ DOMAIN b = DOMAIN parts
  BY <1>1, <1>2, WithIds
<1> QED BY <1>3 DEF b

(* The id of the second stage is in range. *)
LEMMA StageIdType ==
  ASSUME ctid \in 0..IdMod - 1, ip_id \in 0..IdMod - 1
  PROVE  StageId \in 0..IdMod - 1
BY DEF StageId

(* The ids of the second stage do not change what is genuine. *)
LEMMA SecondWithIdsShape ==
  ASSUME req \in Request, i \in Packets, PosFits, ctid \in 0..IdMod - 1, ip_id \in 0..IdMod - 1
  PROVE  /\ SecondWithIds \in Seq(Proper) /\ Genuine(SecondWithIds) = Genuine(SecondStage)
<1> DEFINE s == SecondStage
           last == LastDisorderId
           g == [k \in DOMAIN s |-> IdSteps(last, -1, k - 1)]
           h == [k \in DOMAIN s |-> StageId]
           down == [k \in DOMAIN s |-> [s[k] EXCEPT !.id = g[k]]]
           same == [k \in DOMAIN s |-> [s[k] EXCEPT !.id = h[k]]]
<1>1. s \in Seq(Proper) /\ StageId \in 0..IdMod - 1
  BY SecondStageMakes, StageIdType
<1>2. last \in 0..IdMod - 1
  <2>1. Len(pos.cuts) \in Int
    <3>1. pos.cuts \in Seq(1..PLen - 1)
      BY DEF PosFits
    <3>2. Len(pos.cuts) \in Nat
      BY <3>1, LenProperties
    <3> QED BY <3>2
  <2> QED BY <1>1, <2>1, IdAdd DEF LastDisorderId
<1>3. \/ SecondWithIds = [k \in DOMAIN s |-> [s[k] EXCEPT !.id = IdSteps(last, -1, k - 1)]]
      \/ SecondWithIds = [k \in DOMAIN s |-> [s[k] EXCEPT !.id = StageId]]
      \/ SecondWithIds = Ascending(s, StageId)
  BY Zenon DEF SecondWithIds
<1> HIDE DEF s, last
<1>4. \A k \in DOMAIN s : k - 1 \in Nat
  BY <1>1
<1>5. \A k \in DOMAIN s : g[k] \in 0..IdMod - 1 /\ h[k] \in 0..IdMod - 1
  <2> SUFFICES ASSUME NEW k \in DOMAIN s PROVE g[k] \in 0..IdMod - 1 /\ h[k] \in 0..IdMod - 1
    OBVIOUS
  <2>1. IdSteps(last, -1, k - 1) \in 0..IdMod - 1
    BY <1>2, <1>4, -1 \in Int, IdStepsType
  <2> QED BY <2>1, <1>1
<1>6. \A k \in DOMAIN s : g[k] = IdSteps(last, -1, k - 1) /\ h[k] = StageId
  OBVIOUS
<1> HIDE DEF g, h
<1>7. SecondWithIds = down \/ SecondWithIds = same \/ SecondWithIds = Ascending(s, StageId)
  BY <1>3, <1>6
<1>8. down = [k \in DOMAIN s |-> [s[k] EXCEPT !.id = g[k]]] /\ same = [k \in DOMAIN s |-> [s[k] EXCEPT !.id = h[k]]]
  OBVIOUS
<1> HIDE DEF down, same
<1>9. down \in Seq(Proper) /\ Genuine(down) = Genuine(s)
  <2>1. \A k \in DOMAIN s : g[k] \in 0..IdMod - 1
    BY <1>5
  <2>2. down = [k \in DOMAIN s |-> [s[k] EXCEPT !.id = g[k]]]
    BY <1>8
  <2> QED BY ONLY <1>1, <2>1, <2>2, WithIds
<1>10. same \in Seq(Proper) /\ Genuine(same) = Genuine(s)
  <2>1. \A k \in DOMAIN s : h[k] \in 0..IdMod - 1
    BY <1>5
  <2>2. same = [k \in DOMAIN s |-> [s[k] EXCEPT !.id = h[k]]]
    BY <1>8
  <2> QED BY ONLY <1>1, <2>1, <2>2, WithIds
<1>11. Ascending(s, StageId) \in Seq(Proper) /\ Genuine(Ascending(s, StageId)) = Genuine(s)
  BY <1>1, AscendingShape
<1> QED BY <1>7, <1>9, <1>10, <1>11 DEF s

(* The id the entry remembers. *)
LEMMA NextIdType ==
  ASSUME req \in Request, i \in Packets, PosFits, ctid \in 0..IdMod - 1, ip_id \in 0..IdMod - 1
  PROVE  NextId \in 0..IdMod - 1
<1> DEFINE s == SecondStage
           m == Len(s)
           f == [k \in 1..m |-> Number(s[k])]
<1>1. s \in Seq(Proper) /\ StageId \in 0..IdMod - 1
  BY SecondStageMakes, StageIdType
<1>2. Len(pos.cuts) \in Int
  <2>1. pos.cuts \in Seq(1..PLen - 1)
    BY DEF PosFits
  <2>2. Len(pos.cuts) \in Nat
    BY <2>1, LenProperties
  <2> QED BY <2>2
<1>3. IP4_IP_ID_ADD(LastDisorderId, 1) \in 0..IdMod - 1
  BY <1>1, <1>2, 1 \in Int, IdAdd DEF LastDisorderId
<1>4. LastNumber = Max({0} \cup {Number(s[k]) : k \in DOMAIN s})
  BY Zenon DEF LastNumber
<1> HIDE DEF s
<1>5. m \in Nat /\ DOMAIN s = 1..m /\ \A k \in 1..m : s[k] \in Proper
  BY <1>1
<1> HIDE DEF m
<1>6. f \in [1..m -> Nat]
  <2>1. ASSUME NEW k \in 1..m PROVE Number(s[k]) \in Nat
    BY <1>5, ProperFields DEF Number
  <2> QED BY <2>1
<1>7. {Number(s[k]) : k \in DOMAIN s} = {f[k] : k \in 1..m}
  BY <1>5
<1> HIDE DEF f
<1>8. LastNumber \in Nat
  BY <1>4, <1>5, <1>6, <1>7, MaxType
<1>9. LastNumber + 1 \in Nat
  BY <1>8
<1>10. IdSteps(StageId, 1, LastNumber + 1) \in 0..IdMod - 1
  BY <1>1, <1>9, 1 \in Int, IdStepsType
<1> QED BY <1>3, <1>10 DEF NextId

(* The first stage consists of fakes. *)
LEMMA FirstStageShape ==
  ASSUME dp \in Profile
  PROVE  FirstStage \in Seq(Proper) /\ Genuine(FirstStage) = {}
<1> DEFINE fk == dp.fakes
           at(k) == IF dp.tcpseq THEN Offsets(fk)[k] ELSE 0
           fakes == [k \in DOMAIN fk |-> Part(FALSE, at(k), at(k) + fk[k], 0, k - 1, k - 1)]
           rst == Part(FALSE, 0, 0, 0, 0, 0)
           m == Len(fk)
<1>1. fk \in Seq(Nat)
  BY ProfileFacts
<1>2. FirstStage = <<>> \/ FirstStage = fakes \/ FirstStage = <<rst>>
  BY Zenon DEF FirstStage
<1> HIDE DEF fk
<1>3. m \in Nat /\ DOMAIN fk = 1..m /\ \A k \in 1..m : fk[k] \in Nat
  BY <1>1
<1>4. \A k \in 1..m : at(k) \in Nat
  <2>1. Offsets(fk) \in [1..m + 1 -> Nat]
    BY <1>1, OffsetsType
  <2>2. \A k \in 1..m : k \in 1..m + 1
    BY <1>3
  <2> HIDE DEF m
  <2>3. \A k \in 1..m : Offsets(fk)[k] \in Nat
    BY <2>1, <2>2
  <2> QED BY <2>3
<1> HIDE DEF m, at
<1>5. ASSUME NEW k \in 1..m PROVE fakes[k] \in Proper /\ fakes[k].real = FALSE
  <2> DEFINE a == at(k)
             b == at(k) + fk[k]
             x == k - 1
             p == Part(FALSE, a, b, 0, x, x)
  <2>1. a \in Nat /\ b \in Nat /\ a <= b /\ x \in Nat
    BY <1>3, <1>4
  <2>2. fakes[k] = p
    BY <1>3
  <2> HIDE DEF a, b, x
  <2>3. IsPart(p, FALSE, a, b, 0)
    BY <2>1, FakePart
  <2> HIDE DEF p
  <2> QED BY <2>2, <2>3, Zenon DEF IsPart
<1>6. DOMAIN fakes = 1..m /\ fakes = [k \in 1..m |-> fakes[k]]
  BY <1>3
<1> HIDE DEF fakes
<1>7. fakes \in [1..m -> Proper]
  BY ONLY <1>5, <1>6
<1>8. fakes \in Seq(Proper)
  BY ONLY <1>3, <1>7, SeqDef
<1>9. Genuine(fakes) = {}
  <2>1. ASSUME NEW s \in Genuine(fakes) PROVE FALSE
    <3>1. PICK k \in DOMAIN fakes : fakes[k].real
      BY <2>1, GenuineIff
    <3> QED BY <3>1, <1>5, <1>6
  <2> QED BY <2>1
<1>10. <<rst>> \in Seq(Proper) /\ Genuine(<<rst>>) = {}
  <2>1. 0 \in Nat /\ 0 <= 0
    OBVIOUS
  <2>2. IsPart(rst, FALSE, 0, 0, 0)
    BY <2>1, FakePart
  <2> HIDE DEF rst
  <2>3. rst \in Proper /\ rst.real = FALSE
    BY <2>2, Zenon DEF IsPart
  <2>4. rst \in Proper /\ ~ rst.real
    BY <2>3
  <2> QED BY <2>4, GenuineOne
<1> QED BY <1>2, <1>8, <1>9, <1>10, GenuineNone

(* A SYN leaves as it came or with data, or a fake goes ahead of it. *)
LEMMA SynPartsShape ==
  ASSUME i = 0
  PROVE  /\ SynParts \in Seq(Proper)
         /\ Genuine(SynParts) \subseteq {[from |-> 0, to |-> 0, ovl |-> 0, frag |-> 0]}
         /\ dp.mode0 = "syndata" => Genuine(SynParts) = {[from |-> 0, to |-> 0, ovl |-> 0, frag |-> 0]}
<1> DEFINE s == [from |-> 0, to |-> 0, ovl |-> 0, frag |-> 0]
           fake == Part(FALSE, 0, 0, 0, 0, 0)
           real == Part(TRUE, 0, 0, 0, 0, 0)
<1>1. 0 \in Nat /\ 0 <= 0 /\ 0 <= PLen
  BY DEF PLen
<1>2. IsPart(fake, FALSE, 0, 0, 0) /\ IsPart(real, TRUE, 0, 0, 0)
  BY <1>1, FakePart, GenuinePart
<1>3. /\ SynParts = <<fake>> \/ SynParts = <<real>> \/ SynParts = <<>>
      /\ dp.mode0 = "syndata" => SynParts = <<real>>
  <2>1. "synack" # "syndata"
    OBVIOUS
  <2> QED BY <2>1, Zenon DEF SynParts
<1> HIDE DEF fake, real
<1>4. fake \in Proper /\ fake.real = FALSE /\ real \in Proper /\ real.real = TRUE /\ Shape(real) = s
  BY <1>2, Zenon DEF IsPart
<1>5. ~ fake.real /\ real.real
  BY <1>4
<1> HIDE DEF s
<1>6. /\ <<fake>> \in Seq(Proper) /\ Genuine(<<fake>>) = {}
      /\ <<real>> \in Seq(Proper) /\ Genuine(<<real>>) = {s}
  BY <1>4, <1>5, GenuineOne
<1> QED BY <1>3, <1>6, GenuineNone DEF s

(* tcp_orig_send sends nothing but the packet as it came. *)
LEMMA OrigPartsShape ==
  ASSUME dp \in Profile, req \in Request, i \in 0..Len(req.lens), NEW bFake
  PROVE  /\ OrigParts(bFake) \in Seq(Proper)
         /\ OrigParts(bFake) # <<>> => Genuine(OrigParts(bFake)) = {Shape(Whole)}
<1> DEFINE w == Whole
           n == dp.dups
           dup == [k \in 1..n |-> w]
           rest == IF dp.replace THEN <<>> ELSE <<w>>
<1>1. n \in Nat
  BY ProfileFacts
<1>2. w \in Proper /\ w.real = TRUE
  BY WholeShape, Zenon
<1>3. w \in Proper /\ w.real
  BY <1>2
<1>4. (OrigParts(bFake) = dup \o rest /\ n > 0) \/ OrigParts(bFake) = <<w>> \/ OrigParts(bFake) = <<>>
  BY Zenon DEF OrigParts
<1> HIDE DEF w, n
<1>5. dup \in Seq(Proper) /\ DOMAIN dup = 1..n
  <2>1. dup \in [1..n -> Proper] /\ DOMAIN dup = 1..n
    BY <1>3
  <2> HIDE DEF dup
  <2> QED BY <2>1, <1>1, SeqDef
<1>6. <<w>> \in Seq(Proper) /\ Genuine(<<w>>) = {Shape(w)}
  BY <1>3, GenuineOne
<1>7. rest \in Seq(Proper) /\ Genuine(rest) \subseteq {Shape(w)}
  BY <1>6, GenuineNone, Zenon
<1>8. ASSUME n > 0 PROVE Genuine(dup) = {Shape(w)}
  <2>1. \A k \in 1..n : dup[k] = w
    OBVIOUS
  <2> HIDE DEF dup
  <2>2. ASSUME NEW s PROVE s \in Genuine(dup) <=> s = Shape(w)
    <3>1. s \in Genuine(dup) <=> \E k \in DOMAIN dup : dup[k].real /\ s = Shape(dup[k])
      BY ONLY GenuineIff
    <3>2. 1 \in 1..n
      BY <1>1, <1>8
    <3> QED BY <3>1, <3>2, <2>1, <1>3, <1>5
  <2> QED BY <2>2
<1> HIDE DEF dup, rest
<1>9. dup \o rest \in Seq(Proper) /\ Genuine(dup \o rest) = Genuine(dup) \cup Genuine(rest)
  BY <1>5, <1>7, GenuineConcat
<1>10. CASE OrigParts(bFake) = dup \o rest /\ n > 0
  BY <1>7, <1>8, <1>9, <1>10 DEF w
<1>11. CASE OrigParts(bFake) = <<w>>
  BY <1>6, <1>11 DEF w
<1>12. CASE OrigParts(bFake) = <<>>
  BY <1>12, GenuineNone
<1> QED BY <1>4, <1>10, <1>11, <1>12

(* The second stage applies exactly when it has parts. *)
LEMMA AppliesIff ==
  ASSUME req \in Request, i \in Packets, PosFits
  PROVE  Applies <=> SecondStage # <<>>
<1>1. \A T : Makes(T) => T # {}
  <2> SUFFICES ASSUME NEW T, Makes(T) PROVE T # {}
    OBVIOUS
  <2>1. 0 \in 0..PLen - 1
    BY PacketFacts
  <2> QED BY <2>1 DEF Makes
<1>2. Genuine(<<>>) = {}
  BY GenuineNone
<1>3. \A S : Makes(Genuine(S)) => S # <<>>
  BY <1>1, <1>2
<1>4. /\ Multisplit # <<>> /\ Multidisorder # <<>> /\ Fakedsplit # <<>> /\ Fakeddisorder # <<>>
      /\ Ipfrag2 # <<>> /\ <<Whole>> # <<>> /\ (pos.host # <<>> => Hostfakesplit # <<>>)
  BY <1>3, MultisplitMakes, MultidisorderMakes, FakedsplitMakes, FakeddisorderMakes, Ipfrag2Makes,
     WholeMakes, HostfakesplitMakes
<1>5. CASE FinalHeader
  BY <1>4, <1>5, Zenon DEF SecondStage, Applies
<1>6. CASE ~ FinalHeader
  <2> DEFINE m == StageMode
  <2>1. Applies <=> \/ m = "hostfakesplit" /\ pos.host # <<>>
                    \/ m = "multisplit" /\ pos.cuts # <<>>
                    \/ m = "multidisorder" /\ pos.cuts # <<>>
                    \/ m = "fakedsplit" \/ m = "fakeddisorder"
                    \/ m = "ipfrag2" /\ ReasmOffset = 0
    BY <1>6 DEF Applies
  <2>2. ASSUME Applies PROVE SecondStage # <<>>
    <3>1. SecondStage \in {Multisplit, Multidisorder, Fakedsplit, Fakeddisorder, Ipfrag2}
          \/ (pos.host # <<>> /\ SecondStage = Hostfakesplit)
      BY <1>6, <2>1, <2>2, Zenon DEF SecondStage
    <3> QED BY <3>1, <1>4
  <2>3. ASSUME ~ Applies PROVE SecondStage = <<>>
    BY <1>6, <2>1, <2>3, Zenon DEF SecondStage
  <2> QED BY <2>2, <2>3
<1> QED BY <1>5, <1>6

------------------------------------------------------------------------------
(* What left, as a set. *)

(* What left are the pieces of the genuine segments on the wire. *)
LEMMA LeftIff ==
  ASSUME NEW w, NEW s
  PROVE  s \in LeftOf(w) <=> \E k \in DOMAIN w : w[k].real /\ s = Piece(w[k])
BY DEF LeftOf

(* A segment more on the wire adds its piece. *)
LEMMA LeftAppend ==
  ASSUME NEW S, NEW w \in Seq(S), NEW x \in S
  PROVE  /\ Append(w, x) \in Seq(S)
         /\ LeftOf(Append(w, x)) = LeftOf(w) \cup (IF x.real THEN {Piece(x)} ELSE {})
         /\ \A k \in DOMAIN Append(w, x) : Append(w, x)[k] = x \/ \E j \in DOMAIN w : Append(w, x)[k] = w[j]
         /\ \A k \in DOMAIN w : k \in DOMAIN Append(w, x) /\ Append(w, x)[k] = w[k]
<1> DEFINE v == Append(w, x)
           n == Len(w)
<1>1. v \in Seq(S) /\ Len(v) = n + 1 /\ (\A k \in 1..n : v[k] = w[k]) /\ v[n + 1] = x
  BY AppendProperties
<1>2. n \in Nat /\ DOMAIN w = 1..n
  OBVIOUS
<1> HIDE DEF v, n
<1>3. DOMAIN v = 1..n + 1
  BY <1>1
<1>4. \A k \in 1..n + 1 : k = n + 1 \/ k \in 1..n
  BY <1>2
<1>5. n + 1 \in 1..n + 1 /\ \A k \in 1..n : k \in 1..n + 1
  BY <1>2
<1>6. ASSUME NEW s PROVE s \in LeftOf(v) <=> s \in LeftOf(w) \/ (x.real /\ s = Piece(x))
  <2>1. s \in LeftOf(v) <=> \E k \in 1..n + 1 : v[k].real /\ s = Piece(v[k])
    BY <1>3, LeftIff
  <2>2. s \in LeftOf(w) <=> \E k \in 1..n : w[k].real /\ s = Piece(w[k])
    BY <1>2, LeftIff
  <2> QED BY <2>1, <2>2, <1>1, <1>4, <1>5
<1> QED BY <1>1, <1>2, <1>3, <1>4, <1>5, <1>6 DEF v

(* What a part puts on the wire is its piece. *)
LEMMA SegmentPiece ==
  ASSUME DataOK, stage # "new", NEW p \in Proper, ~ TooLong(p)
  PROVE  /\ Segment(p) \in SegmentType
         /\ Segment(p).real = p.real
         /\ Piece(Segment(p)) = PieceAt(i, Shape(p))
         /\ Segment(p).syn = (Segment(p).packet = 0)
         /\ Segment(p).ovl <= Segment(p).len
         /\ Segment(p).ovl # 0 => Segment(p).len <= BufMax
         /\ ~ Segment(p).real => Segment(p).frag = 0
         /\ Segment(p).seq = (req.seq + Segment(p).from - Segment(p).ovl) % W
         /\ Segment(p).packet # 0 => Segment(p).end = Offset(Segment(p).packet + 1)
<1> DEFINE s == Segment(p)
           b == Base(i)
           f == b + p.from
           l == p.to - p.from + p.ovl
           x == req.seq + b + p.from - p.ovl
<1>1. req \in Request /\ i \in 0..Len(req.lens) /\ Len(req.lens) \in Nat
  BY RequestFacts DEF DataOK
<1>2. PLen \in Nat /\ b \in Nat /\ (i # 0 => b + PLen = Offset(i + 1)) /\ (i = 0 => b = 0)
  <2>1. CASE i = 0
    BY <2>1 DEF Base, PLen
  <2>2. CASE i # 0
    <3>1. i \in Packets
      BY <2>2, <1>1 DEF Packets
    <3> QED BY <3>1, <2>2, <1>1, PacketFacts
  <2> QED BY <2>1, <2>2
<1>3. s = [syn |-> i = 0, real |-> p.real, from |-> f, end |-> b + PLen, len |-> l, ovl |-> p.ovl,
           frag |-> p.frag, part |-> stage = "desync" \/ p.id # Whole.id, id |-> p.id, packet |-> i,
           seq |-> x % W]
  BY Zenon DEF Segment, Base
<1>4. /\ p.real \in BOOLEAN /\ p.from \in Nat /\ p.to \in Nat /\ p.ovl \in Nat
      /\ p.frag \in 0..2 /\ p.id \in 0..IdMod - 1 /\ p.from <= p.to
      /\ (~ p.real => p.frag = 0 /\ p.ovl = 0)
  BY ProperFields
<1>5. l \in Nat /\ f \in Nat /\ x \in Int /\ p.ovl <= l /\ b + PLen \in Nat
  <2>1. req.seq \in Nat
    BY <1>1, RequestFacts
  <2> HIDE DEF b
  <2> QED BY <1>2, <1>4, <2>1
<1>6. W \in Nat \ {0}
  BY <1>1, WidthFacts
<1>7. x % W \in 0..W - 1
  <2> HIDE DEF x
  <2> QED BY <1>5, <1>6
<1>8. p.ovl # 0 => l <= BufMax
  <2>1. ~(p.ovl # 0 /\ l > BufMax)
    BY DEF TooLong
  <2>2. BufMax \in Nat
    BY ConstAssumption
  <2> HIDE DEF l
  <2> QED BY <2>1, <2>2, <1>5
<1>9. x = req.seq + f - p.ovl
  <2>1. req.seq \in Nat
    BY <1>1, RequestFacts
  <2> HIDE DEF b
  <2> QED BY <1>2, <1>4, <2>1
<1>10. f + (l - p.ovl) = b + p.to
  <2> HIDE DEF b
  <2> QED BY <1>2, <1>4
<1>11. PieceAt(i, Shape(p)) = [packet |-> i, from |-> f, to |-> b + p.to, ovl |-> p.ovl, frag |-> p.frag]
  BY DEF PieceAt, Shape
<1> DEFINE part == stage = "desync" \/ p.id # Whole.id
           syn == i = 0
<1>12. part \in BOOLEAN /\ syn \in BOOLEAN
  BY Zenon
<1>13. syn = (i = 0)
  BY Zenon
<1> HIDE DEF s, b, f, l, x, part, syn
<1>14. s = [syn |-> syn, real |-> p.real, from |-> f, end |-> b + PLen, len |-> l, ovl |-> p.ovl,
            frag |-> p.frag, part |-> part, id |-> p.id, packet |-> i, seq |-> x % W]
  BY <1>3, Zenon DEF part, syn
<1> DEFINE q == x % W
<1>15. q \in 0..W - 1
  BY <1>7
<1> HIDE DEF q
<1>16. /\ s.syn = syn /\ s.real = p.real /\ s.from = f /\ s.end = b + PLen /\ s.len = l /\ s.ovl = p.ovl
       /\ s.frag = p.frag /\ s.packet = i /\ s.seq = q
  BY <1>14 DEF q
<1>17. s \in SegmentType
  BY <1>1, <1>4, <1>5, <1>12, <1>14, <1>15 DEF SegmentType, q
<1>18. Piece(s) = PieceAt(i, Shape(p))
  BY <1>10, <1>11, <1>16 DEF Piece
<1>19. s.syn = (s.packet = 0)
  BY <1>13, <1>16, Zenon
<1>20. s.seq = (req.seq + s.from - s.ovl) % W
  BY <1>9, <1>16 DEF q
<1>21. s.packet # 0 => s.end = Offset(s.packet + 1)
  BY <1>2, <1>16
<1>22. /\ s.ovl <= s.len /\ (s.ovl # 0 => s.len <= BufMax) /\ (~ s.real => s.frag = 0)
  BY <1>4, <1>5, <1>8, <1>16
<1> QED BY <1>16, <1>17, <1>18, <1>19, <1>20, <1>21, <1>22 DEF s

------------------------------------------------------------------------------
(* What a step of the engine does to the packet at hand: it leaves whole, it *)
(* is done with, or the engine ends.                                         *)

(* The step keeps the fields in range and does not touch the server. *)
Typed ==
  /\ dp' = dp /\ req' = req /\ UNCHANGED server
  /\ ctid' \in 0..IdMod - 1 /\ ip_id' \in 0..IdMod - 1
  /\ fails' \in 0..MaxFail /\ lost' \subseteq 0..Len(req.lens)
(* The packet is sent as it came. *)
SendsWhole ==
  /\ i' = i /\ i <= Len(req.lens) /\ stage' \in {"orig", "main"}
  /\ todo' \in Seq(Proper) /\ Genuine(todo') = {Shape(Whole)}
  /\ wire' = wire /\ lost' = lost
(* The engine goes on to the next packet. *)
Finishes ==
  /\ i' = i + 1 /\ i <= Len(req.lens) /\ stage' = "new" /\ todo' = <<>>
  /\ wire' = wire /\ lost \subseteq lost'
  /\ i \in lost' \/ (todo = <<>> /\ Complete(Pieces, i))
(* The engine ends. *)
Ends ==
  /\ i' = i /\ i <= Len(req.lens) /\ stage' = "exit" /\ todo' = <<>>
  /\ wire' = wire /\ lost \subseteq lost'

(* The packet at hand, one fact at a time. *)
LEMMA DataFacts ==
  ASSUME DataOK
  PROVE  /\ i \in Nat /\ Len(req.lens) \in Nat \ {0} /\ req \in Request /\ dp \in Profile
         /\ stage # "new" => i \in 0..Len(req.lens) /\ (i # 0 => i \in Packets)
         /\ fails \in Nat /\ MaxFail \in Nat /\ ctid \in 0..IdMod - 1 /\ ip_id \in 0..IdMod - 1
<1>1. Len(req.lens) \in Nat \ {0} /\ req \in Request /\ i \in 0..Len(req.lens) + 1
  BY RequestFacts DEF DataOK
<1>2. stage # "new" => i <= Len(req.lens)
  BY DEF DataOK
<1>3. stage # "new" => i \in 0..Len(req.lens) /\ (i # 0 => i \in Packets)
  BY <1>1, <1>2 DEF Packets
<1> QED BY <1>1, <1>3, ConstAssumption DEF DataOK

(* send_orig sends the packet as it came. *)
LEMMA SendOrigWhole ==
  ASSUME DataOK, stage # "new", NEW bFake, SendOrig(bFake), i' = i, wire' = wire, lost' = lost
  PROVE  SendsWhole
<1>1. i \in 0..Len(req.lens) /\ i <= Len(req.lens) /\ req \in Request /\ dp \in Profile
  BY DataFacts
<1>2. Whole \in Proper /\ Whole.real
  <2>1. Whole \in Proper /\ Whole.real = TRUE
    BY <1>1, WholeShape
  <2> QED BY <2>1
<1>3. <<Whole>> \in Seq(Proper) /\ Genuine(<<Whole>>) = {Shape(Whole)}
  BY <1>2, GenuineOne
<1>4. CASE OrigParts(bFake) # <<>>
  <2>1. stage' = "orig" /\ todo' = OrigParts(bFake)
    BY <1>4 DEF SendOrig
  <2>2. todo' \in Seq(Proper) /\ Genuine(todo') = {Shape(Whole)}
    BY <1>1, <1>4, <2>1, OrigPartsShape
  <2> QED BY <1>1, <2>1, <2>2 DEF SendsWhole
<1>5. CASE OrigParts(bFake) = <<>>
  <2>1. stage' = "main" /\ todo' = <<Whole>>
    BY <1>5 DEF SendOrig
  <2> QED BY <1>1, <1>3, <2>1 DEF SendsWhole
<1> QED BY <1>4, <1>5

(* After its parts the packet is done with, or it is sent as it came. *)
LEMMA PartsWrittenKind ==
  ASSUME IInv, PartsWritten
  PROVE  Typed /\ (SendsWhole \/ Finishes)
<1>1. DataOK /\ PosOK /\ LeftOK
  BY DEF IInv
<1>2. /\ stage = "desync" /\ todo = <<>> /\ dp' = dp /\ req' = req /\ pos' = pos /\ ip_id' = ip_id
      /\ wire' = wire /\ fails' = fails /\ lost' = lost /\ UNCHANGED server
  BY DEF PartsWritten
<1>3. stage # "new"
  BY <1>2
<1>4. /\ i \in 0..Len(req.lens) /\ i <= Len(req.lens) /\ req \in Request /\ dp \in Profile
      /\ (i # 0 => i \in Packets)
      /\ ctid \in 0..IdMod - 1 /\ ip_id \in 0..IdMod - 1 /\ fails \in 0..MaxFail /\ lost \subseteq 0..Len(req.lens)
  BY <1>1, <1>3, DataFacts DEF DataOK
<1>5. ASSUME ctid' \in 0..IdMod - 1 PROVE Typed
  BY <1>2, <1>4, <1>5 DEF Typed
<1>6. CASE i = 0
  <2>1. ctid' = ctid
    BY <1>6 DEF PartsWritten
  <2>2. CASE dp.mode0 = "syndata"
    <3>1. NextPacket
      BY <1>6, <2>2 DEF PartsWritten
    <3>2. Complete(Pieces, i)
      BY <1>1, <1>2, <1>6, <2>2 DEF LeftOK
    <3>3. Finishes
      BY <1>2, <1>4, <3>1, <3>2 DEF Finishes, NextPacket
    <3> QED BY <3>3, <1>5, <2>1, <1>4
  <2>3. CASE dp.mode0 # "syndata"
    <3>1. SendOrig(FALSE) /\ i' = i
      BY <1>6, <2>3, Zenon DEF PartsWritten
    <3>2. SendsWhole
      BY <3>1, <1>1, <1>2, <1>3, SendOrigWhole, Zenon
    <3> QED BY <3>2, <1>5, <2>1, <1>4
  <2> QED BY <2>2, <2>3
<1>7. CASE i # 0
  <2>1. i \in Packets /\ PosFits
    BY <1>1, <1>2, <1>4, <1>7 DEF PosOK
  <2>2. CASE SecondStage # <<>>
    <3>1. NextPacket /\ ctid' = IF Replay /\ ~ FinalHeader THEN NextId ELSE ctid
      BY <1>7, <2>2, Zenon DEF PartsWritten
    <3>2. NextId \in 0..IdMod - 1
      BY <1>4, <2>1, NextIdType
    <3>3. ctid' \in 0..IdMod - 1
      BY <1>4, <3>1, <3>2, Zenon
    <3>4. Applies
      BY <1>4, <2>1, <2>2, AppliesIff
    <3>5. Complete(Pieces, i)
      BY <1>1, <1>2, <1>7, <3>4 DEF LeftOK
    <3>6. Finishes
      BY <1>2, <1>4, <3>1, <3>5 DEF Finishes, NextPacket
    <3> QED BY <3>3, <3>6, <1>5
  <2>3. CASE SecondStage = <<>> /\ Unsplit
    <3>1. stage' = "main" /\ todo' = <<[Whole EXCEPT !.id = ctid]>> /\ i' = i /\ ctid' = IP4_IP_ID_ADD(ctid, 1)
      BY <1>7, <2>3, Zenon DEF PartsWritten
    <3>2. ctid' \in 0..IdMod - 1
      BY <3>1, <1>4, 1 \in Int, IdAdd
    <3> DEFINE p == [Whole EXCEPT !.id = ctid]
    <3>3. Whole \in Proper /\ Whole.real = TRUE
      BY <1>4, WholeShape
    <3>4. p \in Proper /\ p.real = Whole.real /\ Shape(p) = Shape(Whole)
      BY <3>3, <1>4, 0 \in Nat, Renumbered
    <3>5. p.real
      BY <3>3, <3>4
    <3>6. todo' = <<p>>
      BY <3>1
    <3> HIDE DEF p
    <3>7. todo' \in Seq(Proper) /\ Genuine(todo') = {Shape(Whole)}
      BY <3>4, <3>5, <3>6, GenuineOne
    <3>8. SendsWhole
      BY <1>2, <1>4, <3>1, <3>7 DEF SendsWhole
    <3> QED BY <3>2, <3>8, <1>5
  <2>4. CASE SecondStage = <<>> /\ ~ Unsplit
    <3>1. SendOrig(FirstStage # <<>>) /\ i' = i /\ ctid' = ctid
      BY <1>7, <2>4, Zenon DEF PartsWritten
    <3>2. SendsWhole
      BY <3>1, <1>1, <1>2, <1>3, SendOrigWhole, Zenon
    <3> QED BY <3>1, <3>2, <1>5, <1>4
  <2> QED BY <2>2, <2>3, <2>4
<1> QED BY <1>6, <1>7

(* After the packet left as it came it is done with. *)
LEMMA OriginalWrittenKind ==
  ASSUME IInv, OriginalWritten
  PROVE  Typed /\ Finishes
<1>1. DataOK /\ LeftOK
  BY DEF IInv
<1>2. /\ stage \in {"orig", "main"} /\ todo = <<>> /\ dp' = dp /\ req' = req /\ ctid' = ctid /\ ip_id' = ip_id
      /\ wire' = wire /\ fails' = fails /\ lost' = lost /\ UNCHANGED server
      /\ i' = i + 1 /\ stage' = "new" /\ todo' = <<>>
  BY DEF OriginalWritten, NextPacket
<1>3. stage # "new" /\ i <= Len(req.lens)
  BY <1>1, <1>2 DEF DataOK
<1>4. Complete(Pieces, i)
  BY <1>1, <1>2 DEF LeftOK
<1>5. Finishes
  BY <1>2, <1>3, <1>4 DEF Finishes
<1>6. Typed
  BY <1>1, <1>2 DEF Typed, DataOK
<1> QED BY <1>5, <1>6

(* A failure sends the packet as it came, or gives it up. *)
LEMMA WriteFailsKind ==
  ASSUME IInv, WriteFails
  PROVE  Typed /\ (SendsWhole \/ Finishes \/ Ends)
<1>1. DataOK
  BY DEF IInv
<1>2. /\ todo # <<>> /\ dp' = dp /\ req' = req /\ ctid' = ctid /\ ip_id' = ip_id /\ pos' = pos
      /\ wire' = wire /\ UNCHANGED server
      /\ fails' = fails \/ (fails < MaxFail /\ fails' = fails + 1)
      /\ Abandon \/ CallerSends \/ GiveUp
  BY Zenon DEF WriteFails
<1>3. stage \notin {"new", "exit"}
  BY <1>1, <1>2 DEF DataOK
<1>4. /\ i \in 0..Len(req.lens) /\ i <= Len(req.lens) /\ i \in Nat /\ Len(req.lens) \in Nat
      /\ req \in Request /\ dp \in Profile
      /\ fails \in 0..MaxFail /\ MaxFail \in Nat /\ lost \subseteq 0..Len(req.lens)
      /\ ctid \in 0..IdMod - 1 /\ ip_id \in 0..IdMod - 1
  BY <1>1, <1>3, DataFacts DEF DataOK
<1>5. fails' \in 0..MaxFail
  BY <1>2, <1>4
<1>6. ASSUME lost' \subseteq 0..Len(req.lens) PROVE Typed
  BY <1>2, <1>4, <1>5, <1>6 DEF Typed
<1>7. stage # "new"
  BY <1>3
<1>8. CASE Abandon
  <2>1. i' = i /\ lost' = lost /\ SendOrig(stage = "desync" /\ i # 0 /\ FirstStage # <<>>)
    BY <1>8, Zenon DEF Abandon
  <2>2. SendsWhole
    BY <2>1, <1>1, <1>2, <1>7, SendOrigWhole, Zenon
  <2> QED BY <2>1, <2>2, <1>4, <1>6
<1>9. CASE CallerSends
  <2>1. stage' = "main" /\ todo' = <<Whole>> /\ i' = i /\ lost' = lost
    BY <1>9 DEF CallerSends
  <2>2. Whole \in Proper /\ Whole.real = TRUE
    BY <1>4, WholeShape
  <2>3. Whole \in Proper /\ Whole.real
    BY <2>2
  <2>4. todo' \in Seq(Proper) /\ Genuine(todo') = {Shape(Whole)}
    BY <2>1, <2>3, GenuineOne
  <2>5. SendsWhole
    BY <2>1, <2>4, <1>2, <1>4 DEF SendsWhole
  <2> QED BY <2>1, <2>5, <1>4, <1>6
<1>10. CASE GiveUp
  <2>1. CASE i # 0 /\ Replay
    <3>1. todo' = <<>> /\ i' = i + 1 /\ stage' = "new" /\ lost' = lost \cup {i}
      BY <1>10, <2>1 DEF GiveUp
    <3>2. Finishes
      BY <3>1, <1>2, <1>4 DEF Finishes
    <3>3. lost' \subseteq 0..Len(req.lens)
      BY <3>1, <1>4
    <3> QED BY <3>2, <3>3, <1>6
  <2>2. CASE ~(i # 0 /\ Replay)
    <3>1. todo' = <<>> /\ i' = i /\ stage' = "exit" /\ lost' = lost \cup i..Len(req.lens)
      BY <1>10, <2>2 DEF GiveUp
    <3>2. Ends
      BY <3>1, <1>2, <1>4 DEF Ends
    <3> DEFINE n == Len(req.lens)
    <3>3. lost \subseteq 0..n /\ lost' = lost \cup i..n /\ i \in Nat /\ n \in Nat
      BY <3>1, <1>4
    <3> HIDE DEF n
    <3>4. i..n \subseteq 0..n
      BY ONLY <3>3
    <3>5. lost' \subseteq 0..n
      BY ONLY <3>3, <3>4
    <3> QED BY <3>2, <3>5, <1>6 DEF n
  <2> QED BY <2>1, <2>2
<1> QED BY <1>2, <1>8, <1>9, <1>10

------------------------------------------------------------------------------
(* What a set of pieces carries, and what stays as it is from step to step. *)

(* More pieces carry no less. *)
LEMMA CompleteGrows ==
  ASSUME NEW off, NEW S, NEW T, S \subseteq T, NEW p, CompleteIn(off, S, p)
  PROVE  CompleteIn(off, T, p)
<1>1. CASE p = 0
  BY <1>1 DEF CompleteIn
<1>2. CASE p # 0
  <2> SUFFICES ASSUME NEW x \in off[p]..off[p + 1] - 1 PROVE Carried(T, p, x)
    BY <1>2 DEF CompleteIn
  <2>1. Carried(S, p, x)
    BY <1>2 DEF CompleteIn
  <2> QED BY <2>1 DEF Carried
<1> QED BY <1>1, <1>2

(* Fewer pieces are as sound. *)
LEMMA FewerSound ==
  ASSUME NEW off, NEW S, NEW T, S \subseteq T, Inside(off, T), Harmless(off, T)
  PROVE  Inside(off, S) /\ Harmless(off, S)
<1>1. Inside(off, S)
  BY Zenon DEF Inside
<1>2. Harmless(off, S)
  BY Zenon DEF Harmless
<1> QED BY <1>1, <1>2

(* A piece without junk in front does not make another piece's junk harmful, *)
(* as long as it ends where no other piece of its packet begins later.       *)
LEMMA MoreSound ==
  ASSUME NEW off, NEW S, NEW a, Inside(off, S), Harmless(off, S),
         a.ovl = 0, a.packet = 0 => a.frag = 0,
         a.packet # 0 => off[a.packet] <= a.from /\ a.from <= a.to /\ a.to <= off[a.packet + 1],
         \A s \in S : s.packet = a.packet /\ s.packet # 0 => s.from <= a.to
  PROVE  Inside(off, S \cup {a}) /\ Harmless(off, S \cup {a})
<1>1. Inside(off, S \cup {a})
  BY Zenon DEF Inside
<1>2. Harmless(off, S \cup {a})
  <2> SUFFICES ASSUME NEW s \in S \cup {a}, s.ovl # 0, s.packet # 0, s.from # 0
               PROVE  /\ off[s.packet] < s.from - s.ovl
                      /\ \A r \in S \cup {a} : r.packet = s.packet => s.from <= r.to
    BY Zenon DEF Harmless
  <2>1. s \in S
    OBVIOUS
  <2>2. off[s.packet] < s.from - s.ovl /\ \A r \in S : r.packet = s.packet => s.from <= r.to
    BY <2>1, Zenon DEF Harmless
  <2> QED BY <2>1, <2>2
<1> QED BY <1>1, <1>2

(* The whole packet, as a piece. *)
WholePiece == PieceAt(i, Shape(Whole))

(* It is all of the packet. *)
LEMMA WholePieceFacts ==
  ASSUME req \in Request, i \in 0..Len(req.lens)
  PROVE  /\ WholePiece.packet = i /\ WholePiece.ovl = 0 /\ WholePiece.frag = 0
         /\ i # 0 => /\ WholePiece.from = Offsets(req.lens)[i]
                     /\ WholePiece.to = Offsets(req.lens)[i + 1]
                     /\ Offsets(req.lens)[i] \in Nat /\ Offsets(req.lens)[i + 1] \in Nat
                     /\ Offsets(req.lens)[i] <= Offsets(req.lens)[i + 1]
         /\ Complete({WholePiece}, i)
<1> DEFINE off == Offsets(req.lens)
<1>1. PLen \in Nat /\ Shape(Whole) = [from |-> 0, to |-> PLen, ovl |-> 0, frag |-> 0]
  BY WholeShape
<1> DEFINE a == WholePiece
           b == Base(i)
<1>2. a = [packet |-> i, from |-> b + 0, to |-> b + PLen, ovl |-> 0, frag |-> 0]
  BY <1>1 DEF WholePiece, PieceAt
<1>3. ASSUME i # 0
      PROVE  /\ off[i] \in Nat /\ b = off[i] /\ off[i + 1] = off[i] + PLen /\ PLen \in Nat \ {0}
  <2>1. i \in Packets
    BY <1>3, RequestFacts DEF Packets
  <2> QED BY <2>1, PacketFacts DEF Offset
<1> HIDE DEF off, b, a
<1>4. a.packet = i /\ a.ovl = 0 /\ a.frag = 0 /\ (i # 0 => a.from = off[i] /\ a.to = off[i + 1])
  BY <1>2, <1>3
<1>5. CompleteIn(off, {a}, i)
  <2>1. CASE i = 0
    BY <2>1, <1>4 DEF CompleteIn
  <2>2. CASE i # 0
    <3>1. ASSUME NEW x \in off[i]..off[i + 1] - 1 PROVE Carried({a}, i, x)
      BY <2>2, <1>3, <1>4 DEF Carried
    <3> QED BY <2>2, <3>1 DEF CompleteIn
  <2> QED BY <2>1, <2>2
<1>6. Complete({a}, i)
  BY <1>5 DEF Complete, off
<1> QED BY <1>3, <1>4, <1>6 DEF off, a

(* Nothing is due when nothing is to be sent. *)
LEMMA NothingDue ==
  (todo = <<>> => Due = {}) /\ (todo' = <<>> => Due' = {})
<1>1. Genuine(<<>>) = {}
  BY GenuineNone
<1>2. ASSUME todo = <<>> PROVE Due = {}
  BY <1>1, <1>2 DEF Due
<1>3. ASSUME todo' = <<>> PROVE Due' = {}
  <2>1. Genuine(todo') = {}
    BY <1>1, <1>3
  <2> QED BY <2>1 DEF Due
<1> QED BY <1>2, <1>3

(* What was written stays written. *)
LEMMA WireStays ==
  ASSUME wire' = wire, req' = req
  PROVE  Left' = Left /\ (WireOK => WireOK')
<1>1. Left' = Left
  BY DEF Left, LeftOf
<1>2. SegmentType' = SegmentType
  BY DEF SegmentType
<1>3. WireOK => WireOK'
  BY <1>2 DEF WireOK, SoundOf
<1> QED BY <1>1, <1>3

(* The server as it was has read and keeps what left. *)
LEMMA ServerStays ==
  ASSUME dp' = dp, req' = req, held' = held, stream' = stream, Left \subseteq Left', ServerOK,
         \A k \in DOMAIN wire : k \in DOMAIN wire' /\ wire'[k] = wire[k]
  PROVE  ServerOK'
<1>1. FakesIgnored' = FakesIgnored /\ Total' = Total
  BY DEF FakesIgnored, Total, Offset
<1>2. held' = held /\ stream' = stream
  OBVIOUS
<1> SUFFICES ASSUME FakesIgnored
             PROVE  /\ \A q \in held : \E k \in DOMAIN wire' :
                         wire'[k].real /\ wire'[k].packet # 0 /\ q = HeldOf(wire'[k])
                    /\ Len(stream) \in 0..Total
                    /\ stream = [k \in 1..Len(stream) |-> k - 1]
                    /\ \/ Len(stream) = 0
                       \/ \E s \in Left' : s.packet # 0 /\ Len(stream) = s.to
  BY <1>1, <1>2 DEF ServerOK, HeldOf
<1>3. /\ \A q \in held : \E k \in DOMAIN wire :
           wire[k].real /\ wire[k].packet # 0 /\ q = HeldOf(wire[k])
      /\ Len(stream) \in 0..Total
      /\ stream = [k \in 1..Len(stream) |-> k - 1]
      /\ \/ Len(stream) = 0
         \/ \E s \in Left : s.packet # 0 /\ Len(stream) = s.to
  BY DEF ServerOK
<1>4. ASSUME NEW q \in held
      PROVE  \E k \in DOMAIN wire' : wire'[k].real /\ wire'[k].packet # 0 /\ q = HeldOf(wire'[k])
  <2>1. PICK k \in DOMAIN wire : wire[k].real /\ wire[k].packet # 0 /\ q = HeldOf(wire[k])
    BY <1>3
  <2>2. k \in DOMAIN wire' /\ wire'[k] = wire[k]
    OBVIOUS
  <2> QED BY <2>1, <2>2
<1>5. Len(stream) = 0 \/ \E s \in Left' : s.packet # 0 /\ Len(stream) = s.to
  BY <1>3
<1> QED BY <1>3, <1>4, <1>5

(* A piece that left has a place. *)
LEMMA PieceNumbers ==
  ASSUME WireOK, NEW s \in Left
  PROVE  /\ s.packet \in 0..Len(req.lens) /\ s.from \in Nat /\ s.to \in Nat /\ s.ovl \in Nat
         /\ s.frag \in 0..2 /\ s.from <= s.to
<1>1. PICK k \in DOMAIN wire : wire[k].real /\ s = Piece(wire[k])
  BY DEF Left, LeftOf
<1>2. wire \in Seq(SegmentType) /\ SoundOf(req, wire[k])
  BY DEF WireOK
<1>3. wire[k] \in SegmentType /\ wire[k].ovl <= wire[k].len
  BY <1>2 DEF SoundOf
<1> DEFINE q == wire[k]
<1> HIDE DEF q
<1>4. /\ q.from \in Nat /\ q.len \in Nat /\ q.ovl \in Nat /\ q.ovl <= q.len /\ q.frag \in 0..2
      /\ q.packet \in 0..Len(req.lens)
  BY <1>3 DEF q, SegmentType
<1>5. /\ s.from = q.from /\ s.to = q.from + (q.len - q.ovl) /\ s.packet = q.packet /\ s.ovl = q.ovl
      /\ s.frag = q.frag
  BY <1>1 DEF q, Piece
<1> QED BY <1>4, <1>5

------------------------------------------------------------------------------
(* The engine's steps keep the invariant: first those that write nothing. *)

(* The parts fit the packet at hand as long as it is the same. *)
LEMMA ProperStays ==
  ASSUME i' = i, req' = req
  PROVE  Proper' = Proper
<1>1. PLen' = PLen
  BY DEF PLen
<1>2. PartType' = PartType
  BY DEF PartType
<1> QED BY <1>1, <1>2 DEF Proper

(* Data, wire and server after a step that writes nothing. *)
LEMMA NothingWritten ==
  ASSUME IInv, Typed, wire' = wire
  PROVE  WireOK' /\ ServerOK' /\ Left' = Left /\ (i' = i => Proper' = Proper)
<1>1. dp' = dp /\ req' = req /\ UNCHANGED server /\ WireOK /\ ServerOK
  BY DEF Typed, IInv
<1>2. Left' = Left /\ WireOK'
  BY <1>1, WireStays
<1>3. \A k \in DOMAIN wire : k \in DOMAIN wire' /\ wire'[k] = wire[k]
  OBVIOUS
<1>4. ServerOK'
  BY <1>1, <1>2, <1>3, ServerStays DEF server
<1>5. i' = i => Proper' = Proper
  BY <1>1, ProperStays
<1> QED BY <1>2, <1>4, <1>5

(* The packet leaves whole: what left of it before does no harm. *)
LEMMA SendsWholeKeeps ==
  ASSUME IInv, Typed, SendsWhole
  PROVE  IInv'
<1>1. DataOK /\ PiecesOK /\ LeftOK
  BY DEF IInv
<1>2. /\ i' = i /\ i <= Len(req.lens) /\ stage' \in {"orig", "main"}
      /\ todo' \in Seq(Proper) /\ Genuine(todo') = {Shape(Whole)}
      /\ wire' = wire /\ lost' = lost
      /\ dp' = dp /\ req' = req /\ ctid' \in 0..IdMod - 1 /\ ip_id' \in 0..IdMod - 1
      /\ fails' \in 0..MaxFail /\ open' = open
  BY DEF SendsWhole, Typed, server
<1>3. WireOK' /\ ServerOK' /\ Left' = Left /\ Proper' = Proper
  BY <1>2, NothingWritten
<1>4. DataOK'
  BY <1>1, <1>2 DEF DataOK
<1>5. PosOK'
  BY <1>2 DEF PosOK
<1>6. TodoOK'
  BY <1>2, <1>3 DEF TodoOK
<1>7. req \in Request /\ i \in 0..Len(req.lens) /\ i \in Nat
  BY <1>1, <1>2 DEF DataOK
<1> DEFINE a == WholePiece
           off == Offsets(req.lens)
<1>8. /\ a.packet = i /\ a.ovl = 0 /\ a.frag = 0
      /\ i # 0 => a.from = off[i] /\ a.to = off[i + 1] /\ off[i] \in Nat /\ off[i + 1] \in Nat /\ off[i] <= off[i + 1]
      /\ Complete({a}, i)
  BY <1>7, WholePieceFacts
<1>9. Due' = {a}
  <2>1. Due' = {PieceAt(i, s) : s \in Genuine(todo')}
    BY <1>2 DEF Due, PieceAt, Base, Offset
  <2>2. Due' = {PieceAt(i, s) : s \in {Shape(Whole)}}
    BY <2>1, <1>2
  <2> QED BY <2>2 DEF WholePiece
<1>10. Pieces' = Left \cup {a}
  BY <1>3, <1>9 DEF Pieces
<1>11. Left \subseteq Pieces
  BY DEF Pieces
<1>12. /\ \A s \in Pieces : s.packet <= i
       /\ Inside(off, Pieces) /\ Harmless(off, Pieces)
  BY <1>1 DEF PiecesOK
<1> HIDE DEF a
<1>13. Inside(off, Left) /\ Harmless(off, Left)
  <2> HIDE DEF off
  <2> QED BY <1>11, <1>12, FewerSound
<1>14. \A s \in Left : s.packet = a.packet /\ s.packet # 0 => s.from <= a.to
  <2> SUFFICES ASSUME NEW s \in Left, s.packet = i, i # 0 PROVE s.from <= off[i + 1]
    BY <1>8
  <2>1. off[i] <= s.from /\ s.from <= s.to /\ s.to <= off[i + 1]
    <3> HIDE DEF off
    <3> QED BY <1>13 DEF Inside
  <2>2. s.from \in Nat /\ s.to \in Nat
    BY PieceNumbers DEF IInv
  <2> HIDE DEF off
  <2> QED BY <2>1, <2>2, <1>8
<1>15. Inside(off, Left \cup {a}) /\ Harmless(off, Left \cup {a})
  <2>1. a.packet = 0 => a.frag = 0
    BY <1>8
  <2>2. a.packet # 0 => off[a.packet] <= a.from /\ a.from <= a.to /\ a.to <= off[a.packet + 1]
    BY <1>8
  <2> HIDE DEF off
  <2> QED BY <1>8, <1>13, <1>14, <2>1, <2>2, MoreSound
<1>16. PiecesOK'
  <2>1. Inside(off, Pieces') /\ Harmless(off, Pieces')
    BY <1>10, <1>15
  <2>2. \A s \in Pieces' : s.packet <= i'
    BY <1>2, <1>7, <1>8, <1>10, <1>11, <1>12
  <2>3. off' = off
    BY <1>2
  <2>4. stage' \notin {"new", "fakes"}
    BY <1>2
  <2> QED BY <2>1, <2>2, <2>3, <2>4, <1>2 DEF PiecesOK, Inside, Harmless
<1>17. LeftOK'
  <2>1. CompleteIn(off, Pieces', i)
    <3>1. CompleteIn(off, {a}, i)
      BY <1>8 DEF Complete
    <3> HIDE DEF off
    <3> QED BY <3>1, <1>10, CompleteGrows
  <2>2. \A p \in 0..i - 1 : p \notin lost => CompleteIn(off, Left, p)
    BY <1>1 DEF LeftOK, Complete
  <2> QED BY <2>1, <2>2, <1>2, <1>3 DEF LeftOK, Complete, CompleteIn, Carried
<1> QED BY <1>3, <1>4, <1>5, <1>6, <1>16, <1>17 DEF IInv

(* The engine is done with the packet, or ends: it left whole or is lost. *)
LEMMA NothingMoreKeeps ==
  ASSUME IInv, Typed, wire' = wire, todo' = <<>>, lost \subseteq lost', i <= Len(req.lens),
         \/ i' = i + 1 /\ stage' = "new" /\ (i \in lost' \/ (todo = <<>> /\ Complete(Pieces, i)))
         \/ i' = i /\ stage' = "exit"
  PROVE  IInv'
<1>1. DataOK /\ PiecesOK /\ LeftOK
  BY DEF IInv
<1>2. /\ dp' = dp /\ req' = req /\ ctid' \in 0..IdMod - 1 /\ ip_id' \in 0..IdMod - 1
      /\ fails' \in 0..MaxFail /\ open' = open /\ lost' \subseteq 0..Len(req.lens)
  BY DEF Typed, server
<1>3. WireOK' /\ ServerOK' /\ Left' = Left
  BY NothingWritten
<1>4. req \in Request /\ i \in 0..Len(req.lens) /\ i \in Nat /\ Len(req.lens) \in Nat
  BY <1>1, RequestFacts DEF DataOK
<1>5. DataOK'
  <2>1. i' \in 0..Len(req.lens) + 1 /\ (stage' # "new" => i' <= Len(req.lens))
    BY <1>4
  <2> QED BY <1>1, <1>2, <2>1 DEF DataOK
<1>6. PosOK'
  BY DEF PosOK
<1>7. TodoOK'
  BY DEF TodoOK
<1> DEFINE off == Offsets(req.lens)
<1>8. Pieces' = Left /\ Left \subseteq Pieces
  <2>1. Due' = {}
    BY NothingDue
  <2> QED BY <1>3, <2>1 DEF Pieces
<1>9. /\ \A s \in Pieces : s.packet <= i
      /\ \A s \in Pieces : stage = "new" => s.packet < i
      /\ Inside(off, Pieces) /\ Harmless(off, Pieces)
  BY <1>1 DEF PiecesOK
<1>10. PiecesOK'
  <2>1. Inside(off, Left) /\ Harmless(off, Left)
    <3> HIDE DEF off
    <3> QED BY <1>8, <1>9, FewerSound
  <2>2. ASSUME NEW s \in Left PROVE s.packet <= i' /\ (stage' = "new" => s.packet < i')
    <3>1. s.packet <= i /\ s.packet \in Nat
      BY <1>8, <1>9, PieceNumbers DEF IInv
    <3> QED BY <3>1, <1>4
  <2>3. off' = off
    BY <1>2
  <2>4. stage' # "fakes"
    OBVIOUS
  <2> QED BY <2>1, <2>2, <2>3, <2>4, <1>8, Zenon DEF PiecesOK, Inside, Harmless
<1>11. LeftOK'
  <2>1. \A p \in 0..i - 1 : p \notin lost => CompleteIn(off, Left, p)
    BY <1>1 DEF LeftOK, Complete
  <2>2. ASSUME i' = i + 1, i \notin lost' PROVE CompleteIn(off, Left, i)
    <3>1. todo = <<>> /\ Complete(Pieces, i)
      BY <2>2, <1>4
    <3>2. Due = {}
      BY <3>1, NothingDue
    <3>3. Pieces = Left
      BY <3>2 DEF Pieces
    <3> QED BY <3>1, <3>3 DEF Complete
  <2>3. ASSUME NEW p \in 0..i' - 1, p \notin lost' PROVE CompleteIn(off, Left, p)
    <3>1. p \in 0..i - 1 \/ (p = i /\ i' = i + 1)
      BY <1>4
    <3> HIDE DEF off
    <3> QED BY <3>1, <2>1, <2>2, <2>3
  <2>4. stage' \notin {"orig", "main", "desync"}
    OBVIOUS
  <2> QED BY <2>3, <2>4, <1>2, <1>3 DEF LeftOK, Complete, CompleteIn, Carried
<1> QED BY <1>3, <1>5, <1>6, <1>7, <1>10, <1>11 DEF IInv

(* ... hence every step that ends a stage keeps it. *)
LEMMA StageEndKeeps ==
  ASSUME IInv, Typed, SendsWhole \/ Finishes \/ Ends
  PROVE  IInv'
<1>1. CASE SendsWhole
  BY <1>1, SendsWholeKeeps
<1>2. CASE Finishes
  BY <1>2, NothingMoreKeeps DEF Finishes
<1>3. CASE Ends
  BY <1>3, NothingMoreKeeps DEF Ends
<1> QED BY <1>1, <1>2, <1>3

(* The parts of the second stage, as pieces: they are in the packet, no junk *)
(* of theirs meets the end of another, and they carry all of it.             *)
LEMMA DueMakes ==
  ASSUME req \in Request, i \in Packets, NEW parts \in Seq(Proper), Makes(Genuine(parts)),
         NEW S, \A s \in S : s.packet \in Nat /\ s.packet < i,
         Inside(Offsets(req.lens), S), Harmless(Offsets(req.lens), S),
         NEW D, D = {PieceAt(i, s) : s \in Genuine(parts)}
  PROVE  /\ Inside(Offsets(req.lens), S \cup D) /\ Harmless(Offsets(req.lens), S \cup D)
         /\ CompleteIn(Offsets(req.lens), S \cup D, i)
         /\ \A s \in D : s.packet = i
<1> DEFINE off == Offsets(req.lens)
           b == off[i]
           n == PLen
           G == Genuine(parts)
<1>1. /\ n \in Nat \ {0} /\ i # 0 /\ i \in Nat /\ Base(i) = b /\ b \in Nat /\ off[i + 1] = b + n
      /\ ReasmOffset = b
  BY PacketFacts DEF Offset
<1>2. ASSUME NEW s \in G PROVE s.from \in Nat /\ s.to \in Nat /\ s.ovl \in Nat /\ s.from <= s.to /\ s.to <= n
  <2>1. PICK k \in DOMAIN parts : parts[k].real /\ s = Shape(parts[k])
    BY GenuineIff
  <2>2. parts[k] \in Proper
    OBVIOUS
  <2> DEFINE p == parts[k]
  <2> HIDE DEF p
  <2>3. p \in Proper /\ p.real /\ s = Shape(p)
    BY <2>1, <2>2 DEF p
  <2>4. s.from = p.from /\ s.to = p.to /\ s.ovl = p.ovl
    BY <2>3 DEF Shape
  <2> QED BY <2>3, <2>4, ProperFields
<1>3. \A s : /\ PieceAt(i, s).packet = i /\ PieceAt(i, s).from = b + s.from /\ PieceAt(i, s).to = b + s.to
             /\ PieceAt(i, s).ovl = s.ovl /\ PieceAt(i, s).frag = s.frag
  <2> HIDE DEF b
  <2> QED BY <1>1 DEF PieceAt
<1>4. \A d : d \in D <=> \E s \in G : d = PieceAt(i, s)
  OBVIOUS
<1>5. /\ \A s \in G : s.ovl # 0 =>
           (b = 0 /\ s.from = 0) \/ (s.ovl < s.from /\ \A r \in G : s.from <= r.to)
      /\ \A x \in 0..n - 1 : \E s \in G :
           s.from <= x /\ x < s.to /\ (s.frag = 0 \/ \E t \in G : t.frag = 3 - s.frag)
  BY <1>1 DEF Makes
<1> HIDE DEF off, b, n, G
<1>6. \A d \in D : d.packet = i
  BY <1>3, <1>4
<1>7. Inside(off, S \cup D)
  <2> SUFFICES ASSUME NEW d \in S \cup D
               PROVE  /\ d.packet = 0 => d.frag = 0
                      /\ d.packet # 0 => off[d.packet] <= d.from /\ d.from <= d.to /\ d.to <= off[d.packet + 1]
    BY Zenon DEF Inside
  <2>1. CASE d \in S
    <3>1. Inside(off, S)
      BY DEF off
    <3> QED BY <2>1, <3>1, Zenon DEF Inside
  <2>2. CASE d \in D
    <3>1. PICK s \in G : d = PieceAt(i, s)
      BY <2>2, <1>4
    <3>2. d.packet = i /\ d.from = b + s.from /\ d.to = b + s.to
      BY <3>1, <1>3
    <3>3. off[i] = b
      BY DEF b
    <3> QED BY <3>2, <3>3, <1>1, <1>2
  <2> QED BY <2>1, <2>2
<1>8. Harmless(off, S \cup D)
  <2> SUFFICES ASSUME NEW d \in S \cup D, d.ovl # 0, d.packet # 0, d.from # 0
               PROVE  /\ off[d.packet] < d.from - d.ovl
                      /\ \A r \in S \cup D : r.packet = d.packet => d.from <= r.to
    BY Zenon DEF Harmless
  <2>1. CASE d \in S
    <3>1. Harmless(off, S)
      BY DEF off
    <3>2. off[d.packet] < d.from - d.ovl /\ \A r \in S : r.packet = d.packet => d.from <= r.to
      BY <2>1, <3>1, Zenon DEF Harmless
    <3>3. d.packet < i /\ d.packet \in Nat
      BY <2>1
    <3> QED BY <3>2, <3>3, <1>6, <1>1
  <2>2. CASE d \in D
    <3>1. PICK s \in G : d = PieceAt(i, s)
      BY <2>2, <1>4
    <3>2. d.packet = i /\ d.from = b + s.from /\ d.ovl = s.ovl
      BY <3>1, <1>3
    <3>3. s.from \in Nat /\ s.ovl \in Nat
      BY <1>2
    <3>4. s.ovl < s.from /\ \A r \in G : s.from <= r.to
      BY <3>2, <3>3, <1>1, <1>5
    <3>5. off[i] = b
      BY DEF b
    <3>6. off[d.packet] < d.from - d.ovl
      BY <3>2, <3>3, <3>4, <3>5, <1>1
    <3>7. ASSUME NEW r \in S \cup D, r.packet = d.packet PROVE d.from <= r.to
      <4>1. r \in D
        <5>1. r \notin S
          BY <3>2, <3>7, <1>1
        <5> QED BY <5>1
      <4>2. PICK t \in G : r = PieceAt(i, t)
        BY <4>1, <1>4
      <4>3. r.to = b + t.to /\ t.to \in Nat /\ s.from <= t.to
        BY <4>2, <1>2, <1>3, <3>4
      <4> QED BY <4>3, <3>2, <3>3, <1>1
    <3> QED BY <3>6, <3>7
  <2> QED BY <2>1, <2>2
<1>9. CompleteIn(off, S \cup D, i)
  <2> SUFFICES ASSUME NEW x \in b..(b + n) - 1 PROVE Carried(S \cup D, i, x)
    <3>1. off[i] = b
      BY DEF b
    <3> QED BY <3>1, <1>1 DEF CompleteIn
  <2>1. x \in Int /\ x - b \in 0..n - 1
    BY <1>1
  <2>2. PICK s \in G : /\ s.from <= x - b /\ x - b < s.to
                       /\ (s.frag = 0 \/ \E t \in G : t.frag = 3 - s.frag)
    BY <2>1, <1>5
  <2> DEFINE d == PieceAt(i, s)
  <2>3. d \in D
    BY <1>4
  <2>4. d.packet = i /\ d.from = b + s.from /\ d.to = b + s.to /\ d.frag = s.frag
    BY <1>3
  <2> HIDE DEF d
  <2>5. d.from <= x /\ x < d.to
    BY <2>1, <2>2, <2>4, <1>1, <1>2
  <2>6. d.frag = 0 \/ \E t \in S \cup D : t.packet = i /\ t.frag = 3 - d.frag
    <3> SUFFICES ASSUME d.frag # 0 PROVE \E t \in D : t.packet = i /\ t.frag = 3 - d.frag
      OBVIOUS
    <3>1. PICK t \in G : t.frag = 3 - s.frag
      BY <2>2, <2>4
    <3>2. PieceAt(i, t) \in D /\ PieceAt(i, t).packet = i /\ PieceAt(i, t).frag = 3 - d.frag
      BY <3>1, <2>4, <1>3, <1>4
    <3> QED BY <3>2
  <2> QED BY <2>3, <2>4, <2>5, <2>6 DEF Carried
<1> QED BY <1>6, <1>7, <1>8, <1>9 DEF off

(* The second stage is due once the fakes left. *)
LEMMA FakesWrittenKeeps ==
  ASSUME IInv, FakesWritten
  PROVE  IInv'
<1>1. DataOK /\ PosOK /\ PiecesOK /\ LeftOK
  BY DEF IInv
<1>2. /\ stage = "fakes" /\ todo = <<>> /\ stage' = "desync" /\ todo' = SecondWithIds
      /\ dp' = dp /\ req' = req /\ i' = i /\ ctid' = ctid /\ pos' = pos /\ ip_id' = ip_id
      /\ wire' = wire /\ fails' = fails /\ lost' = lost /\ UNCHANGED server
  BY DEF FakesWritten
<1>3. /\ req \in Request /\ dp \in Profile /\ i \in Packets /\ i # 0 /\ i \in Nat
      /\ ctid \in 0..IdMod - 1 /\ ip_id \in 0..IdMod - 1
  BY <1>1, <1>2, DataFacts DEF DataOK
<1>4. PosFits
  BY <1>1, <1>2, <1>3 DEF PosOK
<1>5. Typed
  BY <1>1, <1>2 DEF Typed, DataOK
<1>6. WireOK' /\ ServerOK' /\ Left' = Left /\ Proper' = Proper
  BY <1>2, <1>5, NothingWritten
<1>7. DataOK'
  BY <1>1, <1>2, <1>3 DEF DataOK, server
<1>8. PosOK'
  <2>1. PLen' = PLen
    BY <1>2 DEF PLen
  <2> QED BY <2>1, <1>2, <1>3, <1>4 DEF PosOK, PosFits, Within
<1>9. SecondWithIds \in Seq(Proper) /\ Genuine(SecondWithIds) = Genuine(SecondStage)
  BY <1>3, <1>4, SecondWithIdsShape
<1>10. TodoOK'
  BY <1>2, <1>6, <1>9 DEF TodoOK
<1> DEFINE off == Offsets(req.lens)
           D == {PieceAt(i, s) : s \in Genuine(SecondStage)}
<1>11. Pieces' = Left \cup D /\ Pieces = Left
  <2>1. Due' = {PieceAt(i, s) : s \in Genuine(SecondWithIds)}
    BY <1>2 DEF Due, PieceAt, Base, Offset
  <2>2. Due' = D
    BY <2>1, <1>9
  <2>3. Due = {}
    BY <1>2, NothingDue
  <2> QED BY <1>6, <2>2, <2>3 DEF Pieces
<1>12. /\ \A s \in Left : s.packet \in Nat /\ s.packet < i
       /\ Inside(off, Left) /\ Harmless(off, Left)
  <2>1. \A s \in Left : s.packet \in Nat
    BY PieceNumbers DEF IInv
  <2> QED BY <2>1, <1>1, <1>2, <1>11 DEF PiecesOK
<1>13. SecondStage \in Seq(Proper) /\ (SecondStage # <<>> => Makes(Genuine(SecondStage)))
  BY <1>3, <1>4, SecondStageMakes
<1>14. SecondStage = <<>> => D = {}
  <2>1. Genuine(<<>>) = {}
    BY GenuineNone
  <2> QED BY <2>1
<1>15. /\ Inside(off, Left \cup D) /\ Harmless(off, Left \cup D)
       /\ \A s \in D : s.packet = i
       /\ SecondStage # <<>> => CompleteIn(off, Left \cup D, i)
  <2>1. CASE SecondStage = <<>>
    <3>1. D = {}
      BY <2>1, <1>14
    <3> HIDE DEF D, off
    <3>2. Left \cup D = Left
      BY <3>1
    <3> QED BY <2>1, <3>1, <3>2, <1>12
  <2>2. CASE SecondStage # <<>>
    <3>1. Makes(Genuine(SecondStage)) /\ SecondStage \in Seq(Proper)
      BY <2>2, <1>13
    <3>2. D = {PieceAt(i, s) : s \in Genuine(SecondStage)}
      OBVIOUS
    <3> HIDE DEF D
    <3> QED BY <3>1, <3>2, <1>3, <1>12, DueMakes
  <2> QED BY <2>1, <2>2
<1> HIDE DEF D
<1>16. PiecesOK'
  <2>1. \A s \in Pieces' : s.packet <= i'
    BY <1>2, <1>3, <1>11, <1>12, <1>15
  <2>2. off' = off /\ stage' \notin {"new", "fakes"}
    BY <1>2
  <2> QED BY <2>1, <2>2, <1>11, <1>15, Zenon DEF PiecesOK, Inside, Harmless
<1>17. Applies' <=> SecondStage # <<>>
  <2>1. Applies <=> SecondStage # <<>>
    BY <1>3, <1>4, AppliesIff
  <2>2. Applies' <=> Applies
    BY <1>2 DEF Applies, FinalHeader, StageMode, ReasmOffset, Replay, Offset
  <2> QED BY <2>1, <2>2
<1>18. LeftOK'
  <2>1. \A p \in 0..i - 1 : p \notin lost => CompleteIn(off, Left, p)
    BY <1>1 DEF LeftOK, Complete
  <2>2. Applies' => CompleteIn(off, Pieces', i)
    BY <1>11, <1>15, <1>17
  <2>3. stage' = "desync" /\ i' # 0
    BY <1>2, <1>3
  <2> QED BY <2>1, <2>2, <2>3, <1>2, <1>6 DEF LeftOK, Complete, CompleteIn, Carried
<1> QED BY <1>6, <1>7, <1>8, <1>10, <1>16, <1>18 DEF IInv

(* A SYN is to leave. *)
LEMMA ResolveSynKeeps ==
  ASSUME IInv, Resolve, i = 0
  PROVE  IInv'
<1>1. DataOK /\ PiecesOK /\ LeftOK
  BY DEF IInv
<1>2. /\ stage = "new" /\ stage' = "desync" /\ pos' = NoPos /\ todo' = SynParts /\ ip_id' = 0
      /\ dp' = dp /\ req' = req /\ i' = i /\ ctid' = ctid
      /\ wire' = wire /\ fails' = fails /\ lost' = lost /\ UNCHANGED server
  BY Zenon DEF Resolve
<1>3. req \in Request /\ dp \in Profile /\ Len(req.lens) \in Nat /\ IdMod \in Nat /\ 0 \in 0..IdMod - 1 /\ todo = <<>>
  BY <1>1, <1>2, RequestFacts, ConstAssumption DEF DataOK
<1>4. Typed
  BY <1>1, <1>2, <1>3 DEF Typed, DataOK
<1>5. WireOK' /\ ServerOK' /\ Left' = Left /\ Proper' = Proper
  BY <1>2, <1>4, NothingWritten
<1>6. DataOK'
  BY <1>1, <1>2, <1>3 DEF DataOK, server
<1>7. PosOK'
  BY <1>2 DEF PosOK, NoPos
<1> DEFINE z == [from |-> 0, to |-> 0, ovl |-> 0, frag |-> 0]
           a == [packet |-> 0, from |-> 0, to |-> 0, ovl |-> 0, frag |-> 0]
           G == Genuine(SynParts)
<1>8. /\ SynParts \in Seq(Proper) /\ G \subseteq {z} /\ (dp.mode0 = "syndata" => G = {z})
  BY SynPartsShape
<1>9. TodoOK'
  BY <1>2, <1>5, <1>8 DEF TodoOK
<1>10. Left = {}
  <2>1. \A s \in Left : s.packet < 0 /\ s.packet \in Nat
    BY <1>1, <1>2, PieceNumbers DEF PiecesOK, Pieces, IInv
  <2> QED BY <2>1
<1>11. Pieces' = {PieceAt(0, s) : s \in G}
  <2>1. Due' = {PieceAt(0, s) : s \in G}
    BY <1>2 DEF Due, PieceAt, Base
  <2> QED BY <1>5, <1>10, <2>1 DEF Pieces
<1>12. PieceAt(0, z) = a
  BY DEF PieceAt, Base
<1>13. Pieces' \subseteq {a} /\ (dp.mode0 = "syndata" => Pieces' = {a})
  <2> HIDE DEF z, a, G
  <2> QED BY <1>8, <1>11, <1>12
<1>14. a.packet = 0 /\ a.ovl = 0 /\ a.frag = 0
  OBVIOUS
<1> HIDE DEF a, G
<1>15. PiecesOK'
  <2>1. \A s \in Pieces' : s.packet = 0 /\ s.ovl = 0 /\ s.frag = 0
    BY <1>13, <1>14
  <2>2. stage' \notin {"new", "fakes"} /\ i' = 0
    BY <1>2
  <2> QED BY <2>1, <2>2 DEF PiecesOK, Inside, Harmless
<1>16. LeftOK'
  <2>1. dp.mode0 = "syndata" => \E s \in Pieces' : s.packet = 0
    BY <1>13, <1>14
  <2>2. i' = 0 /\ dp' = dp /\ stage' = "desync"
    BY <1>2
  <2>3. \A p \in 0..i' - 1 : FALSE
    BY <2>2
  <2> QED BY <2>1, <2>2, <2>3 DEF LeftOK, Complete, CompleteIn
<1> QED BY <1>5, <1>6, <1>7, <1>9, <1>15, <1>16 DEF IInv

(* The positions of a packet are resolved: only fakes are due. *)
LEMMA ResolvePacketKeeps ==
  ASSUME IInv, Resolve, i # 0
  PROVE  IInv'
<1>1. DataOK /\ PiecesOK /\ LeftOK
  BY DEF IInv
<1> DEFINE at == [cuts |-> MultisplitPos, split |-> SplitPos, host |-> HostPos, ovl |-> SeqovlPos]
<1>2. /\ stage = "new" /\ stage' = "fakes" /\ pos' = at
      /\ todo' = Ascending(FirstStage, FirstId) /\ ip_id' = IdSteps(FirstId, 1, Len(FirstStage))
      /\ dp' = dp /\ req' = req /\ i' = i /\ ctid' = ctid /\ i <= Len(req.lens)
      /\ wire' = wire /\ fails' = fails /\ lost' = lost /\ UNCHANGED server
  BY Zenon DEF Resolve
<1>3. /\ req \in Request /\ dp \in Profile /\ i \in Packets /\ i \in Nat /\ todo = <<>>
      /\ ctid \in 0..IdMod - 1
  BY <1>1, <1>2, RequestFacts DEF DataOK, Packets
<1>4. FirstStage \in Seq(Proper) /\ Genuine(FirstStage) = {}
  BY <1>3, FirstStageShape
<1>5. FirstId \in 0..IdMod - 1
  <2>1. req.ids[i] \in 0..IdMod - 1 /\ OwnId(req, i) \in 0..IdMod - 1
    BY <1>3, OwnIdType
  <2>2. 0 \in 0..IdMod - 1
    BY ConstAssumption
  <2> QED BY <2>1, <2>2, <1>3 DEF FirstId, IP4_IP_ID_FIX
<1>6. ip_id' \in 0..IdMod - 1
  <2>1. Len(FirstStage) \in Nat
    BY <1>4
  <2> QED BY <2>1, <1>2, <1>5, 1 \in Int, IdStepsType
<1>7. Ascending(FirstStage, FirstId) \in Seq(Proper) /\ Genuine(Ascending(FirstStage, FirstId)) = {}
  BY <1>4, <1>5, AscendingShape
<1>8. Typed
  BY <1>1, <1>2, <1>3, <1>6 DEF Typed, DataOK
<1>9. WireOK' /\ ServerOK' /\ Left' = Left /\ Proper' = Proper
  BY <1>2, <1>8, NothingWritten
<1>10. DataOK'
  BY <1>1, <1>2, <1>3, <1>6 DEF DataOK, server
<1>11. PosOK'
  <2>1. PLen' = PLen /\ i' # 0
    BY <1>2 DEF PLen
  <2>2. /\ MultisplitPos \in Seq(1..PLen - 1)
        /\ \A j, k \in DOMAIN MultisplitPos : j < k => MultisplitPos[j] < MultisplitPos[k]
        /\ SplitPos \in 0..PLen - 1 /\ Within(HostPos, PLen) /\ SeqovlPos \in Nat
    BY <1>3, CutsType, SplitType, HostType, SeqovlType
  <2>3. /\ pos'.cuts = MultisplitPos /\ pos'.split = SplitPos /\ pos'.host = HostPos /\ pos'.ovl = SeqovlPos
    BY <1>2
  <2>4. Within(pos'.host, PLen')
    BY <2>1, <2>2, <2>3
  <2>5. PosFits'
    BY <2>1, <2>2, <2>3, <2>4 DEF PosFits, Within
  <2> QED BY <2>1, <2>5 DEF PosOK
<1>12. TodoOK'
  BY <1>2, <1>7, <1>9 DEF TodoOK
<1> DEFINE off == Offsets(req.lens)
<1>13. Pieces' = Left /\ Pieces = Left
  <2>1. Genuine(todo') = {}
    BY <1>2, <1>7
  <2>2. Due' = {}
    BY <2>1 DEF Due
  <2>3. Due = {}
    BY <1>3, NothingDue
  <2> QED BY <1>9, <2>2, <2>3 DEF Pieces
<1>14. PiecesOK'
  <2>1. /\ \A s \in Left : s.packet <= i /\ s.packet < i
        /\ Inside(off, Left) /\ Harmless(off, Left)
    BY <1>1, <1>2, <1>13 DEF PiecesOK
  <2>2. off' = off /\ i' = i
    BY <1>2
  <2> QED BY <2>1, <2>2, <1>13, Zenon DEF PiecesOK, Inside, Harmless
<1>15. LeftOK'
  <2>1. \A p \in 0..i - 1 : p \notin lost => CompleteIn(off, Left, p)
    BY <1>1 DEF LeftOK, Complete
  <2>2. stage' \notin {"orig", "main", "desync"}
    BY <1>2
  <2> QED BY <2>1, <2>2, <1>2, <1>9 DEF LeftOK, Complete, CompleteIn, Carried
<1> QED BY <1>9, <1>10, <1>11, <1>12, <1>14, <1>15 DEF IInv

(* A write moves a piece from what is due to what left. *)
LEMMA WriteKeeps ==
  ASSUME IInv, Write
  PROVE  IInv'
<1>1. DataOK /\ PosOK /\ TodoOK /\ WireOK /\ PiecesOK /\ LeftOK /\ ServerOK
  BY DEF IInv
<1> DEFINE p == Head(todo)
           g == Segment(p)
           off == Offsets(req.lens)
<1>2. /\ todo # <<>> /\ ~ TooLong(p) /\ wire' = Append(wire, g) /\ todo' = Tail(todo)
      /\ dp' = dp /\ req' = req /\ i' = i /\ ctid' = ctid /\ stage' = stage /\ pos' = pos
      /\ ip_id' = ip_id /\ fails' = fails /\ lost' = lost /\ UNCHANGED server
  BY Zenon DEF Write
<1>3. stage \notin {"new", "exit"}
  BY <1>1, <1>2 DEF DataOK
<1>4. /\ todo \in Seq(Proper) /\ p \in Proper /\ Tail(todo) \in Seq(Proper)
      /\ Genuine(todo) = Genuine(Tail(todo)) \cup (IF p.real THEN {Shape(p)} ELSE {})
  BY <1>1, <1>2, GenuineHead DEF TodoOK
<1>5. /\ g \in SegmentType /\ g.real = p.real /\ Piece(g) = PieceAt(i, Shape(p)) /\ SoundOf(req, g)
  <2> HIDE DEF p, g
  <2>1. stage # "new" /\ p \in Proper /\ ~ TooLong(p)
    BY <1>2, <1>3, <1>4
  <2>2. /\ g \in SegmentType /\ g.real = p.real /\ Piece(g) = PieceAt(i, Shape(p))
        /\ g.syn = (g.packet = 0) /\ g.ovl <= g.len
        /\ g.ovl # 0 => g.len <= BufMax
        /\ ~ g.real => g.frag = 0
        /\ g.seq = (req.seq + g.from - g.ovl) % W
        /\ g.packet # 0 => g.end = Offset(g.packet + 1)
    BY <1>1, <2>1, SegmentPiece DEF g
  <2> QED BY <2>2, Zenon DEF SoundOf, Offset
<1> HIDE DEF p, g, off
<1>6. wire \in Seq(SegmentType) /\ \A k \in DOMAIN wire : SoundOf(req, wire[k])
  BY <1>1 DEF WireOK
<1>7. /\ wire' \in Seq(SegmentType)
      /\ LeftOf(wire') = LeftOf(wire) \cup (IF g.real THEN {Piece(g)} ELSE {})
      /\ \A k \in DOMAIN wire' : wire'[k] = g \/ \E j \in DOMAIN wire : wire'[k] = wire[j]
      /\ \A k \in DOMAIN wire : k \in DOMAIN wire' /\ wire'[k] = wire[k]
  BY <1>2, <1>5, <1>6, LeftAppend
<1>8. Proper' = Proper
  BY <1>2, ProperStays
<1>9. DataOK'
  BY <1>1, <1>2, <1>3 DEF DataOK, server
<1>10. PosOK'
  <2>1. PLen' = PLen
    BY <1>2 DEF PLen
  <2> QED BY <2>1, <1>1, <1>2 DEF PosOK, PosFits, Within
<1>11. TodoOK'
  BY <1>2, <1>4, <1>8 DEF TodoOK
<1>12. WireOK'
  <2>1. SegmentType' = SegmentType
    BY <1>2 DEF SegmentType
  <2>2. ASSUME NEW k \in DOMAIN wire' PROVE SoundOf(req, wire'[k])
    BY <1>5, <1>6, <1>7
  <2> QED BY <2>1, <2>2, <1>2, <1>7, Zenon DEF WireOK, SoundOf
<1> DEFINE moved == IF p.real THEN {PieceAt(i, Shape(p))} ELSE {}
<1>13. Left' = Left \cup moved
  <2>1. Left' = LeftOf(wire')
    BY DEF Left, LeftOf, Piece
  <2>2. Left = LeftOf(wire)
    BY DEF Left
  <2> QED BY <2>1, <2>2, <1>5, <1>7
<1>14. Due = Due' \cup moved
  <2>1. Due' = {PieceAt(i, s) : s \in Genuine(Tail(todo))}
    BY <1>2 DEF Due, PieceAt, Base, Offset
  <2>2. Due = {PieceAt(i, s) : s \in Genuine(todo)}
    BY DEF Due
  <2> QED BY <2>1, <2>2, <1>4
<1> HIDE DEF moved
<1>15. Pieces' = Pieces /\ Left \subseteq Left'
  BY <1>13, <1>14 DEF Pieces
<1>16. PiecesOK'
  <2>1. /\ \A s \in Pieces : s.packet <= i /\ (stage \in {"new", "fakes"} => s.packet < i)
        /\ Inside(off, Pieces) /\ Harmless(off, Pieces)
    BY <1>1 DEF PiecesOK, off
  <2>2. Offsets(req'.lens) = off
    BY <1>2 DEF off
  <2> QED BY <2>1, <2>2, <1>2, <1>15, Zenon DEF PiecesOK, Inside, Harmless
<1>17. LeftOK'
  <2>1. ASSUME NEW q \in 0..i - 1, q \notin lost PROVE CompleteIn(off, Left', q)
    <3>1. CompleteIn(off, Left, q)
      BY <2>1, <1>1 DEF LeftOK, Complete, off
    <3> QED BY <3>1, <1>15, CompleteGrows
  <2>2. Applies' <=> Applies
    BY <1>2 DEF Applies, FinalHeader, StageMode, ReasmOffset, Replay, Offset
  <2>3. stage \in {"orig", "main"}
        \/ (stage = "desync" /\ (IF i = 0 THEN dp.mode0 = "syndata" ELSE Applies))
        => CompleteIn(off, Pieces', i)
    BY <1>1, <1>15 DEF LeftOK, Complete, off
  <2>4. Offsets(req'.lens) = off
    BY <1>2 DEF off
  <2> QED BY <2>1, <2>2, <2>3, <2>4, <1>2 DEF LeftOK, Complete, CompleteIn, Carried
<1>18. ServerOK'
  BY <1>1, <1>2, <1>7, <1>15, ServerStays DEF server
<1> QED BY <1>9, <1>10, <1>11, <1>12, <1>16, <1>17, <1>18 DEF IInv

------------------------------------------------------------------------------
(* What the server does with a segment. *)

(* What the server keeps of a segment of the client that left. *)
Kept(q) ==
  \E k \in DOMAIN wire : wire[k].real /\ wire[k].packet # 0 /\ q = HeldOf(wire[k])

(* A segment of the client that left, as the server keeps it: its place is    *)
(* that of its piece.                                                         *)
LEMMA KeptFacts ==
  ASSUME IInv, NEW q, Kept(q)
  PROVE  \E s \in Left :
           /\ s.packet \in Packets
           /\ q.from = s.from /\ q.ovl = s.ovl /\ q.real = TRUE
           /\ q.start = s.from - s.ovl /\ q.start + q.len = s.to
           /\ q.end = Offsets(req.lens)[s.packet + 1]
           /\ s.from \in Nat /\ s.ovl \in Nat /\ s.to \in Nat /\ q.len \in Nat
           /\ s.ovl <= BufMax
<1>1. WireOK
  BY DEF IInv
<1>2. PICK k \in DOMAIN wire : wire[k].real /\ wire[k].packet # 0 /\ q = HeldOf(wire[k])
  BY DEF Kept
<1>3. wire \in Seq(SegmentType) /\ SoundOf(req, wire[k])
  BY <1>1 DEF WireOK
<1> DEFINE w == wire[k]
           off == Offsets(req.lens)
<1>4. w \in SegmentType
  BY <1>3
<1> HIDE DEF w, off
<1>5. SoundOf(req, w) /\ w.real /\ w.packet # 0 /\ q = HeldOf(w)
  BY <1>2, <1>3 DEF w
<1>6. /\ w.from \in Nat /\ w.len \in Nat /\ w.ovl \in Nat /\ w.packet \in 0..Len(req.lens) /\ w.real \in BOOLEAN
      /\ w.end \in Nat
  BY <1>4 DEF SegmentType
<1>7. w.ovl <= w.len /\ (w.ovl # 0 => w.len <= BufMax) /\ w.end = off[w.packet + 1]
  BY <1>5 DEF SoundOf, off
<1>8. BufMax \in Nat /\ Len(req.lens) \in Nat
  BY ConstAssumption, RequestFacts DEF IInv, DataOK
<1> DEFINE s == Piece(w)
<1>9. s \in Left
  BY <1>2 DEF Left, LeftOf, w
<1>10. s.packet = w.packet /\ s.from = w.from /\ s.to = w.from + (w.len - w.ovl) /\ s.ovl = w.ovl
  BY DEF Piece
<1>11. /\ q.start = w.from - w.ovl /\ q.len = w.len /\ q.ovl = w.ovl /\ q.from = w.from /\ q.end = w.end
       /\ q.real = w.real
  BY <1>5 DEF HeldOf
<1>12. w.real = TRUE
  BY <1>5, <1>6
<1> HIDE DEF s
<1>13. s.packet \in Packets
  BY <1>5, <1>6, <1>8, <1>10 DEF Packets
<1>14. /\ q.start + q.len = s.to /\ s.from \in Nat /\ s.ovl \in Nat /\ s.to \in Nat /\ q.len \in Nat /\ s.ovl <= BufMax
  BY <1>6, <1>7, <1>8, <1>10, <1>11
<1>15. q.end = off[s.packet + 1]
  BY <1>7, <1>10, <1>11
<1> QED BY <1>9, <1>10, <1>11, <1>12, <1>13, <1>14, <1>15 DEF off

(* Its numbers: it ends where the server may stand, within its packet. *)
LEMMA KeptNumbers ==
  ASSUME IInv, NEW q, Kept(q)
  PROVE  /\ q.start \in Int /\ q.len \in Nat /\ q.ovl \in Nat /\ q.from \in Nat /\ q.end \in Nat
         /\ q.real = TRUE /\ q.start = q.from - q.ovl /\ q.start + BufMax \in Nat
         /\ q.start + q.len \in Nat /\ q.start + q.len <= q.end /\ q.end <= Total
         /\ \E s \in Left : s.packet # 0 /\ q.start + q.len = s.to
<1> DEFINE off == Offsets(req.lens)
<1>1. PICK s \in Left :
           /\ s.packet \in Packets
           /\ q.from = s.from /\ q.ovl = s.ovl /\ q.real = TRUE
           /\ q.start = s.from - s.ovl /\ q.start + q.len = s.to
           /\ q.end = off[s.packet + 1]
           /\ s.from \in Nat /\ s.ovl \in Nat /\ s.to \in Nat /\ q.len \in Nat
           /\ s.ovl <= BufMax
  BY KeptFacts
<1>2. req \in Request /\ BufMax \in Nat /\ Len(req.lens) \in Nat
  BY ConstAssumption, RequestFacts DEF IInv, DataOK
<1>3. \A k \in 1..Len(req.lens) + 1 : off[k] \in Nat /\ off[k] <= Total
  BY <1>2, OffsetFacts DEF Offset
<1>4. Inside(off, Pieces) /\ s \in Pieces
  BY DEF IInv, PiecesOK, Pieces
<1> HIDE DEF off
<1>5. s.packet # 0 /\ s.packet + 1 \in 1..Len(req.lens) + 1
  BY <1>1, <1>2 DEF Packets
<1>6. s.to <= off[s.packet + 1]
  BY <1>4, <1>5 DEF Inside
<1>7. off[s.packet + 1] \in Nat /\ off[s.packet + 1] <= Total
  BY <1>3, <1>5
<1> QED BY <1>1, <1>2, <1>5, <1>6, <1>7

(* The server never stands in the junk before a segment: junk lies where no  *)
(* piece ends.                                                               *)
LEMMA JunkFree ==
  ASSUME IInv, NEW q, Kept(q), NEW e \in Int,
         e = 0 \/ \E s \in Left : s.packet # 0 /\ e = s.to
  PROVE  ~ (q.start <= e /\ e < q.from)
<1> SUFFICES ASSUME q.start <= e, e < q.from PROVE FALSE
  OBVIOUS
<1> DEFINE off == Offsets(req.lens)
           n == Len(req.lens)
<1>1. PICK s \in Left :
           /\ s.packet \in Packets
           /\ q.from = s.from /\ q.ovl = s.ovl /\ q.real = TRUE
           /\ q.start = s.from - s.ovl /\ q.start + q.len = s.to
           /\ q.end = off[s.packet + 1]
           /\ s.from \in Nat /\ s.ovl \in Nat /\ s.to \in Nat /\ q.len \in Nat
           /\ s.ovl <= BufMax
  BY KeptFacts
<1>2. req \in Request /\ n \in Nat
  BY RequestFacts DEF IInv, DataOK
<1>3. \A j, k \in 1..n + 1 : off[j] \in Nat /\ (j <= k => off[j] <= off[k])
  BY <1>2, OffsetFacts DEF Offset
<1>4. Inside(off, Pieces) /\ Harmless(off, Pieces) /\ Left \subseteq Pieces
  BY DEF IInv, PiecesOK, Pieces
<1> HIDE DEF off, n
<1>5. s.packet \in 1..n
  BY <1>1 DEF Packets, n
<1>6. s.packet # 0 /\ s.packet + 1 \in 1..n + 1 /\ s.packet \in 1..n + 1
  BY <1>2, <1>5
<1>7. s.ovl # 0 /\ s.from - s.ovl <= e /\ e < s.from
  BY <1>1
<1>8. /\ off[s.packet] \in Nat /\ off[s.packet + 1] \in Nat
      /\ s.from <= s.to /\ s.to <= off[s.packet + 1]
  BY <1>3, <1>4, <1>6 DEF Inside
<1>9. e # 0 \/ s.from # 0
  BY <1>1, <1>7
<1>10. e >= 0
  <2>1. CASE e = 0
    BY <2>1
  <2>2. CASE e # 0
    <3>1. PICK t \in Left : e = t.to
      BY <2>2
    <3>2. t.to \in Nat
      BY PieceNumbers DEF IInv
    <3> QED BY <3>1, <3>2
  <2> QED BY <2>1, <2>2
<1>11. s.from # 0
  BY <1>1, <1>7, <1>10
<1>12. /\ off[s.packet] < s.from - s.ovl
       /\ \A r \in Pieces : r.packet = s.packet => s.from <= r.to
  BY <1>4, <1>6, <1>7, <1>11 DEF Harmless
<1>13. e # 0
  BY <1>1, <1>7, <1>8, <1>12
<1>14. PICK t \in Left : t.packet # 0 /\ e = t.to
  BY <1>13
<1>15. t.packet \in 0..n /\ t.to \in Nat /\ t.from \in Nat
  BY PieceNumbers DEF IInv, n
<1>16. t.packet \in 1..n + 1 /\ t.packet + 1 \in 1..n + 1 /\ t.packet \in Int /\ s.packet \in Int
  BY <1>2, <1>5, <1>14, <1>15
<1>17. off[t.packet] <= t.from /\ t.from <= t.to /\ t.to <= off[t.packet + 1]
  BY <1>4, <1>14 DEF Inside
<1>18. CASE t.packet = s.packet
  <2>1. s.from <= t.to
    BY <1>4, <1>12, <1>18
  <2> QED BY <2>1, <1>1, <1>7, <1>14, <1>15
<1>19. CASE t.packet < s.packet
  <2>1. t.packet + 1 <= s.packet
    BY <1>16, <1>19
  <2>2. off[t.packet + 1] <= off[s.packet] /\ off[t.packet + 1] \in Nat
    BY <2>1, <1>3, <1>6, <1>16
  <2> QED BY <2>2, <1>1, <1>7, <1>8, <1>12, <1>14, <1>15, <1>17
<1>20. CASE t.packet > s.packet
  <2>1. s.packet + 1 <= t.packet
    BY <1>16, <1>20
  <2>2. off[s.packet + 1] <= off[t.packet] /\ off[t.packet] \in Nat
    BY <2>1, <1>3, <1>6, <1>16
  <2> QED BY <2>2, <1>1, <1>7, <1>8, <1>14, <1>15, <1>17
<1> QED BY <1>16, <1>18, <1>19, <1>20

(* The server puts a segment of the client where its bytes belong: what it    *)
(* expects is less than half the range away.                                  *)
LEMMA PlacedRight ==
  ASSUME IInv, FakesIgnored, NEW k \in DOMAIN wire, wire[k].real, wire[k].packet # 0
  PROVE  Placed(wire[k]) = HeldOf(wire[k]) /\ Kept(Placed(wire[k]))
<1> DEFINE w == wire[k]
           E == Expected
           a == req.seq + w.from - w.ovl
           b == req.seq + E
<1>1. wire \in Seq(SegmentType) /\ SoundOf(req, w) /\ req \in Request
  BY DEF IInv, WireOK, DataOK
<1>2. w \in SegmentType
  BY <1>1
<1>3. Kept(HeldOf(w))
  BY DEF Kept
<1>4. E \in Nat /\ E <= Total
  BY DEF IInv, ServerOK, Expected
<1>5. req.seq \in Nat /\ BufMax \in Nat /\ W \in Nat \ {0} /\ Total + BufMax < W \div 2 /\ Total \in Nat
  BY <1>1, RequestFacts, WidthFacts, OffsetFacts
<1> DEFINE h == HeldOf(w)
<1>6. h.start = w.from - w.ovl /\ h.from = w.from /\ h.ovl = w.ovl /\ h.len = w.len
  BY DEF HeldOf
<1>7. w.seq = a % W
  BY <1>1 DEF SoundOf
<1>8. h.from \in Nat /\ h.ovl \in Nat /\ h.start + BufMax \in Nat /\ h.start + h.len <= Total /\ h.len \in Nat /\ h.start \in Int
  <2> HIDE DEF h
  <2>1. Kept(h)
    BY <1>3 DEF h
  <2>2. /\ h.start \in Int /\ h.len \in Nat /\ h.ovl \in Nat /\ h.from \in Nat /\ h.end \in Nat
        /\ h.start + BufMax \in Nat
        /\ h.start + h.len \in Nat /\ h.start + h.len <= h.end /\ h.end <= Total
    BY <2>1, KeptNumbers
  <2> QED BY <2>2, <1>5
<1>9. w.from \in Nat /\ w.ovl \in Nat
  BY <1>6, <1>8
<1> HIDE DEF w, E, h
<1> DEFINE d == w.from - w.ovl
<1>10. d \in Int /\ d + BufMax >= 0 /\ d <= Total /\ a - b = d - E /\ b - a = E - d /\ a \in Int /\ b \in Int
  BY <1>4, <1>5, <1>6, <1>8, <1>9
<1> HIDE DEF a, b, d
<1>11. a - b < W \div 2 /\ b - a < W \div 2
  <2> DEFINE half == W \div 2
  <2>1. half \in Int /\ Total + BufMax < half
    BY <1>5
  <2> HIDE DEF half
  <2>2. a - b < half /\ b - a < half
    BY <2>1, <1>4, <1>5, <1>10
  <2> QED BY <2>2 DEF half
<1>12. Signed(((a % W) - b) % W) = a - b
  BY <1>5, <1>10, <1>11, SignedDifference
<1>13. E + Signed((w.seq - b) % W) = d
  <2> DEFINE x == Signed((w.seq - b) % W)
  <2>1. x = a - b
    BY <1>7, <1>12, Zenon
  <2> HIDE DEF x
  <2>2. E + x = d
    BY <2>1, <1>4, <1>10
  <2> QED BY <2>2 DEF x
<1>14. Placed(w) = HeldOf(w)
  BY <1>13 DEF Placed, HeldOf, b, d, E
<1> QED BY <1>3, <1>14 DEF w

(* A byte of the client's that a kept segment covers is the byte there. *)
LEMMA ByteRight ==
  ASSUME IInv, NEW q, Kept(q), NEW x \in Int, Covers(q, x), q.from <= x
  PROVE  ByteAt(q, x) = x
<1>1. /\ q.start \in Int /\ q.len \in Nat /\ q.ovl \in Nat /\ q.from \in Nat /\ q.end \in Nat
      /\ q.real = TRUE /\ q.start = q.from - q.ovl
      /\ q.start + q.len <= q.end
  BY KeptNumbers
<1>2. x < q.start + q.len
  BY DEF Covers
<1>3. q.from + (x - q.start - q.ovl) = x /\ x \in q.from..q.end - 1
  BY <1>1, <1>2
<1> QED BY <1>1, <1>3 DEF ByteAt

(* Of the kept segments that cover a byte, one begins first. *)
LEMMA FirstCovers ==
  ASSUME IInv, NEW H, \A q \in H : Kept(q), NEW x, \E q \in H : Covers(q, x)
  PROVE  \E q \in H : Covers(q, x) /\ \A r \in H : Covers(r, x) => q.start <= r.start
<1> DEFINE T == {q.start + BufMax : q \in {r \in H : Covers(r, x)}}
<1>1. \A q \in H : q.start \in Int /\ q.start + BufMax \in Nat
  BY KeptNumbers
<1>2. T \in SUBSET Nat /\ T # {}
  BY <1>1
<1>3. PICK t \in T : \A y \in T : t <= y
  <2> HIDE DEF T
  <2> QED BY <1>2, Least
<1>4. PICK q \in H : Covers(q, x) /\ t = q.start + BufMax
  OBVIOUS
<1>5. ASSUME NEW r \in H, Covers(r, x) PROVE q.start <= r.start
  <2>1. r.start + BufMax \in T
    BY <1>5
  <2>2. q.start + BufMax <= r.start + BufMax
    <3> HIDE DEF T
    <3> QED BY <2>1, <1>3, <1>4
  <2>3. BufMax \in Nat
    BY ConstAssumption
  <2> QED BY <2>2, <2>3, <1>1
<1> QED BY <1>4, <1>5

(* The segments that reach from here cover everything up to the end of one. *)
LEMMA ReachEnds ==
  ASSUME IInv, NEW R, \A q \in R : Kept(q), NEW e \in Nat, e <= Total, \E q \in R : Covers(q, e)
  PROVE  \E y \in {q.start + q.len : q \in R} :
           (\A x \in e..y - 1 : \E q \in R : Covers(q, x)) /\ ~ \E q \in R : Covers(q, y)
<1> DEFINE U == {x \in Nat : x >= e /\ ~ \E q \in R : Covers(q, x)}
<1>1. \A q \in R : /\ q.start \in Int /\ q.len \in Nat /\ q.start + q.len \in Nat /\ q.start + q.len <= q.end
                   /\ q.end \in Nat /\ q.end <= Total
  BY KeptNumbers
<1>2. Total \in Nat
  BY OffsetFacts DEF IInv, DataOK
<1>3. Total \in U
  BY <1>1, <1>2 DEF Covers
<1>4. U \in SUBSET Nat /\ U # {}
  BY <1>3
<1>5. PICK y \in U : \A x \in U : y <= x
  <2> HIDE DEF U
  <2> QED BY <1>4, Least
<1>6. y \in Nat /\ y >= e /\ (~ \E q \in R : Covers(q, y))
  OBVIOUS
<1>7. y # e
  BY <1>6
<1>8. y - 1 \in Nat /\ y - 1 >= e
  BY <1>6, <1>7
<1>9. y - 1 \notin U
  <2> HIDE DEF U
  <2> QED BY <1>5, <1>6, <1>8
<1>10. PICK q \in R : Covers(q, y - 1)
  BY <1>8, <1>9
<1>11. y = q.start + q.len
  <2>1. ~ Covers(q, y)
    BY <1>6
  <2> QED BY <2>1, <1>1, <1>6, <1>10 DEF Covers
<1>12. ASSUME NEW x \in e..y - 1 PROVE \E p \in R : Covers(p, x)
  <2>1. x \in Nat /\ x >= e /\ x < y
    BY <1>6
  <2>2. x \notin U
    <3> HIDE DEF U
    <3> QED BY <2>1, <1>5, <1>6
  <2> QED BY <2>1, <2>2
<1> QED BY <1>6, <1>11, <1>12

(* What the server reads once the segment it waits for came: the client's     *)
(* bytes, up to the end of a piece.                                           *)
LEMMA ExtendedReads ==
  ASSUME IInv, FakesIgnored, NEW p, Kept(p), Covers(p, Expected)
  PROVE  \/ Extended(p) = stream
         \/ \E s \in Left : /\ s.packet # 0 /\ s.to \in 0..Total
                            /\ Extended(p) = [k \in 1..s.to |-> k - 1]
<1> DEFINE E == Expected
           reach == {p} \cup held
           Ok(e) == /\ \A x \in Expected..e - 1 : \E q \in reach : Covers(q, x)
                    /\ ~ \E q \in reach : Covers(q, e)
           set == {q.start + q.len : q \in reach}
           end == CHOOSE e \in set : Ok(e)
           first(x) == CHOOSE q \in held : Covers(q, x) /\ \A r \in held : Covers(r, x) => q.start <= r.start
           source(x) == IF Covers(p, x) THEN p ELSE first(x)
           tail == [k \in 1..end - Expected |-> ByteAt(source(Expected + k - 1), Expected + k - 1)]
<1>1. Extended(p) = stream \o tail
  BY Zenon DEF Extended
<1>2. /\ E \in Nat /\ E <= Total /\ stream = [k \in 1..E |-> k - 1] /\ E = Len(stream)
      /\ \A q \in held : Kept(q)
      /\ E = 0 \/ \E s \in Left : s.packet # 0 /\ E = s.to
  BY DEF IInv, ServerOK, Expected, Kept
<1>2a. E \in Nat /\ E = Expected
  BY <1>2
<1>2b. E = 0 \/ \E s \in Left : s.packet # 0 /\ E = s.to
  BY <1>2
<1>2c. stream = [k \in 1..E |-> k - 1]
  BY <1>2
<1>3. \A q \in reach : Kept(q)
  BY <1>2
<1>4. \E y \in set : Ok(y)
  <2>1. \E q \in reach : Covers(q, E)
    OBVIOUS
  <2> HIDE DEF reach
  <2>2. \E y \in {q.start + q.len : q \in reach} :
           (\A x \in E..y - 1 : \E q \in reach : Covers(q, x)) /\ ~ \E q \in reach : Covers(q, y)
    <3> HIDE DEF E
    <3> QED BY <2>1, <1>2, <1>3, ReachEnds
  <2> QED BY <2>2
<1>5. end \in set /\ Ok(end)
  <2> HIDE DEF set, Ok
  <2> QED BY <1>4, Zenon
<1>6. \A q \in reach : /\ q.start \in Int /\ q.len \in Nat /\ q.ovl \in Nat /\ q.from \in Nat
                       /\ q.start + q.len \in Nat /\ q.start + q.len <= Total
                       /\ \E s \in Left : s.packet # 0 /\ q.start + q.len = s.to
  <2> SUFFICES ASSUME NEW q \in reach
               PROVE  /\ q.start \in Int /\ q.len \in Nat /\ q.ovl \in Nat /\ q.from \in Nat
                      /\ q.start + q.len \in Nat /\ q.start + q.len <= Total
                      /\ \E s \in Left : s.packet # 0 /\ q.start + q.len = s.to
    OBVIOUS
  <2>1. Kept(q)
    BY <1>3
  <2>2. /\ q.start \in Int /\ q.len \in Nat /\ q.ovl \in Nat /\ q.from \in Nat /\ q.end \in Nat
        /\ q.start + q.len \in Nat /\ q.start + q.len <= q.end /\ q.end <= Total
        /\ \E s \in Left : s.packet # 0 /\ q.start + q.len = s.to
    BY <2>1, KeptNumbers
  <2>3. Total \in Nat
    BY OffsetFacts DEF IInv, DataOK
  <2> QED BY <2>2, <2>3
<1>7. \A q \in reach : \A e \in Int : (e = 0 \/ \E s \in Left : s.packet # 0 /\ e = s.to)
        => ~ (q.start <= e /\ e < q.from)
  BY <1>3, JunkFree
<1>8. /\ end \in Nat /\ end <= Total
      /\ \E s \in Left : s.packet # 0 /\ end = s.to
  <2> HIDE DEF end, reach, Ok
  <2> QED BY <1>5, <1>6
<1>9. \A x \in E..end - 1 : \E q \in reach : Covers(q, x)
  <2> HIDE DEF end, reach
  <2> QED BY <1>5
<1> HIDE DEF E, end, set, Ok
<1>10. ASSUME NEW x \in E..end - 1 PROVE ByteAt(source(x), x) = x
  <2> DEFINE q == source(x)
  <2>1. x \in Int /\ E <= x /\ x < end
    BY <1>2a, <1>8
  <2>2. /\ q \in reach /\ Covers(q, x)
        /\ ~ Covers(p, x) => \A r \in held : Covers(r, x) => q.start <= r.start
    <3>1. CASE Covers(p, x)
      BY <3>1
    <3>2. CASE ~ Covers(p, x)
      <4>1. PICK r \in reach : Covers(r, x)
        <5> HIDE DEF reach
        <5> QED BY <1>9
      <4>2. r \in held
        BY <4>1, <3>2
      <4>3. \E t \in held : Covers(t, x) /\ \A u \in held : Covers(u, x) => t.start <= u.start
        BY <4>1, <4>2, <1>2, FirstCovers
      <4>4. first(x) \in held /\ Covers(first(x), x) /\ \A u \in held : Covers(u, x) => first(x).start <= u.start
        BY <4>3, Zenon
      <4>5. q = first(x)
        BY <3>2
      <4> HIDE DEF q
      <4> QED BY <4>4, <4>5, <3>2
    <3> QED BY <3>1, <3>2
  <2> HIDE DEF q
  <2>3. Kept(q)
    BY <2>2, <1>3
  <2>4. q.from <= x
    <3> SUFFICES ASSUME x < q.from PROVE FALSE
      BY <2>1, <2>2, <1>6
    <3>1. q.start \in Int /\ q.from \in Nat /\ q.start <= x
      BY <2>2, <1>6 DEF Covers
    <3>2. CASE q.start <= E
      <4>1. E < q.from
        BY <3>1, <3>2, <2>1, <1>2a
      <4> QED BY <4>1, <3>2, <2>2, <1>7, <1>2a, <1>2b
    <3>3. CASE q.start > E
      <4>1. q.start - 1 \in E..end - 1
        BY <3>1, <3>3, <2>1, <1>2a, <1>8
      <4>2. PICK r \in reach : Covers(r, q.start - 1)
        <5> HIDE DEF reach
        <5> QED BY <4>1, <1>9
      <4> DEFINE y == r.start + r.len
      <4>3. /\ r.start \in Int /\ r.len \in Nat /\ y \in Nat
            /\ \E s \in Left : s.packet # 0 /\ y = s.to
        BY <1>6
      <4>4. r.start < q.start /\ q.start <= y
        BY <4>2, <4>3, <3>1 DEF Covers
      <4>5. ~ Covers(r, x)
        <5> SUFFICES ASSUME Covers(r, x) PROVE FALSE
          OBVIOUS
        <5>1. CASE Covers(p, x)
          <6>1. q = p
            BY <5>1 DEF q
          <6>2. p.start <= E /\ p.start \in Int
            BY <1>6, <1>2a DEF Covers
          <6> QED BY <6>1, <6>2, <3>3, <1>2a
        <5>2. CASE ~ Covers(p, x)
          <6>1. r \in held
            BY <5>2
          <6>2. q.start <= r.start
            BY <6>1, <5>2, <2>2
          <6> QED BY <6>2, <4>3, <4>4, <3>1
        <5> QED BY <5>1, <5>2
      <4>6. y <= x
        BY <4>3, <4>4, <4>5, <3>1, <2>1 DEF Covers
      <4>7. q.start <= y /\ y < q.from /\ y \in Int
        BY <4>3, <4>4, <4>6, <3>1, <2>1
      <4> HIDE DEF y
      <4> QED BY <4>3, <4>7, <2>2, <1>7
    <3> QED BY <3>1, <3>2, <3>3, <1>2a
  <2>5. ByteAt(q, x) = x
    BY <2>1, <2>2, <2>3, <2>4, ByteRight
  <2> QED BY <2>5 DEF q
<1> DEFINE n == end - E
<1>11. tail = [k \in 1..n |-> ByteAt(source(E + k - 1), E + k - 1)]
  BY DEF E
<1>12. \A k \in 1..n : E + k - 1 \in E..end - 1
  BY <1>8, <1>2a
<1> HIDE DEF source, tail
<1>13. tail = [k \in 1..n |-> E + k - 1]
  <2>1. \A k \in 1..n : ByteAt(source(E + k - 1), E + k - 1) = E + k - 1
    BY <1>10, <1>12
  <2> HIDE DEF n
  <2> QED BY <2>1, <1>11
<1>14. n \in Int /\ E + n = end
  BY <1>8, <1>2a
<1> HIDE DEF n
<1>15. CASE n <= 0
  <2>1. 1..n = {}
    BY <1>14, <1>15
  <2>2. tail = <<>>
    BY <2>1, <1>13
  <2>3. stream \in Seq(Nat)
    BY <1>2a, <1>2c
  <2> QED BY <2>2, <2>3, <1>1
<1>16. CASE n > 0
  <2>1. n \in Nat
    BY <1>14, <1>16
  <2>2. stream \in Seq(Nat) /\ Len(stream) = E
    BY <1>2a, <1>2c
  <2>3. tail \in Seq(Nat) /\ Len(tail) = n
    BY <2>1, <1>13, <1>2a
  <2> DEFINE all == stream \o tail
  <2>4. /\ all \in Seq(Nat) /\ Len(all) = E + n
        /\ \A k \in 1..E + n : all[k] = IF k <= E THEN stream[k] ELSE tail[k - E]
    BY <2>2, <2>3, ConcatProperties
  <2> HIDE DEF all
  <2>5. ASSUME NEW k \in 1..E + n PROVE all[k] = k - 1
    <3>1. CASE k <= E
      <4>1. k \in 1..E
        BY <3>1, <2>1, <1>2a
      <4>2. stream[k] = k - 1
        BY <4>1, <1>2c
      <4> QED BY <4>2, <3>1, <2>4
    <3>2. CASE k > E
      <4>1. k - E \in 1..n
        BY <3>2, <2>1, <1>2a
      <4>2. tail[k - E] = E + (k - E) - 1
        BY <4>1, <1>13
      <4>3. ~(k <= E) /\ E + (k - E) - 1 = k - 1
        BY <3>2, <2>1, <1>2a
      <4> QED BY <4>2, <4>3, <2>4
    <3> QED BY <3>1, <3>2, <2>1, <1>2a
  <2>6. all = [k \in 1..E + n |-> k - 1]
    BY <2>4, <2>5
  <2>7. Extended(p) = [k \in 1..end |-> k - 1]
    BY <2>6, <1>1, <1>14 DEF all
  <2>8. PICK s \in Left : s.packet # 0 /\ end = s.to
    BY <1>8
  <2>9. s.to \in 0..Total /\ Extended(p) = [k \in 1..s.to |-> k - 1]
    <3>1. Total \in Nat
      BY OffsetFacts DEF IInv, DataOK
    <3> QED BY <3>1, <2>7, <2>8, <1>8
  <2> QED BY <2>8, <2>9
<1> QED BY <1>14, <1>15, <1>16

(* Accepting a segment of the client keeps what the server knows true. *)
LEMMA AcceptKeeps ==
  ASSUME IInv, FakesIgnored, NEW k \in DOMAIN wire, wire[k].real, wire[k].packet # 0,
         Accept(wire[k]), dp' = dp, req' = req, wire' = wire
  PROVE  ServerOK'
<1> DEFINE p == Placed(wire[k])
<1>1. Kept(p)
  BY PlacedRight
<1>2. /\ \A q \in held : Kept(q)
      /\ Len(stream) \in 0..Total /\ stream = [j \in 1..Len(stream) |-> j - 1]
      /\ Len(stream) = 0 \/ \E s \in Left : s.packet # 0 /\ Len(stream) = s.to
  BY DEF IInv, ServerOK, Kept
<1>3. \/ /\ Covers(p, Expected) /\ stream' = Extended(p)
         /\ held' = {q \in held : q.start + q.len > Len(stream')}
      \/ /\ stream' = stream
         /\ held' = IF p.start > Expected /\ p.len > 0 THEN held \cup {p} ELSE held
  BY Zenon DEF Accept
<1> HIDE DEF p
<1>4. \A q \in held' : Kept(q)
  <2>1. held' \subseteq held \cup {p}
    BY <1>3
  <2> QED BY <2>1, <1>1, <1>2
<1>5. /\ Len(stream') \in 0..Total /\ stream' = [j \in 1..Len(stream') |-> j - 1]
      /\ Len(stream') = 0 \/ \E s \in Left : s.packet # 0 /\ Len(stream') = s.to
  <2>1. CASE stream' = stream
    BY <2>1, <1>2
  <2>2. CASE stream' # stream
    <3>1. Covers(p, Expected) /\ stream' = Extended(p)
      BY <1>3, <2>2
    <3>2. PICK s \in Left : /\ s.packet # 0 /\ s.to \in 0..Total
                            /\ Extended(p) = [j \in 1..s.to |-> j - 1]
      BY <1>1, <2>2, <3>1, ExtendedReads
    <3>3. s.to \in Nat
      BY PieceNumbers DEF IInv
    <3> DEFINE t == [j \in 1..s.to |-> j - 1]
    <3>4. t \in Seq(Nat) /\ Len(t) = s.to
      BY <3>3
    <3>5. stream' = t
      BY <3>1, <3>2
    <3>6. Len(stream') = s.to
      BY <3>4, <3>5
    <3>7. stream' = [j \in 1..Len(stream') |-> j - 1]
      BY <3>5, <3>6
    <3> QED BY <3>2, <3>6, <3>7
  <2> QED BY <2>1, <2>2
<1>6. FakesIgnored' = FakesIgnored /\ Total' = Total /\ Left' = Left
  BY WireStays DEF FakesIgnored, Total, Offset
<1>7. \A q \in held' : \E j \in DOMAIN wire' : wire'[j].real /\ wire'[j].packet # 0 /\ q = HeldOf(wire'[j])
  BY <1>4 DEF Kept
<1> QED BY <1>5, <1>6, <1>7 DEF ServerOK, HeldOf

(* Whatever is delivered, again or out of order, the server has the client's  *)
(* bytes.                                                                     *)
LEMMA DeliverKeeps ==
  ASSUME IInv, NEW k \in DOMAIN wire, Deliver(k)
  PROVE  IInv'
<1>1. /\ dp' = dp /\ req' = req /\ i' = i /\ ctid' = ctid /\ stage' = stage /\ pos' = pos /\ todo' = todo
      /\ ip_id' = ip_id /\ wire' = wire /\ fails' = fails /\ lost' = lost
  BY Zenon DEF Deliver, engine
<1> DEFINE s == wire[k]
<1>2. DataOK /\ PosOK /\ TodoOK /\ WireOK /\ PiecesOK /\ LeftOK /\ ServerOK
  BY DEF IInv
<1>3. /\ s.syn = (s.packet = 0) /\ (~ s.real => s.frag = 0)
      /\ s.syn \in BOOLEAN /\ s.real \in BOOLEAN /\ s.frag \in 0..2
  <2>1. wire \in Seq(SegmentType) /\ SoundOf(req, s)
    BY <1>2 DEF WireOK
  <2>2. s \in SegmentType
    BY <2>1
  <2> HIDE DEF s
  <2>3. s.syn \in BOOLEAN /\ s.real \in BOOLEAN /\ s.frag \in 0..2
    BY <2>2 DEF SegmentType
  <2> QED BY <2>1, <2>3, Zenon DEF SoundOf
<1> HIDE DEF s
<1>4. \/ open' = (open \/ s.real) /\ held' = held /\ stream' = stream
      \/ open' = open /\ held' = held /\ stream' = stream
      \/ open' = open /\ Accept(s) /\ ~ s.syn /\ (s.real \/ ~ FakesIgnored)
  <2>1. CASE s.syn
    BY <2>1, Zenon DEF Deliver, s
  <2>2. CASE ~ s.syn /\ ~ s.real /\ FakesIgnored
    BY <2>2, <1>3, Zenon DEF Deliver, s, server
  <2>3. CASE ~ s.syn /\ ~ s.real /\ ~ FakesIgnored /\ open
    BY <2>3, <1>3, Zenon DEF Deliver, s, server
  <2>4. CASE ~ s.syn /\ s.real /\ s.frag = 0 /\ open
    BY <2>4, Zenon DEF Deliver, s, server
  <2>5. CASE ~ s.syn /\ s.real /\ s.frag # 0 /\ open
    BY <2>5, Zenon DEF Deliver, s, server
  <2>6. CASE ~ s.syn /\ ~ open /\ ~(~ s.real /\ FakesIgnored)
    BY <2>6, Zenon DEF Deliver, s, server
  <2> QED BY <2>1, <2>2, <2>3, <2>4, <2>5, <2>6, Zenon
<1>5. open' \in BOOLEAN
  <2>1. open \in BOOLEAN
    BY <1>2 DEF DataOK
  <2>2. (open \/ s.real) \in BOOLEAN
    BY Zenon
  <2> QED BY <2>1, <2>2, <1>4
<1>6. ServerOK'
  <2>1. CASE held' = held /\ stream' = stream
    <3>1. Left' = Left
      BY <1>1, WireStays
    <3> QED BY <2>1, <3>1, <1>1, <1>2, ServerStays
  <2>2. CASE Accept(s) /\ ~ s.syn /\ FakesIgnored /\ s.real
    <3>1. s.packet # 0
      BY <2>2, <1>3
    <3> QED BY <2>2, <3>1, <1>1, AcceptKeeps DEF s
  <2>3. CASE ~ FakesIgnored
    <3>1. FakesIgnored' = FakesIgnored
      BY <1>1 DEF FakesIgnored
    <3> QED BY <2>3, <3>1 DEF ServerOK
  <2> QED BY <2>1, <2>2, <2>3, <1>4
<1>7. DataOK'
  BY <1>1, <1>2, <1>5 DEF DataOK
<1>8. Proper' = Proper /\ PLen' = PLen /\ Left' = Left /\ WireOK'
  BY <1>1, <1>2, ProperStays, WireStays DEF PLen
<1>9. PosOK' /\ TodoOK'
  BY <1>1, <1>2, <1>8 DEF PosOK, PosFits, Within, TodoOK
<1>10. Due' = Due /\ Pieces' = Pieces
  <2>1. Due' = Due
    BY <1>1 DEF Due, PieceAt, Base, Offset
  <2> QED BY <2>1, <1>8 DEF Pieces
<1>11. PiecesOK'
  BY <1>1, <1>2, <1>10 DEF PiecesOK, Inside, Harmless
<1>12. LeftOK'
  <2>1. Applies' <=> Applies
    BY <1>1 DEF Applies, FinalHeader, StageMode, ReasmOffset, Replay, Offset
  <2> QED BY <2>1, <1>1, <1>2, <1>8, <1>10 DEF LeftOK, Complete, CompleteIn, Carried
<1> QED BY <1>6, <1>7, <1>8, <1>9, <1>11, <1>12 DEF IInv

(* At the start nothing left and nothing arrived. *)
LEMMA InitKeeps == Init => IInv
<1> SUFFICES ASSUME Init PROVE IInv
  OBVIOUS
<1>1. /\ dp \in Profile /\ req \in Request
      /\ i = 0 /\ ctid = req.ctid /\ stage = "new" /\ pos = NoPos /\ todo = <<>> /\ ip_id = 0
      /\ wire = <<>> /\ fails = 0 /\ lost = {}
      /\ open = FALSE /\ frags = {} /\ held = {} /\ stream = <<>>
  BY DEF Init
<1>2. /\ Len(req.lens) \in Nat /\ req.ctid \in 0..IdMod - 1 /\ 0 \in 0..IdMod - 1 /\ 0 \in 0..MaxFail
      /\ Total \in Nat
  BY <1>1, RequestFacts, OffsetFacts, ConstAssumption
<1>3. DataOK
  <2>1. open \in BOOLEAN
    BY <1>1, Zenon
  <2> QED BY <1>1, <1>2, <2>1 DEF DataOK
<1>4. PosOK /\ TodoOK /\ WireOK
  BY <1>1 DEF PosOK, TodoOK, WireOK
<1>5. Left = {} /\ Due = {}
  BY <1>1, NothingDue DEF Left, LeftOf
<1>6. PiecesOK
  BY <1>5 DEF PiecesOK, Pieces, Inside, Harmless
<1>7. LeftOK
  BY <1>1 DEF LeftOK
<1>8. ServerOK
  BY <1>1, <1>2 DEF ServerOK
<1> QED BY <1>3, <1>4, <1>6, <1>7, <1>8 DEF IInv

(* Nothing happens. *)
LEMMA StutterKeeps ==
  ASSUME IInv, UNCHANGED vars
  PROVE  IInv'
<1>1. /\ dp' = dp /\ req' = req /\ i' = i /\ ctid' = ctid /\ stage' = stage /\ pos' = pos /\ todo' = todo
      /\ ip_id' = ip_id /\ wire' = wire /\ fails' = fails /\ lost' = lost
      /\ open' = open /\ held' = held /\ stream' = stream
  BY DEF vars, engine, server
<1>2. DataOK /\ PosOK /\ TodoOK /\ WireOK /\ PiecesOK /\ LeftOK /\ ServerOK
  BY DEF IInv
<1>3. DataOK'
  BY <1>1, <1>2 DEF DataOK
<1>4. Proper' = Proper /\ PLen' = PLen /\ Left' = Left /\ WireOK'
  BY <1>1, <1>2, ProperStays, WireStays DEF PLen
<1>5. PosOK' /\ TodoOK'
  BY <1>1, <1>2, <1>4 DEF PosOK, PosFits, Within, TodoOK
<1>6. Pieces' = Pieces
  <2>1. Due' = Due
    BY <1>1 DEF Due, PieceAt, Base, Offset
  <2> QED BY <2>1, <1>4 DEF Pieces
<1>7. PiecesOK'
  BY <1>1, <1>2, <1>6 DEF PiecesOK, Inside, Harmless
<1>8. LeftOK'
  <2>1. Applies' <=> Applies
    BY <1>1 DEF Applies, FinalHeader, StageMode, ReasmOffset, Replay, Offset
  <2> QED BY <2>1, <1>1, <1>2, <1>4, <1>6 DEF LeftOK, Complete, CompleteIn, Carried
<1>9. ServerOK'
  BY <1>1, <1>2, <1>4, ServerStays
<1> QED BY <1>3, <1>4, <1>5, <1>7, <1>8, <1>9 DEF IInv

(* Every step keeps the invariant. *)
LEMMA NextKeeps ==
  ASSUME IInv, [Next]_vars
  PROVE  IInv'
<1>1. CASE Resolve
  BY <1>1, ResolveSynKeeps, ResolvePacketKeeps
<1>2. CASE FakesWritten
  BY <1>2, FakesWrittenKeeps
<1>3. CASE Write
  BY <1>3, WriteKeeps
<1>4. CASE PartsWritten
  BY <1>4, PartsWrittenKind, StageEndKeeps
<1>5. CASE OriginalWritten
  BY <1>5, OriginalWrittenKind, StageEndKeeps
<1>6. CASE WriteFails
  BY <1>6, WriteFailsKind, StageEndKeeps
<1>7. CASE \E k \in DOMAIN wire : Deliver(k)
  BY <1>7, DeliverKeeps
<1>8. CASE UNCHANGED vars
  BY <1>8, StutterKeeps
<1> QED BY <1>1, <1>2, <1>3, <1>4, <1>5, <1>6, <1>7, <1>8 DEF Next, Engine

(* The invariant holds whatever is written, lost or delivered. *)
THEOREM Invariance == Spec => []IInv
<1>1. IInv /\ [Next]_vars => IInv'
  BY NextKeeps
<1> QED BY InitKeeps, <1>1, PTL DEF Spec

------------------------------------------------------------------------------
(* What the invariant says of the fields, the server and the packets. *)

(* The fields are in range; *)
LEMMA TypeFollows == IInv => TypeOK
<1> SUFFICES ASSUME IInv PROVE TypeOK
  OBVIOUS
<1>1. DataOK /\ PosOK /\ TodoOK /\ WireOK /\ ServerOK
  BY DEF IInv
<1>2. stage \in {"fakes", "desync"} => \A k \in DOMAIN pos.cuts : pos.cuts[k] \in 1..PLen - 1
  <2> SUFFICES ASSUME stage \in {"fakes", "desync"}
               PROVE  \A k \in DOMAIN pos.cuts : pos.cuts[k] \in 1..PLen - 1
    OBVIOUS
  <2>1. CASE i = 0
    <3>1. pos.cuts = <<>>
      BY <2>1, <1>1 DEF PosOK, NoPos
    <3> QED BY <3>1
  <2>2. CASE i # 0
    <3> DEFINE cuts == pos.cuts
               C == 1..PLen - 1
    <3>1. cuts \in Seq(C)
      BY <2>2, <1>1 DEF PosOK, PosFits
    <3> HIDE DEF cuts, C
    <3>2. \A k \in DOMAIN cuts : cuts[k] \in C
      BY <3>1
    <3> QED BY <3>2 DEF cuts, C
  <2> QED BY <2>1, <2>2
<1>3. \A k \in DOMAIN todo : todo[k].from <= todo[k].to /\ todo[k].id \in 0..IdMod - 1
  <2> SUFFICES ASSUME NEW k \in DOMAIN todo
               PROVE  todo[k].from <= todo[k].to /\ todo[k].id \in 0..IdMod - 1
    OBVIOUS
  <2>1. todo[k] \in Proper
    BY <1>1 DEF TodoOK
  <2> QED BY <2>1, ProperFields
<1>4. \A k \in DOMAIN wire : wire[k].seq \in 0..W - 1 /\ wire[k].len \in Nat
  <2> SUFFICES ASSUME NEW k \in DOMAIN wire PROVE wire[k].seq \in 0..W - 1 /\ wire[k].len \in Nat
    OBVIOUS
  <2>1. wire[k] \in SegmentType
    BY <1>1 DEF WireOK
  <2> QED BY <2>1 DEF SegmentType
<1>5. FakesIgnored => Len(stream) \in 0..Total
  BY <1>1 DEF ServerOK
<1> QED BY <1>1, <1>2, <1>3, <1>4, <1>5 DEF TypeOK, DataOK

(* ... the server has the bytes of the client; *)
LEMMA StreamFollows == IInv => StreamIsClients
<1> SUFFICES ASSUME IInv, FakesIgnored PROVE stream = [k \in DOMAIN stream |-> k - 1]
  BY DEF StreamIsClients
<1>1. stream = [k \in 1..Len(stream) |-> k - 1]
  BY DEF IInv, ServerOK
<1> DEFINE n == Len(stream)
<1> HIDE DEF n
<1>2. stream = [k \in 1..n |-> k - 1]
  BY <1>1 DEF n
<1>3. DOMAIN stream = 1..n
  BY <1>2
<1> QED BY <1>2, <1>3

(* ... and what is done with left in full or is lost. *)
LEMMA LostFollows == IInv => NothingLost
<1> SUFFICES ASSUME IInv, NEW p \in 0..i - 1, p \notin lost
             PROVE  IF p = 0 THEN \E k \in DOMAIN wire : wire[k].syn /\ wire[k].real
                    ELSE \A x \in Offset(p)..Offset(p + 1) - 1 : \E k \in DOMAIN wire : x \in Sent(k)
  BY DEF NothingLost
<1>1. CompleteIn(Offsets(req.lens), Left, p)
  BY DEF IInv, LeftOK, Complete
<1>2. WireOK
  BY DEF IInv
<1>3. \A k \in DOMAIN wire : wire[k].syn = (wire[k].packet = 0)
  BY <1>2 DEF WireOK, SoundOf
<1>4. CASE p = 0
  <2>1. PICK s \in Left : s.packet = 0
    BY <1>1, <1>4 DEF CompleteIn
  <2>2. PICK k \in DOMAIN wire : wire[k].real /\ s = Piece(wire[k])
    BY DEF Left, LeftOf
  <2>3. wire[k].packet = 0
    BY <2>1, <2>2 DEF Piece
  <2>4. wire[k].syn
    BY <2>3, <1>3
  <2> QED BY <1>4, <2>2, <2>4
<1>5. CASE p # 0
  <2> SUFFICES ASSUME NEW x \in Offset(p)..Offset(p + 1) - 1 PROVE \E k \in DOMAIN wire : x \in Sent(k)
    BY <1>5
  <2>1. Carried(Left, p, x)
    BY <1>1, <1>5 DEF CompleteIn, Offset
  <2>2. PICK s \in Left :
          /\ s.packet = p /\ s.from <= x /\ x < s.to
          /\ s.frag = 0 \/ \E t \in Left : t.packet = p /\ t.frag = 3 - s.frag
    BY <2>1 DEF Carried
  <2>3. PICK k \in DOMAIN wire : wire[k].real /\ s = Piece(wire[k])
    BY DEF Left, LeftOf
  <2> DEFINE g == wire[k]
  <2>4. g.packet = p /\ s.from = g.from /\ s.to = g.from + (g.len - g.ovl) /\ s.frag = g.frag
    BY <2>2, <2>3 DEF Piece
  <2>5. ~ g.syn
    BY <2>4, <1>3, <1>5
  <2>6. g.frag = 0 \/ \E j \in DOMAIN wire : wire[j].packet = g.packet /\ wire[j].frag = 3 - g.frag
    <3> SUFFICES ASSUME g.frag # 0
                 PROVE  \E j \in DOMAIN wire : wire[j].packet = g.packet /\ wire[j].frag = 3 - g.frag
      OBVIOUS
    <3>1. PICK t \in Left : t.packet = p /\ t.frag = 3 - s.frag
      BY <2>2, <2>4
    <3>2. PICK j \in DOMAIN wire : t = Piece(wire[j])
      BY DEF Left, LeftOf
    <3>3. wire[j].packet = t.packet /\ wire[j].frag = t.frag
      BY <3>2 DEF Piece
    <3> QED BY <3>1, <3>3, <2>4
  <2>7. Sent(k) = g.from..g.from + g.len - g.ovl - 1
    BY <2>3, <2>5, <2>6 DEF Sent
  <2>8. g \in SegmentType
    BY <1>2 DEF WireOK
  <2>9. x \in Int
    <3>1. p \in 1..Len(req.lens) /\ p + 1 \in 1..Len(req.lens) + 1 /\ p \in 1..Len(req.lens) + 1
      <4> DEFINE n == Len(req.lens)
      <4>1. n \in Nat /\ i \in 0..n + 1 /\ p \in 0..i - 1
        BY RequestFacts DEF IInv, DataOK
      <4> HIDE DEF n
      <4>2. p \in 1..n /\ p + 1 \in 1..n + 1 /\ p \in 1..n + 1
        BY ONLY <4>1, <1>5
      <4> QED BY <4>2 DEF n
    <3>2. Offset(p) \in Nat /\ Offset(p + 1) \in Nat
      BY <3>1, OffsetFacts DEF IInv, DataOK
    <3> QED BY <3>2
  <2>10. g.from \in Nat /\ g.len \in Nat /\ g.ovl \in Nat
    BY <2>8 DEF SegmentType
  <2> HIDE DEF g
  <2>11. x \in g.from..g.from + g.len - g.ovl - 1
    BY <2>2, <2>4, <2>9, <2>10
  <2> QED BY <2>7, <2>11
<1> QED BY <1>4, <1>5

(* The cuts lie inside the packet, parts and segments have a length and ids   *)
(* and sequence numbers are in range, for every profile and request:          *)
(* pos_normalize, IP4_IP_ID_ADD and prepare_tcp_segment. *)
THEOREM Typing == Spec => []TypeOK
BY Invariance, TypeFollows, PTL

(* The server reads what the client wrote, in every mode, at every cut and     *)
(* overlap, across the wrap of the sequence number, whatever the network does: *)
(* this is why desync.c confines seqovl. *)
THEOREM ReadsWhatWasWritten == Spec => []StreamIsClients
BY Invariance, StreamFollows, PTL

(* A packet the engine is done with left in full unless its last write failed: *)
(* a cut leaves no gap, and the fallback of dpi_desync_tcp_packet_play and     *)
(* tcp_orig_send covers every failure before. *)
THEOREM NoPacketIsLost == Spec => []NothingLost
BY Invariance, LostFollows, PTL

------------------------------------------------------------------------------
(* Ids in their circle: zero is left out. *)

Ids == 1..IdMod - 1
(* The id n steps behind id, and how many steps it is from a to b. *)
After(id, n) == IF id + n < IdMod THEN id + n ELSE id + n - (IdMod - 1)
Dist(a, b) == IF a <= b THEN b - a ELSE b - a + (IdMod - 1)
CountsIds == dp.ipid \in {"seq", "seqgroup"}

(* There are ids. *)
LEMMA IdModFacts == IdMod \in Nat /\ IdMod > 1
BY ConstAssumption

(* Where the steps lead, and how far they are. *)
LEMMA AfterFacts ==
  ASSUME NEW id \in Ids, NEW n \in 0..IdMod - 1
  PROVE  /\ After(id, n) \in Ids /\ After(id, 0) = id
         /\ n < IdMod - 1 => Dist(id, After(id, n)) = n
BY IdModFacts DEF Ids, After, Dist

(* The distances of a step add up while they do not go around. *)
LEMMA DistAfter ==
  ASSUME NEW a \in Ids, NEW id \in Ids, NEW n \in Nat, Dist(a, id) + n < IdMod - 1
  PROVE  Dist(a, After(id, n)) = Dist(a, id) + n
BY IdModFacts DEF Ids, After, Dist

(* ... of two ids behind the same one, too. *)
LEMMA DistBetween ==
  ASSUME NEW id \in Ids, NEW n \in Nat, NEW m \in Nat, n < m, m < IdMod - 1
  PROVE  Dist(After(id, n), After(id, m)) = m - n
BY IdModFacts DEF Ids, After, Dist

(* A distance is a number of steps. *)
LEMMA DistType ==
  ASSUME NEW a \in Ids, NEW b \in Ids
  PROVE  Dist(a, b) \in Nat
BY IdModFacts DEF Ids, Dist

(* IP4_IP_ID_ADD goes one step. *)
LEMMA OneStep ==
  ASSUME CountsIds, NEW id \in Ids
  PROVE  IP4_IP_ID_ADD(id, 1) = After(id, 1)
<1>1. IdMod \in Nat /\ IdMod > 1 /\ id \in Int /\ id # 0 /\ id < IdMod /\ id > 0
  BY IdModFacts DEF Ids
<1> DEFINE sum == (id + 1) % IdMod
<1>2. id + 1 < IdMod => sum = id + 1
  BY <1>1
<1>3. id + 1 = IdMod => sum = 0
  BY <1>1
<1>4. IP4_IP_ID_ADD(id, 1) = IF sum # 0 THEN sum ELSE 1
  BY <1>1 DEF IP4_IP_ID_ADD, CountsIds
<1> HIDE DEF sum
<1> QED BY <1>1, <1>2, <1>3, <1>4 DEF After

(* ... and without a wrap it adds, and takes away. *)
LEMMA NoWrap ==
  ASSUME CountsIds, NEW id \in Ids, NEW inc \in Int, id + inc \in Ids
  PROVE  IP4_IP_ID_ADD(id, inc) = id + inc
<1>1. IdMod \in Nat /\ IdMod > 1 /\ id \in Int /\ id # 0
  BY IdModFacts DEF Ids
<1> DEFINE to == id + inc
<1>2. to \in Int /\ to > 0 /\ to < IdMod
  BY <1>1 DEF Ids
<1>3. IP4_IP_ID_ADD(id, inc) = IF to % IdMod # 0 THEN to % IdMod ELSE IF inc < 0 THEN IdMod - 1 ELSE 1
  BY <1>1 DEF IP4_IP_ID_ADD, CountsIds
<1> HIDE DEF to
<1>4. to % IdMod = to
  BY <1>1, <1>2
<1> QED BY <1>2, <1>3, <1>4 DEF to

(* IdSteps is what applies a step that many times. *)
LEMMA StepsAre ==
  ASSUME NEW id \in 0..IdMod - 1, NEW inc \in Int, NEW n \in Nat,
         NEW f, f \in [0..n -> 0..IdMod - 1], f[0] = id,
         \A k \in 1..n : f[k] = IP4_IP_ID_ADD(f[k - 1], inc)
  PROVE  IdSteps(id, inc, n) = f[n]
<1> DEFINE step == CHOOSE st : st = [k \in 0..n |-> IF k = 0 THEN id ELSE IP4_IP_ID_ADD(st[k - 1], inc)]
<1>1. f = [k \in 0..n |-> IF k = 0 THEN id ELSE IP4_IP_ID_ADD(f[k - 1], inc)]
  <2>1. \A k \in 0..n : k # 0 => k \in 1..n
    OBVIOUS
  <2> QED BY <2>1
<1>2. step = [k \in 0..n |-> IF k = 0 THEN id ELSE IP4_IP_ID_ADD(step[k - 1], inc)]
  BY <1>1, Zenon
<1>3. IdSteps(id, inc, n) = step[n]
  BY DEF IdSteps
<1> HIDE DEF step
<1> DEFINE N == {m \in Nat : m <= n => step[m] = f[m]}
<1>4. 0 \in N
  <2>1. 0 \in 0..n
    OBVIOUS
  <2>2. step[0] = id
    BY <1>2, <2>1
  <2> QED BY <2>2
<1>5. ASSUME NEW m \in N PROVE m + 1 \in N
  <2> SUFFICES ASSUME m + 1 <= n PROVE step[m + 1] = f[m + 1]
    OBVIOUS
  <2>1. m \in Nat /\ m + 1 \in 0..n /\ m + 1 # 0 /\ (m + 1) - 1 = m /\ m + 1 \in 1..n
    OBVIOUS
  <2>2. step[m + 1] = IP4_IP_ID_ADD(step[m], inc)
    BY <1>2, <2>1
  <2>3. step[m] = f[m]
    BY <2>1
  <2>4. f[m + 1] = IP4_IP_ID_ADD(f[m], inc)
    BY <2>1
  <2> QED BY <2>2, <2>3, <2>4
<1>6. N = Nat
  <2> HIDE DEF N
  <2>1. N \in SUBSET Nat
    BY DEF N
  <2> QED BY <1>4, <1>5, <2>1, Induction
<1> QED BY <1>3, <1>6

(* Up, they lead around the circle; *)
LEMMA StepsUp ==
  ASSUME CountsIds, NEW id \in Ids, NEW n \in Nat, n < IdMod
  PROVE  IdSteps(id, 1, n) = After(id, n)
<1> DEFINE f == [k \in 0..n |-> After(id, k)]
<1>1. n \in Nat /\ 1 \in Int /\ id \in 0..IdMod - 1 /\ Ids \subseteq 0..IdMod - 1
  BY IdModFacts DEF Ids
<1>2. \A k \in 0..n : After(id, k) \in Ids
  <2>1. \A k \in 0..n : k \in 0..IdMod - 1
    BY IdModFacts
  <2> QED BY <2>1, AfterFacts
<1>3. f \in [0..n -> 0..IdMod - 1] /\ f[0] = id
  <2>1. 0 \in 0..n /\ After(id, 0) = id
    BY IdModFacts DEF After, Ids
  <2> QED BY <1>1, <1>2, <2>1
<1>4. ASSUME NEW k \in 1..n PROVE f[k] = IP4_IP_ID_ADD(f[k - 1], 1)
  <2>1. k \in 0..n /\ k - 1 \in 0..n /\ k - 1 \in Nat /\ k <= IdMod - 1
    BY IdModFacts
  <2>2. IP4_IP_ID_ADD(After(id, k - 1), 1) = After(After(id, k - 1), 1)
    BY <2>1, <1>2, OneStep
  <2>3. After(After(id, k - 1), 1) = After(id, k)
    BY <2>1, IdModFacts DEF After, Ids
  <2> QED BY <2>1, <2>2, <2>3
<1>5. f[n] = After(id, n)
  OBVIOUS
<1> HIDE DEF f
<1>6. ASSUME NEW inc \in Int, inc = 1 PROVE IdSteps(id, inc, n) = f[n]
  <2>1. \A k \in 1..n : f[k] = IP4_IP_ID_ADD(f[k - 1], inc)
    BY <1>4, <1>6
  <2> QED BY <1>1, <1>3, <2>1, StepsAre
<1> QED BY <1>1, <1>5, <1>6

(* ... down, they take away. *)
LEMMA StepsDown ==
  ASSUME CountsIds, NEW id \in Ids, NEW n \in Nat, n < id
  PROVE  IdSteps(id, -1, n) = id - n
<1> DEFINE f == [k \in 0..n |-> id - k]
<1>1. n \in Nat /\ -1 \in Int /\ id \in 0..IdMod - 1 /\ Ids \subseteq 0..IdMod - 1
  BY IdModFacts DEF Ids
<1>2. \A k \in 0..n : id - k \in Ids
  BY IdModFacts DEF Ids
<1>3. f \in [0..n -> 0..IdMod - 1] /\ f[0] = id
  <2>1. 0 \in 0..n /\ id - 0 = id
    BY IdModFacts DEF Ids
  <2> QED BY <1>1, <1>2, <2>1
<1>4. ASSUME NEW k \in 1..n PROVE f[k] = IP4_IP_ID_ADD(f[k - 1], -1)
  <2>1. k \in 0..n /\ k - 1 \in 0..n
    OBVIOUS
  <2> DEFINE a == id - (k - 1)
  <2>2. a \in Ids /\ a + -1 = id - k /\ a + -1 \in Ids
    <3>1. id - k \in Ids
      BY <2>1, <1>2
    <3>2. a + -1 = id - k
      BY IdModFacts DEF Ids
    <3> QED BY <2>1, <1>2, <3>1, <3>2
  <2>3. f[k - 1] = a /\ f[k] = id - k
    BY <2>1
  <2> HIDE DEF a, f
  <2>4. IP4_IP_ID_ADD(a, -1) = a + -1
    BY <2>2, <1>1, NoWrap
  <2> QED BY <2>2, <2>3, <2>4
<1>5. f[n] = id - n
  OBVIOUS
<1> HIDE DEF f
<1>6. ASSUME NEW inc \in Int, inc = -1 PROVE IdSteps(id, inc, n) = f[n]
  <2>1. \A k \in 1..n : f[k] = IP4_IP_ID_ADD(f[k - 1], inc)
    BY <1>4, <1>6
  <2> QED BY <1>1, <1>3, <2>1, StepsAre
<1> QED BY <1>1, <1>5, <1>6

------------------------------------------------------------------------------
(* How the parts of a mode are numbered. *)

(* Numbers stay below b, genuine parts at different places have different ones, *)
(* and no genuine part leaves before the one that has an overlap.               *)
NumbersBelow(S, b) == \A k \in DOMAIN S : Number(S[k]) \in 0..b - 1 /\ S[k].frag = 0
NumbersDiffer(S) ==
  \A j, k \in DOMAIN S : S[j].real /\ S[k].real /\ Number(S[j]) = Number(S[k]) => S[j].from = S[k].from
OverlapFirst(S) == \A j, k \in DOMAIN S : j < k /\ S[k].ovl # 0 => ~ S[j].real
Counted(S, b) == NumbersBelow(S, b) /\ NumbersDiffer(S) /\ OverlapFirst(S)

(* One more cut, one more part. *)
LEMMA CutCount ==
  ASSUME PosFits
  PROVE  Len(<<0>> \o pos.cuts \o <<PLen>>) - 1 = Len(pos.cuts) + 1 /\ Len(pos.cuts) \in Nat
<1> DEFINE c == pos.cuts
           B == 1..PLen - 1
<1>1. c \in Seq(B)
  BY DEF PosFits
<1> HIDE DEF c, B
<1>2. Len(c) \in Nat /\ Len(<<0>> \o c \o <<PLen>>) = Len(c) + 2
  BY <1>1
<1> QED BY <1>2 DEF c

(* Multisplit numbers its parts in the order they leave. *)
LEMMA MultisplitCounted ==
  ASSUME req \in Request, i \in Packets, PosFits
  PROVE  Counted(Multisplit, Len(pos.cuts) + 1)
<1> DEFINE cut == <<0>> \o pos.cuts \o <<PLen>>
           m == Len(cut) - 1
           o(k) == IF k = 1 /\ ReasmOffset = 0 THEN pos.ovl ELSE 0
           S == Multisplit
<1>1. S = [k \in 1..m |-> Part(TRUE, cut[k], cut[k + 1], o(k), k - 1, k - 1)]
  BY Zenon DEF Multisplit
<1>2. m = Len(pos.cuts) + 1 /\ m \in Nat
  BY CutCount
<1> HIDE DEF cut, m, o, S
<1>3. DOMAIN S = 1..m
  BY <1>1
<1>4. ASSUME NEW k \in 1..m
      PROVE  S[k].ovl = o(k) /\ S[k].n = k - 1 /\ S[k].g = k - 1 /\ S[k].frag = 0
  <2> DEFINE a == cut[k]
             b == cut[k + 1]
             v == o(k)
             x == k - 1
             p == S[k]
  <2>1. p = Part(TRUE, a, b, v, x, x)
    BY <1>1
  <2> HIDE DEF a, b, v, x, p
  <2>2. p.ovl = v /\ p.n = x /\ p.g = x /\ p.frag = 0
    BY <2>1 DEF Part
  <2> QED BY <2>2 DEF v, x, p
<1>5. \A k \in 1..m : Number(S[k]) = k - 1
  BY <1>4 DEF Number
<1>6. NumbersBelow(S, m)
  BY <1>2, <1>3, <1>4, <1>5 DEF NumbersBelow
<1>7. NumbersDiffer(S)
  BY <1>2, <1>3, <1>5 DEF NumbersDiffer
<1>8. OverlapFirst(S)
  BY <1>2, <1>3, <1>4 DEF OverlapFirst, o
<1> QED BY <1>2, <1>6, <1>7, <1>8 DEF Counted, S

(* The parts of a faked split, one by one. *)
FakedPart(p, from, ovl, g) ==
  p \in Proper /\ p.g = g /\ p.frag = 0 /\ (p.real => p.from = from /\ p.ovl = ovl)
OneGenuine(S, from, ovl, g) ==
  /\ S \in Seq(Proper) /\ Len(S) \in 1..3
  /\ \A k \in 1..Len(S) : FakedPart(S[k], from, ovl, g)
  /\ \A j, k \in 1..Len(S) : j < k /\ S[k].real => ~ S[j].real

(* Two pieces in a row, *)
LEMMA TwoJoined ==
  ASSUME NEW a, NEW b
  PROVE  <<a>> \o <<b>> = <<a, b>>
<1> DEFINE S == {a, b}
           s == <<a>>
           t == <<b>>
<1>1. s \in Seq(S) /\ t \in Seq(S) /\ Len(s) = 1 /\ Len(t) = 1 /\ s[1] = a /\ t[1] = b
  OBVIOUS
<1> HIDE DEF s, t, S
<1>2. s \o t \in Seq(S) /\ Len(s \o t) = 2 /\ (s \o t)[1] = a /\ (s \o t)[2] = b
  BY <1>1, ConcatProperties, 2 - 1 = 1, 1 + 1 = 2
<1> DEFINE u == s \o t
<1>3. u \in Seq(S) /\ Len(u) = 2 /\ u[1] = a /\ u[2] = b
  BY <1>2
<1> HIDE DEF u
<1>4. u = <<a, b>>
  BY <1>3
<1> QED BY <1>4 DEF u, s, t

(* ... and three. *)
LEMMA ThreeJoined ==
  ASSUME NEW a, NEW b, NEW c
  PROVE  <<a, b>> \o <<c>> = <<a, b, c>>
<1> DEFINE S == {a, b, c}
           s == <<a, b>>
           t == <<c>>
<1>1. s \in Seq(S) /\ t \in Seq(S) /\ Len(s) = 2 /\ Len(t) = 1 /\ s[1] = a /\ s[2] = b /\ t[1] = c
  OBVIOUS
<1> HIDE DEF s, t, S
<1>0. /\ s \o t \in Seq(S) /\ Len(s \o t) = Len(s) + Len(t)
      /\ \A k \in 1..Len(s) + Len(t) : (s \o t)[k] = IF k <= Len(s) THEN s[k] ELSE t[k - Len(s)]
  BY <1>1, ConcatProperties
<1>2. s \o t \in Seq(S) /\ Len(s \o t) = 3 /\ (s \o t)[1] = a /\ (s \o t)[2] = b /\ (s \o t)[3] = c
  BY <1>0, <1>1
<1> DEFINE u == s \o t
<1>3. u \in Seq(S) /\ Len(u) = 3 /\ u[1] = a /\ u[2] = b /\ u[3] = c
  BY <1>2
<1> HIDE DEF u
<1>4. u = <<a, b, c>>
  BY <1>3
<1> QED BY <1>4 DEF u, s, t

(* Faked makes one. *)
LEMMA FakedOne ==
  ASSUME NEW from \in Nat, NEW to \in Nat, NEW ovl \in Nat, NEW g \in Nat,
         NEW before, NEW behind, from <= to, to <= PLen
  PROVE  OneGenuine(Faked(from, to, ovl, g, before, behind), from, ovl, g)
<1> DEFINE fake == Part(FALSE, from, to, 0, 0, g)
           real == Part(TRUE, from, to, ovl, 0, g)
           a == IF before THEN <<fake>> ELSE <<>>
           b == IF behind THEN <<fake>> ELSE <<>>
<1>1. IsPart(fake, FALSE, from, to, 0) /\ IsPart(real, TRUE, from, to, ovl)
  BY FakePart, GenuinePart
<1>2. fake \in Proper /\ real \in Proper /\ fake.real = FALSE /\ real.real = TRUE
  BY <1>1, Zenon DEF IsPart
<1>3. fake.g = g /\ fake.frag = 0 /\ real.g = g /\ real.frag = 0 /\ real.from = from /\ real.ovl = ovl
  BY DEF Part
<1>4. Faked(from, to, ovl, g, before, behind) = a \o <<real>> \o b
  BY Zenon DEF Faked
<1> HIDE DEF fake, real
<1>5. FakedPart(fake, from, ovl, g) /\ FakedPart(real, from, ovl, g)
  BY <1>2, <1>3 DEF FakedPart
<1>6. \/ a \o <<real>> \o b = <<fake, real, fake>> \/ a \o <<real>> \o b = <<fake, real>>
      \/ a \o <<real>> \o b = <<real, fake>> \/ a \o <<real>> \o b = <<real>>
  <2>1. /\ <<fake>> \o <<real>> \o <<fake>> = <<fake, real, fake>> /\ <<fake>> \o <<real>> \o <<>> = <<fake, real>>
        /\ <<>> \o <<real>> \o <<fake>> = <<real, fake>> /\ <<>> \o <<real>> \o <<>> = <<real>>
    <3>1. <<fake>> \o <<real>> = <<fake, real>> /\ <<real>> \o <<fake>> = <<real, fake>>
          /\ <<fake, real>> \o <<fake>> = <<fake, real, fake>>
      BY TwoJoined, ThreeJoined
    <3>2. <<>> \o <<real>> = <<real>> /\ <<fake, real>> \o <<>> = <<fake, real>> /\ <<real>> \o <<>> = <<real>>
      OBVIOUS
    <3> QED BY <3>1, <3>2
  <2>2. (a = <<>> \/ a = <<fake>>) /\ (b = <<>> \/ b = <<fake>>)
    BY Zenon
  <2> HIDE DEF a, b
  <2> QED BY <2>1, <2>2
<1> DEFINE s == a \o <<real>> \o b
<1>7. s = <<fake, real, fake>> \/ s = <<fake, real>> \/ s = <<real, fake>> \/ s = <<real>>
  BY <1>6
<1> HIDE DEF s, a, b
<1>8. s \in Seq(Proper) /\ Len(s) \in 1..3
  <2>1. CASE s = <<fake, real, fake>>
    BY <2>1, <1>2
  <2>2. CASE s = <<fake, real>>
    BY <2>2, <1>2
  <2>3. CASE s = <<real, fake>>
    BY <2>3, <1>2
  <2>4. CASE s = <<real>>
    BY <2>4, <1>2
  <2> QED BY <1>7, <2>1, <2>2, <2>3, <2>4
<1>9. \A k \in 1..Len(s) : s[k] = fake \/ s[k] = real
  BY <1>7
<1>10. \A k \in 1..Len(s) : FakedPart(s[k], from, ovl, g)
  BY <1>5, <1>9
<1>11. \A j, k \in 1..Len(s) : j < k => s[j] = fake \/ s[k] = fake
  BY <1>7
<1>12. \A j, k \in 1..Len(s) : j < k /\ s[k].real => ~ s[j].real
  BY <1>2, <1>11
<1> QED BY <1>4, <1>8, <1>10, <1>12 DEF OneGenuine, s

(* A number changes no other field, nor does an id. *)
LEMMA OtherFields ==
  ASSUME NEW p \in Proper, NEW x
  PROVE  /\ [p EXCEPT !.n = x].n = x /\ [p EXCEPT !.n = x].g = p.g /\ [p EXCEPT !.n = x].frag = p.frag
         /\ [p EXCEPT !.n = x].real = p.real /\ [p EXCEPT !.n = x].from = p.from
         /\ [p EXCEPT !.n = x].ovl = p.ovl /\ [p EXCEPT !.n = x].to = p.to
         /\ [p EXCEPT !.id = x].id = x /\ [p EXCEPT !.id = x].frag = p.frag
         /\ [p EXCEPT !.id = x].real = p.real /\ [p EXCEPT !.id = x].from = p.from
         /\ [p EXCEPT !.id = x].ovl = p.ovl /\ [p EXCEPT !.id = x].to = p.to
BY DEF Proper, PartType

(* The parts of a faked split before they are numbered. *)
Groups(S) ==
  /\ S \in Seq(Proper) /\ Len(S) \in 1..6
  /\ \A k \in 1..Len(S) : S[k].g \in {0, 1} /\ S[k].frag = 0
  /\ \A j, k \in 1..Len(S) : S[j].real /\ S[k].real /\ S[j].g = S[k].g => S[j].from = S[k].from
  /\ \A j, k \in 1..Len(S) : j < k /\ S[k].ovl # 0 => ~ S[j].real

(* Numbering them counts them. *)
LEMMA GroupsCounted ==
  ASSUME NEW S, Groups(S)
  PROVE  Counted(Numbered(S), 6)
<1> DEFINE m == Len(S)
           b == Numbered(S)
<1>1. /\ m \in 1..6 /\ DOMAIN S = 1..m /\ \A k \in 1..m : S[k] \in Proper
      /\ \A k \in 1..m : S[k].g \in {0, 1} /\ S[k].frag = 0
      /\ \A j, k \in 1..m : S[j].real /\ S[k].real /\ S[j].g = S[k].g => S[j].from = S[k].from
      /\ \A j, k \in 1..m : j < k /\ S[k].ovl # 0 => ~ S[j].real
  BY DEF Groups
<1>2. b = [k \in 1..m |-> [S[k] EXCEPT !.n = k - 1]]
  BY <1>1, Zenon DEF Numbered
<1> HIDE DEF m, b
<1>3. DOMAIN b = 1..m
  BY <1>2
<1>4. ASSUME NEW k \in 1..m
      PROVE  /\ b[k].n = k - 1 /\ b[k].g = S[k].g /\ b[k].frag = S[k].frag /\ b[k].real = S[k].real
             /\ b[k].from = S[k].from /\ b[k].ovl = S[k].ovl
  <2> DEFINE p == S[k]
             x == k - 1
  <2>1. b[k] = [p EXCEPT !.n = x] /\ p \in Proper
    BY <1>1, <1>2
  <2> HIDE DEF p, x
  <2>2. /\ [p EXCEPT !.n = x].n = x /\ [p EXCEPT !.n = x].g = p.g /\ [p EXCEPT !.n = x].frag = p.frag
        /\ [p EXCEPT !.n = x].real = p.real /\ [p EXCEPT !.n = x].from = p.from
        /\ [p EXCEPT !.n = x].ovl = p.ovl
    BY <2>1, OtherFields
  <2> QED BY <2>1, <2>2 DEF p, x
<1>5. NumbersBelow(b, 6)
  <2> SUFFICES ASSUME NEW k \in 1..m PROVE Number(b[k]) \in 0..6 - 1 /\ b[k].frag = 0
    BY <1>3 DEF NumbersBelow
  <2>1. b[k].n = k - 1 /\ b[k].g \in {0, 1} /\ b[k].frag = 0
    BY <1>1, <1>4
  <2> QED BY <2>1, <1>1 DEF Number
<1>6. NumbersDiffer(b)
  <2> SUFFICES ASSUME NEW j \in 1..m, NEW k \in 1..m, b[j].real, b[k].real, Number(b[j]) = Number(b[k])
               PROVE  b[j].from = b[k].from
    BY <1>3 DEF NumbersDiffer
  <2>1. CASE dp.ipid = "seqgroup"
    <3>1. S[j].g = S[k].g /\ S[j].real /\ S[k].real
      BY <2>1, <1>4 DEF Number
    <3> QED BY <3>1, <1>1, <1>4
  <2>2. CASE dp.ipid # "seqgroup"
    <3>1. j - 1 = k - 1
      BY <2>2, <1>4 DEF Number
    <3>2. j = k
      BY <3>1, <1>1
    <3> QED BY <3>2
  <2> QED BY <2>1, <2>2
<1>7. OverlapFirst(b)
  BY <1>1, <1>3, <1>4 DEF OverlapFirst
<1> QED BY <1>5, <1>6, <1>7 DEF Counted, b

(* A packet that is not cut is one group, *)
LEMMA OneGroup ==
  ASSUME NEW S, NEW from, OneGenuine(S, from, 0, 0)
  PROVE  Groups(S)
<1> DEFINE m == Len(S)
<1>1. /\ S \in Seq(Proper) /\ m \in 1..3
      /\ \A k \in 1..m : S[k] \in Proper /\ S[k].g = 0 /\ S[k].frag = 0
                         /\ (S[k].real => S[k].from = from /\ S[k].ovl = 0)
  BY DEF OneGenuine, FakedPart
<1>2. \A k \in 1..m : S[k].ovl = 0
  BY <1>1, ProperFields
<1> HIDE DEF m
<1> QED BY <1>1, <1>2 DEF Groups, m

(* ... and one that is cut is two. *)
LEMMA TwoGroups ==
  ASSUME NEW a, NEW b, NEW f, NEW h, NEW ovl, OneGenuine(a, f, ovl, 0), OneGenuine(b, h, 0, 1)
  PROVE  Groups(a \o b)
<1> DEFINE la == Len(a)
           lb == Len(b)
           s == a \o b
<1>1. /\ a \in Seq(Proper) /\ la \in 1..3 /\ b \in Seq(Proper) /\ lb \in 1..3
      /\ \A k \in 1..la : FakedPart(a[k], f, ovl, 0)
      /\ \A k \in 1..lb : FakedPart(b[k], h, 0, 1)
      /\ \A j, k \in 1..la : j < k /\ a[k].real => ~ a[j].real
  BY DEF OneGenuine
<1>2. /\ s \in Seq(Proper) /\ Len(s) = la + lb
      /\ \A k \in 1..la + lb : s[k] = IF k <= la THEN a[k] ELSE b[k - la]
  BY <1>1, ConcatProperties
<1> HIDE DEF la, lb, s
<1>3. Len(s) \in 1..6
  BY <1>1, <1>2
<1>4. ASSUME NEW k \in 1..Len(s)
      PROVE  \/ k \in 1..la /\ s[k] = a[k] /\ FakedPart(s[k], f, ovl, 0)
             \/ k > la /\ FakedPart(s[k], h, 0, 1)
  <2>1. CASE k <= la
    <3>1. k \in 1..la /\ s[k] = a[k]
      BY <2>1, <1>1, <1>2
    <3> QED BY <3>1, <1>1
  <2>2. CASE ~ (k <= la)
    <3>1. k - la \in 1..lb /\ s[k] = b[k - la] /\ k > la
      BY <2>2, <1>1, <1>2
    <3> QED BY <3>1, <1>1
  <2> QED BY <2>1, <2>2
<1>5. \A k \in 1..Len(s) : s[k].g \in {0, 1} /\ s[k].frag = 0
  BY <1>4 DEF FakedPart
<1>6. ASSUME NEW j \in 1..Len(s), NEW k \in 1..Len(s), s[j].real, s[k].real, s[j].g = s[k].g
      PROVE  s[j].from = s[k].from
  BY <1>4, <1>6 DEF FakedPart
<1>7. ASSUME NEW j \in 1..Len(s), NEW k \in 1..Len(s), j < k, s[k].ovl # 0
      PROVE  ~ s[j].real
  <2>1. s[k].real
    <3>1. s[k] \in Proper
      BY <1>4 DEF FakedPart
    <3> QED BY <3>1, <1>7, ProperFields
  <2>2. k \in 1..la /\ s[k] = a[k]
    BY <2>1, <1>4, <1>7 DEF FakedPart
  <2>3. j \in 1..la /\ s[j] = a[j]
    BY <2>2, <1>1, <1>2, <1>3, <1>7
  <2> QED BY <2>1, <2>2, <2>3, <1>1, <1>7
<1> QED BY <1>2, <1>3, <1>5, <1>6, <1>7 DEF Groups, s

(* So fakedsplit is counted, *)
LEMMA FakedsplitCounted ==
  ASSUME req \in Request, i \in Packets, PosFits
  PROVE  Counted(Fakedsplit, 6)
<1> DEFINE n == PLen
           cut == pos.split
           ovl == IF ReasmOffset = 0 THEN pos.ovl ELSE 0
           whole == Faked(0, n, 0, 0, dp.order0 = 0, dp.order0 <= 1)
           first == Faked(0, cut, ovl, 0, dp.order = 0, dp.order <= 1)
           second == Faked(cut, n, 0, 1, TRUE, dp.order <= 2)
<1>1. n \in Nat \ {0} /\ cut \in 0..n - 1 /\ cut \in Nat /\ ovl \in Nat /\ cut <= n
  BY PacketFacts DEF PosFits
<1>2. Fakedsplit = Numbered(IF cut = 0 THEN whole ELSE first \o second)
  BY Zenon DEF Fakedsplit
<1>3. OneGenuine(whole, 0, 0, 0)
  <2> HIDE DEF n
  <2>1. n <= n /\ 0 <= n /\ 0 \in Nat /\ n \in Nat
    BY <1>1
  <2> QED BY <2>1, FakedOne DEF n
<1>4. OneGenuine(first, 0, ovl, 0)
  <2> HIDE DEF ovl, cut
  <2>1. cut <= PLen /\ 0 <= cut /\ 0 \in Nat
    BY <1>1
  <2> QED BY <2>1, <1>1, FakedOne
<1>5. OneGenuine(second, cut, 0, 1)
  <2> HIDE DEF n, cut
  <2>1. n <= n /\ 0 \in Nat /\ 1 \in Nat /\ n \in Nat
    BY <1>1
  <2>2. cut \in Nat /\ cut <= n /\ n <= PLen
    BY <2>1, <1>1 DEF n
  <2>3. ASSUME NEW before PROVE OneGenuine(Faked(cut, n, 0, 1, before, dp.order <= 2), cut, 0, 1)
    BY <2>1, <2>2, FakedOne
  <2> QED BY <2>3, Zenon
<1> HIDE DEF n, cut, ovl, whole, first, second
<1>6. Groups(whole)
  BY <1>3, OneGroup
<1>7. Groups(first \o second)
  BY <1>4, <1>5, TwoGroups
<1> DEFINE both == first \o second
<1>8. Groups(both) /\ (Fakedsplit = Numbered(whole) \/ Fakedsplit = Numbered(both))
  BY <1>2, <1>7, Zenon
<1> HIDE DEF both
<1> QED BY <1>6, <1>8, GroupsCounted

(* ... and so is fakeddisorder. *)
LEMMA FakeddisorderCounted ==
  ASSUME req \in Request, i \in Packets, PosFits
  PROVE  Counted(Fakeddisorder, 6)
<1> DEFINE n == PLen
           cut == pos.split
           ovl == IF pos.ovl < pos.split THEN pos.ovl ELSE 0
           whole == Faked(0, n, 0, 0, dp.order0 = 0, dp.order0 <= 1)
           first == Faked(cut, n, ovl, 0, dp.order = 0, dp.order <= 1)
           second == Faked(0, cut, 0, 1, TRUE, dp.order <= 2)
<1>1. n \in Nat \ {0} /\ cut \in 0..n - 1 /\ cut \in Nat /\ ovl \in Nat /\ cut <= n
  BY PacketFacts DEF PosFits
<1>2. Fakeddisorder = Numbered(IF cut = 0 THEN whole ELSE first \o second)
  BY Zenon DEF Fakeddisorder
<1>3. OneGenuine(whole, 0, 0, 0)
  <2> HIDE DEF n
  <2>1. n <= n /\ 0 <= n /\ 0 \in Nat /\ n \in Nat
    BY <1>1
  <2> QED BY <2>1, FakedOne DEF n
<1>4. OneGenuine(first, cut, ovl, 0)
  <2> HIDE DEF ovl, cut, n
  <2>1. n <= PLen /\ cut <= n /\ 0 \in Nat /\ n \in Nat
    BY <1>1 DEF n
  <2> QED BY <2>1, <1>1, FakedOne
<1>5. OneGenuine(second, 0, 0, 1)
  <2> HIDE DEF n, cut
  <2>1. 0 \in Nat /\ 1 \in Nat
    OBVIOUS
  <2>2. cut \in Nat /\ 0 <= cut /\ cut <= PLen
    BY <1>1 DEF n
  <2>3. ASSUME NEW before PROVE OneGenuine(Faked(0, cut, 0, 1, before, dp.order <= 2), 0, 0, 1)
    BY <2>1, <2>2, FakedOne
  <2> QED BY <2>3, Zenon
<1> HIDE DEF n, cut, ovl, whole, first, second
<1>6. Groups(whole)
  BY <1>3, OneGroup
<1>7. Groups(first \o second)
  BY <1>4, <1>5, TwoGroups
<1> DEFINE both == first \o second
<1>8. Groups(both) /\ (Fakeddisorder = Numbered(whole) \/ Fakeddisorder = Numbered(both))
  BY <1>2, <1>7, Zenon
<1> HIDE DEF both
<1> QED BY <1>6, <1>8, GroupsCounted

(* The parts around a host name in m pieces, what follows it with number a. *)
HostPart(p, c, e, m, a) ==
  /\ p \in Proper /\ p.frag = 0 /\ p.ovl = 0 /\ p.n \in 0..5 /\ p.g \in 0..5
  /\ p.real => \/ p.n = 0 /\ p.g = 0 /\ p.from = 0
               \/ p.n = a /\ p.g = m + 1 /\ p.from = e
               \/ \E k \in 1..m : p.n = k + 1 /\ p.g = k /\ p.from = c[k]

(* Parts like these are counted, *)
LEMMA HostPartsCounted ==
  ASSUME NEW c, NEW e, NEW m \in 1..2, NEW a, a \in {m + 2, m + 3},
         NEW S \in Seq({p \in Proper : HostPart(p, c, e, m, a)})
  PROVE  Counted(S, 6)
<1>1. \A k \in DOMAIN S : HostPart(S[k], c, e, m, a)
  OBVIOUS
<1>2. NumbersBelow(S, 6)
  BY <1>1 DEF HostPart, NumbersBelow, Number
<1>3. NumbersDiffer(S)
  <2> SUFFICES ASSUME NEW j \in DOMAIN S, NEW k \in DOMAIN S, S[j].real, S[k].real,
                      Number(S[j]) = Number(S[k])
               PROVE  S[j].from = S[k].from
    BY DEF NumbersDiffer
  <2> DEFINE p == S[j]
             q == S[k]
  <2>1. HostPart(p, c, e, m, a) /\ HostPart(q, c, e, m, a) /\ p.real /\ q.real /\ (p.n = q.n \/ p.g = q.g)
    BY <1>1 DEF Number
  <2> HIDE DEF p, q
  <2>2. p.from = q.from
    BY <2>1 DEF HostPart
  <2> QED BY <2>2 DEF p, q
<1>4. OverlapFirst(S)
  BY <1>1 DEF HostPart, OverlapFirst
<1> QED BY <1>2, <1>3, <1>4 DEF Counted

(* ... and hostfakesplit makes such parts. *)
LEMMA HostfakesplitCounted ==
  ASSUME req \in Request, i \in Packets, PosFits, pos.host # <<>>
  PROVE  Counted(Hostfakesplit, 6)
<1> DEFINE n == PLen
           h == pos.host[1]
           e == pos.host[2]
           cut == IF Len(pos.host) = 3 THEN <<h, pos.host[3], e>> ELSE <<h, e>>
           names == Len(cut) - 1
           before == Part(TRUE, 0, h, 0, 0, 0)
           fake(k) == Part(FALSE, h, e, 0, k, 1)
           name == [k \in 1..names |-> Part(TRUE, cut[k], cut[k + 1], 0, k + 1, k)]
           after(k) == Part(TRUE, e, n, 0, k, names + 1)
           b1 == <<before, fake(1)>>
           b2 == <<before, fake(1), after(names + 2)>>
           b3 == <<fake(names + 2), after(names + 3)>>
           T(a) == {p \in Proper : HostPart(p, cut, e, names, a)}
<1>1. Hostfakesplit = IF dp.hostorder = 1 THEN b2 \o name ELSE (b1 \o name) \o b3
  BY Zenon DEF Hostfakesplit
<1>2. n \in Nat \ {0}
  BY PacketFacts
<1>3. /\ pos.host \in Seq(1..n - 1) /\ Len(pos.host) \in 2..3 /\ h < e
      /\ Len(pos.host) = 3 => h < pos.host[3] /\ pos.host[3] < e
  BY DEF PosFits, Within
<1>4. /\ h \in 1..n - 1 /\ e \in 1..n - 1
      /\ Len(pos.host) = 3 => pos.host[3] \in 1..n - 1
  <2> DEFINE t == pos.host
             D == 1..n - 1
  <2>1. t \in Seq(D) /\ Len(t) \in 2..3
    BY <1>3
  <2> HIDE DEF t, D
  <2>2. t[1] \in D /\ t[2] \in D /\ (Len(t) = 3 => t[3] \in D)
    BY <2>1
  <2> QED BY <2>2 DEF t, D
<1> DEFINE mid == pos.host[3]
<1>5. /\ names \in 1..2 /\ \A k \in 1..names : cut[k] \in Nat /\ cut[k + 1] \in Nat /\ cut[k] <= cut[k + 1] /\ cut[k + 1] <= n
  <2> HIDE DEF h, e, n, mid
  <2>1. CASE Len(pos.host) = 3
    <3>1. h \in Nat /\ mid \in Nat /\ e \in Nat /\ h <= mid /\ mid <= e /\ mid <= n /\ e <= n
      BY <2>1, <1>2, <1>3, <1>4 DEF mid
    <3>2. cut = <<h, mid, e>>
      BY <2>1 DEF mid
    <3> HIDE DEF cut
    <3> QED BY <3>1, <3>2
  <2>2. CASE Len(pos.host) # 3
    <3>1. h \in Nat /\ e \in Nat /\ h <= e /\ e <= n
      BY <1>2, <1>3, <1>4
    <3>2. cut = <<h, e>>
      BY <2>2
    <3> HIDE DEF cut
    <3> QED BY <3>1, <3>2
  <2> QED BY <2>1, <2>2
<1> HIDE DEF cut, names
<1>6. ASSUME NEW a \in {names + 2, names + 3}
      PROVE  before \in T(a) /\ fake(1) \in T(a) /\ fake(names + 2) \in T(a) /\ after(a) \in T(a)
  <2>1. h \in Nat /\ e \in Nat /\ n \in Nat /\ h <= e /\ e <= n /\ h <= n /\ n <= PLen /\ h <= PLen /\ 0 <= h
    BY <1>2, <1>3, <1>4
  <2>2. a \in Nat /\ a \in 0..5 /\ names + 1 \in 0..5 /\ names + 1 \in Nat /\ names + 2 \in Nat /\ names + 2 \in 0..5
        /\ 1 \in Nat /\ 0 \in Nat
    BY <1>5
  <2> HIDE DEF h, e, n
  <2>3. ASSUME NEW k \in 0..5 PROVE fake(k) \in T(a)
    <3> DEFINE p == Part(FALSE, h, e, 0, k, 1)
    <3>0. k \in Nat /\ 1 \in Nat
      OBVIOUS
    <3>1. IsPart(p, FALSE, h, e, 0)
      BY <2>1, <3>0, FakePart
    <3>2. p \in Proper /\ p.real = FALSE
      BY <3>1, Zenon DEF IsPart
    <3>3. p.frag = 0 /\ p.ovl = 0 /\ p.n = k /\ p.g = 1
      BY DEF Part
    <3>4. fake(k) = p
      OBVIOUS
    <3> HIDE DEF fake, p
    <3> QED BY <3>2, <3>3, <3>4 DEF HostPart
  <2>4. before \in T(a)
    <3>1. IsPart(before, TRUE, 0, h, 0)
      BY <2>1, <2>2, GenuinePart
    <3>2. before \in Proper
      BY <3>1, Zenon DEF IsPart
    <3>3. before.frag = 0 /\ before.ovl = 0 /\ before.n = 0 /\ before.g = 0 /\ before.from = 0
      BY DEF Part
    <3> HIDE DEF before
    <3> QED BY <3>2, <3>3 DEF HostPart
  <2>5. after(a) \in T(a)
    <3> DEFINE g == names + 1
               p == Part(TRUE, e, n, 0, a, g)
    <3>0. g \in Nat /\ g \in 0..5
      BY <2>2
    <3> HIDE DEF g
    <3>1. IsPart(p, TRUE, e, n, 0)
      BY <2>1, <2>2, <3>0, GenuinePart
    <3>2. p \in Proper
      BY <3>1, Zenon DEF IsPart
    <3>3. p.frag = 0 /\ p.ovl = 0 /\ p.n = a /\ p.g = g /\ p.from = e
      BY DEF Part
    <3>4. after(a) = p
      BY DEF g
    <3> HIDE DEF p, after
    <3>5. HostPart(p, cut, e, names, a)
      BY <2>2, <3>0, <3>2, <3>3 DEF HostPart, g
    <3> QED BY <3>2, <3>4, <3>5
  <2>6. 1 \in 0..5
    OBVIOUS
  <2> QED BY <2>2, <2>3, <2>4, <2>5, <2>6
<1>7. ASSUME NEW a \in {names + 2, names + 3}, NEW k \in 1..names
      PROVE  name[k] \in T(a)
  <2> DEFINE x == cut[k]
             y == cut[k + 1]
             j == k + 1
             p == Part(TRUE, x, y, 0, j, k)
  <2>1. x \in Nat /\ y \in Nat /\ x <= y /\ y <= PLen /\ j \in Nat /\ k \in Nat /\ j \in 0..5 /\ k \in 0..5 /\ 0 \in Nat
    BY <1>5
  <2>2. name[k] = p
    OBVIOUS
  <2> HIDE DEF x, y, name
  <2>3. IsPart(p, TRUE, x, y, 0)
    <3> HIDE DEF j
    <3> QED BY <2>1, GenuinePart
  <2>4. p \in Proper
    BY <2>3, Zenon DEF IsPart
  <2>5. p.frag = 0 /\ p.ovl = 0 /\ p.n = j /\ p.g = k /\ p.from = x
    BY DEF Part
  <2> HIDE DEF p
  <2>6. HostPart(p, cut, e, names, a)
    BY <2>1, <2>4, <2>5 DEF HostPart, x
  <2> QED BY <2>2, <2>4, <2>6
<1>8. ASSUME NEW a \in {names + 2, names + 3} PROVE name \in Seq(T(a))
  <2>1. DOMAIN name = 1..names /\ name = [k \in 1..names |-> name[k]] /\ names \in Nat
    BY <1>5
  <2> DEFINE U == T(a)
  <2>2. \A k \in 1..names : name[k] \in U
    BY <1>7
  <2> HIDE DEF name, U
  <2>3. name \in [1..names -> U]
    BY ONLY <2>1, <2>2
  <2>4. name \in Seq(U)
    BY ONLY <2>1, <2>3, SeqDef
  <2> QED BY <2>4 DEF U
<1> HIDE DEF before, fake, after, name
<1>9. CASE dp.hostorder = 1
  <2> DEFINE a == names + 2
             U == T(a)
  <2>1. a \in {names + 2, names + 3}
    OBVIOUS
  <2>2. before \in U /\ fake(1) \in U /\ after(names + 2) \in U /\ name \in Seq(U)
    BY <2>1, <1>6, <1>8
  <2> HIDE DEF U
  <2>3. b2 \in Seq(U)
    BY <2>2
  <2> HIDE DEF b2
  <2>4. b2 \o name \in Seq(U)
    BY <2>2, <2>3
  <2>5. Hostfakesplit \in Seq(U)
    BY <2>4, <1>1, <1>9
  <2> HIDE DEF a
  <2> QED BY <2>1, <2>5, <1>5, HostPartsCounted DEF U
<1>10. CASE dp.hostorder # 1
  <2> DEFINE a == names + 3
             U == T(a)
  <2>1. a \in {names + 2, names + 3}
    OBVIOUS
  <2>2. before \in U /\ fake(1) \in U /\ fake(names + 2) \in U /\ after(names + 3) \in U /\ name \in Seq(U)
    BY <2>1, <1>6, <1>8
  <2> HIDE DEF U
  <2>3. b1 \in Seq(U) /\ b3 \in Seq(U)
    BY <2>2
  <2> HIDE DEF b1, b3
  <2>4. (b1 \o name) \o b3 \in Seq(U)
    <3> DEFINE bn == b1 \o name
    <3>1. bn \in Seq(U)
      BY <2>2, <2>3
    <3> HIDE DEF bn
    <3>2. bn \o b3 \in Seq(U)
      BY <2>3, <3>1
    <3> QED BY <3>2 DEF bn
  <2>5. Hostfakesplit \in Seq(U)
    BY <2>4, <1>1, <1>10
  <2> HIDE DEF a
  <2> QED BY <2>1, <2>5, <1>5, HostPartsCounted DEF U
<1> QED BY <1>9, <1>10

(* Disorder sends as many parts, from the last to the first; one with an *)
(* overlap is shorter than what lies before and in it.                   *)
LEMMA MultidisorderFits ==
  ASSUME req \in Request, i \in Packets, PosFits
  PROVE  /\ DOMAIN Multidisorder = 1..Len(pos.cuts) + 1
         /\ \A k \in DOMAIN Multidisorder :
              Multidisorder[k].frag = 0 /\ (Multidisorder[k].ovl # 0 => Multidisorder[k].ovl < Multidisorder[k].from)
<1> DEFINE cut == <<0>> \o pos.cuts \o <<PLen>>
           m == Len(cut) - 1
           o(k) == IF k = 2 /\ pos.ovl < cut[k] THEN pos.ovl ELSE 0
           s == [k \in 1..m |-> Part(TRUE, cut[k], cut[k + 1], o(k), k - 1, k - 1)]
<1>1. Multidisorder = Reverse(s)
  BY Zenon DEF Multidisorder
<1>2. m = Len(pos.cuts) + 1 /\ m \in Nat
  BY CutCount
<1>3. ASSUME NEW k \in 1..m PROVE s[k].frag = 0 /\ (s[k].ovl # 0 => s[k].ovl < s[k].from)
  <2> DEFINE a == cut[k]
             b == cut[k + 1]
             v == o(k)
             x == k - 1
             p == s[k]
  <2>1. p = Part(TRUE, a, b, v, x, x)
    OBVIOUS
  <2>2. v # 0 => v < a
    BY DEF PosFits
  <2> HIDE DEF a, b, v, x, p
  <2>3. p.ovl = v /\ p.from = a /\ p.frag = 0
    BY <2>1 DEF Part
  <2> QED BY <2>2, <2>3 DEF p
<1> HIDE DEF cut, o
<1>4. Len(s) = m /\ DOMAIN s = 1..m
  <2> HIDE DEF m
  <2>1. DOMAIN s = 1..m /\ s = [k \in 1..m |-> s[k]]
    OBVIOUS
  <2> HIDE DEF s
  <2>2. s \in Seq({s[k] : k \in 1..m})
    BY <1>2, <2>1, SeqDef
  <2> QED BY <1>2, <2>1, <2>2
<1> HIDE DEF s, m
<1>5. Reverse(s) = [k \in 1..m |-> s[m - k + 1]]
  BY <1>4 DEF Reverse
<1> DEFINE r == Multidisorder
<1>6. r = [k \in 1..m |-> s[m - k + 1]]
  BY <1>1, <1>5
<1> HIDE DEF r
<1>7. \A k \in 1..m : m - k + 1 \in 1..m
  BY <1>2
<1>8. DOMAIN r = 1..m /\ \A k \in 1..m : r[k].frag = 0 /\ (r[k].ovl # 0 => r[k].ovl < r[k].from)
  BY <1>3, <1>6, <1>7
<1> QED BY <1>2, <1>8 DEF r

(* The modes that number their parts. *)
LEMMA SecondCounted ==
  ASSUME req \in Request, i \in Packets, PosFits, ~ req.ip6, SecondStage # <<>>,
         StageMode # "multidisorder", StageMode # "ipfrag2"
  PROVE  Counted(SecondStage, IF StageMode = "multisplit" THEN Len(pos.cuts) + 1 ELSE 6)
<1>1. ~ FinalHeader
  BY DEF FinalHeader
<1>2. \/ StageMode = "hostfakesplit" /\ pos.host # <<>> /\ SecondStage = Hostfakesplit
      \/ StageMode = "multisplit" /\ SecondStage = Multisplit
      \/ StageMode = "fakedsplit" /\ SecondStage = Fakedsplit
      \/ StageMode = "fakeddisorder" /\ SecondStage = Fakeddisorder
  BY <1>1, Zenon DEF SecondStage
<1>3. CASE StageMode = "hostfakesplit" /\ pos.host # <<>> /\ SecondStage = Hostfakesplit
  BY <1>3, HostfakesplitCounted
<1>4. CASE StageMode = "multisplit" /\ SecondStage = Multisplit
  BY <1>4, MultisplitCounted
<1>5. CASE StageMode = "fakedsplit" /\ SecondStage = Fakedsplit
  BY <1>5, FakedsplitCounted
<1>6. CASE StageMode = "fakeddisorder" /\ SecondStage = Fakeddisorder
  BY <1>6, FakeddisorderCounted
<1> QED BY <1>2, <1>3, <1>4, <1>5, <1>6

(* The highest number is below the bound, and none is above it. *)
LEMMA LastNumberIs ==
  ASSUME req \in Request, i \in Packets, PosFits, NEW b \in Nat \ {0}, NumbersBelow(SecondStage, b)
  PROVE  /\ LastNumber \in 0..b - 1
         /\ \A k \in DOMAIN SecondStage : Number(SecondStage[k]) <= LastNumber
<1> DEFINE s == SecondStage
           m == Len(s)
           f == [k \in 1..m |-> Number(s[k])]
           R == {0} \cup {f[k] : k \in 1..m}
<1>1. s \in Seq(Proper)
  BY SecondStageMakes
<1>2. LastNumber = Max({0} \cup {Number(s[k]) : k \in DOMAIN s})
  BY Zenon DEF LastNumber
<1>3. \A k \in DOMAIN s : Number(s[k]) \in 0..b - 1
  BY DEF NumbersBelow
<1> HIDE DEF s
<1>4. m \in Nat /\ DOMAIN s = 1..m
  BY <1>1
<1> HIDE DEF m
<1>5. f \in [1..m -> Nat] /\ \A k \in 1..m : f[k] = Number(s[k]) /\ f[k] \in 0..b - 1
  BY <1>3, <1>4
<1>6. {Number(s[k]) : k \in DOMAIN s} = {f[k] : k \in 1..m}
  BY <1>4
<1> HIDE DEF f
<1>7. LastNumber = Max(R)
  BY <1>2, <1>6
<1>8. R \in SUBSET Nat /\ Max(R) \in R /\ \A x \in R : x <= Max(R)
  BY <1>4, <1>5, MaxIs, Zenon
<1>9. R \subseteq 0..b - 1 /\ \A k \in 1..m : f[k] \in R
  BY <1>5
<1> HIDE DEF R
<1>10. LastNumber \in 0..b - 1
  BY <1>7, <1>8, <1>9
<1>11. ASSUME NEW k \in 1..m PROVE Number(s[k]) <= LastNumber
  BY <1>5, <1>7, <1>8, <1>9
<1> QED BY <1>4, <1>10, <1>11 DEF s

------------------------------------------------------------------------------
(* The ids of the second stage. *)

(* A part whose id counts: genuine, and not a fragment. *)
Plain(p) == p.real /\ p.frag = 0
(* A part that may be refused when it is to leave. *)
Refusable(p) == TooLong(p) \/ p.frag # 0

(* The n ids from id are for these parts, another one for another place. *)
Spread(S, id, n) ==
  /\ \A k \in DOMAIN S : Plain(S[k]) => \E x \in 0..n - 1 : S[k].id = After(id, x)
  /\ \A j, k \in DOMAIN S : Plain(S[j]) /\ Plain(S[k]) /\ S[j].id = S[k].id => S[j].from = S[k].from
(* Nothing that counts has left when a part is refused. *)
RefusedFirst(S) == \A j, k \in DOMAIN S : j < k /\ Refusable(S[k]) => ~ Plain(S[j])

(* Different steps lead to different ids. *)
LEMMA AfterDiffer ==
  ASSUME NEW id \in Ids, NEW x \in Nat, NEW y \in Nat, x < IdMod - 1, y < IdMod - 1,
         After(id, x) = After(id, y)
  PROVE  x = y
BY IdModFacts DEF Ids, After

(* Ids are all that the second stage adds to its parts. *)
SameButId(a, b) ==
  /\ DOMAIN a = DOMAIN b
  /\ \A k \in DOMAIN a : /\ a[k].real = b[k].real /\ a[k].frag = b[k].frag /\ a[k].from = b[k].from
                         /\ a[k].to = b[k].to /\ a[k].ovl = b[k].ovl
(* An id changes nothing else of a part. *)
LEMMA IdAdded ==
  ASSUME NEW p \in Proper, NEW x, NEW q, q = [p EXCEPT !.id = x]
  PROVE  /\ q.real = p.real /\ q.frag = p.frag /\ q.from = p.from /\ q.to = p.to /\ q.ovl = p.ovl
         /\ q.id = x
BY OtherFields

(* Where the parts are numbered, *)
LEMMA NumberedIds ==
  ASSUME req \in Request, i \in Packets, PosFits, ~ req.ip6, CountsIds, SecondStage # <<>>,
         StageMode # "multidisorder", StageMode # "ipfrag2", StageId \in Ids,
         NEW b \in Nat, b < IdMod - 1,
         b = IF StageMode = "multisplit" THEN Len(pos.cuts) + 1 ELSE 6
  PROVE  /\ \E n \in 1..b : NextId = After(StageId, n) /\ Spread(SecondWithIds, StageId, n)
         /\ RefusedFirst(SecondWithIds)
<1> DEFINE s == SecondStage
           t == SecondWithIds
           id == StageId
           n == LastNumber + 1
<1>1. Counted(s, b)
  BY SecondCounted
<1>2. b \in Nat \ {0}
  BY CutCount
<1>3. n \in 1..b /\ \A k \in DOMAIN s : Number(s[k]) \in Nat /\ Number(s[k]) < n
  <2>1. NumbersBelow(s, b)
    BY <1>1 DEF Counted
  <2>2. LastNumber \in 0..b - 1 /\ \A k \in DOMAIN s : Number(s[k]) <= LastNumber
    BY <1>2, <2>1, LastNumberIs
  <2>3. \A k \in DOMAIN s : Number(s[k]) \in 0..b - 1
    BY <2>1 DEF NumbersBelow
  <2> QED BY <1>2, <2>2, <2>3
<1>4. s \in Seq(Proper)
  BY SecondStageMakes
<1>5. NextId = IdSteps(id, 1, n) /\ t = [k \in DOMAIN s |-> [s[k] EXCEPT !.id = PartId(s[k], id)]]
  <2>1. NextId = IdSteps(id, 1, n)
    BY Zenon DEF NextId
  <2>2. t = Ascending(s, id)
    BY Zenon DEF SecondWithIds
  <2> QED BY <2>1, <2>2, Zenon DEF Ascending
<1> HIDE DEF s, t, id, n
<1>6. DOMAIN t = DOMAIN s /\ \A k \in DOMAIN s : t[k] = [s[k] EXCEPT !.id = PartId(s[k], id)]
  BY <1>5
<1>7. ASSUME NEW k \in DOMAIN s
      PROVE  /\ t[k].real = s[k].real /\ t[k].frag = s[k].frag /\ t[k].from = s[k].from
             /\ t[k].to = s[k].to /\ t[k].ovl = s[k].ovl /\ t[k].id = PartId(s[k], id)
  <2> DEFINE p == s[k]
             q == t[k]
             x == PartId(s[k], id)
  <2>1. p \in Proper /\ q = [p EXCEPT !.id = x]
    BY <1>4, <1>6
  <2> HIDE DEF p, q, x
  <2>2. q.real = p.real /\ q.frag = p.frag /\ q.from = p.from /\ q.to = p.to /\ q.ovl = p.ovl /\ q.id = x
    BY <2>1, IdAdded
  <2> QED BY <2>2 DEF p, q, x
<1>8. SameButId(t, s)
  BY <1>6, <1>7 DEF SameButId
<1>9. IdMod \in Nat /\ id \in Ids
  BY IdModFacts DEF id
<1>10. NextId = After(id, n)
  <2>1. n \in Nat /\ n < IdMod
    BY <1>2, <1>3, <1>9
  <2> QED BY <1>5, <1>9, <2>1, StepsUp
<1>11. ASSUME NEW k \in DOMAIN s
       PROVE  /\ Number(s[k]) \in 0..n - 1 /\ t[k].id = After(id, Number(s[k]))
  <2>1. Number(s[k]) \in Nat /\ Number(s[k]) < n /\ Number(s[k]) < IdMod
    BY <1>2, <1>3, <1>9
  <2>2. IdSteps(id, 1, Number(s[k])) = After(id, Number(s[k]))
    BY <1>9, <2>1, StepsUp
  <2>3. t[k].id = IdSteps(id, 1, Number(s[k]))
    BY <1>7 DEF PartId
  <2>4. Number(s[k]) \in 0..n - 1
    BY <2>1, <1>3
  <2> QED BY <2>2, <2>3, <2>4
<1>12. ASSUME NEW j \in DOMAIN t, NEW k \in DOMAIN t, Plain(t[j]), Plain(t[k]), t[j].id = t[k].id
       PROVE  t[j].from = t[k].from
  <2>1. j \in DOMAIN s /\ k \in DOMAIN s
    BY <1>8 DEF SameButId
  <2>2. After(id, Number(s[j])) = After(id, Number(s[k]))
    BY <2>1, <1>11, <1>12
  <2>3. Number(s[j]) = Number(s[k])
    <3>1. Number(s[j]) \in Nat /\ Number(s[k]) \in Nat /\ Number(s[j]) < IdMod - 1 /\ Number(s[k]) < IdMod - 1
      BY <2>1, <1>2, <1>3, <1>9
    <3> QED BY <2>2, <3>1, <1>9, AfterDiffer
  <2>4. s[j].real /\ s[k].real
    BY <2>1, <1>8, <1>12 DEF SameButId, Plain
  <2>5. s[j].from = s[k].from
    BY <2>1, <2>3, <2>4, <1>1 DEF Counted, NumbersDiffer
  <2> QED BY <2>1, <2>5, <1>8 DEF SameButId
<1>13. Spread(t, id, n)
  <2>1. DOMAIN t = DOMAIN s
    BY <1>8 DEF SameButId
  <2> QED BY <2>1, <1>11, <1>12 DEF Spread
<1>14. RefusedFirst(t)
  <2> SUFFICES ASSUME NEW j \in DOMAIN t, NEW k \in DOMAIN t, j < k, Refusable(t[k]) PROVE ~ Plain(t[j])
    BY DEF RefusedFirst
  <2>1. j \in DOMAIN s /\ k \in DOMAIN s /\ t[k].frag = s[k].frag /\ t[k].ovl = s[k].ovl /\ t[j].real = s[j].real
    BY <1>8 DEF SameButId
  <2>2. s[k].frag = 0
    BY <1>1, <2>1 DEF Counted, NumbersBelow
  <2>3. s[k].ovl # 0
    BY <2>1, <2>2 DEF Refusable, TooLong
  <2>4. ~ s[j].real
    BY <1>1, <2>1, <2>3 DEF Counted, OverlapFirst
  <2> QED BY <2>1, <2>4 DEF Plain
<1> QED BY <1>3, <1>10, <1>13, <1>14 DEF t, id

(* ... and where disorder counts down. *)
LEMMA DisorderIds ==
  ASSUME req \in Request, i \in Packets, PosFits, ~ req.ip6, CountsIds, SecondStage # <<>>,
         StageMode = "multidisorder", ctid \in 0..IdMod - 1, ip_id \in 0..IdMod - 1, StageId \in Ids,
         NEW n, n = Len(pos.cuts) + 1, StageId + n < IdMod, PLen <= BufMax
  PROVE  /\ NextId = After(StageId, n) /\ Spread(SecondWithIds, StageId, n)
         /\ RefusedFirst(SecondWithIds)
<1> DEFINE s == SecondStage
           t == SecondWithIds
           id == StageId
           last == LastDisorderId
<1>1. s = Multidisorder
  <2>1. ~ FinalHeader
    BY DEF FinalHeader
  <2> QED BY <2>1, Zenon DEF SecondStage
<1>2. /\ DOMAIN s = 1..n
      /\ \A k \in 1..n : s[k].frag = 0 /\ (s[k].ovl # 0 => s[k].ovl < s[k].from)
  BY <1>1, MultidisorderFits
<1>3. s \in Seq(Proper)
  BY SecondStageMakes
<1>4. n \in Nat \ {0} /\ Len(pos.cuts) = n - 1 /\ n - 1 \in Nat
  BY CutCount
<1>5. t = [k \in DOMAIN s |-> [s[k] EXCEPT !.id = IdSteps(last, -1, k - 1)]]
      /\ NextId = IP4_IP_ID_ADD(last, 1)
  BY Zenon DEF SecondWithIds, NextId
<1>6. last = id + (n - 1) /\ last \in Ids /\ id \in Ids
  <2>1. id + (n - 1) \in Ids /\ n - 1 \in Int /\ id \in Ids
    BY <1>4, IdModFacts DEF Ids
  <2>2. last = IP4_IP_ID_ADD(id, n - 1)
    BY <1>4 DEF LastDisorderId
  <2> HIDE DEF id, last
  <2> QED BY <2>1, <2>2, NoWrap
<1>7. id + n < IdMod
  OBVIOUS
<1> HIDE DEF s, t, id, last
<1>8. NextId = After(id, n)
  <2>1. IP4_IP_ID_ADD(last, 1) = After(last, 1)
    BY <1>6, OneStep
  <2>2. After(last, 1) = After(id, n)
    BY <1>4, <1>6, <1>7, IdModFacts DEF After, Ids
  <2> QED BY <1>5, <2>1, <2>2
<1>9. DOMAIN t = DOMAIN s /\ \A k \in DOMAIN s : t[k] = [s[k] EXCEPT !.id = IdSteps(last, -1, k - 1)]
  BY <1>5
<1>9a. ASSUME NEW k \in DOMAIN s
       PROVE  /\ t[k].real = s[k].real /\ t[k].frag = s[k].frag /\ t[k].from = s[k].from
              /\ t[k].to = s[k].to /\ t[k].ovl = s[k].ovl /\ t[k].id = IdSteps(last, -1, k - 1)
  <2> DEFINE p == s[k]
             q == t[k]
             x == IdSteps(last, -1, k - 1)
  <2>1. p \in Proper /\ q = [p EXCEPT !.id = x]
    BY <1>3, <1>9
  <2> HIDE DEF p, q, x
  <2>2. q.real = p.real /\ q.frag = p.frag /\ q.from = p.from /\ q.to = p.to /\ q.ovl = p.ovl /\ q.id = x
    BY <2>1, IdAdded
  <2> QED BY <2>2 DEF p, q, x
<1>10. SameButId(t, s)
  BY <1>9, <1>9a DEF SameButId
<1>11. ASSUME NEW k \in 1..n PROVE t[k].id = id + (n - k) /\ t[k].id = After(id, n - k) /\ n - k \in 0..n - 1
  <2>1. k - 1 \in Nat /\ k - 1 < last
    BY <1>4, <1>6, IdModFacts DEF Ids
  <2>2. IdSteps(last, -1, k - 1) = last - (k - 1)
    BY <1>6, <2>1, StepsDown
  <2>3. t[k].id = last - (k - 1)
    BY <2>2, <1>2, <1>9a, <1>10
  <2>4. last - (k - 1) = id + (n - k) /\ id + (n - k) < IdMod
    BY <1>4, <1>6, <1>7, IdModFacts DEF Ids
  <2>5. n - k \in 0..n - 1
    BY <1>4
  <2> QED BY <2>3, <2>4, <2>5 DEF After
<1>12. DOMAIN t = 1..n
  BY <1>2, <1>10 DEF SameButId
<1>13. Spread(t, id, n)
  <2>1. ASSUME NEW j \in 1..n, NEW k \in 1..n, t[j].id = t[k].id PROVE j = k
    BY <2>1, <1>4, <1>6, <1>11, IdModFacts DEF Ids
  <2>2. \A k \in 1..n : \E x \in 0..n - 1 : t[k].id = After(id, x)
    BY <1>11
  <2> QED BY <1>12, <2>1, <2>2 DEF Spread
<1>14. RefusedFirst(t)
  <2> SUFFICES ASSUME NEW k \in DOMAIN t PROVE ~ Refusable(t[k])
    BY DEF RefusedFirst
  <2> DEFINE p == s[k]
  <2>1. /\ p \in Proper /\ t[k].frag = p.frag /\ t[k].ovl = p.ovl /\ t[k].from = p.from /\ t[k].to = p.to
        /\ p.frag = 0 /\ (p.ovl # 0 => p.ovl < p.from)
    BY <1>2, <1>3, <1>10, <1>12 DEF SameButId
  <2>2. p.from \in Nat /\ p.to \in Nat /\ p.ovl \in Nat /\ (p.real => p.to <= PLen) /\ (~ p.real => p.ovl = 0)
    BY <2>1, ProperFields
  <2> HIDE DEF p
  <2>3. PLen \in Nat /\ BufMax \in Nat
    BY PacketFacts, ConstAssumption
  <2>4. ~ (p.ovl # 0 /\ p.to - p.from + p.ovl > BufMax)
    BY <2>1, <2>2, <2>3
  <2> QED BY <2>1, <2>4 DEF Refusable, TooLong
<1> QED BY <1>8, <1>13, <1>14 DEF t, id

(* There are no more cuts than positions asked for. *)
LEMMA CutsFew ==
  ASSUME dp \in Profile, req \in Request, i \in Packets
  PROVE  Len(MultisplitPos) <= Len(dp.splits) /\ Len(dp.splits) \in Nat
<1> DEFINE f(k) == pos_normalize(ResolvePos(dp.splits[k]))
           S == {f(k) : k \in DOMAIN dp.splits} \ {0}
           c == InOrder(S, PLen)
           m == Len(c)
           n == Len(dp.splits)
<1>1. n \in Nat /\ DOMAIN dp.splits = 1..n
  BY ProfileFacts
<1>2. PLen \in Nat
  BY PacketFacts
<1>3. ASSUME NEW k \in DOMAIN dp.splits PROVE f(k) \in 0..PLen - 1
  <2>1. dp.splits[k] \in Pos
    BY ProfileFacts
  <2>2. ResolvePos(dp.splits[k]) \in Int
    BY <2>1, Resolved
  <2> QED BY <2>2, Normalized
<1> HIDE DEF f
<1>4. \A x \in S : x \in 1..PLen /\ x \in Int
  BY <1>2, <1>3
<1>5. MultisplitPos = c
  BY DEF MultisplitPos, f
<1> HIDE DEF n
<1>6. \A x \in S : \E k \in 1..n : f(k) = x
  BY <1>1
<1> HIDE DEF S
<1>7. S \in SUBSET (1..PLen)
  BY <1>4
<1>8. c \in Seq(S) /\ \A j, k \in DOMAIN c : j < k => c[j] < c[k]
  BY <1>2, <1>7, InOrderType
<1> HIDE DEF c
<1>9. m \in Nat /\ DOMAIN c = 1..m /\ \A j \in 1..m : c[j] \in S
  BY <1>8
<1> HIDE DEF m
<1> DEFINE g == [j \in 1..m |-> CHOOSE k \in 1..n : f(k) = c[j]]
<1>10. \A j \in 1..m : g[j] \in 1..n /\ f(g[j]) = c[j]
  BY <1>6, <1>9
<1> HIDE DEF g
<1>11. ASSUME NEW j \in 1..m, NEW k \in 1..m, j # k PROVE g[j] # g[k]
  <2>1. c[j] # c[k]
    <3>1. c[j] \in Int /\ c[k] \in Int
      BY <1>4, <1>9
    <3>2. j < k \/ k < j
      BY <1>9, <1>11
    <3> QED BY <3>1, <3>2, <1>8, <1>9
  <2> QED BY <2>1, <1>10
<1>12. m <= n
  <2> SUFFICES ASSUME n < m PROVE FALSE
    BY <1>1, <1>9 DEF n
  <2>1. IsFiniteSet(1..m) /\ IsFiniteSet(1..n)
    BY <1>1, <1>9, 1 \in Int, FS_Interval DEF n
  <2>2. Cardinality(1..m) = m /\ Cardinality(1..n) = n
    <3>1. n \in Int /\ m \in Int /\ 1 \in Int
      BY <1>1, <1>9 DEF n
    <3>2. /\ Cardinality(1..m) = IF 1 > m THEN 0 ELSE m-1+1
          /\ Cardinality(1..n) = IF 1 > n THEN 0 ELSE n-1+1
      BY <3>1, FS_Interval
    <3> QED BY <3>2, <1>1, <1>9 DEF n
  <2> DEFINE h == [j \in 1..m |-> g[j]]
  <2>3. h \in [1..m -> 1..n]
    BY <1>10
  <2>4. \A j \in 1..m : h[j] = g[j]
    OBVIOUS
  <2> HIDE DEF h
  <2>5. \E j, k \in 1..m : j # k /\ h[j] = h[k]
    BY <2>1, <2>2, <2>3, FS_PigeonHole
  <2> QED BY <2>4, <2>5, <1>11
<1> QED BY <1>1, <1>5, <1>12 DEF m, n

(* Any number of steps up stays in the circle. *)
LEMMA StepsStay ==
  ASSUME CountsIds, NEW id \in Ids, NEW n \in Nat
  PROVE  IdSteps(id, 1, n) \in Ids
<1> DEFINE S == Ids
           F == [x \in S |-> IP4_IP_ID_ADD(x, 1)]
<1>1. ASSUME NEW x \in Ids PROVE IP4_IP_ID_ADD(x, 1) \in Ids
  <2>1. After(x, 1) \in Ids
    BY IdModFacts DEF After, Ids
  <2> QED BY <2>1, OneStep
<1>2. F \in [S -> S]
  BY <1>1
<1>3. PICK f \in [0..n -> S] : f[0] = id /\ \A k \in 1..n : f[k] = F[f[k - 1]]
  <2> HIDE DEF F, S
  <2>1. id \in S
    BY DEF S
  <2>2. Iterated(S, F, id, n)
    BY <1>2, <2>1, Iterates
  <2> QED BY <2>2, Zenon DEF Iterated
<1>4. ASSUME NEW k \in 1..n PROVE f[k] = IP4_IP_ID_ADD(f[k - 1], 1)
  <2>1. f[k - 1] \in S
    OBVIOUS
  <2> QED BY <2>1, <1>3
<1>5. f \in [0..n -> 0..IdMod - 1] /\ id \in 0..IdMod - 1 /\ f[n] \in Ids /\ f[0] = id
  <2>1. Ids \subseteq 0..IdMod - 1 /\ n \in 0..n
    BY IdModFacts DEF Ids
  <2> QED BY <1>3, <2>1
<1> HIDE DEF F, S
<1>6. ASSUME NEW inc \in Int, inc = 1 PROVE IdSteps(id, inc, n) = f[n]
  <2>1. \A k \in 1..n : f[k] = IP4_IP_ID_ADD(f[k - 1], inc)
    BY <1>4, <1>6
  <2> QED BY <1>5, <2>1, StepsAre
<1> QED BY <1>5, <1>6

(* The stage that is on its way stays what it is. *)
LEMMA SameStage ==
  ASSUME dp' = dp, req' = req, i' = i, pos' = pos, ctid' = ctid, ip_id' = ip_id
  PROVE  SecondStage' = SecondStage /\ NextId' = NextId
<1>1. PLen' = PLen /\ ReasmOffset' = ReasmOffset /\ Replay' = Replay /\ StageMode' = StageMode
      /\ StageId' = StageId /\ (FinalHeader' <=> FinalHeader)
  BY DEF PLen, ReasmOffset, Replay, StageMode, StageId, FinalHeader, Offset
<1>2. Whole' = Whole
  BY <1>1 DEF Whole
<1>3. Multisplit' = Multisplit
  BY <1>1, Zenon DEF Multisplit
<1>4. Multidisorder' = Multidisorder
  BY <1>1, Zenon DEF Multidisorder
<1>5. Fakedsplit' = Fakedsplit
  BY <1>1, Zenon DEF Fakedsplit
<1>6. Fakeddisorder' = Fakeddisorder
  BY <1>1, Zenon DEF Fakeddisorder
<1>7. Hostfakesplit' = Hostfakesplit
  BY <1>1, Zenon DEF Hostfakesplit
<1>8. Ipfrag2' = Ipfrag2
  BY <1>1, <1>2, Zenon DEF Ipfrag2
<1>9. SecondStage' = SecondStage
  BY <1>1, <1>2, <1>3, <1>4, <1>5, <1>6, <1>7, <1>8, Zenon DEF SecondStage
<1>10. LastNumber' = LastNumber
  BY <1>9, Zenon DEF LastNumber, Number
<1>11. LastDisorderId' = LastDisorderId
  BY <1>1, Zenon DEF LastDisorderId, IP4_IP_ID_ADD
<1>12. IP4_IP_ID_ADD(LastDisorderId, 1)' = IP4_IP_ID_ADD(LastDisorderId, 1)
  BY <1>11, Zenon DEF IP4_IP_ID_ADD
<1>13. IdSteps(StageId, 1, LastNumber + 1)' = IdSteps(StageId, 1, LastNumber + 1)
  <2>1. ASSUME NEW x PROVE IP4_IP_ID_ADD(x, 1)' = IP4_IP_ID_ADD(x, 1)
    BY Zenon DEF IP4_IP_ID_ADD
  <2>2. ASSUME NEW x, NEW n PROVE IdSteps(x, 1, n)' = IdSteps(x, 1, n)
    BY <2>1, Zenon DEF IdSteps
  <2>3. (LastNumber + 1)' = LastNumber + 1
    BY <1>10
  <2> QED BY <1>1, <2>2, <2>3, Zenon
<1>14. NextId' = NextId
  BY <1>1, <1>12, <1>13 DEF NextId
<1> QED BY <1>9, <1>14

------------------------------------------------------------------------------
(* The ids that are promised to differ. *)

(* A part that leaves under an id of its own, a segment that did, *)
IdCounts(p) == Plain(p) /\ i # 0 /\ (stage = "desync" \/ p.id # req.ids[i])
IdLeft(s) == Plain(s) /\ ~ s.syn /\ s.part
(* ... the places and the ids of those that did and of those that are to. *)
WireIds == {<<wire[k].from, wire[k].id>> : k \in {j \in DOMAIN wire : IdLeft(wire[j])}}
DueIds == {<<Base(i) + todo[k].from, todo[k].id>> : k \in {j \in DOMAIN todo : IdCounts(todo[j])}}
AllIds == WireIds \cup DueIds

(* One id, one place. *)
Apart(S) == \A a, b \in S : a[2] = b[2] => a[1] = b[1]
(* These ids lie up to n steps behind the one ahead. *)
Trails(S, ahead, n) == \A a \in S : ahead \in Ids /\ a[2] \in Ids /\ Dist(a[2], ahead) \in 1..n

(* A packet uses up no more ids than its share. *)
Share == PartsOf(dp)
(* The packet at hand has parts, and ids were taken for them. *)
Taken == stage = "desync" /\ i # 0 /\ SecondStage # <<>>
Ahead == IF Taken THEN NextId ELSE ctid
Used == IF stage \in {"new", "fakes"} \/ (stage = "desync" /\ ~ Taken)
        THEN Share * (i - 1) ELSE Share * i

(* The promise holds at all. *)
Good == CountsIds /\ ~ req.ip6 /\ fails = 0 /\ IdsFit(dp, req)

ApartOK == Apart(AllIds)
TrailOK == i <= Len(req.lens) => Trails(AllIds, Ahead, Used)
(* A part that may be refused leaves before any that counts. *)
RefusedOK ==
  stage = "desync" /\ i # 0 =>
    \A k \in DOMAIN todo : Refusable(todo[k]) =>
      /\ \A j \in DOMAIN todo : j < k => ~ IdCounts(todo[j])
      /\ Trails(WireIds, ctid, Share * (i - 1))
StageOK == stage \in {"fakes", "desync"} /\ i # 0 => ip_id \in Ids /\ Len(pos.cuts) <= Len(dp.splits)
NoneOK == stage = "fakes" => DueIds = {}
(* Where disorder counts down, n packets have room above id. *)
Room(id, n) == LastMode(dp) = "multidisorder" /\ id # 0 => id + Share * n < IdMod
RoomOK ==
  /\ i = 0 \/ (i = 1 /\ stage = "new") => ctid = req.ctid
  /\ i \in Packets => Room(ctid, Len(req.lens) - i)
  /\ i \in Packets /\ stage \in {"new", "fakes", "desync"} => Room(ctid, Len(req.lens) - i + 1)
  /\ i \in Packets /\ stage \in {"fakes", "desync"} => Room(ip_id, Len(req.lens) - i + 1)
IdsOK == ApartOK /\ TrailOK /\ RefusedOK /\ StageOK /\ NoneOK /\ RoomOK

(* Shares add up. *)
LEMMA ShareFacts ==
  ASSUME dp \in Profile
  PROVE  /\ Share \in Nat \ {0}
         /\ \A n \in Int : Share * n \in Int /\ Share * (n + 1) = Share * n + Share
         /\ \A m, n \in Int : m <= n => Share * m <= Share * n
         /\ \A n \in Int : n <= 0 => Share * n <= 0
<1>1. Len(dp.splits) \in Nat
  BY ProfileFacts
<1>2. Share \in Nat \ {0}
  BY <1>1 DEF Share, PartsOf
<1> DEFINE s == Share
<1>3. s \in Nat \ {0}
  BY <1>2
<1> HIDE DEF s
<1>4. \A n \in Int : s * n \in Int /\ s * (n + 1) = s * n + s
  BY <1>3
<1>5. \A m, n \in Int : m <= n => s * m <= s * n
  <2> SUFFICES ASSUME NEW m \in Int, NEW n \in Int, m <= n PROVE s * m <= s * n
    OBVIOUS
  <2>1. s * n = s * m + s * (n - m) /\ n - m \in Nat
    BY <1>3
  <2>2. s * (n - m) >= 0
    BY <1>3, <2>1
  <2> QED BY <1>3, <2>1, <2>2
<1>6. \A n \in Int : n <= 0 => s * n <= 0
  <2>1. s * 0 = 0
    BY <1>3
  <2> QED BY <2>1, <1>5
<1> QED BY <1>3, <1>4, <1>5, <1>6 DEF s

(* What IdsFit says of the packets. *)
LEMMA GoodFacts ==
  ASSUME DataOK, Good
  PROVE  /\ dp \in Profile /\ req \in Request /\ CountsIds /\ ~ req.ip6 /\ ~ FinalHeader
         /\ \A k \in Packets : OwnId(req, k) \in Ids
         /\ Share * Len(req.lens) < IdMod - 1
         /\ LastMode(dp) = StageMode
<1>1. dp \in Profile /\ req \in Request /\ CountsIds /\ ~ req.ip6 /\ IdsFit(dp, req)
  BY DEF DataOK, Good
<1>2. ~ FinalHeader
  BY <1>1 DEF FinalHeader
<1>3. ASSUME NEW k \in Packets PROVE OwnId(req, k) \in Ids
  <2>1. k \in DOMAIN req.lens
    BY <1>1, RequestFacts DEF Packets
  <2>2. OwnId(req, k) # 0
    BY <1>1, <2>1 DEF IdsFit
  <2>3. OwnId(req, k) \in 0..IdMod - 1
    BY <1>1, OwnIdType
  <2> QED BY <2>2, <2>3, IdModFacts DEF Ids
<1>4. Share * Len(req.lens) < IdMod - 1
  BY <1>1 DEF IdsFit, Share
<1> QED BY <1>1, <1>2, <1>3, <1>4 DEF LastMode, StageMode

(* The promise is not made again once it ended. *)
LEMMA GoodBefore ==
  ASSUME DataOK, dp' = dp, req' = req, fails' = fails \/ fails' = fails + 1, Good'
  PROVE  Good /\ fails' = fails /\ Share' = Share
<1>1. fails \in Nat
  BY DataFacts
<1>2. fails = 0 /\ fails' = fails
  BY <1>1 DEF Good
<1> QED BY <1>2 DEF Good, CountsIds, Share

(* What trails one id by few steps trails it by more. *)
LEMMA TrailsFewer ==
  ASSUME NEW S, NEW T, T \subseteq S, NEW a, NEW m \in Int, NEW n \in Int, m <= n, Trails(S, a, m)
  PROVE  Trails(T, a, n)
BY DEF Trails

(* Nothing trails by no step. *)
LEMMA TrailsNone ==
  ASSUME NEW S, NEW a, NEW n \in Int, n <= 0, Trails(S, a, n)
  PROVE  S = {}
BY DEF Trails

(* Ids that left stay when nothing leaves. *)
LEMMA WireIdsStay == wire' = wire => WireIds' = WireIds
BY DEF WireIds, IdLeft

(* Nothing is due when no part counts. *)
LEMMA NoIdDue ==
  /\ (\A k \in DOMAIN todo : ~ IdCounts(todo[k])) => DueIds = {}
  /\ (\A k \in DOMAIN todo' : ~ IdCounts(todo[k])') => DueIds' = {}
  /\ i = 0 \/ todo = <<>> => DueIds = {}
  /\ i' = 0 \/ todo' = <<>> => DueIds' = {}
<1>1. (\A k \in DOMAIN todo : ~ IdCounts(todo[k])) => DueIds = {}
  BY DEF DueIds
<1>2. (\A k \in DOMAIN todo' : ~ IdCounts(todo[k])') => DueIds' = {}
  BY DEF DueIds
<1>3. i = 0 \/ todo = <<>> => \A k \in DOMAIN todo : ~ IdCounts(todo[k])
  BY DEF IdCounts
<1>4. i' = 0 \/ todo' = <<>> => \A k \in DOMAIN todo' : ~ IdCounts(todo[k])'
  BY DEF IdCounts
<1> QED BY <1>1, <1>2, <1>3, <1>4

(* How far the ids in use may reach. *)
LEMMA UsedType ==
  ASSUME DataOK
  PROVE  Used \in Int /\ (i <= 0 => Used <= 0)
<1>1. dp \in Profile /\ i \in Int
  BY DataFacts
<1> DEFINE h == i - 1
<1>3. h \in Int /\ (i <= 0 => h <= 0)
  BY <1>1
<1> HIDE DEF h
<1>4. Share * h \in Int /\ (i <= 0 => Share * h <= 0)
  BY <1>1, <1>3, ShareFacts
<1>2. Share * i \in Int /\ Share * (i - 1) \in Int /\ (i <= 0 => Share * i <= 0 /\ Share * (i - 1) <= 0)
  BY <1>1, <1>4, ShareFacts DEF h
<1> QED BY <1>2 DEF Used

(* Fewer ids, as far behind the same one. *)
LEMMA FewerIds ==
  ASSUME IdsOK, AllIds' \subseteq AllIds, Used \in Int, Used' \in Int,
         i' <= Len(req'.lens) => i <= Len(req.lens) /\ Ahead' = Ahead /\ Used <= Used'
  PROVE  ApartOK' /\ TrailOK'
<1>1. Apart(AllIds) /\ (i <= Len(req.lens) => Trails(AllIds, Ahead, Used))
  BY DEF IdsOK, ApartOK, TrailOK
<1> DEFINE S == AllIds
           T == AllIds'
           u == Used
           v == Used'
           a == Ahead
           b == Ahead'
<1>2. T \subseteq S /\ u \in Int /\ v \in Int /\ (i' <= Len(req'.lens) => i <= Len(req.lens) /\ b = a /\ u <= v)
  OBVIOUS
<1>3. Apart(S) /\ (i <= Len(req.lens) => Trails(S, a, u))
  BY <1>1
<1> HIDE DEF S, T, u, v, a, b
<1>4. Apart(T)
  BY <1>2, <1>3 DEF Apart
<1>5. i' <= Len(req'.lens) => Trails(T, b, v)
  BY <1>2, <1>3, TrailsFewer
<1> QED BY <1>4, <1>5 DEF T, b, v, ApartOK, TrailOK

(* The SYN has no ids. *)
LEMMA ResolveSynIds ==
  ASSUME IInv, IdsOK, Good, Good', Resolve, i = 0
  PROVE  IdsOK'
<1>1. /\ stage = "new" /\ i' = i /\ stage' = "desync" /\ ctid' = ctid /\ wire' = wire
      /\ dp' = dp /\ req' = req
  BY DEF Resolve
<1>2. DataOK /\ todo = <<>>
  BY <1>1 DEF IInv, DataOK
<1>3. AllIds' = AllIds
  BY <1>1, WireIdsStay, NoIdDue DEF AllIds
<1>4. ~ Taken /\ ~ Taken' /\ Ahead' = Ahead
  BY <1>1 DEF Taken, Ahead
<1>5. Used \in Int /\ Used' = Used
  <2>1. Share' = Share
    BY <1>1 DEF Share
  <2> QED BY <1>1, <1>2, <1>4, <2>1, UsedType DEF Used
<1>6. ApartOK' /\ TrailOK'
  BY <1>1, <1>3, <1>4, <1>5, FewerIds
<1>7. RefusedOK' /\ StageOK' /\ NoneOK'
  BY <1>1 DEF RefusedOK, StageOK, NoneOK
<1>8. RoomOK'
  BY <1>1 DEF IdsOK, RoomOK, Packets
<1> QED BY <1>6, <1>7, <1>8 DEF IdsOK

(* The first stage is not longer than that. *)
LEMMA FirstStageShort ==
  ASSUME dp \in Profile
  PROVE  /\ Len(FirstStage) \in Nat /\ Len(FirstStage) <= FakesOf(dp) /\ FakesOf(dp) \in Nat
         /\ ReasmOffset # 0 => Len(FirstStage) = 0
<1>1. dp.fakes \in Seq(Nat) /\ Len(dp.fakes) \in Nat
  BY ProfileFacts
<1>2. FirstStage \in Seq(Proper)
  BY FirstStageShape
<1>3. FakesOf(dp) \in Nat
  BY <1>1 DEF FakesOf
<1>4. CASE FirstStage = <<>>
  BY <1>3, <1>4
<1>5. CASE dp.mode = "rst" /\ FirstStage = <<Part(FALSE, 0, 0, 0, 0, 0)>> /\ ReasmOffset = 0
  <2>1. FakesOf(dp) = 1
    BY <1>5 DEF FakesOf
  <2>2. Len(FirstStage) = 1
    BY <1>5
  <2> QED BY <2>1, <2>2, <1>5
<1>6. CASE (dp.mode = "fake" \/ (dp.mode = "fakeknown" /\ req.l7 # "unknown")) /\ ReasmOffset = 0
  <2>1. FakesOf(dp) = Len(dp.fakes)
    BY <1>6 DEF FakesOf
  <2> DEFINE fk == dp.fakes
             p(k) == LET at == IF dp.tcpseq THEN Offsets(fk)[k] ELSE 0
                     IN  Part(FALSE, at, at + fk[k], 0, k - 1, k - 1)
  <2>2. FirstStage = [k \in DOMAIN fk |-> p(k)]
    BY <1>6, Zenon DEF FirstStage
  <2> HIDE DEF p
  <2>3. DOMAIN FirstStage = DOMAIN fk
    BY <2>2
  <2>4. DOMAIN FirstStage = 1..Len(FirstStage) /\ DOMAIN fk = 1..Len(fk) /\ Len(FirstStage) \in Nat
    BY <1>1, <1>2
  <2> DEFINE m == Len(FirstStage)
             n == Len(fk)
  <2>5. m \in Nat /\ n \in Nat /\ 1..m = 1..n
    BY <2>3, <2>4, <1>1
  <2> HIDE DEF m, n, fk
  <2>6. m = n
    BY <2>5
  <2> QED BY <2>1, <2>6, <1>1, <1>6 DEF m, n, fk
<1>7. \/ FirstStage = <<>>
      \/ dp.mode = "rst" /\ FirstStage = <<Part(FALSE, 0, 0, 0, 0, 0)>> /\ ReasmOffset = 0
      \/ (dp.mode = "fake" \/ (dp.mode = "fakeknown" /\ req.l7 # "unknown")) /\ ReasmOffset = 0
  BY Zenon DEF FirstStage
<1> QED BY <1>4, <1>5, <1>6, <1>7

(* The positions of a packet are resolved: its ids begin where those before end. *)
LEMMA ResolvePacketIds ==
  ASSUME IInv, IdsOK, Good, Good', Resolve, i # 0
  PROVE  IdsOK'
<1> DEFINE at == [cuts |-> MultisplitPos, split |-> SplitPos, host |-> HostPos, ovl |-> SeqovlPos]
           n == Len(req.lens)
           m == Len(FirstStage)
<1>1. /\ stage = "new" /\ stage' = "fakes" /\ pos' = at /\ i <= n
      /\ todo' = Ascending(FirstStage, FirstId) /\ ip_id' = IdSteps(FirstId, 1, m)
      /\ dp' = dp /\ req' = req /\ i' = i /\ ctid' = ctid /\ wire' = wire
  BY Zenon DEF Resolve
<1>2. DataOK /\ todo = <<>>
  BY <1>1 DEF IInv, DataOK
<1>3. dp \in Profile /\ req \in Request /\ i \in Packets /\ i \in Nat /\ n \in Nat /\ ctid \in 0..IdMod - 1
  <2>1. n \in Nat /\ i \in Nat /\ dp \in Profile /\ req \in Request /\ ctid \in 0..IdMod - 1
    BY <1>2, DataFacts
  <2> QED BY <2>1, <1>1 DEF Packets
<1> HIDE DEF n
<1>4. m \in Nat /\ m <= FakesOf(dp) /\ FakesOf(dp) \in Nat /\ (ReasmOffset # 0 => m = 0)
  BY <1>3, FirstStageShort
<1> HIDE DEF m
<1>5. FirstId \in Ids /\ FirstId \in {ctid, OwnId(req, i)}
  <2>1. OwnId(req, i) \in Ids /\ CountsIds /\ ~ req.ip6 /\ i # 0
    BY <1>2, <1>3, GoodFacts
  <2>2. FirstId = IF Replay /\ ctid # 0 THEN ctid ELSE OwnId(req, i)
    BY <2>1 DEF FirstId, IP4_IP_ID_FIX, CountsIds
  <2> QED BY <1>3, <2>1, <2>2, IdModFacts DEF Ids
<1>6. ip_id' \in Ids
  <2>1. CountsIds
    BY <1>2, GoodFacts
  <2> QED BY <1>1, <1>4, <1>5, <2>1, StepsStay
<1>7. DueIds' = {}
  <2>1. FirstStage \in Seq(Proper) /\ Genuine(FirstStage) = {} /\ FirstId \in 0..IdMod - 1
    BY <1>3, <1>5, FirstStageShape, IdModFacts DEF Ids
  <2>2. Genuine(todo') = {}
    BY <1>1, <2>1, AscendingShape
  <2>3. \A k \in DOMAIN todo' : ~ todo'[k].real
    BY <2>2 DEF Genuine
  <2>4. \A k \in DOMAIN todo' : ~ IdCounts(todo[k])'
    BY <2>3 DEF IdCounts, Plain
  <2> QED BY <2>4, NoIdDue
<1>8. AllIds' \subseteq AllIds /\ ~ Taken /\ ~ Taken' /\ Ahead' = Ahead
  BY <1>1, <1>7, WireIdsStay DEF AllIds, Taken, Ahead
<1>9. Used \in Int /\ Used' = Used
  <2>1. Share' = Share
    BY <1>1 DEF Share
  <2> QED BY <1>1, <1>2, <1>8, <2>1, UsedType DEF Used
<1>10. ApartOK' /\ TrailOK'
  BY <1>1, <1>8, <1>9, FewerIds DEF n
<1>11. RefusedOK' /\ NoneOK'
  BY <1>1, <1>7 DEF RefusedOK, NoneOK
<1>12. StageOK'
  <2>1. pos'.cuts = MultisplitPos
    BY <1>1
  <2> QED BY <1>1, <1>3, <1>6, <2>1, CutsFew DEF StageOK
<1>13. ASSUME LastMode(dp) = "multidisorder" PROVE ip_id' + Share * (n - i + 1) < IdMod
  <2>1. Share * (n - i + 1) \in Int
    <3>1. n - i + 1 \in Int
      BY <1>3
    <3> QED BY <1>3, <3>1, ShareFacts
  <2> DEFINE u == Share * (n - i + 1)
  <2>2. FirstId + m + u < IdMod
    <3>1. CASE i = 1
      <4>1. FirstId \in {req.ctid} \cup {OwnId(req, k) : k \in DOMAIN req.lens}
        <5>1. ctid = req.ctid
          BY <3>1, <1>1 DEF IdsOK, RoomOK
        <5>2. OwnId(req, i) \in {OwnId(req, k) : k \in DOMAIN req.lens}
          <6>1. i \in DOMAIN req.lens
            BY <1>3, RequestFacts DEF Packets
          <6> QED BY <6>1
        <5> QED BY <5>1, <5>2, <1>5
      <4>2. FirstId + FakesOf(dp) + PartsOf(dp) * n < IdMod
        BY <4>1, <1>13 DEF Good, IdsFit, n
      <4>3. u = PartsOf(dp) * n
        <5>1. n - i + 1 = n
          BY <3>1, <1>3
        <5> QED BY <5>1 DEF Share
      <4> HIDE DEF u
      <4> QED BY <4>2, <4>3, <1>4, <1>5, <2>1, IdModFacts DEF Ids, u
    <3>2. CASE i # 1
      <4>1. m = 0
        <5>1. ReasmOffset = Offset(i) /\ 1 \in Packets /\ i > 1
          BY <1>3, <3>2, PacketFacts, RequestFacts DEF Packets
        <5>2. Offset(1) = 0 /\ Offset(2) = Offset(1) + req.lens[1] /\ req.lens[1] \in Nat \ {0}
          BY <1>3, <5>1, OffsetFacts
        <5>3. 2 \in 1..Len(req.lens) + 1 /\ i \in 1..Len(req.lens) + 1 /\ 2 <= i
          BY <1>3, <5>1, RequestFacts DEF Packets
        <5>4. Offset(2) <= Offset(i) /\ Offset(i) \in Nat
          BY <1>3, <5>3, OffsetFacts
        <5> QED BY <1>4, <5>1, <5>2, <5>4
      <4>2. CASE FirstId = ctid
        <5>1. ctid # 0
          BY <4>2, <1>5 DEF Ids
        <5>2. Room(ctid, n - i + 1)
          BY <1>1, <1>3 DEF IdsOK, RoomOK, n
        <5>3. ctid + u < IdMod
          BY <5>1, <5>2, <1>13 DEF Room
        <5> QED BY <4>1, <4>2, <5>3, <1>3
      <4>3. CASE FirstId = OwnId(req, i)
        <5>1. OwnId(req, i) \in {OwnId(req, k) : k \in DOMAIN req.lens}
          <6>1. i \in DOMAIN req.lens
            BY <1>3, RequestFacts DEF Packets
          <6> QED BY <6>1
        <5>2. FirstId + FakesOf(dp) + PartsOf(dp) * n < IdMod
          BY <5>1, <4>3, <1>13 DEF Good, IdsFit, n
        <5>3. u <= Share * n /\ Share * n \in Int /\ Share * n = PartsOf(dp) * n
          <6>1. n - i + 1 \in Int /\ n \in Int /\ n - i + 1 <= n
            BY <1>3, RequestFacts DEF Packets
          <6> QED BY <6>1, <1>3, ShareFacts DEF Share
        <5> HIDE DEF u
        <5> QED BY <5>2, <5>3, <4>1, <1>4, <1>5, <2>1, IdModFacts DEF Ids, u
      <4> QED BY <4>2, <4>3, <1>5
    <3> QED BY <3>1, <3>2
  <2>3. ip_id' = FirstId + m
    <3>1. FirstId + m < IdMod
      <4>1. u >= 0
        <5>1. Share \in Nat /\ n - i + 1 \in Nat
          BY <1>1, <1>3, ShareFacts
        <5> QED BY <5>1
      <4> HIDE DEF u
      <4> QED BY <2>1, <2>2, <4>1, <1>4, <1>5, IdModFacts DEF Ids, u
    <3>2. m < IdMod
      BY <3>1, <1>4, <1>5, IdModFacts DEF Ids
    <3>3. CountsIds
      BY <1>2, GoodFacts
    <3>4. IdSteps(FirstId, 1, m) = After(FirstId, m)
      BY <1>4, <1>5, <3>2, <3>3, StepsUp
    <3> QED BY <3>1, <3>4, <1>1 DEF After
  <2> QED BY <2>2, <2>3
<1>14. RoomOK'
  <2>1. n' = n /\ Packets' = Packets /\ Share' = Share
    BY <1>1 DEF n, Packets, Share
  <2>2. Room(ctid, n - i) /\ Room(ctid, n - i + 1)
    BY <1>1, <1>3 DEF IdsOK, RoomOK, n
  <2>3. (LastMode(dp) = "multidisorder" => ctid + Share * (n - i) < IdMod \/ ctid = 0)
        /\ (LastMode(dp) = "multidisorder" => ctid + Share * (n - i + 1) < IdMod \/ ctid = 0)
    BY <2>2 DEF Room
  <2>4. i' # 0 /\ ~ (i' = 1 /\ stage' = "new")
    BY <1>1
  <2> QED BY <1>1, <1>13, <2>1, <2>3, <2>4 DEF RoomOK, Room, n
<1> QED BY <1>10, <1>11, <1>12, <1>14 DEF IdsOK

(* The second stage spreads over the packet's share of ids, from StageId on. *)
LEMMA StageIds ==
  ASSUME DataOK, PosFits, Good, StageOK, RoomOK, stage \in {"fakes", "desync"}, i \in Packets,
         SecondStage # <<>>, StageMode # "ipfrag2"
  PROVE  \E n \in 1..Share : /\ NextId = After(StageId, n) /\ StageId \in Ids
                             /\ Spread(SecondWithIds, StageId, n) /\ RefusedFirst(SecondWithIds)
                             /\ StageMode = "multidisorder" => StageId + n < IdMod
<1> DEFINE m == Len(req.lens)
<1>1. /\ dp \in Profile /\ req \in Request /\ CountsIds /\ ~ req.ip6 /\ ~ FinalHeader
      /\ Share * m < IdMod - 1 /\ LastMode(dp) = StageMode
  BY GoodFacts
<1>2. ctid \in 0..IdMod - 1 /\ ip_id \in 0..IdMod - 1 /\ i # 0 /\ i \in 1..m /\ m \in Nat
  BY DataFacts, PacketFacts DEF Packets
<1>3. StageId \in Ids /\ (StageId = ip_id \/ (StageId = ctid /\ ctid # 0))
  <2>1. ip_id \in Ids
    BY <1>2 DEF StageOK
  <2>2. StageId = ip_id \/ (StageId = ctid /\ ctid # 0)
    BY DEF StageId
  <2> QED BY <1>2, <2>1, <2>2, IdModFacts DEF Ids
<1>4. Len(pos.cuts) <= Len(dp.splits) /\ Len(pos.cuts) \in Nat /\ Len(dp.splits) \in Nat
  BY <1>1, <1>2, ProfileFacts, CutCount DEF StageOK
<1>5. Share \in Nat \ {0} /\ Share < IdMod - 1 /\ Share * m \in Int
  <2>1. Share \in Nat \ {0}
    BY <1>1, ShareFacts
  <2> DEFINE one == 1
  <2>2. Share * one <= Share * m /\ Share * m \in Int
    <3>1. one \in Int /\ one <= m /\ m \in Int
      BY <1>2
    <3> HIDE DEF one, m
    <3> QED BY <3>1, <1>1, ShareFacts
  <2>3. Share * one = Share
    BY <2>1
  <2> QED BY <2>1, <2>2, <2>3, <1>1, IdModFacts
<1>6. CASE StageMode = "multidisorder"
  <2> DEFINE n == Len(pos.cuts) + 1
  <2>1. n \in 1..Share
    <3>1. Share = Len(dp.splits) + 1
      BY <1>1, <1>6 DEF Share, PartsOf
    <3> QED BY <3>1, <1>4
  <2>2. StageId + n < IdMod
    <3> DEFINE k == m - i + 1
    <3>1. Room(ctid, k) /\ Room(ip_id, k)
      BY DEF RoomOK
    <3>2. StageId + Share * k < IdMod
      BY <3>1, <1>1, <1>3, <1>6 DEF Room, Ids
    <3>3. Share * k >= Share /\ Share * k \in Int
      <4> DEFINE one == 1
      <4>1. one \in Int /\ k \in Int /\ one <= k
        BY <1>2
      <4> HIDE DEF one, k
      <4>2. Share * one <= Share * k /\ Share * k \in Int
        BY <4>1, <1>1, ShareFacts
      <4>3. Share * one = Share
        BY <1>5 DEF one
      <4> QED BY <4>2, <4>3
    <3> HIDE DEF k, n
    <3> QED BY <3>2, <3>3, <2>1, <1>3, <1>5, IdModFacts DEF Ids
  <2>3. PLen <= BufMax
    <3>1. \A k \in DOMAIN req.lens : req.lens[k] <= BufMax
      BY <1>1, <1>6 DEF Good, IdsFit
    <3>2. i \in DOMAIN req.lens /\ PLen = req.lens[i]
      BY <1>1, <1>2, RequestFacts, PacketFacts
    <3> QED BY <3>1, <3>2
  <2> HIDE DEF n
  <2>4. /\ NextId = After(StageId, n) /\ Spread(SecondWithIds, StageId, n)
        /\ RefusedFirst(SecondWithIds)
    BY <1>1, <1>2, <1>3, <1>6, <2>2, <2>3, DisorderIds DEF n
  <2> QED BY <2>1, <2>2, <2>4, <1>3
<1>7. CASE StageMode # "multidisorder"
  <2> DEFINE b == IF StageMode = "multisplit" THEN Len(pos.cuts) + 1 ELSE 6
  <2>1. b \in Nat /\ b <= Share
    <3>1. Share = IF StageMode = "multisplit" THEN Len(dp.splits) + 1 ELSE 6
      BY <1>1, <1>7 DEF Share, PartsOf
    <3> QED BY <3>1, <1>4
  <2>2. b < IdMod - 1
    BY <2>1, <1>5, IdModFacts
  <2>3. b = IF StageMode = "multisplit" THEN Len(pos.cuts) + 1 ELSE 6
    OBVIOUS
  <2> HIDE DEF b
  <2>4. /\ \E n \in 1..b : NextId = After(StageId, n) /\ Spread(SecondWithIds, StageId, n)
        /\ RefusedFirst(SecondWithIds)
    BY <1>1, <1>2, <1>3, <1>7, <2>1, <2>2, <2>3, NumberedIds
  <2>5. \A n \in 1..b : n \in 1..Share
    BY <2>1, <1>5
  <2> QED BY <2>4, <2>5, <1>3, <1>7
<1> QED BY <1>6, <1>7

(* The fragments of ipfrag2 share an id, and are left out. *)
LEMMA FragmentsAside ==
  ASSUME req \in Request, i \in Packets, PosFits, ~ FinalHeader, StageMode = "ipfrag2"
  PROVE  /\ \A k \in DOMAIN SecondWithIds : SecondWithIds[k].frag # 0
         /\ SecondStage # <<>> => ReasmOffset = 0
<1>1. SecondStage = IF ReasmOffset = 0 THEN Ipfrag2 ELSE <<>>
  BY Zenon DEF SecondStage
<1> DEFINE t == SecondWithIds
           s == SecondStage
           w == Whole
           id == StageId
<1>2. t = [k \in DOMAIN s |-> [s[k] EXCEPT !.id = id]]
  BY Zenon DEF SecondWithIds
<1>3. Ipfrag2 = [k \in 1..2 |-> [w EXCEPT !.frag = k]]
  BY Zenon DEF Ipfrag2
<1>4. w \in Proper /\ s \in Seq(Proper)
  <2>1. i \in 0..Len(req.lens)
    BY RequestFacts DEF Packets
  <2> QED BY <2>1, WholeShape, SecondStageMakes
<1>5. s = Ipfrag2 \/ s = <<>>
  BY <1>1
<1> HIDE DEF t, s, w, id
<1>6. ASSUME NEW k \in DOMAIN t PROVE t[k].frag # 0
  <2>1. k \in DOMAIN s /\ t[k] = [s[k] EXCEPT !.id = id]
    BY <1>2
  <2>2. s = Ipfrag2 /\ k \in 1..2
    BY <2>1, <1>3, <1>5
  <2>3. s[k] = [w EXCEPT !.frag = k]
    BY <2>2, <1>3
  <2>4. w \in PartType
    BY <1>4 DEF Proper
  <2>5. [w EXCEPT !.frag = k].frag = k
    BY <2>4 DEF PartType
  <2> DEFINE p == s[k]
             q == t[k]
  <2>6. p \in Proper /\ q = [p EXCEPT !.id = id] /\ p.frag = k
    BY <1>4, <2>1, <2>3, <2>5
  <2> HIDE DEF p, q
  <2>7. q.frag = p.frag
    BY <2>6, IdAdded
  <2> QED BY <2>2, <2>6, <2>7 DEF q
<1> QED BY <1>1, <1>6 DEF t

(* The ids of the second stage follow those that went before. *)
LEMMA SpreadBehind ==
  ASSUME NEW S, NEW T, NEW id \in Ids, NEW n \in Nat \ {0}, NEW u \in Nat, n + u < IdMod - 1,
         Apart(S), Trails(S, id, u),
         \A a \in T : \E x \in 0..n - 1 : a[2] = After(id, x),
         \A a, b \in T : a[2] = b[2] => a[1] = b[1]
  PROVE  Apart(S \cup T) /\ Trails(S \cup T, After(id, n), n + u)
<1>1. IdMod \in Nat /\ After(id, n) \in Ids
  <2>1. n \in 0..IdMod - 1
    BY IdModFacts
  <2> QED BY <2>1, IdModFacts, AfterFacts
<1>2. ASSUME NEW a \in S
      PROVE  a[2] \in Ids /\ Dist(a[2], After(id, n)) \in n + 1..n + u
  <2>1. a[2] \in Ids /\ Dist(a[2], id) \in 1..u
    BY DEF Trails
  <2>2. Dist(a[2], id) + n < IdMod - 1
    BY <2>1, <1>1
  <2>3. Dist(a[2], After(id, n)) = Dist(a[2], id) + n
    BY <2>1, <2>2, DistAfter
  <2> QED BY <2>1, <2>3
<1>3. ASSUME NEW a \in T
      PROVE  a[2] \in Ids /\ Dist(a[2], After(id, n)) \in 1..n
  <2>1. PICK x \in 0..n - 1 : a[2] = After(id, x)
    OBVIOUS
  <2>2. x \in Nat /\ x < n /\ n < IdMod - 1 /\ x \in 0..IdMod - 1
    BY <1>1
  <2>3. After(id, x) \in Ids
    BY <2>2, AfterFacts
  <2>4. Dist(After(id, x), After(id, n)) = n - x
    BY <2>2, DistBetween
  <2> QED BY <2>1, <2>2, <2>3, <2>4
<1>4. ASSUME NEW a \in S, NEW b \in T PROVE a[2] # b[2]
  <2>1. Dist(a[2], After(id, n)) \in n + 1..n + u /\ Dist(b[2], After(id, n)) \in 1..n
    BY <1>2, <1>3
  <2> QED BY <2>1
<1>5. Apart(S \cup T)
  <2>1. \A a, b \in S : a[2] = b[2] => a[1] = b[1]
    BY DEF Apart
  <2> QED BY <2>1, <1>4 DEF Apart
<1>6. Trails(S \cup T, After(id, n), n + u)
  <2>1. \A a \in S : Dist(a[2], After(id, n)) \in 1..n + u
    BY <1>2
  <2>2. \A a \in T : Dist(a[2], After(id, n)) \in 1..n + u
    BY <1>3
  <2> QED BY <2>1, <2>2, <1>1, <1>2, <1>3 DEF Trails
<1> QED BY <1>5, <1>6

(* The fakes left, and the parts of the second stage are due. *)
LEMMA FakesWrittenIds ==
  ASSUME IInv, IdsOK, Good, Good', FakesWritten
  PROVE  IdsOK'
<1> DEFINE m == Len(req.lens)
<1>1. /\ stage = "fakes" /\ todo = <<>> /\ stage' = "desync" /\ todo' = SecondWithIds
      /\ dp' = dp /\ req' = req /\ i' = i /\ ctid' = ctid /\ pos' = pos /\ ip_id' = ip_id
      /\ wire' = wire
  BY DEF FakesWritten
<1>2. DataOK /\ PosOK /\ IdsOK
  BY DEF IInv
<1>3. /\ dp \in Profile /\ req \in Request /\ i \in Packets /\ i # 0 /\ i \in 1..m /\ m \in Nat
      /\ ctid \in 0..IdMod - 1 /\ ip_id \in 0..IdMod - 1
  BY <1>1, <1>2, DataFacts DEF DataOK, Packets
<1>4. PosFits
  BY <1>1, <1>2, <1>3 DEF PosOK
<1>5. ~ FinalHeader /\ Share * m < IdMod - 1 /\ CountsIds
  BY <1>2, GoodFacts
<1>6. SecondStage' = SecondStage /\ NextId' = NextId /\ Share' = Share /\ Packets' = Packets
  BY <1>1, SameStage DEF Share, Packets
<1>7. StageOK' /\ NoneOK' /\ RoomOK'
  <2>1. StageOK /\ RoomOK
    BY <1>2 DEF IdsOK
  <2>2. RoomOK'
    BY <1>1, <1>3, <1>6, <2>1 DEF RoomOK, Room
  <2> QED BY <1>1, <2>1, <2>2 DEF StageOK, NoneOK
<1>8. WireIds' = WireIds /\ DueIds = {} /\ AllIds = WireIds
  BY <1>1, WireIdsStay, NoIdDue DEF AllIds
<1> DEFINE h == i - 1
           u == Share * h
<1>9. h \in Nat /\ u \in Nat /\ Share * i = u + Share /\ Share \in Nat \ {0} /\ Share * i <= Share * m
      /\ Share * m \in Int
  <2>1. h \in Nat /\ h + 1 = i /\ i \in Int /\ i <= m /\ m \in Int
    BY <1>3
  <2> HIDE DEF h, m
  <2>4. Share \in Nat \ {0}
    BY <1>3, ShareFacts
  <2>5. Share * h \in Int /\ Share * (h + 1) = Share * h + Share
    <3>1. h \in Int
      BY <2>1
    <3>2. \A n \in Int : Share * n \in Int /\ Share * (n + 1) = Share * n + Share
      BY <1>3, ShareFacts
    <3> QED BY <3>1, <3>2, Zenon
  <2>6. Share * m \in Int
    BY <1>3, <2>1, ShareFacts
  <2>7. Share * i <= Share * m
    BY <1>3, <2>1, ShareFacts
  <2>2. Share \in Nat \ {0} /\ Share * h \in Int /\ Share * (h + 1) = Share * h + Share
        /\ Share * i <= Share * m /\ Share * m \in Int
    BY <2>4, <2>5, <2>6, <2>7
  <2>3. Share * h \in Nat
    BY <2>1, <2>2
  <2> QED BY <2>1, <2>2, <2>3
<1>10. Apart(WireIds) /\ Trails(WireIds, ctid, u)
  <2>1. ~ Taken
    BY <1>1 DEF Taken
  <2>2. Ahead = ctid /\ Used = u
    BY <1>1, <2>1 DEF Ahead, Used
  <2>3. i <= Len(req.lens)
    BY <1>3
  <2> HIDE DEF u, m
  <2> QED BY <1>2, <1>8, <2>2, <2>3 DEF IdsOK, ApartOK, TrailOK
<1> HIDE DEF u, h, m
<1>11. \A k \in DOMAIN todo' : IdCounts(todo[k])' <=> Plain(SecondWithIds[k])
  BY <1>1, <1>3 DEF IdCounts
<1>12. \A a \in DueIds' : \E k \in DOMAIN SecondWithIds :
          Plain(SecondWithIds[k]) /\ a = <<Base(i) + SecondWithIds[k].from, SecondWithIds[k].id>>
  <2>1. Base(i)' = Base(i)
    BY <1>1 DEF Base, Offset
  <2>2. ASSUME NEW a \in DueIds'
        PROVE  \E k \in DOMAIN todo' : IdCounts(todo[k])' /\ a = <<Base(i)' + todo'[k].from, todo'[k].id>>
    BY DEF DueIds
  <2> QED BY <1>1, <1>11, <2>1, <2>2
<1>13. CASE SecondStage = <<>>
  <2>1. \A k \in DOMAIN SecondWithIds : ~ SecondWithIds[k].real
    <3>1. Genuine(SecondWithIds) = {}
      BY <1>3, <1>4, <1>13, SecondWithIdsShape, GenuineNone
    <3> QED BY <3>1 DEF Genuine
  <2>2. DueIds' = {}
    BY <1>12, <2>1 DEF Plain
  <2>3. AllIds' = WireIds
    BY <1>8, <2>2 DEF AllIds
  <2>4. ~ Taken' /\ Ahead' = ctid /\ Used' = u
    BY <1>1, <1>6, <1>13 DEF Taken, Ahead, Used, u, h
  <2>5. ApartOK' /\ TrailOK'
    BY <1>10, <2>3, <2>4 DEF ApartOK, TrailOK
  <2>6. RefusedOK'
    <3> SUFFICES ASSUME NEW k \in DOMAIN todo', NEW j \in DOMAIN todo' PROVE ~ IdCounts(todo[j])' /\ Trails(WireIds, ctid, u)
      BY <1>1, <1>6, <1>8 DEF RefusedOK, u, h
    <3> QED BY <1>1, <1>10, <1>11, <2>1 DEF Plain
  <2> QED BY <1>7, <2>5, <2>6 DEF IdsOK
<1>14. CASE SecondStage # <<>>
  <2>1. Taken' /\ Ahead' = NextId /\ Used' = Share * i
    BY <1>1, <1>3, <1>6, <1>14 DEF Taken, Ahead, Used
  <2>2. CASE StageMode = "ipfrag2"
    <3>1. /\ \A k \in DOMAIN SecondWithIds : SecondWithIds[k].frag # 0
          /\ ReasmOffset = 0
      BY <1>3, <1>4, <1>5, <1>14, <2>2, FragmentsAside
    <3>2. DueIds' = {}
      BY <1>12, <3>1 DEF Plain
    <3>3. i = 1
      <4>1. SUFFICES ASSUME i # 1 PROVE FALSE
        OBVIOUS
      <4>2. ReasmOffset = Offset(i) /\ 1 \in Packets /\ i > 1
        BY <1>3, <4>1, PacketFacts, RequestFacts DEF Packets, m
      <4>3. Offset(1) = 0 /\ Offset(2) = Offset(1) + req.lens[1] /\ req.lens[1] \in Nat \ {0}
        BY <1>3, <4>2, OffsetFacts
      <4>4. 2 \in 1..Len(req.lens) + 1 /\ i \in 1..Len(req.lens) + 1 /\ 2 <= i
        BY <1>3, <4>2, RequestFacts DEF Packets, m
      <4>5. Offset(2) <= Offset(i) /\ Offset(i) \in Nat
        BY <1>3, <4>4, OffsetFacts
      <4> QED BY <3>1, <4>2, <4>3, <4>5
    <3>4. u = 0
      BY <3>3, <1>9 DEF u, h
    <3>5. WireIds = {}
      BY <1>9, <1>10, <3>4, TrailsNone
    <3>6. AllIds' = {}
      BY <1>8, <3>2, <3>5 DEF AllIds
    <3>7. ApartOK' /\ TrailOK'
      BY <3>6 DEF ApartOK, TrailOK, Apart, Trails
    <3>8. RefusedOK'
      <4>1. \A j \in DOMAIN todo' : ~ IdCounts(todo[j])'
        BY <1>1, <1>11, <3>1 DEF Plain
      <4>2. Trails(WireIds', ctid', Share' * (i' - 1))
        BY <1>8, <3>5 DEF Trails
      <4> QED BY <4>1, <4>2 DEF RefusedOK
    <3> QED BY <1>7, <3>7, <3>8 DEF IdsOK
  <2>3. CASE StageMode # "ipfrag2"
    <3>1. PICK n \in 1..Share : /\ NextId = After(StageId, n) /\ StageId \in Ids
                                /\ Spread(SecondWithIds, StageId, n) /\ RefusedFirst(SecondWithIds)
      BY <1>1, <1>2, <1>3, <1>4, <1>14, <2>3, StageIds DEF IdsOK
    <3>2. n \in Nat \ {0} /\ n <= Share /\ n + u <= Share * i /\ n + u < IdMod - 1 /\ Share * i \in Int
      BY <1>5, <1>9, IdModFacts
    <3>3. Trails(WireIds, StageId, u)
      <4>1. CASE WireIds = {}
        BY <4>1 DEF Trails
      <4>2. CASE WireIds # {}
        <5>1. ctid \in Ids /\ ctid # 0
          BY <4>2, <1>10 DEF Trails, Ids
        <5>2. u # 0
          BY <4>2, <1>9, <1>10, TrailsNone
        <5>3. h # 0
          <6>1. Share * 0 = 0
            BY <1>9
          <6> QED BY <5>2, <6>1 DEF u
        <5>4. Replay
          BY <5>3, <1>3 DEF Replay, h, m
        <5>5. StageId = ctid
          BY <5>1, <5>4, <2>3 DEF StageId
        <5> QED BY <5>5, <1>10
      <4> QED BY <4>1, <4>2
    <3>4. \A a \in DueIds' : \E x \in 0..n - 1 : a[2] = After(StageId, x)
      BY <1>12, <3>1 DEF Spread
    <3>5. \A a, b \in DueIds' : a[2] = b[2] => a[1] = b[1]
      <4> SUFFICES ASSUME NEW a \in DueIds', NEW b \in DueIds', a[2] = b[2] PROVE a[1] = b[1]
        OBVIOUS
      <4>1. PICK j \in DOMAIN SecondWithIds :
              Plain(SecondWithIds[j]) /\ a = <<Base(i) + SecondWithIds[j].from, SecondWithIds[j].id>>
        BY <1>12
      <4>2. PICK k \in DOMAIN SecondWithIds :
              Plain(SecondWithIds[k]) /\ b = <<Base(i) + SecondWithIds[k].from, SecondWithIds[k].id>>
        BY <1>12
      <4>3. SecondWithIds[j].from = SecondWithIds[k].from
        BY <4>1, <4>2, <3>1 DEF Spread
      <4> QED BY <4>1, <4>2, <4>3
    <3>6. Apart(WireIds \cup DueIds') /\ Trails(WireIds \cup DueIds', NextId, n + u)
      <4> DEFINE S == WireIds
                 T == DueIds'
                 id == StageId
      <4>1. /\ id \in Ids /\ Apart(S) /\ Trails(S, id, u) /\ NextId = After(id, n)
            /\ \A a \in T : \E x \in 0..n - 1 : a[2] = After(id, x)
            /\ \A a, b \in T : a[2] = b[2] => a[1] = b[1]
        BY <1>10, <3>1, <3>3, <3>4, <3>5
      <4> HIDE DEF S, T, id
      <4>2. Apart(S \cup T) /\ Trails(S \cup T, After(id, n), n + u)
        BY <4>1, <3>2, <1>9, SpreadBehind
      <4> QED BY <4>1, <4>2 DEF S, T
    <3>7. AllIds' = WireIds \cup DueIds'
      BY <1>8 DEF AllIds
    <3>8. Trails(AllIds', NextId, Share * i)
      <4> DEFINE S == AllIds'
      <4>1. Trails(S, NextId, n + u)
        BY <3>6, <3>7
      <4> HIDE DEF S
      <4>2. S \subseteq S /\ n + u \in Int /\ Share * i \in Int /\ n + u <= Share * i
        BY <3>2, <1>9
      <4>3. Trails(S, NextId, Share * i)
        BY <4>1, <4>2, TrailsFewer
      <4> QED BY <4>3 DEF S
    <3>9. ApartOK' /\ TrailOK'
      BY <2>1, <3>6, <3>7, <3>8 DEF ApartOK, TrailOK
    <3>10. RefusedOK'
      <4> SUFFICES ASSUME NEW k \in DOMAIN todo', Refusable(todo'[k])
                   PROVE  /\ \A j \in DOMAIN todo' : j < k => ~ IdCounts(todo[j])'
                          /\ Trails(WireIds, ctid, u)
        BY <1>1, <1>6, <1>8 DEF RefusedOK, u, h
      <4>1. \A j \in DOMAIN todo' : j < k => ~ Plain(SecondWithIds[j])
        BY <1>1, <3>1 DEF RefusedFirst
      <4> QED BY <4>1, <1>1, <1>10, <1>11
    <3> QED BY <1>7, <3>9, <3>10 DEF IdsOK
  <2> QED BY <2>2, <2>3
<1> QED BY <1>13, <1>14

(* The id of the packet as it came. *)
LEMMA WholeId ==
  ASSUME req \in Request, i \in Packets
  PROVE  Whole.id = req.ids[i] /\ Whole.from = 0 /\ Whole.real /\ Whole.frag = 0 /\ Whole \in Proper
<1> DEFINE n == PLen
           p == Part(TRUE, 0, n, 0, 0, 0)
           id == req.ids[i]
           w == Whole
<1>1. n \in Nat /\ i # 0 /\ i \in 0..Len(req.lens)
  BY PacketFacts, RequestFacts DEF Packets
<1>2. IsPart(p, TRUE, 0, n, 0)
  <2> HIDE DEF n
  <2>1. n \in Nat /\ 0 \in Nat /\ 0 <= n /\ n <= n
    BY <1>1
  <2> QED BY <2>1, GenuinePart DEF n
<1>3. p \in Proper
  BY <1>2, Zenon DEF IsPart
<1>4. w = [p EXCEPT !.id = id]
  BY <1>1, Zenon DEF Whole
<1>5. w \in Proper /\ w.real = TRUE /\ Shape(w) = [from |-> 0, to |-> n, ovl |-> 0, frag |-> 0]
  BY <1>1, WholeShape
<1> HIDE DEF p, id, w, n
<1>6. w.id = id
  BY <1>3, <1>4, IdAdded
<1>7. w.from = 0 /\ w.frag = 0
  BY <1>5 DEF Shape
<1> QED BY <1>5, <1>6, <1>7 DEF w, id

(* A part counts exactly if its segment does, and keeps its place and its id. *)
LEMMA SegmentIds ==
  ASSUME DataOK, stage # "new", i # 0, NEW p \in Proper
  PROVE  /\ IdLeft(Segment(p)) <=> IdCounts(p)
         /\ Segment(p).from = Base(i) + p.from /\ Segment(p).id = p.id
<1>1. req \in Request /\ i \in Packets
  BY DataFacts
<1>2. Whole.id = req.ids[i]
  BY <1>1, WholeId
<1> DEFINE s == Segment(p)
           b == Base(i)
<1>3. /\ s.real = p.real /\ s.frag = p.frag /\ s.id = p.id /\ s.syn = (i = 0)
      /\ s.part = (stage = "desync" \/ p.id # Whole.id) /\ s.from = b + p.from
  BY DEF Segment, Base
<1> HIDE DEF s, b
<1>4. p.real \in BOOLEAN
  BY ProperFields
<1>5. IdLeft(s) <=> IdCounts(p)
  <2>1. s.syn <=> FALSE
    BY <1>3
  <2>2. s.part <=> (stage = "desync" \/ p.id # req.ids[i])
    BY <1>2, <1>3
  <2>3. s.real <=> p.real
    BY <1>3
  <2> QED BY <1>3, <2>1, <2>2, <2>3 DEF IdLeft, IdCounts, Plain
<1> QED BY <1>3, <1>5 DEF s, b

(* A write moves an id from those due to those that left. *)
LEMMA WriteIds ==
  ASSUME IInv, IdsOK, Good, Good', Write
  PROVE  IdsOK'
<1> DEFINE p == Head(todo)
           g == Segment(p)
           t == Tail(todo)
           x == <<Base(i) + p.from, p.id>>
<1>1. /\ todo # <<>> /\ ~ TooLong(p) /\ wire' = Append(wire, g) /\ todo' = t
      /\ dp' = dp /\ req' = req /\ i' = i /\ ctid' = ctid /\ stage' = stage /\ pos' = pos
      /\ ip_id' = ip_id
  BY Zenon DEF Write
<1>2. DataOK /\ TodoOK /\ WireOK /\ IdsOK
  BY DEF IInv
<1>3. stage # "new" /\ dp \in Profile /\ req \in Request
  BY <1>1, <1>2 DEF DataOK
<1> DEFINE n == Len(todo)
<1>4. /\ todo \in Seq(Proper) /\ p \in Proper /\ n \in Nat \ {0} /\ p = todo[1]
      /\ DOMAIN todo = 1..n /\ DOMAIN t = 1..n - 1 /\ \A k \in 1..n - 1 : t[k] = todo[k + 1]
  <2> DEFINE s == todo
  <2>1. s \in Seq(Proper) /\ s # <<>>
    BY <1>1, <1>2 DEF TodoOK
  <2> HIDE DEF s
  <2>2. /\ Len(s) \in Nat \ {0} /\ DOMAIN s = 1..Len(s) /\ Head(s) = s[1] /\ s[1] \in Proper
        /\ Tail(s) \in Seq(Proper) /\ Len(Tail(s)) = Len(s) - 1
        /\ \A k \in 1..Len(s) - 1 : Tail(s)[k] = s[k + 1]
    BY <2>1, HeadTailProperties
  <2>3. DOMAIN Tail(s) = 1..Len(s) - 1
    BY <2>2
  <2> QED BY <2>1, <2>2, <2>3 DEF s
<1> DEFINE w == Len(wire)
<1>5. /\ w \in Nat /\ DOMAIN wire = 1..w /\ DOMAIN wire' = 1..w + 1
      /\ \A k \in 1..w : wire'[k] = wire[k]
      /\ wire'[w + 1] = g
  <2> DEFINE s == wire
  <2>1. s \in Seq(SegmentType) /\ wire' = Append(s, g)
    BY <1>1, <1>2 DEF WireOK
  <2>2. g \in SegmentType
    BY <1>1, <1>2, <1>3, <1>4, SegmentPiece
  <2> HIDE DEF s, g
  <2>3. /\ Append(s, g) \in Seq(SegmentType) /\ Len(Append(s, g)) = Len(s) + 1 /\ Len(s) \in Nat
        /\ \A k \in 1..Len(s) : Append(s, g)[k] = s[k]
        /\ Append(s, g)[Len(s) + 1] = g /\ DOMAIN s = 1..Len(s)
    BY <2>1, <2>2, AppendProperties
  <2>4. DOMAIN Append(s, g) = 1..Len(s) + 1
    BY <2>3
  <2> QED BY <2>1, <2>3, <2>4 DEF s
<1> HIDE DEF p, g, t, n, w
<1>6. SecondStage' = SecondStage /\ NextId' = NextId /\ Share' = Share /\ Packets' = Packets
  BY <1>1, SameStage DEF Share, Packets
<1>7. Taken' = Taken /\ Ahead' = Ahead /\ Used' = Used
  BY <1>1, <1>6 DEF Taken, Ahead, Used
<1>8. \A q : IdCounts(q)' <=> IdCounts(q)
  BY <1>1 DEF IdCounts
<1>9. \A k \in DOMAIN todo' : k + 1 \in DOMAIN todo /\ todo'[k] = todo[k + 1] /\ k \in Nat
  BY <1>1, <1>4
<1>10. DueIds' \subseteq DueIds
  <2>1. Base(i)' = Base(i)
    BY <1>1 DEF Base, Offset
  <2>2. DueIds' = {<<Base(i) + todo'[k].from, todo'[k].id>> : k \in {j \in DOMAIN todo' : IdCounts(todo'[j])}}
    BY <1>8, <2>1 DEF DueIds
  <2>3. ASSUME NEW k \in DOMAIN todo', IdCounts(todo'[k]) PROVE <<Base(i) + todo'[k].from, todo'[k].id>> \in DueIds
    BY <1>9, <2>3 DEF DueIds
  <2> QED BY <2>2, <2>3
<1>11. ASSUME IdCounts(p) PROVE x \in DueIds
  <2>1. 1 \in DOMAIN todo /\ p = todo[1]
    BY <1>4
  <2> QED BY <2>1, <1>11 DEF DueIds
<1>12. WireIds' \subseteq WireIds \cup {x} /\ (~ IdCounts(p) => WireIds' \subseteq WireIds)
  <2>1. ASSUME NEW k \in DOMAIN wire', IdLeft(wire'[k])
        PROVE  IF k = w + 1 THEN IdCounts(p) /\ <<wire'[k].from, wire'[k].id>> = x
               ELSE <<wire'[k].from, wire'[k].id>> \in WireIds
    <3>1. CASE k = w + 1
      <4>1. wire'[k] = g
        BY <3>1, <1>5
      <4>2. i # 0
        <5>1. ~ g.syn
          BY <2>1, <4>1 DEF IdLeft
        <5>2. g.syn = (i = 0)
          BY DEF g, Segment
        <5> QED BY <5>1, <5>2
      <4>3. (IdLeft(g) <=> IdCounts(p)) /\ g.from = Base(i) + p.from /\ g.id = p.id
        BY <4>2, <1>2, <1>3, <1>4, SegmentIds DEF g
      <4> QED BY <3>1, <4>1, <4>3, <2>1
    <3>2. CASE k # w + 1
      <4>1. k \in DOMAIN wire /\ wire'[k] = wire[k]
        BY <3>2, <1>5
      <4> QED BY <3>2, <4>1, <2>1 DEF WireIds
    <3> QED BY <3>1, <3>2
  <2>2. WireIds' = {<<wire'[k].from, wire'[k].id>> : k \in {j \in DOMAIN wire' : IdLeft(wire'[j])}}
    BY DEF WireIds, IdLeft
  <2> HIDE DEF x
  <2> QED BY <2>1, <2>2
<1> HIDE DEF x
<1>13. AllIds' \subseteq AllIds
  BY <1>10, <1>11, <1>12 DEF AllIds
<1>14. ApartOK' /\ TrailOK'
  <2>1. Used \in Int /\ Used <= Used
    BY <1>2, UsedType
  <2> QED BY <2>1, <1>1, <1>2, <1>7, <1>13, FewerIds
<1>15. StageOK' /\ RoomOK'
  <2>1. StageOK /\ RoomOK
    BY <1>2 DEF IdsOK
  <2> QED BY <1>1, <1>6, <2>1 DEF StageOK, RoomOK, Room
<1>16. NoneOK'
  BY <1>1, <1>2, <1>10 DEF IdsOK, NoneOK
<1>17. RefusedOK'
  <2> SUFFICES ASSUME stage = "desync", i # 0, NEW k \in DOMAIN todo', Refusable(todo'[k])
               PROVE  /\ \A j \in DOMAIN todo' : j < k => ~ IdCounts(todo'[j])
                      /\ Trails(WireIds', ctid, Share * (i - 1))
    BY <1>1, <1>6, <1>8 DEF RefusedOK
  <2>1. k + 1 \in DOMAIN todo /\ Refusable(todo[k + 1])
    BY <1>9
  <2>2. /\ \A j \in DOMAIN todo : j < k + 1 => ~ IdCounts(todo[j])
        /\ Trails(WireIds, ctid, Share * (i - 1))
    BY <2>1, <1>2 DEF IdsOK, RefusedOK
  <2>3. ASSUME NEW j \in DOMAIN todo', j < k PROVE ~ IdCounts(todo'[j])
    <3>1. j + 1 \in DOMAIN todo /\ todo'[j] = todo[j + 1] /\ j + 1 < k + 1
      BY <1>9, <2>3
    <3> QED BY <3>1, <2>2
  <2>4. ~ IdCounts(p)
    <3>1. 1 \in DOMAIN todo /\ 1 < k + 1 /\ p = todo[1]
      <4>1. k \in 1..n - 1
        BY <1>1, <1>4
      <4> QED BY <4>1, <1>4
    <3> QED BY <3>1, <2>2
  <2>5. WireIds' \subseteq WireIds
    BY <2>4, <1>12
  <2>6. Trails(WireIds', ctid, Share * (i - 1))
    BY <2>2, <2>5 DEF Trails
  <2> QED BY <2>3, <2>6
<1> QED BY <1>14, <1>15, <1>16, <1>17 DEF IdsOK

(* The packet as it came has no id of its own. *)
LEMMA WholeDue ==
  ASSUME DataOK, stage # "new", req' = req, i' = i, stage' # "desync",
         \A k \in DOMAIN todo' : todo'[k] = Whole
  PROVE  DueIds' = {}
<1>1. CASE i = 0
  BY <1>1, NoIdDue
<1>2. CASE i # 0
  <2>1. Whole.id = req.ids[i]
    BY <1>2, DataFacts, WholeId
  <2>2. \A k \in DOMAIN todo' : ~ IdCounts(todo[k])'
    BY <2>1 DEF IdCounts
  <2> QED BY <2>2, NoIdDue
<1> QED BY <1>1, <1>2

(* send_orig and its copies have none either. *)
LEMMA SendOrigIds ==
  ASSUME DataOK, stage # "new", NEW bFake, SendOrig(bFake), i' = i, req' = req
  PROVE  stage' \in {"orig", "main"} /\ DueIds' = {}
<1> DEFINE w == Whole
           S == {w}
           n == dp.dups
           s == [k \in 1..n |-> w]
           e == <<w>>
           t == todo'
<1>1. n \in Nat
  BY DataFacts, ProfileFacts
<1>2. /\ stage' \in {"orig", "main"}
      /\ t \in {s \o <<>>, s \o e, <<>>, e}
  BY DEF SendOrig, OrigParts
<1> HIDE DEF w, n, t
<1>3. s \in Seq(S) /\ e \in Seq(S) /\ <<>> \in Seq(S)
  <2>1. s \in [1..n -> S]
    OBVIOUS
  <2> HIDE DEF s
  <2> QED BY <1>1, <2>1, SeqDef
<1> HIDE DEF s, e
<1>4. s \o <<>> \in Seq(S) /\ s \o e \in Seq(S)
  BY <1>3, ConcatProperties
<1>5. t \in Seq(S)
  BY <1>2, <1>3, <1>4
<1>6. \A k \in DOMAIN t : t[k] = w
  <2> HIDE DEF S
  <2>1. \A k \in DOMAIN t : t[k] \in S
    BY <1>5
  <2> QED BY <2>1 DEF S
<1>7. DueIds' = {}
  BY <1>2, <1>6, WholeDue DEF t, w
<1> QED BY <1>2, <1>7

(* Before the first packet there is room for all. *)
LEMMA FirstRoom ==
  ASSUME DataOK, Good, ctid = req.ctid
  PROVE  Room(ctid, Len(req.lens))
<1> SUFFICES ASSUME LastMode(dp) = "multidisorder" PROVE ctid + Share * Len(req.lens) < IdMod
  BY DEF Room
<1>1. dp \in Profile /\ Len(req.lens) \in Int /\ ctid \in Int
  BY DataFacts
<1> DEFINE u == Share * Len(req.lens)
<1>2. u \in Int /\ FakesOf(dp) \in Nat /\ IdMod \in Nat
  BY <1>1, ShareFacts, FirstStageShort, IdModFacts
<1>3. ctid + FakesOf(dp) + u < IdMod
  BY DEF Good, IdsFit, Share
<1> HIDE DEF u
<1>4. ctid + u < IdMod
  BY <1>1, <1>2, <1>3
<1> QED BY <1>4 DEF u

(* Room for more packets is room for fewer. *)
LEMMA RoomLess ==
  ASSUME dp \in Profile, NEW id \in Int, NEW n \in Int, Room(id, n + 1)
  PROVE  Room(id, n)
<1> SUFFICES ASSUME LastMode(dp) = "multidisorder", id # 0 PROVE id + Share * n < IdMod
  BY DEF Room
<1> DEFINE u == Share * n
           v == Share * (n + 1)
<1>1. id + v < IdMod
  BY DEF Room
<1>2. u \in Int /\ v = u + Share /\ Share \in Nat
  BY ShareFacts
<1> HIDE DEF u, v
<1>3. id + u < IdMod
  BY <1>1, <1>2, IdModFacts
<1> QED BY <1>3 DEF u

(* The engine goes on to the next packet, with the id the entry remembers. *)
LEMMA MoveOn ==
  ASSUME DataOK, Good, IdsOK, stage # "new", i' = i + 1, stage' = "new", todo' = <<>>, wire' = wire,
         dp' = dp, req' = req, ctid' \in Int, i = 0 => ctid' = ctid, i # 0 => Room(ctid', Len(req.lens) - i),
         i < Len(req.lens) => Ahead = ctid', Used <= Share * i
  PROVE  IdsOK'
<1> DEFINE n == Len(req.lens)
<1>1. /\ dp \in Profile /\ req \in Request /\ n \in Nat \ {0} /\ i \in 0..n /\ (i # 0 => i \in Packets)
      /\ ctid \in Int
  BY DataFacts
<1>2. Share' = Share /\ Packets' = Packets /\ Packets = 1..n
  BY DEF Share, Packets
<1>3. AllIds' \subseteq AllIds
  BY WireIdsStay, NoIdDue DEF AllIds
<1>4. ~ Taken' /\ Ahead' = ctid' /\ Used' = Share * i
  <2>1. ~ Taken' /\ Ahead' = ctid' /\ Used' = Share * (i' - 1)
    BY <1>2 DEF Taken, Ahead, Used
  <2>2. i' - 1 = i
    BY <1>1
  <2> QED BY <2>1, <2>2
<1>5. Used \in Int /\ Used' \in Int
  BY <1>1, <1>4, UsedType, ShareFacts
<1>6. i' <= Len(req'.lens) => i <= Len(req.lens) /\ i < Len(req.lens)
  <2> HIDE DEF n
  <2>1. i + 1 <= n => i <= n /\ i < n
    BY <1>1
  <2> QED BY <2>1 DEF n
<1>7. ApartOK' /\ TrailOK'
  BY <1>3, <1>4, <1>5, <1>6, FewerIds
<1>8. RefusedOK' /\ StageOK' /\ NoneOK'
  BY DEF RefusedOK, StageOK, NoneOK
<1>9. Room(ctid', n - i)
  <2>1. CASE i = 0
    <3>1. ctid = req.ctid
      BY <2>1 DEF IdsOK, RoomOK
    <3>2. n - i = n
      BY <2>1, <1>1
    <3>3. Room(ctid, n)
      BY <3>1, FirstRoom
    <3> QED BY <2>1, <3>2, <3>3
  <2>2. CASE i # 0
    BY <2>2
  <2> QED BY <2>1, <2>2
<1>10. Room(ctid', n - i')
  <2> DEFINE k == n - i'
  <2>1. k \in Int /\ k + 1 = n - i
    BY <1>1
  <2> HIDE DEF k, n
  <2> QED BY <2>1, <1>1, <1>9, RoomLess DEF k
<1>11. n - i' + 1 = n - i
  BY <1>1
<1>12. RoomOK'
  <2>1. i' # 0 /\ (i' = 1 => i = 0)
    BY <1>1
  <2>2. i' = 1 => ctid' = req'.ctid
    BY <2>1 DEF IdsOK, RoomOK
  <2>3. n' = n
    OBVIOUS
  <2>4. (LastMode(dp) = "multidisorder" /\ ctid' # 0 => ctid' + Share * (n - i') < IdMod)
        /\ (LastMode(dp) = "multidisorder" /\ ctid' # 0 => ctid' + Share * (n - i' + 1) < IdMod)
    BY <1>9, <1>10, <1>11 DEF Room
  <2> HIDE DEF n
  <2>5. Room(ctid, n - i)' /\ Room(ctid, n - i + 1)'
    BY <1>2, <2>3, <2>4 DEF Room
  <2> QED BY <2>1, <2>2, <2>5 DEF RoomOK, n
<1> QED BY <1>7, <1>8, <1>12 DEF IdsOK

(* The packet at hand leaves whole, or never. *)
LEMMA LeavesWhole ==
  ASSUME DataOK, Good, IdsOK, stage # "new", i' = i, stage' \in {"orig", "main", "exit"}, wire' = wire,
         dp' = dp, req' = req, ctid' = ctid, DueIds' = {}, Trails(WireIds, ctid, Share * i)
  PROVE  IdsOK'
<1>1. Share' = Share /\ Packets' = Packets
  BY DEF Share, Packets
<1>2. AllIds' = WireIds
  BY WireIdsStay DEF AllIds
<1>3. ApartOK'
  BY <1>2 DEF IdsOK, ApartOK, Apart, AllIds
<1>4. ~ Taken' /\ Ahead' = ctid /\ Used' = Share * i
  BY <1>1 DEF Taken, Ahead, Used
<1>5. TrailOK'
  BY <1>2, <1>4 DEF TrailOK
<1>6. RefusedOK' /\ StageOK' /\ NoneOK'
  BY DEF RefusedOK, StageOK, NoneOK
<1>7. RoomOK'
  BY <1>1 DEF IdsOK, RoomOK, Room
<1> QED BY <1>3, <1>5, <1>6, <1>7 DEF IdsOK

(* As long as the second stage took none, the ids trail the remembered one. *)
LEMMA TrailsRemembered ==
  ASSUME DataOK, IdsOK, stage # "new", ~ Taken
  PROVE  /\ Trails(WireIds, ctid, Share * i) /\ Used <= Share * i
         /\ stage = "desync" => Trails(WireIds, ctid, Share * (i - 1))
<1>1. dp \in Profile /\ i \in Int /\ i <= Len(req.lens)
  BY DataFacts
<1> DEFINE S == AllIds
           T == WireIds
           u == Used
           v == Share * i
           h == i - 1
           x == Share * h
<1>2. Trails(S, ctid, u)
  BY <1>1 DEF IdsOK, TrailOK, Ahead
<1>3. u = v \/ u = x
  BY DEF Used
<1>4. v \in Int /\ x \in Int /\ x <= v
  <2>1. h \in Int /\ h <= i
    BY <1>1
  <2> HIDE DEF h
  <2> QED BY <1>1, <2>1, ShareFacts
<1>5. T \subseteq S
  BY DEF AllIds
<1>6. stage = "desync" => u = x
  BY DEF Used
<1> HIDE DEF S, T, u, v, x
<1>7. Trails(T, ctid, v) /\ u <= v /\ (u = x => Trails(T, ctid, x))
  BY <1>2, <1>3, <1>4, <1>5, TrailsFewer
<1> QED BY <1>6, <1>7 DEF T, u, v, x, h

(* A packet of a replay that is not cut takes the next id. *)
LEMMA UnsplitIds ==
  ASSUME IInv, IdsOK, Good, stage = "desync", i \in Packets, SecondStage = <<>>, ctid # 0, i' = i,
         stage' = "main", todo' = <<[Whole EXCEPT !.id = ctid]>>, ctid' = IP4_IP_ID_ADD(ctid, 1),
         wire' = wire, dp' = dp, req' = req
  PROVE  IdsOK'
<1> DEFINE m == Len(req.lens)
           h == i - 1
           u == Share * h
           c == ctid
<1>1. DataOK /\ dp \in Profile /\ req \in Request /\ m \in Nat /\ i \in 1..m /\ i # 0 /\ stage # "new"
      /\ CountsIds /\ Share * m < IdMod - 1
  BY DataFacts, GoodFacts, PacketFacts DEF IInv, Packets
<1>2. c \in Ids
  BY <1>1, DataFacts, IdModFacts DEF Ids
<1>3. ctid' = After(c, 1)
  BY <1>1, <1>2, OneStep
<1>4. Share' = Share /\ Packets' = Packets /\ Base(i)' = Base(i)
  BY DEF Share, Packets, Base, Offset
<1>5. h \in Nat /\ h \in Int /\ h + 1 = i /\ i \in Int /\ i <= m /\ m \in Int
  BY <1>1
<1>6. Share \in Nat \ {0} /\ u \in Nat /\ Share * i = u + Share /\ Share * i <= Share * m /\ Share * m \in Int
  <2> HIDE DEF h, m
  <2>1. \A n \in Int : Share * n \in Int /\ Share * (n + 1) = Share * n + Share
    BY <1>1, ShareFacts
  <2>2. Share * h \in Int /\ Share * (h + 1) = Share * h + Share
    BY <1>5, <2>1, Zenon
  <2>3. Share * m \in Int
    BY <1>5, <2>1, Zenon
  <2>4. Share \in Nat \ {0}
    BY <1>1, ShareFacts
  <2>5. Share * i <= Share * m
    BY <1>1, <1>5, ShareFacts
  <2>6. Share * h \in Nat
    BY <1>5, <2>2, <2>4
  <2> QED BY <1>5, <2>2, <2>3, <2>4, <2>5, <2>6
<1>7. Trails(WireIds, c, u) /\ Apart(WireIds)
  <2>1. ~ Taken
    BY DEF Taken
  <2>2. Trails(WireIds, c, u)
    BY <1>1, <2>1, TrailsRemembered
  <2>3. Apart(WireIds)
    BY DEF IdsOK, ApartOK, Apart, AllIds
  <2> QED BY <2>2, <2>3
<1>8. ASSUME NEW a \in DueIds' PROVE a = <<Base(i), c>>
  <2> DEFINE w == Whole
             p == [w EXCEPT !.id = c]
  <2>1. w \in Proper /\ w.from = 0
    BY <1>1, WholeId
  <2>2. DOMAIN todo' = {1} /\ todo'[1] = p
    OBVIOUS
  <2>3. p.from = w.from /\ p.id = c
    <3> HIDE DEF w
    <3> QED BY <2>1, OtherFields
  <2> HIDE DEF p
  <2>4. \E k \in DOMAIN todo' : a = <<Base(i)' + todo'[k].from, todo'[k].id>>
    BY DEF DueIds
  <2>5. a = <<Base(i) + p.from, p.id>>
    BY <2>2, <2>4, <1>4
  <2>6. Base(i) + 0 = Base(i)
    BY <1>1, PacketFacts
  <2> QED BY <2>1, <2>3, <2>5, <2>6
<1> HIDE DEF h, u, c, m
<1>9. 1 + u < IdMod - 1 /\ 1 + u <= Share * i /\ Share * i \in Int /\ IdMod \in Nat
  BY <1>1, <1>6, IdModFacts
<1>10. Apart(WireIds \cup DueIds') /\ Trails(WireIds \cup DueIds', After(c, 1), 1 + u)
  <2> DEFINE S == WireIds
             T == DueIds'
  <2>1. \A a \in T : \E x \in 0..1 - 1 : a[2] = After(c, x)
    <3>1. 0 \in 0..1 - 1 /\ After(c, 0) = c
      BY <1>2, IdModFacts DEF After, Ids
    <3> QED BY <3>1, <1>8
  <2>2. \A a, b \in T : a[2] = b[2] => a[1] = b[1]
    BY <1>8
  <2>3. Apart(S) /\ Trails(S, c, u)
    BY <1>7
  <2> HIDE DEF S, T
  <2>4. ASSUME NEW n \in Nat \ {0}, n = 1 PROVE Apart(S \cup T) /\ Trails(S \cup T, After(c, n), n + u)
    <3>1. \A a \in T : \E x \in 0..n - 1 : a[2] = After(c, x)
      BY <2>1, <2>4
    <3>2. n + u < IdMod - 1
      BY <1>9, <2>4
    <3> QED BY <3>1, <3>2, <2>2, <2>3, <1>2, <1>6, SpreadBehind
  <2>5. \E n \in Nat \ {0} : n = 1
    OBVIOUS
  <2>6. \E n \in Nat \ {0} : n = 1 /\ Apart(S \cup T) /\ Trails(S \cup T, After(c, n), n + u)
    BY <2>4, <2>5
  <2> QED BY <2>6 DEF S, T
<1>11. AllIds' = WireIds \cup DueIds'
  BY WireIdsStay DEF AllIds
<1>12. ~ Taken' /\ Ahead' = After(c, 1) /\ Used' = Share * i
  BY <1>3, <1>4 DEF Taken, Ahead, Used
<1>13. Trails(AllIds', After(c, 1), Share * i)
  <2> DEFINE S == AllIds'
             x == 1 + u
             v == Share * i
  <2>1. Trails(S, After(c, 1), x) /\ x \in Int /\ v \in Int /\ x <= v /\ S \subseteq S
    BY <1>6, <1>9, <1>10, <1>11
  <2> HIDE DEF S, x, v
  <2>2. Trails(S, After(c, 1), v)
    BY <2>1, TrailsFewer
  <2> QED BY <2>2 DEF S, v
<1>14. ApartOK' /\ TrailOK'
  BY <1>10, <1>11, <1>12, <1>13 DEF ApartOK, TrailOK
<1>15. RefusedOK' /\ StageOK' /\ NoneOK'
  BY DEF RefusedOK, StageOK, NoneOK
<1>16. Room(ctid', m - i)
  <2> SUFFICES ASSUME LastMode(dp) = "multidisorder" PROVE ctid' + Share * (m - i) < IdMod
    BY DEF Room
  <2> DEFINE k == m - i
             x == Share * k
             y == Share * (k + 1)
  <2>1. Room(c, k + 1)
    BY DEF IdsOK, RoomOK, c, m
  <2>2. c + y < IdMod
    BY <2>1 DEF Room, c
  <2>3. k \in Int /\ k >= 0
    BY <1>5
  <2> HIDE DEF k
  <2>4. x \in Int /\ y = x + Share /\ x >= 0
    <3>1. \A n \in Int : Share * n \in Int /\ Share * (n + 1) = Share * n + Share
      BY <1>1, ShareFacts
    <3>2. x \in Int /\ y = x + Share
      BY <2>3, <3>1
    <3>3. x >= 0
      BY <2>3, <1>6
    <3> QED BY <3>2, <3>3
  <2> HIDE DEF x, y
  <2>5. After(c, 1) = c + 1 /\ c + 1 + x < IdMod
    BY <2>2, <2>4, <1>2, <1>6, IdModFacts DEF After, Ids
  <2> QED BY <2>5, <1>3 DEF x, k
<1>17. RoomOK'
  <2>1. m' = m /\ i' # 0 /\ Room(ctid, m - i)'
    BY <1>1, <1>4, <1>16 DEF m, Room
  <2> QED BY <2>1, <1>1 DEF RoomOK, m
<1> QED BY <1>14, <1>15, <1>17 DEF IdsOK

(* The parts left: the next packet goes on from the id they came to. *)
LEMMA PartsWrittenIds ==
  ASSUME IInv, IdsOK, Good, Good', PartsWritten
  PROVE  IdsOK'
<1> DEFINE m == Len(req.lens)
<1>1. /\ stage = "desync" /\ todo = <<>> /\ dp' = dp /\ req' = req /\ wire' = wire
  BY DEF PartsWritten
<1>2. /\ DataOK /\ PosOK /\ stage # "new"
  BY <1>1 DEF IInv
<1>3. /\ dp \in Profile /\ req \in Request /\ m \in Nat /\ i \in 0..m /\ (i # 0 => i \in Packets)
      /\ ctid \in 0..IdMod - 1 /\ ip_id \in 0..IdMod - 1 /\ ctid \in Int
  BY <1>2, DataFacts
<1>4. CASE i = 0
  <2>1. ctid' = ctid /\ ~ Taken
    BY <1>4 DEF PartsWritten, Taken
  <2>2. Trails(WireIds, ctid, Share * i) /\ Used <= Share * i /\ Ahead = ctid
    BY <1>2, <2>1, TrailsRemembered DEF Ahead
  <2>3. CASE dp.mode0 = "syndata"
    <3>1. NextPacket
      BY <1>4, <2>3 DEF PartsWritten
    <3> QED BY <3>1, <1>1, <1>2, <1>3, <1>4, <2>1, <2>2, MoveOn DEF NextPacket
  <2>4. CASE dp.mode0 # "syndata"
    <3>1. SendOrig(FALSE) /\ i' = i
      BY <1>4, <2>4, Zenon DEF PartsWritten
    <3>2. stage' \in {"orig", "main"} /\ DueIds' = {}
      BY <3>1, <1>1, <1>2, SendOrigIds, Zenon
    <3> QED BY <3>1, <3>2, <1>1, <1>2, <2>1, <2>2, LeavesWhole
  <2> QED BY <2>3, <2>4
<1>5. CASE i # 0 /\ SecondStage # <<>>
  <2>1. NextPacket /\ ctid' = IF Replay /\ ~ FinalHeader THEN NextId ELSE ctid
    BY <1>5, Zenon DEF PartsWritten
  <2>2. /\ ~ FinalHeader /\ LastMode(dp) = StageMode /\ CountsIds
    BY <1>2, GoodFacts
  <2>3. PosFits /\ i \in Packets
    BY <1>1, <1>2, <1>3, <1>5 DEF PosOK
  <2>4. Taken /\ Ahead = NextId /\ Used = Share * i
    BY <1>1, <1>5 DEF Taken, Ahead, Used
  <2>5. i < Len(req.lens) => Ahead = ctid'
    <3>1. i < Len(req.lens) => Replay
      BY <1>3, <1>5 DEF Replay
    <3> QED BY <3>1, <2>1, <2>2, <2>4
  <2>6. NextId \in 0..IdMod - 1
    BY <1>3, <2>3, NextIdType
  <2>7. ctid' \in Int /\ ctid' \in {NextId, ctid}
    BY <1>3, <2>1, <2>6
  <2>8. Used <= Share * i
    BY <1>3, <2>4, ShareFacts
  <2>9. Room(NextId, m - i)
    <3> SUFFICES ASSUME StageMode = "multidisorder" PROVE NextId + Share * (m - i) < IdMod
      BY <2>2 DEF Room
    <3>1. PICK n \in 1..Share : NextId = After(StageId, n) /\ StageId \in Ids /\ StageId + n < IdMod
      BY <1>1, <1>2, <1>5, <2>3, StageIds DEF IdsOK
    <3> DEFINE k == m - i
               x == Share * k
               y == Share * (k + 1)
    <3>2. NextId = StageId + n /\ n <= Share /\ n \in Nat /\ Share \in Nat
      <4>1. Share \in Nat
        BY <1>3, ShareFacts
      <4> QED BY <3>1, <4>1 DEF After
    <3>3. StageId + y < IdMod
      <4>1. Room(ctid, k + 1) /\ Room(ip_id, k + 1)
        BY <1>1, <2>3 DEF IdsOK, RoomOK
      <4>2. StageId = ip_id \/ (StageId = ctid /\ ctid # 0)
        BY DEF StageId
      <4>3. StageId # 0
        BY <3>1 DEF Ids
      <4> HIDE DEF k, m
      <4>4. Room(StageId, k + 1)
        BY <4>1, <4>2
      <4> QED BY <4>3, <4>4, <2>2 DEF Room
    <3>4. x \in Int /\ y = x + Share
      <4>1. k \in Int
        BY <1>3
      <4> HIDE DEF k
      <4> QED BY <4>1, <1>3, ShareFacts
    <3> HIDE DEF x, y
    <3>5. NextId + x < IdMod
      BY <3>1, <3>2, <3>3, <3>4, IdModFacts DEF Ids
    <3> QED BY <3>5 DEF x
  <2>10. Room(ctid', m - i)
    <3>1. Room(ctid, m - i)
      BY <2>3 DEF IdsOK, RoomOK
    <3> HIDE DEF m
    <3> QED BY <2>7, <2>9, <3>1
  <2> QED BY <1>1, <1>2, <1>5, <2>1, <2>5, <2>7, <2>8, <2>10, MoveOn DEF NextPacket
<1>6. CASE i # 0 /\ SecondStage = <<>> /\ Unsplit
  <2>1. stage' = "main" /\ todo' = <<[Whole EXCEPT !.id = ctid]>> /\ i' = i /\ ctid' = IP4_IP_ID_ADD(ctid, 1)
    BY <1>6, Zenon DEF PartsWritten
  <2>2. ctid # 0
    BY <1>6 DEF Unsplit
  <2> QED BY <1>1, <1>3, <1>6, <2>1, <2>2, UnsplitIds
<1>7. CASE i # 0 /\ SecondStage = <<>> /\ ~ Unsplit
  <2>1. SendOrig(FirstStage # <<>>) /\ i' = i /\ ctid' = ctid
    BY <1>7, Zenon DEF PartsWritten
  <2>2. stage' \in {"orig", "main"} /\ DueIds' = {}
    BY <2>1, <1>1, <1>2, SendOrigIds, Zenon
  <2>3. ~ Taken
    BY <1>7 DEF Taken
  <2>4. Trails(WireIds, ctid, Share * i)
    BY <1>2, <2>3, TrailsRemembered
  <2> QED BY <1>1, <1>2, <2>1, <2>2, <2>4, LeavesWhole
<1> QED BY <1>4, <1>5, <1>6, <1>7

(* While the second stage took no ids, the entry's id is where the next packet begins. *)
LEMMA NextFromHere ==
  ASSUME IInv, Good, IdsOK, stage # "new", ~ Taken, i' = i + 1, stage' = "new", todo' = <<>>,
         wire' = wire, dp' = dp, req' = req, ctid' = ctid
  PROVE  IdsOK'
<1>1. DataOK /\ ctid' \in Int /\ (i # 0 => i \in Packets)
  BY DataFacts DEF IInv
<1>2. i # 0 => Room(ctid', Len(req.lens) - i)
  BY <1>1 DEF IdsOK, RoomOK
<1>3. Ahead = ctid' /\ Used <= Share * i
  BY <1>1, TrailsRemembered DEF Ahead
<1> QED BY <1>1, <1>2, <1>3, MoveOn

(* The packet left, and the next one is due. *)
LEMMA OriginalWrittenIds ==
  ASSUME IInv, IdsOK, Good, Good', OriginalWritten
  PROVE  IdsOK'
<1>1. /\ stage \in {"orig", "main"} /\ i' = i + 1 /\ stage' = "new" /\ todo' = <<>> /\ wire' = wire
      /\ dp' = dp /\ req' = req /\ ctid' = ctid
  BY DEF OriginalWritten, NextPacket
<1>2. ~ Taken
  BY <1>1 DEF Taken
<1> QED BY <1>1, <1>2, NextFromHere

(* A refused part leaves no id of its stage behind, so the packet goes whole. *)
LEMMA WriteFailsIds ==
  ASSUME IInv, IdsOK, Good, Good', WriteFails
  PROVE  IdsOK'
<1>1. /\ todo # <<>> /\ wire' = wire /\ dp' = dp /\ req' = req /\ ctid' = ctid
      /\ Abandon \/ CallerSends \/ GiveUp
  BY DEF WriteFails
<1>2. DataOK /\ todo \in Seq(Proper) /\ stage # "new"
  BY <1>1 DEF IInv, TodoOK, DataOK
<1>3. Refusable(todo[1]) /\ 1 \in DOMAIN todo
  <2>1. fails \in Nat /\ fails' = 0
    BY <1>2, DataFacts DEF Good
  <2>2. TooLong(Head(todo)) \/ NoFragment(Head(todo))
    BY <2>1 DEF WriteFails
  <2>3. Head(todo) = todo[1] /\ 1 \in DOMAIN todo
    BY <1>1, <1>2
  <2> QED BY <2>2, <2>3 DEF Refusable, NoFragment
<1>4. Trails(WireIds, ctid, Share * i)
  <2>1. CASE ~ Taken
    BY <1>2, <2>1, TrailsRemembered
  <2>2. CASE Taken
    <3> DEFINE T == WireIds
               h == i - 1
               x == Share * h
               v == Share * i
    <3>1. Trails(T, ctid, x)
      BY <1>3, <2>2 DEF IdsOK, RefusedOK, Taken
    <3>2. x \in Int /\ v \in Int /\ x <= v
      <4>1. dp \in Profile /\ i \in Int /\ h \in Int /\ h <= i
        BY <1>2, DataFacts
      <4> HIDE DEF h
      <4> QED BY <4>1, ShareFacts
    <3> HIDE DEF T, x, v
    <3>3. T \subseteq T
      OBVIOUS
    <3>4. Trails(T, ctid, v)
      BY <3>1, <3>2, <3>3, TrailsFewer
    <3> QED BY <3>4 DEF T, v
  <2> QED BY <2>1, <2>2
<1>5. CASE Abandon
  <2>1. PICK bFake : SendOrig(bFake) /\ i' = i
    BY <1>5, Zenon DEF Abandon
  <2>2. stage' \in {"orig", "main"} /\ DueIds' = {}
    BY <1>1, <1>2, <2>1, SendOrigIds
  <2> QED BY <1>1, <1>2, <1>4, <2>1, <2>2, LeavesWhole
<1>6. CASE CallerSends
  <2> DEFINE w == Whole
  <2>1. stage' = "main" /\ todo' = <<w>> /\ i' = i
    BY <1>6, Zenon DEF CallerSends
  <2> HIDE DEF w
  <2>2. \A k \in DOMAIN todo' : todo'[k] = w
    BY <2>1
  <2>3. DueIds' = {}
    BY <1>1, <1>2, <2>1, <2>2, WholeDue DEF w
  <2> QED BY <1>1, <1>2, <1>4, <2>1, <2>3, LeavesWhole
<1>7. CASE GiveUp
  <2>1. stage = "main" /\ todo' = <<>>
    BY <1>7 DEF GiveUp
  <2>2. (i' = i + 1 /\ stage' = "new") \/ (i' = i /\ stage' = "exit")
    BY <1>7 DEF GiveUp
  <2>3. ~ Taken
    BY <2>1 DEF Taken
  <2>4. CASE i' = i + 1 /\ stage' = "new"
    BY <1>1, <1>2, <2>1, <2>3, <2>4, NextFromHere
  <2>5. CASE i' = i /\ stage' = "exit"
    <3>1. DueIds' = {}
      BY <2>1, NoIdDue
    <3> QED BY <1>1, <1>2, <1>4, <2>5, <3>1, LeavesWhole
  <2> QED BY <2>2, <2>4, <2>5
<1> QED BY <1>1, <1>5, <1>6, <1>7

(* The server takes no part in it. *)
LEMMA SameIds ==
  ASSUME IdsOK, UNCHANGED <<dp, req, engine>>
  PROVE  IdsOK'
<1>1. /\ dp' = dp /\ req' = req /\ i' = i /\ ctid' = ctid /\ stage' = stage /\ pos' = pos
      /\ todo' = todo /\ ip_id' = ip_id /\ wire' = wire
  BY DEF engine
<1>2. SecondStage' = SecondStage /\ NextId' = NextId
  BY <1>1, SameStage
<1>3. Share' = Share /\ Packets' = Packets
  BY <1>1 DEF Share, Packets
<1>4. Taken' = Taken
  BY <1>1, <1>2, Zenon DEF Taken
<1>5. Ahead' = Ahead /\ Used' = Used
  BY <1>1, <1>2, <1>3, <1>4 DEF Ahead, Used
<1>6. WireIds' = WireIds
  BY <1>1, WireIdsStay
<1>7. DueIds' = DueIds
  BY <1>1, Zenon DEF DueIds, IdCounts, Base, Offset, Plain
<1>8. AllIds' = AllIds
  BY <1>6, <1>7, Zenon DEF AllIds
<1>9. ApartOK'
  BY <1>8 DEF IdsOK, ApartOK
<1>10. TrailOK'
  BY <1>1, <1>5, <1>8 DEF IdsOK, TrailOK
<1>11. RefusedOK'
  <2>1. \A k : IdCounts(todo[k])' <=> IdCounts(todo[k])
    BY <1>1 DEF IdCounts, Plain
  <2>2. \A k : Refusable(todo[k])' <=> Refusable(todo[k])
    BY <1>1 DEF Refusable, TooLong
  <2> QED BY <1>1, <1>3, <1>6, <2>1, <2>2 DEF IdsOK, RefusedOK
<1>12. StageOK' /\ NoneOK'
  BY <1>1, <1>7 DEF IdsOK, StageOK, NoneOK
<1>13. RoomOK'
  BY <1>1, <1>3 DEF IdsOK, RoomOK, Room
<1> QED BY <1>9, <1>10, <1>11, <1>12, <1>13 DEF IdsOK

(* As long as the promise is made, the ids are in order. *)
IdInv == Good => IdsOK

(* At first no id is in use. *)
LEMMA InitIds == Init => IdInv
<1> SUFFICES ASSUME Init PROVE IdsOK
  BY DEF IdInv
<1>1. wire = <<>> /\ todo = <<>> /\ i = 0 /\ stage = "new" /\ ctid = req.ctid /\ req \in Request
  BY DEF Init
<1>2. AllIds = {}
  <2>1. WireIds = {}
    BY <1>1 DEF WireIds
  <2>2. DueIds = {}
    BY <1>1, NoIdDue
  <2> QED BY <2>1, <2>2 DEF AllIds
<1>3. ApartOK /\ TrailOK
  BY <1>2 DEF ApartOK, TrailOK, Apart, Trails
<1>4. RefusedOK /\ StageOK /\ NoneOK
  BY <1>1 DEF RefusedOK, StageOK, NoneOK
<1>5. i \notin Packets
  BY <1>1, RequestFacts DEF Packets
<1>6. RoomOK
  BY <1>1, <1>5 DEF RoomOK
<1> QED BY <1>3, <1>4, <1>6 DEF IdsOK

(* Every step keeps them in order. *)
LEMMA NextIds ==
  ASSUME IInv, IdInv, [Next]_vars
  PROVE  IdInv'
<1> SUFFICES ASSUME Good' PROVE IdsOK'
  BY DEF IdInv
<1>1. CASE Resolve
  <2>1. dp' = dp /\ req' = req /\ fails' = fails
    BY <1>1 DEF Resolve
  <2>2. Good /\ IdsOK
    BY <2>1, GoodBefore DEF IInv, IdInv
  <2> QED BY <1>1, <2>2, ResolveSynIds, ResolvePacketIds
<1>2. CASE FakesWritten
  <2>1. dp' = dp /\ req' = req /\ fails' = fails
    BY <1>2 DEF FakesWritten
  <2>2. Good /\ IdsOK
    BY <2>1, GoodBefore DEF IInv, IdInv
  <2> QED BY <1>2, <2>2, FakesWrittenIds
<1>3. CASE Write
  <2>1. dp' = dp /\ req' = req /\ fails' = fails
    BY <1>3 DEF Write
  <2>2. Good /\ IdsOK
    BY <2>1, GoodBefore DEF IInv, IdInv
  <2> QED BY <1>3, <2>2, WriteIds
<1>4. CASE PartsWritten
  <2>1. dp' = dp /\ req' = req /\ fails' = fails
    BY <1>4 DEF PartsWritten
  <2>2. Good /\ IdsOK
    BY <2>1, GoodBefore DEF IInv, IdInv
  <2> QED BY <1>4, <2>2, PartsWrittenIds
<1>5. CASE OriginalWritten
  <2>1. dp' = dp /\ req' = req /\ fails' = fails
    BY <1>5 DEF OriginalWritten
  <2>2. Good /\ IdsOK
    BY <2>1, GoodBefore DEF IInv, IdInv
  <2> QED BY <1>5, <2>2, OriginalWrittenIds
<1>6. CASE WriteFails
  <2>1. dp' = dp /\ req' = req /\ (fails' = fails \/ fails' = fails + 1)
    BY <1>6 DEF WriteFails
  <2>2. Good /\ IdsOK
    BY <2>1, GoodBefore DEF IInv, IdInv
  <2> QED BY <1>6, <2>2, WriteFailsIds
<1>7. CASE UNCHANGED <<dp, req, engine>>
  <2>1. dp' = dp /\ req' = req /\ fails' = fails
    BY <1>7 DEF engine
  <2>2. Good /\ IdsOK
    BY <2>1, GoodBefore DEF IInv, IdInv
  <2> QED BY <1>7, <2>2, SameIds
<1>8. CASE \E k \in DOMAIN wire : Deliver(k)
  BY <1>7, <1>8 DEF Deliver
<1>9. CASE UNCHANGED vars
  BY <1>7, <1>9 DEF vars
<1> QED BY <1>1, <1>2, <1>3, <1>4, <1>5, <1>6, <1>8, <1>9 DEF Next, Engine

(* Ids that are apart differ. *)
LEMMA IdsFollow == IdInv => (IdsFit(dp, req) => IdsDiffer)
<1> SUFFICES ASSUME IdInv, IdsFit(dp, req), dp.ipid \in {"seq", "seqgroup"}, ~ req.ip6, fails = 0,
                    NEW j \in DOMAIN wire, NEW k \in DOMAIN wire,
                    wire[j].real, wire[k].real, ~ wire[j].syn, ~ wire[k].syn, wire[j].frag = 0,
                    wire[k].frag = 0, wire[j].part, wire[k].part, wire[j].id = wire[k].id
             PROVE  wire[j].from = wire[k].from
  BY DEF IdsDiffer
<1>1. Apart(AllIds)
  BY DEF Good, CountsIds, IdInv, IdsOK, ApartOK
<1> DEFINE a == <<wire[j].from, wire[j].id>>
           b == <<wire[k].from, wire[k].id>>
<1>2. a \in AllIds /\ b \in AllIds
  BY DEF AllIds, WireIds, IdLeft, Plain
<1>3. a[2] = b[2]
  OBVIOUS
<1>4. a[1] = b[1]
  BY <1>1, <1>2, <1>3 DEF Apart
<1> QED BY <1>4

(* Two segments that carry different bytes never share an IP id, for every     *)
(* profile, request and number of packets that leave the ids room: the ids of  *)
(* desync.c's parts follow one another across the packets of a replay,         *)
(* although disorder counts down and a refused part sends the packet whole.    *)
THEOREM IdsAreDistinct == Spec => [](IdsFit(dp, req) => IdsDiffer)
<1>1. Init => IInv /\ IdInv
  BY InitKeeps, InitIds
<1>2. IInv /\ IdInv /\ [Next]_vars => IInv' /\ IdInv'
  BY NextKeeps, NextIds
<1>3. IInv /\ IdInv => (IdsFit(dp, req) => IdsDiffer)
  BY IdsFollow
<1> QED BY <1>1, <1>2, <1>3, PTL DEF Spec
=============================================================================
